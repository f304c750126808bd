CONSTANTS
  Programs <- GoldenPrograms
  Names <- MCNames
  CompatError <- CheckCompatible
  SubtypeError <- IsSubtypeOrError
  Emitted <- Emits
  TypeError <- VisitType
  Substitute <- SubstituteType
  FreshVars <- MCFresh
  Universe <- AutoUniverse
  TypeAuto <- MCTypeAuto
  Ctor <- MCCtor
  NoType <- None_
  AutosOf <- AutosIn
  PartsOf <- SubTerms
  IsType <- IsTerm
  Subtyping = FALSE
  Files <- GoldenFiles
  SourceTrees <- GoldenTrees
  AutoNames <- Names_
  IntMax = 3
SPECIFICATION FairRun
INVARIANTS
  GoldenOutput
PROPERTIES
  RegistryHandedOver
  AlwaysReports
