CONSTANTS
  Programs <- LiteralPrograms
  Names <- MCNames
  CompatError <- CheckCompatible
  SubtypeError <- IsSubtypeOrError
  Emitted <- Emits
  TypeError <- VisitType
  Substitute <- SubstituteType
  FreshVars <- MCFresh
  Universe <- AutoUniverse
  TypeAuto <- MCTypeAuto
  Ctor <- MCCtor
  NoType <- None_
  AutosOf <- AutosIn
  PartsOf <- SubTerms
  IsType <- IsTerm
  Subtyping = FALSE
SPECIFICATION Reconstruct
INVARIANTS
  AllResolved
