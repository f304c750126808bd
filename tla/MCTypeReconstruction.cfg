CONSTANTS
  Programs <- AutoPrograms
  Names <- MCNames
  CompatError <- CheckCompatible
  SubtypeError <- IsSubtypeOrError
  Emitted <- Emits
  TypeError <- VisitType
  Substitute <- SubstituteType
  FreshVars <- MCFresh
  Universe <- AutoUniverse
  TypeAuto <- MCTypeAuto
  Ctor <- MCCtor
  NoType <- None_
  AutosOf <- AutosIn
  PartsOf <- SubTerms
  IsType <- IsTerm
  Subtyping = FALSE
SPECIFICATION Reconstruct
INVARIANTS
  VerdictExact
  ReferencesAlive
  VariablesOutliveConstraints
  AcceptedUnified
PROPERTIES
  VisitorsFeedUnifier
