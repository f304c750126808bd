CONSTANTS
  Programs <- DataAndSubtyping
  Names <- MCNames
  CompatError <- CheckCompatible
  SubtypeError <- IsSubtypeOrError
  Emitted <- Emits
  TypeError <- VisitType
  Substitute <- SubstituteType
  FreshVars <- NoFreshVars
  Universe <- MCWideUniverse
SPECIFICATION Spec
INVARIANTS
  ExceptionsConsistent
  AcceptedTyped
  RejectedUntyped
  ExpectedIsSupertype
  ExpectationsMet
