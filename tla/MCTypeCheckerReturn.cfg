CONSTANTS
  Programs <- ReturnPrograms
  Names <- MCNames
  CompatError <- CheckCompatible
  SubtypeError <- IsSubtypeOrError
  Emitted <- Emits
  TypeError <- VisitType
  Substitute <- SubstituteType
  FreshVars <- NoFreshVars
  Universe <- SubUniverse
SPECIFICATION Spec
INVARIANT AcceptedTyped
