CONSTANTS
  Programs <- DivergePrograms
  Names <- MCNames
  CompatError <- CheckCompatible
  SubtypeError <- IsSubtypeOrError
  Emitted <- Emits
  TypeError <- VisitType
  Substitute <- SubstituteType
  FreshVars <- NoFreshVars
  Universe <- MCUniverse
SPECIFICATION Spec
INVARIANT VerdictNotCrash
