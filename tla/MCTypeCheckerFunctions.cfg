CONSTANTS
  Programs <- FunctionalPrograms
  Names <- MCNames
  CompatError <- CheckCompatible
  SubtypeError <- IsSubtypeOrError
  Emitted <- Emits
  TypeError <- VisitType
  Substitute <- SubstituteType
  FreshVars <- NoFreshVars
  Universe <- MCUniverse
SPECIFICATION FairSpec
INVARIANTS
  TypeOK
  NamesMirrorFrames
  ExpectationsMet
  AcceptedTyped
  RejectedUntyped
PROPERTIES
  DeducedIsFinal
  Decided
