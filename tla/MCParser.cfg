CONSTANTS
  ParseTrees <- MCTrees
  AutoNames <- Objects
  IntMax = 3
  Inside <- ContextsIn
SPECIFICATION Spec
INVARIANTS
  BuildsProgram
  BuildsSupported
  AutosRegistered
  RegistryOwned
