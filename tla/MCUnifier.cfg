CONSTANTS
  TypeAuto <- MCAuto
  Ctor <- MCCtor
  NoType <- None_
  AutosOf <- AutosIn
  CmpOk <- MCCmpOk
  CmpEmits <- Emits
  Inputs <- MCInputs
  MaxConstraints = 3
  Sol <- MCSol
  Sat <- MCSat
  Value <- MCValue
  Instance <- MCInstance
  Size <- MCSize
  Shapes <- AllShapes
  Ground <- AllGround
SPECIFICATION FairSpec
INVARIANTS
  TypeOK
  ClassesPartition
  SolutionsPreserved
  ErrorsJustified
  AcceptedDetermined
PROPERTIES
  ImplementsReconstruction
  SolvableDecided
CONSTRAINT FlatOrSolvable
