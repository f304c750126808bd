CONSTANTS
  TypeAuto <- MCAuto
  Ctor <- MCCtor
  NoType <- None_
  AutosOf <- AutosIn
  CmpOk <- MCCmpOk
  CmpEmits <- Emits
  Inputs <- CycleProgram
  Program <- CycleProgram
  MaxConstraints = 3
SPECIFICATION FairSpec
INVARIANT NoInfiniteType
