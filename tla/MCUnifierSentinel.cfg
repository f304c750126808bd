CONSTANTS
  TypeAuto <- MCAuto
  Ctor <- MCCtor
  NoType <- None_
  AutosOf <- AutosIn
  CmpOk <- MCCmpOk
  CmpEmits <- Emits
  Inputs <- SentinelProgram
  Program <- SentinelProgram
  MaxConstraints = 3
SPECIFICATION FairSpec
INVARIANT AllBoundConcrete
