CONSTANTS
  TypeAuto <- MCAuto
  Ctor <- MCCtor
  NoType <- None_
  AutosOf <- AutosIn
  CmpOk <- MCCmpOk
  CmpEmits <- Emits
  Inputs <- DivergeProgram
  Program <- DivergeProgram
  MaxConstraints = 3
SPECIFICATION FairSpec
PROPERTY UnifyAllEnds
