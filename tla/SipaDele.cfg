SPECIFICATION FairDeleSpec
CONSTANTS
  UL = UL
  DL = DL
  IPA = IPA
  CP = CP
  Cons <- MCCons
  Prods <- MCProds
  FifoLen = 16
  MaxRef = 1
  MaxQueued = 1
  MaxMishaps = 1
  UintMax = 9
  Settings <- MCSettings
INVARIANTS DeleTypeOK GrantedIsAwake EnableBalanced DoneIsGranted ModemAgrees NoLockCycle WorksOnce
PROPERTIES KeepsPromise Answered
CONSTRAINT NotRaced
