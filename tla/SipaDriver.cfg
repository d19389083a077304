SPECIFICATION FairSpec
CONSTANTS
  UL = UL
  USB = USB
  IPA = IPA
  CP = CP
  Cons <- MCCons
  Prods <- MCProds
  Deps <- MCDeps
  Optional <- MCOptional
  AddWhile <- NotReleasing
  Faults = {"FAIL", "LOST"}
  MaxFaults = 1
  MaxRef = 2
  MaxQueued = 1
  MaxChanges = 2
  FifoLen = 16
INVARIANTS TypeOK RefsMatch GrantedIsPowered NoPowerLeaked WaitsForSomeone ListenersKnow
PROPERTY Settles
