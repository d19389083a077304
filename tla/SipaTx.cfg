SPECIFICATION FairTxSpec
CONSTANTS
  UL = UL
  IPA = IPA
  Nics = {eth0}
  Cons <- MCCons
  Prods <- MCProds
  Deps <- MCDeps
  Optional = {}
  AddWhile = {}
  Faults = {}
  Depth = 2
  MapFails = TRUE
  MaxOpens = 1
  MaxFaults = 0
  MaxRef = 2
  MaxQueued = 3
  MaxChanges = 0
  FifoLen = 16
INVARIANTS TxTypeOK OneReference SendsPowered RingDrained
PROPERTY QueueWakes
