SPECIFICATION FairTxSpec
CONSTANTS
  UL = UL
  IPA = IPA
  Nics = {eth0, eth1}
  Cons <- MCCons
  Prods <- MCProds
  Deps <- MCDeps
  Optional = {}
  AddWhile = {}
  Faults = {}
  Depth = 2
  MapFails = FALSE
  MaxOpens = 0
  MaxFaults = 0
  MaxRef = 2
  MaxQueued = 2
  MaxChanges = 0
  FifoLen = 16
PROPERTY QueueWakes
