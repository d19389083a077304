SPECIFICATION Spec
CONSTANTS
    v1 = v1
    v2 = v2
    Stock = Stock
    Odd = Odd
    None = None
    Offsets <- TwoOffsets
    DriverAt <- Late
    KeepGood <- Either
SYMMETRY Symmetry
INVARIANTS TypeOK SeenCrashNotRunAgain TrialOrEarned CrashIsSeen
