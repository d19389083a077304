SPECIFICATION Spec
CONSTANTS
    v1 = v1
    v2 = v2
    Stock = Stock
    Odd = Odd
    None = None
    Offsets <- OneOffset
    DriverAt <- Late
    KeepGood <- Either
INVARIANT CrashedNotRunAgain
