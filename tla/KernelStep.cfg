SPECIFICATION Spec
CONSTANTS
    Systems = {ubuntu, openwrt}
    Builds = {"a", "b", "v"}
    Release <- WithVendor
    Vendor = "5.4"
    None = None
    Part = "part"
    Torn = "torn"
    First = {"a"}
    Ops = {"boot", "rollback-boot"}
    Faults = {"install", "write", "restore"}
    Whole = {"abort", "keep", "restore"}
SYMMETRY SystemSymmetry
CONSTRAINT NoneLost
INVARIANTS TypeOK SetsMatch Repairable KeptMatch TornIsKept
CHECK_DEADLOCK FALSE
