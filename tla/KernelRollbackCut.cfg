SPECIFICATION Spec
CONSTANTS
    Systems = {"ubuntu"}
    Builds = {"a", "b"}
    Release <- OneRelease
    Vendor = "5.4"
    None = "none"
    Part = "part"
    Torn = "torn"
    First = {"a"}
    Ops = {"boot", "rollback-boot"}
    Faults = {}
    Whole = {"abort", "keep"}
INVARIANTS SetsMatch
CHECK_DEADLOCK FALSE
