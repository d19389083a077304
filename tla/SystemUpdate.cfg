SPECIFICATION Spec
CONSTANTS
    s1 = s1
    s2 = s2
    None = None
    Systems <- TwoSystems
    Faults <- AllFaults
    Whole <- Both
SYMMETRY Symmetry
INVARIANTS SystemStays RunningStays KeptIsCopy
