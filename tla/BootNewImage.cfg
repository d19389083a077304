SPECIFICATION Spec
CONSTANTS
    ubuntu = ubuntu
    openwrt = openwrt
    p1 = p1
    p2 = p2
    NoProc = NoProc
    Systems <- OneSystem
    Procs <- OneProc
    Commands <- AllCommands
    OsTargets <- NoTargets
    MaxAttempts = 2
    DefaultAttempts = 2
    MaxBoots = 3
    Rebuilds <- OneSystem
    MiscFound <- Either
    RootFound <- Either
SYMMETRY Symmetry
INVARIANTS NewImageNotLocked
