SPECIFICATION FairSpec
CONSTANTS
    ubuntu = ubuntu
    openwrt = openwrt
    p1 = p1
    p2 = p2
    NoProc = NoProc
    Systems <- TwoSystems
    Procs <- OneProc
    Commands <- DefaultCommands
    OsTargets <- TwoSystems
    MaxAttempts = 2
    DefaultAttempts = 2
    MaxBoots = 3
    Rebuilds <- OneSystem
    MiscFound <- Found
    RootFound <- Either
PROPERTIES BrokenFallsBack
