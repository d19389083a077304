----------------------------- MODULE MCBootControl -----------------------------
(* Small instances of BootControl for TLC. *)
EXTENDS BootControl, TLC

CONSTANTS ubuntu, openwrt, p1, p2

TwoSystems == {ubuntu, openwrt}
OneSystem == {ubuntu}
TwoProcs == {p1, p2}
OneProc == {p1}
NoTargets == {}
Found == {TRUE}
Either == {TRUE, FALSE}
AllCommands == UserCommands
DefaultCommands == {"linux", "android", "lock", "unlock"}
ProcSymmetry == Permutations(Procs)
SystemSymmetry == Permutations(Systems)
Symmetry == ProcSymmetry \cup SystemSymmetry
=============================================================================
