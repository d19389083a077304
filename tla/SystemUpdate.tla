----------------------------- MODULE SystemUpdate -----------------------------
(***************************************************************************)
(* mu300-update apply, rollback and clean: the directories <os>, <os>.new, *)
(* <os>.old and <os>.broken of every installed system, the one the device  *)
(* runs from, and the one updater that holds the lock.  A signal may end   *)
(* the updater and a power cut the boot between any two steps.             *)
(***************************************************************************)
CONSTANTS
    Systems,     \* the installed systems
    None,        \* no such directory; no system runs
    Faults,      \* the steps that may fail: "unpack", "aside", "place"
    Whole        \* where neither a signal nor a power cut comes: "switch", between
                 \* the two renames, and "remove", within the removal of <os>.old

ASSUME FaultsAssumption == Faults \subseteq {"unpack", "aside", "place"}
ASSUME WholeAssumption == Whole \subseteq {"switch", "remove"}

Names == {"os", "new", "old", "broken"}

\* A system's tree is a record: whether it is incomplete ("part"), in the page
\* cache or on the disk ("solid") (st); which of its files the system that replaced
\* it has by second names (shares): "programs", the programs, libraries and vendor
\* files that did not change, and "files", the user's; whether another system was
\* moved into it (in).  Its release is left out: it only decides what todo is.
Parts == {"programs", "files"}
Trees == [st : {"part", "cached", "solid"}, shares : SUBSET Parts, in : BOOLEAN]
Tree(st) == [st |-> st, shares |-> {}, in |-> FALSE]

ASSUME NoneAssumption == None \notin Systems \cup (Systems \X Names) \cup Trees

VARIABLES
    dir,    \* the directories of every system
    root,   \* the system and the name of the directory that is /
    proc    \* the updater
vars == <<dir, root, proc>>

Idle == [pc |-> "idle", link |-> FALSE, todo |-> {}, ready |-> {},
         os |-> None, shares |-> {}, rm |-> {}]

Init ==
    /\ dir = [s \in Systems |-> [n \in Names |-> IF n = "os" THEN Tree("solid") ELSE None]]
    /\ \E s \in Systems : root = <<s, "os">>
    /\ proc = Idle

-----------------------------------------------------------------------------
is_root(s, n) == root = <<s, n>>

\* A directory that is there and does not run.
MutUnused(s, n) == dir[s][n] # None
Unused(s, n) == dir[s][n] # None /\ ~is_root(s, n)
Leftover(names) == {x \in Systems \X names : Unused(x[1], x[2])}

\* mv within the Linux partition; / is the same directory under its new name.
Move(s, from, to) ==
    /\ dir' = [dir EXCEPT ![s][to] = dir[s][from], ![s][from] = None]
    /\ root' = IF is_root(s, from) THEN <<s, to>> ELSE root

Synced(d) == [s \in Systems |-> [n \in Names |->
    IF d[s][n] # None /\ d[s][n].st = "cached" THEN [d[s][n] EXCEPT !.st = "solid"]
    ELSE d[s][n]]]

\* unpack_abort, by the EXIT trap: what an apply was making is removed.
Making == proc.ready \cup (IF proc.pc \in {"unpack", "sync", "aside", "place"}
                           THEN {proc.os} ELSE {})
Abort == /\ dir' = [s \in Systems |-> IF s \in Making THEN [dir[s] EXCEPT !["new"] = None]
                                      ELSE dir[s]]
         /\ proc' = Idle
         /\ UNCHANGED root

\* rm -rf, one after the other: a directory is in parts before it is gone.
InParts(x) == dir[x[1]][x[2]].st = "part"
Remove ==
    \E x \in proc.rm :
        LET s == x[1] n == x[2] IN
        /\ InParts(x) \/ \A y \in proc.rm : ~InParts(y)
        /\ IF ~InParts(x)
           THEN dir' = [dir EXCEPT ![s][n].st = "part"] /\ UNCHANGED proc
           ELSE /\ dir' = [dir EXCEPT ![s][n] = None]
                /\ proc' = [proc EXCEPT !.rm = @ \ {x}]
        /\ UNCHANGED root

\* The updater is at pc and has nothing left to remove.
At(pc) == proc.pc = pc /\ proc.rm = {}

-----------------------------------------------------------------------------
(* apply [--no-rollback].                                                   *)

\* The checks, and clean_broken and delta_clean once nothing stops the run.  A
\* system that has the release already is left out.
Apply ==
    /\ At("idle") /\ root # None
    /\ \E link \in BOOLEAN, list \in SUBSET Systems \ {{}}, todo \in SUBSET Systems :
         /\ todo \subseteq list
         /\ \A s \in list : dir[s]["os"] # None
         /\ \A s \in todo : ~is_root(s, "old")
         /\ proc' = [Idle EXCEPT !.pc = "fetch", !.link = link, !.todo = todo,
                                 !.rm = Leftover({"broken", "new"})]
    /\ UNCHANGED <<dir, root>>

\* diffs_unpack: a system that comes as a diff is made before any is replaced.
Diff ==
    /\ At("fetch")
    /\ \E s \in proc.todo \ proc.ready :
         /\ dir' = [dir EXCEPT ![s]["new"] = Tree("part")]
         /\ proc' = [proc EXCEPT !.ready = @ \cup {s}]
    /\ UNCHANGED root

Fetched == /\ At("fetch") /\ proc' = [proc EXCEPT !.pc = "next"]
           /\ UNCHANGED <<dir, root>>

\* No room, no network, a release that is refused.
FetchFails == At("fetch") /\ "unpack" \in Faults /\ Abort

ApplyOne ==
    /\ At("next")
    /\ \E s \in proc.todo :
         /\ dir' = [dir EXCEPT ![s]["new"] = Tree("part")]
         /\ proc' = [proc EXCEPT !.pc = "unpack", !.os = s]
    /\ UNCHANGED root

\* The image, the user's files and the vendor files are in <os>.new.  What the old
\* system has byte for byte may be second names of its files in every mode (the
\* delta or diff block); the user's files are copied, or second names as well
\* (--no-rollback, if the image can).
Unpacked ==
    /\ At("unpack")
    /\ dir' = [dir EXCEPT ![proc.os]["new"].st = "cached"]
    /\ \E shares \in SUBSET Parts :
         /\ "files" \in shares => proc.link
         /\ proc' = [proc EXCEPT !.pc = "sync", !.shares = shares]
    /\ UNCHANGED root

UnpackFails == At("unpack") /\ "unpack" \in Faults /\ Abort

\* A system whose user's files the new one has by link is no copy to go back to.
MutAside == "old"
Aside == IF "files" \in proc.shares THEN "broken" ELSE "old"

\* sync, and what is in the way of the old system is removed.  (That <os>.old
\* does not run was seen by Apply, and no run but this one moves it.)
MutSwitch ==
    /\ At("sync") /\ ~is_root(proc.os, Aside)
    /\ UNCHANGED dir
    /\ proc' = [proc EXCEPT !.pc = "aside",
                            !.rm = Leftover({"old", Aside}) \cap ({proc.os} \X Names)]
    /\ UNCHANGED root
Switch ==
    /\ At("sync") /\ ~is_root(proc.os, Aside)
    /\ dir' = Synced(dir)
    /\ proc' = [proc EXCEPT !.pc = "aside",
                            !.rm = Leftover({"old", Aside}) \cap ({proc.os} \X Names)]
    /\ UNCHANGED root

\* "is still running the old copy: reboot first"
SwitchRefused == At("sync") /\ is_root(proc.os, Aside) /\ Abort

MoveAside ==
    /\ At("aside")
    /\ Move(proc.os, "os", Aside)
    /\ proc' = [proc EXCEPT !.pc = "place"]

MoveAsideFails == At("aside") /\ "aside" \in Faults /\ Abort

PlaceNew ==
    /\ At("place")
    /\ LET s == proc.os IN
       dir' = [dir EXCEPT ![s]["os"] = dir[s]["new"], ![s]["new"] = None,
                          ![s][Aside].shares = proc.shares]
    /\ proc' = [proc EXCEPT !.pc = "placed"]
    /\ UNCHANGED root

\* The sync after the renames; the next system, if any.
Placed ==
    /\ At("placed")
    /\ dir' = Synced(dir)
    /\ proc' = [proc EXCEPT !.pc = "next", !.todo = @ \ {proc.os}, !.ready = @ \ {proc.os},
                            !.shares = {}]
    /\ UNCHANGED root

\* "could not put the new system in place (old one restored)", and the trap.
PlaceFails ==
    /\ At("place") /\ "place" \in Faults
    /\ LET s == proc.os
           back == [dir EXCEPT ![s]["os"] = dir[s][Aside], ![s][Aside] = None] IN
       dir' = [t \in Systems |-> IF t \in Making THEN [back[t] EXCEPT !["new"] = None]
                                 ELSE back[t]]
    /\ root' = IF is_root(proc.os, Aside) THEN <<proc.os, "os">> ELSE root
    /\ proc' = Idle

\* The kernel step that follows is KernelStep.
ApplyEnd == At("next") /\ proc.todo = {} /\ proc' = Idle /\ UNCHANGED <<dir, root>>

-----------------------------------------------------------------------------
(* rollback.                                                                *)
Rollback ==
    /\ At("idle") /\ root # None
    /\ \E list \in SUBSET Systems \ {{}} :
         proc' = [Idle EXCEPT !.pc = "rb", !.todo = {s \in list : Unused(s, "old")}]
    /\ UNCHANGED <<dir, root>>

RbNext ==
    /\ At("rb")
    /\ \E s \in proc.todo :
         proc' = [proc EXCEPT !.pc = "rbaside", !.os = s,
                              !.rm = Leftover({"broken"}) \cap ({s} \X Names)]
    /\ dir' = Synced(dir)
    /\ UNCHANGED root

\* A <os>.broken that runs is still there: the current system goes into it.
RbAside ==
    /\ At("rbaside") /\ dir[proc.os]["os"] # None
    /\ LET s == proc.os IN
       \/ dir[s]["broken"] = None /\ Move(s, "os", "broken")
       \/ /\ dir[s]["broken"] # None /\ ~dir[s]["broken"].in
          /\ dir' = [dir EXCEPT ![s]["os"] = None, ![s]["broken"].in = TRUE]
          /\ UNCHANGED root
    /\ proc' = [proc EXCEPT !.pc = "rbplace"]

\* The rename fails, also because a system was moved into <os>.broken before.
RbAsideFails ==
    /\ At("rbaside")
    /\ LET b == dir[proc.os]["broken"] IN
       "aside" \in Faults \/ dir[proc.os]["os"] = None \/ (b # None /\ b.in)
    /\ Abort

RbPlace ==
    /\ At("rbplace")
    /\ Move(proc.os, "old", "os")
    /\ proc' = [proc EXCEPT !.pc = "rbdone",
                            !.rm = Leftover({"broken"}) \cap ({proc.os} \X Names)]

RbPlaceFails ==
    /\ At("rbplace") /\ "place" \in Faults
    /\ Move(proc.os, "broken", "os")
    /\ proc' = Idle

RbDone ==
    /\ At("rbdone")
    /\ dir' = Synced(dir)
    /\ proc' = [proc EXCEPT !.pc = "rb", !.todo = @ \ {proc.os}]
    /\ UNCHANGED root

RbEnd == At("rb") /\ proc.todo = {} /\ proc' = Idle /\ UNCHANGED <<dir, root>>

-----------------------------------------------------------------------------
(* clean.                                                                   *)
Clean ==
    /\ At("idle") /\ root # None
    /\ proc' = [Idle EXCEPT !.pc = "clean", !.rm = Leftover({"old", "broken"})]
    /\ UNCHANGED <<dir, root>>

CleanEnd ==
    /\ At("clean")
    /\ dir' = Synced(dir) /\ proc' = Idle
    /\ UNCHANGED root

-----------------------------------------------------------------------------
(* What ends a run, and the boots.                                          *)
InWindow ==
    \/ "switch" \in Whole /\ proc.pc \in {"place", "rbplace"}
    \/ "remove" \in Whole /\ \E x \in proc.rm : x[2] = "old" /\ InParts(x)

Kill == proc.pc # "idle" /\ ~InWindow /\ Abort

\* What was only in the page cache is not complete afterwards.  (A cut that also
\* loses the last renames leaves what a cut before them leaves.)
PowerCut ==
    /\ root # None /\ ~InWindow
    /\ dir' = [s \in Systems |-> [n \in Names |->
                 IF dir[s][n] # None /\ dir[s][n].st = "cached"
                 THEN [dir[s][n] EXCEPT !.st = "part"] ELSE dir[s][n]]]
    /\ root' = None /\ proc' = Idle

\* pick_root: the chosen system or another one, never a kept copy.  (What is left
\* of a system in parts may still have its init.)
Boot ==
    /\ root = None
    /\ \E s \in Systems : dir[s]["os"] # None /\ root' = <<s, "os">>
    /\ UNCHANGED <<dir, proc>>

Next ==
    \/ Apply \/ Diff \/ Fetched \/ FetchFails \/ ApplyOne \/ Unpacked \/ UnpackFails
    \/ Switch \/ SwitchRefused \/ MoveAside \/ MoveAsideFails \/ PlaceNew \/ PlaceFails
    \/ Placed \/ ApplyEnd \/ Rollback \/ RbNext \/ RbAside \/ RbAsideFails \/ RbPlace
    \/ RbPlaceFails \/ RbDone \/ RbEnd \/ Clean \/ CleanEnd \/ Remove \/ Kill \/ PowerCut \/ Boot

Spec == Init /\ [][Next]_vars

-----------------------------------------------------------------------------
IsWhole(t) == t # None /\ t.st = "solid"

(* Every system can be started at every moment: it is in its place,         *)
(* complete and on the disk, or the run that replaces it is between its two *)
(* renames and has it aside (README.md of the repository, "an interrupted   *)
(* download cannot leave a half-updated system"; mu300-update:2213-2229).   *)
SystemStays ==
    \A s \in Systems :
        \/ IsWhole(dir[s]["os"])
        \/ proc.pc = "place" /\ proc.os = s /\ IsWhole(dir[s][Aside])
        \/ proc.pc = "rbplace" /\ proc.os = s /\ IsWhole(dir[s]["broken"])

(* The system the device runs from is never removed, whatever its directory *)
(* is called by then (is_root, mu300-update:419, 4018, 4033, 4038, 4049).   *)
RunningStays == root # None => IsWhole(dir[root[1]][root[2]])

(* What rollback offers is complete and on the disk, and the system that    *)
(* replaced it has none of the user's files by second names: what it writes *)
(* into them stays its own (mu300-update:2216-2225, wiki/Updating.md:181).  *)
(* The programs that did not change are shared in every mode, and are       *)
(* replaced, never written into (wiki/Updating.md:183, 197).                *)
KeptIsCopy ==
    \A s \in Systems :
        LET t == dir[s]["old"] IN
        t # None /\ dir[s]["os"] # None /\ <<s, "old">> \notin proc.rm
            => IsWhole(t) /\ "files" \notin t.shares
=============================================================================
