-------------------------- MODULE SystemUpdateProofs --------------------------
(***************************************************************************)
(* The safety of SystemUpdate for any number of systems and any set of     *)
(* steps that may fail.                                                    *)
(***************************************************************************)
EXTENDS SystemUpdate, TLAPS

USE NoneAssumption, FaultsAssumption, WholeAssumption

Pcs == {"idle", "fetch", "next", "unpack", "sync", "aside", "place", "placed",
        "rb", "rbaside", "rbplace", "rbdone", "clean"}
Dirs == [Systems -> [Names -> Trees \cup {None}]]
Proc == [pc : Pcs, link : BOOLEAN, todo : SUBSET Systems, ready : SUBSET Systems,
         os : Systems \cup {None}, shares : SUBSET Parts,
         rm : SUBSET (Systems \X Names)]

\* The pcs at which one system is worked on; it is then one of those to do.
OsPcs == {"unpack", "sync", "aside", "place", "placed", "rbaside", "rbplace", "rbdone"}

TypeOK ==
    /\ dir \in Dirs
    /\ root \in (Systems \X Names) \cup {None}
    /\ proc \in Proc
    /\ proc.pc \in OsPcs => proc.os \in proc.todo

\* What is being removed exists, does not run, and has one of the names the
\* code removes at that point.
RmNames(pc) ==
    IF pc = "fetch" THEN {"broken", "new"}
    ELSE IF pc \in {"aside", "clean"} THEN {"old", "broken"}
    ELSE IF pc \in {"rbaside", "rbdone"} THEN {"broken"} ELSE {}
RmInv == \A x \in proc.rm : x[2] \in RmNames(proc.pc) /\ dir[x[1]][x[2]] # None /\ root # x

\* apply: no system to be replaced runs as its <os>.old; <os>.new is on the disk
\* before <os> is moved; what is aside is complete until <os>.new is in place.
ApplyPcs == {"fetch", "next", "unpack", "sync", "aside", "place", "placed"}
ApplyInv ==
    LET d == dir[proc.os] IN
    /\ proc.pc \in ApplyPcs =>
         \A t \in proc.todo :
            /\ dir[t]["os"] # None \/ (proc.pc = "place" /\ t = proc.os)
            /\ is_root(t, "old") => proc.pc \in {"place", "placed"} /\ t = proc.os
    /\ proc.pc \in {"unpack", "sync"} => d["new"] # None
    /\ proc.pc = "sync" => d["new"].st = "cached"
    /\ proc.pc = "aside" =>
         /\ IsWhole(d["new"])
         /\ \A n \in {"old", Aside} : d[n] = None \/ <<proc.os, n>> \in proc.rm
    /\ proc.pc = "place" =>
         /\ IsWhole(d["new"]) /\ IsWhole(d[Aside]) /\ d["os"] = None
         /\ Aside = "broken" => d["old"] = None

\* rollback: a system to go back to has its copy; <os>.broken runs if it is in
\* the way, and is complete until <os>.old is in place.
RollbackInv ==
    LET d == dir[proc.os] IN
    /\ proc.pc \in {"rb", "rbaside", "rbplace", "rbdone"} =>
         \A t \in proc.todo : dir[t]["old"] # None \/ (proc.pc = "rbdone" /\ t = proc.os)
    /\ proc.pc = "rbaside" =>
         \/ d["broken"] = None \/ <<proc.os, "broken">> \in proc.rm
         \/ is_root(proc.os, "broken")
    /\ proc.pc = "rbplace" => IsWhole(d["broken"]) /\ "files" \notin d["old"].shares /\ d["os"] = None

\* The directories: a system in its place is on the disk; a kept copy is, or is
\* being removed, and shares no files with a system that is in its place.
KeptInv(s) ==
    dir[s]["old"] # None =>
        /\ \/ dir[s]["old"].st = "solid"
           \/ <<s, "old">> \in proc.rm /\ dir[s]["old"].st = "part"
        /\ dir[s]["os"] # None => "files" \notin dir[s]["old"].shares
DirInv ==
    /\ \A s \in Systems : /\ dir[s]["os"] # None => dir[s]["os"].st = "solid"
                          /\ KeptInv(s)
                          /\ ~is_root(s, "new")
    /\ root = None => proc.pc = "idle"
    /\ RunningStays

IInv == TypeOK /\ RmInv /\ ApplyInv /\ RollbackInv /\ DirInv

\* A system is out of its place only between the two renames of a run.
InPlace == \A s \in Systems : dir[s]["os"] = None =>
                                 proc.pc \in {"place", "rbplace"} /\ proc.os = s

\* The first rename of a run takes its system out of its place, the second puts
\* one there, and neither touches another system.
Leaves ==
    /\ proc'.pc \in {"place", "rbplace"} /\ proc'.os = proc.os
    /\ \A t \in Systems : t # proc.os => dir'[t]["os"] = dir[t]["os"]
Returns ==
    /\ dir'[proc.os]["os"] # None
    /\ \A t \in Systems : t # proc.os => dir'[t]["os"] = dir[t]["os"]

-----------------------------------------------------------------------------
(* Types.                                                                   *)
LEMMA NamesAre == Names = {"os", "new", "old", "broken"} /\ Aside \in Names
BY DEF Names, Aside

LEMMA TreeType == \A st \in {"part", "cached", "solid"} : Tree(st) \in Trees
BY DEF Tree, Trees

LEMMA IdleType == Idle \in Proc /\ Idle.pc = "idle" /\ Idle.rm = {}
BY DEF Idle, Proc, Pcs

\* What sync does to a directory.
LEMMA SyncedIs ==
    ASSUME dir \in Dirs
    PROVE  /\ Synced(dir) \in Dirs
           /\ \A s \in Systems, n \in Names :
                /\ (Synced(dir)[s][n] = None) = (dir[s][n] = None)
                /\ dir[s][n] # None =>
                     /\ Synced(dir)[s][n].shares = dir[s][n].shares
                     /\ Synced(dir)[s][n].st = IF dir[s][n].st = "cached" THEN "solid" ELSE dir[s][n].st
<1> DEFINE T(t) == IF t # None /\ t.st = "cached" THEN [t EXCEPT !.st = "solid"] ELSE t
<1>1. \A t \in Trees \cup {None} :
        /\ T(t) \in Trees \cup {None}
        /\ (T(t) = None) = (t = None)
        /\ t # None => T(t).shares = t.shares
                       /\ T(t).st = IF t.st = "cached" THEN "solid" ELSE t.st
  BY DEF Trees
<1>2. \A s \in Systems, n \in Names : dir[s][n] \in Trees \cup {None}
  BY DEF Dirs
<1>3. Synced(dir) = [s \in Systems |-> [n \in Names |-> T(dir[s][n])]]
  BY DEF Synced
<1>4. Synced(dir) \in Dirs
  BY <1>1, <1>2, <1>3 DEF Dirs
<1> HIDE DEF T
<1> QED
  BY <1>1, <1>2, <1>3, <1>4

\* One directory of one system gets a new content.
Put(d, s, n, v) == [d EXCEPT ![s][n] = v]

LEMMA PutIs ==
    ASSUME NEW d \in Dirs, NEW s \in Systems, NEW n \in Names, NEW v \in Trees \cup {None}
    PROVE  /\ Put(d, s, n, v) \in Dirs
           /\ \A t \in Systems, m \in Names :
                Put(d, s, n, v)[t][m] = IF t = s /\ m = n THEN v ELSE d[t][m]
BY DEF Put, Dirs

LEMMA DirType == ASSUME dir \in Dirs
                 PROVE  \A s \in Systems, n \in Names : dir[s][n] \in Trees \cup {None}
BY DEF Dirs

\* mv: what is at each name afterwards.
LEMMA RenamedIs ==
    ASSUME NEW d \in Dirs, NEW s \in Systems, NEW from \in Names, NEW to \in Names, from # to,
           NEW v \in Trees \cup {None}, NEW e, e = Put(Put(d, s, to, v), s, from, None)
    PROVE  /\ e \in Dirs
           /\ \A t \in Systems, n \in Names :
                e[t][n] = IF t = s /\ n = from THEN None
                          ELSE IF t = s /\ n = to THEN v ELSE d[t][n]
<1>1. PICK d1 \in Dirs : /\ d1 = Put(d, s, to, v)
                         /\ \A t \in Systems, m \in Names :
                              d1[t][m] = IF t = s /\ m = to THEN v ELSE d[t][m]
  BY PutIs
<1>2. PICK d2 \in Dirs : /\ d2 = Put(d1, s, from, None)
                         /\ \A t \in Systems, m \in Names :
                              d2[t][m] = IF t = s /\ m = from THEN None ELSE d1[t][m]
  BY PutIs
<1>3. e = d2
  BY <1>1, <1>2
<1> QED
  BY <1>1, <1>2, <1>3

LEMMA MoveIs ==
    ASSUME TypeOK, NEW s \in Systems, NEW from \in Names, NEW to \in Names, from # to,
           Move(s, from, to)
    PROVE  /\ dir' \in Dirs /\ root' \in (Systems \X Names) \cup {None}
           /\ \A t \in Systems, n \in Names :
                dir'[t][n] = IF t = s /\ n = from THEN None
                             ELSE IF t = s /\ n = to THEN dir[s][from] ELSE dir[t][n]
           /\ root' = IF root = <<s, from>> THEN <<s, to>> ELSE root
<1>0. PICK v \in Trees \cup {None} : v = dir[s][from] /\ dir \in Dirs
  BY DirType DEF TypeOK
<1>1. dir' = Put(Put(dir, s, to, v), s, from, None)
  BY <1>0 DEF Move, Put
<1>2. dir' \in Dirs
  BY <1>0, <1>1, RenamedIs
<1>3. \A t \in Systems, n \in Names :
        dir'[t][n] = IF t = s /\ n = from THEN None
                     ELSE IF t = s /\ n = to THEN dir[s][from] ELSE dir[t][n]
  <2>1. \A t \in Systems, n \in Names :
          dir'[t][n] = IF t = s /\ n = from THEN None
                       ELSE IF t = s /\ n = to THEN v ELSE dir[t][n]
    BY <1>0, <1>1, RenamedIs
  <2> QED
    BY <1>0, <2>1
<1>4. root' = IF root = <<s, from>> THEN <<s, to>> ELSE root
  BY DEF Move, is_root
<1>5. root' \in (Systems \X Names) \cup {None}
  BY <1>4 DEF TypeOK
<1> QED
  BY <1>2, <1>3, <1>4, <1>5

\* The EXIT trap touches nothing but <os>.new, and removes it if anything.
LEMMA AbortIs ==
    ASSUME TypeOK, Abort
    PROVE  /\ dir' \in Dirs /\ root' = root /\ proc' = Idle
           /\ \A t \in Systems, n \in Names :
                dir'[t][n] = dir[t][n] \/ (n = "new" /\ dir'[t][n] = None)
<1> DEFINE D == [s \in Systems |-> IF s \in Making THEN [dir[s] EXCEPT !["new"] = None] ELSE dir[s]]
<1>1. dir' = D
  BY DEF Abort
<1>2. D \in Dirs
  BY Zenon DEF TypeOK, Dirs
<1>3. \A t \in Systems, n \in Names : D[t][n] = dir[t][n] \/ (n = "new" /\ D[t][n] = None)
  BY DEF TypeOK, Dirs
<1> QED
  BY <1>1, <1>2, <1>3 DEF Abort

LEMMA TypeInit == Init => TypeOK
<1> SUFFICES ASSUME Init PROVE TypeOK
  OBVIOUS
<1>1. dir \in Dirs
  BY TreeType DEF Init, Dirs
<1>2. proc \in Proc /\ proc.pc = "idle"
  BY IdleType DEF Init
<1> QED
  BY <1>1, <1>2 DEF Init, TypeOK, Names, OsPcs

\* The trees that a step writes.
LEMMA TreeExcept ==
    ASSUME NEW t \in Trees
    PROVE  /\ \A st \in {"part", "cached", "solid"} :
                /\ [t EXCEPT !.st = st] \in Trees
                /\ [t EXCEPT !.st = st].st = st /\ [t EXCEPT !.st = st].shares = t.shares
           /\ \A k \in SUBSET Parts :
                /\ [t EXCEPT !.shares = k] \in Trees
                /\ [t EXCEPT !.shares = k].st = t.st /\ [t EXCEPT !.shares = k].shares = k
           /\ \A b \in BOOLEAN :
                /\ [t EXCEPT !.in = b] \in Trees
                /\ [t EXCEPT !.in = b].st = t.st /\ [t EXCEPT !.in = b].shares = t.shares
<1>1. t = [st |-> t.st, shares |-> t.shares, in |-> t.in] /\ t.shares \in SUBSET Parts /\ t.in \in BOOLEAN
      /\ t.st \in {"part", "cached", "solid"}
  BY DEF Trees
<1>2. ASSUME NEW st \in {"part", "cached", "solid"}
      PROVE  [t EXCEPT !.st = st] = [st |-> st, shares |-> t.shares, in |-> t.in]
  BY <1>1
<1>3. ASSUME NEW k \in SUBSET Parts
      PROVE  [t EXCEPT !.shares = k] = [st |-> t.st, shares |-> k, in |-> t.in]
  BY <1>1
<1>4. ASSUME NEW b \in BOOLEAN
      PROVE  [t EXCEPT !.in = b] = [st |-> t.st, shares |-> t.shares, in |-> b]
  BY <1>1
<1> QED
  BY <1>1, <1>2, <1>3, <1>4, Zenon DEF Trees

\* The updater stops: only the directories still matter.
LEMMA IdleInv ==
    ASSUME dir' \in Dirs, root' \in (Systems \X Names) \cup {None}, proc' = Idle, DirInv'
    PROVE  IInv'
<1>1. proc' \in Proc /\ proc'.pc = "idle" /\ proc'.rm = {}
  BY IdleType
<1>2. TypeOK'
  BY <1>1 DEF TypeOK, OsPcs
<1>3. RmInv'
  BY <1>1 DEF RmInv
<1>4. ApplyInv' /\ RollbackInv'
  BY <1>1 DEF ApplyInv, RollbackInv, ApplyPcs
<1> QED
  BY <1>2, <1>3, <1>4 DEF IInv

\* Nothing is lost where the updater stops outside the removal of a kept copy.
LEMMA StopInv ==
    ASSUME IInv, dir' \in Dirs, proc' = Idle, root' = root \/ root' = None,
           \A x \in proc.rm : x[2] = "old" => ~InParts(x),
           \A t \in Systems, n \in Names :
             \/ dir'[t][n] = dir[t][n]
             \/ n = "new"
             \/ dir[t][n] # None /\ dir[t][n].st = "cached"
                /\ dir'[t][n] = [dir[t][n] EXCEPT !.st = "part"]
    PROVE  IInv'
<1>1. /\ root \in (Systems \X Names) \cup {None} /\ dir \in Dirs /\ DirInv
      /\ \A s \in Systems, n \in Names : dir[s][n] \in Trees \cup {None}
  BY DirType DEF IInv, TypeOK
<1>2. ASSUME NEW s \in Systems, NEW n \in Names, IsWhole(dir[s][n]), n # "new"
      PROVE  dir'[s][n] = dir[s][n]
  BY Zenon, <1>2 DEF IsWhole
<1>3. ASSUME NEW s \in Systems
      PROVE  dir[s]["os"] # None => dir'[s]["os"] = dir[s]["os"]
  BY <1>1, <1>2 DEF DirInv, IsWhole, Names
<1>4. ASSUME NEW s \in Systems
      PROVE  (dir[s]["os"] = None => dir'[s]["os"] = None) /\ (dir[s]["old"] = None => dir'[s]["old"] = None)
  BY Zenon DEF Names
<1>5. ASSUME NEW s \in Systems
      PROVE  dir[s]["old"] # None => dir'[s]["old"] = dir[s]["old"] /\ dir[s]["old"].st = "solid"
  <2> SUFFICES ASSUME dir[s]["old"] # None PROVE IsWhole(dir[s]["old"])
    BY <1>2 DEF IsWhole, Names
  <2>1. <<s, "old">> \in proc.rm => dir[s]["old"].st # "part"
    BY DEF InParts
  <2> QED
    BY <1>1, <2>1 DEF DirInv, KeptInv, IsWhole
<1>6. \A s \in Systems : /\ dir'[s]["os"] # None => dir'[s]["os"].st = "solid"
                         /\ KeptInv(s)' /\ ~is_root(s, "new")'
  <2> SUFFICES ASSUME NEW s \in Systems
               PROVE  /\ dir'[s]["os"] # None => dir'[s]["os"].st = "solid"
                      /\ KeptInv(s)' /\ ~is_root(s, "new")'
    OBVIOUS
  <2>1. dir'[s]["os"] # None => dir'[s]["os"].st = "solid"
    BY <1>1, <1>3, <1>4 DEF DirInv
  <2>2. KeptInv(s)'
    BY <1>1, <1>3, <1>4, <1>5 DEF DirInv, KeptInv
  <2>3. ~is_root(s, "new")'
    BY <1>1 DEF DirInv, is_root, Names
  <2> QED
    BY <2>1, <2>2, <2>3
<1>7. RunningStays'
  <2> SUFFICES ASSUME root' # None PROVE IsWhole(dir'[root[1]][root[2]]) /\ root' = root
    BY DEF RunningStays, IsWhole
  <2>1. root' = root /\ root \in Systems \X Names /\ IsWhole(dir[root[1]][root[2]])
    BY <1>1 DEF DirInv, RunningStays
  <2>2. root[2] # "new"
    BY <1>1, <2>1 DEF DirInv, is_root
  <2> QED
    BY <1>2, <2>1, <2>2 DEF IsWhole
<1>8. DirInv'
  BY <1>6, <1>7, IdleType DEF DirInv
<1> QED
  BY <1>1, <1>8, IdleInv

\* A step that leaves the names alone and harms no tree that is on the disk,
\* but for <os>.new.
LEMMA KeepDirs ==
    ASSUME IInv, proc.rm = {}, root' = root, root # None, dir' \in Dirs,
           \A t \in Systems, n \in Names \ {"new"} :
             /\ (dir'[t][n] = None) = (dir[t][n] = None)
             /\ dir[t][n] # None /\ dir[t][n].st = "solid" =>
                  dir'[t][n].st = "solid" /\ dir'[t][n].shares = dir[t][n].shares
    PROVE  DirInv'
<1>1. root \in Systems \X Names /\ DirInv
  BY DEF IInv, TypeOK
<1>2. ASSUME NEW s \in Systems
      PROVE  /\ dir'[s]["os"] # None => dir'[s]["os"].st = "solid"
             /\ KeptInv(s)' /\ ~is_root(s, "new")'
  <2>1. /\ dir[s]["os"] # None => dir[s]["os"].st = "solid"
        /\ dir[s]["old"] # None =>
             dir[s]["old"].st = "solid" /\ (dir[s]["os"] # None => "files" \notin dir[s]["old"].shares)
    BY <1>1 DEF DirInv, KeptInv
  <2>2. KeptInv(s)'
    BY <2>1 DEF KeptInv, Names
  <2> QED
    BY <1>1, <2>1, <2>2 DEF DirInv, is_root, Names
<1>3. RunningStays'
  <2>1. root[1] \in Systems /\ root[2] \in Names \ {"new"}
    BY <1>1 DEF DirInv, is_root
  <2> QED
    BY <1>1, <2>1 DEF DirInv, RunningStays, IsWhole
<1> QED
  BY <1>2, <1>3 DEF DirInv

LEMMA SameDirs ==
    ASSUME IInv, proc.rm = {}, UNCHANGED <<dir, root>>, root # None
    PROVE  DirInv'
BY KeepDirs DEF IInv, TypeOK

LEMMA SyncDirs ==
    ASSUME IInv, proc.rm = {}, dir' = Synced(dir), root' = root, root # None
    PROVE  DirInv'
<1>1. dir \in Dirs
  BY DEF IInv, TypeOK
<1> QED
  BY <1>1, KeepDirs, SyncedIs

\* Where the updater runs, a system runs, and what is to be removed is done with.
LEMMA Running ==
    ASSUME IInv, NEW pc, At(pc), pc # "idle"
    PROVE  proc.pc = pc /\ proc.rm = {} /\ root # None /\ root \in Systems \X Names
BY DEF At, IInv, DirInv, TypeOK

\* What a set of leftovers holds.
LEMMA LeftoverIs ==
    ASSUME NEW names \in SUBSET Names
    PROVE  /\ Leftover(names) \in SUBSET (Systems \X Names)
           /\ \A x \in Leftover(names) : x[2] \in names /\ dir[x[1]][x[2]] # None /\ root # x
           /\ \A s \in Systems, n \in names :
                dir[s][n] # None /\ root # <<s, n>> => <<s, n>> \in Leftover(names)
<1>1. \A x \in Systems \X names : x = <<x[1], x[2]>>
  OBVIOUS
<1> QED
  BY <1>1 DEF Leftover, Unused, is_root

-----------------------------------------------------------------------------
(* The steps that begin and end a command.                                  *)
LEMMA StartInv ==
    ASSUME IInv, Apply \/ Rollback \/ Clean
    PROVE  IInv'
<1>1. /\ UNCHANGED <<dir, root>> /\ proc.rm = {} /\ root # None
      /\ dir \in Dirs /\ root \in Systems \X Names
  BY Zenon DEF Apply, Rollback, Clean, At, IInv, TypeOK
<1>2. DirInv'
  BY <1>1, SameDirs
<1>3. CASE Apply
  <2>1. PICK link \in BOOLEAN, todo \in SUBSET Systems :
          /\ \A s \in todo : dir[s]["os"] # None /\ ~is_root(s, "old")
          /\ proc' = [Idle EXCEPT !.pc = "fetch", !.link = link, !.todo = todo,
                                  !.rm = Leftover({"broken", "new"})]
    BY Zenon, <1>3 DEF Apply
  <2>2. Leftover({"broken", "new"}) \in SUBSET (Systems \X Names)
    BY LeftoverIs DEF Names
  <2>3. /\ proc' \in Proc /\ proc'.pc = "fetch" /\ proc'.todo = todo
        /\ proc'.rm = Leftover({"broken", "new"})
    BY Zenon, <2>1, <2>2 DEF Idle, Proc, Pcs
  <2>4. RmInv'
    BY <1>1, <2>3, LeftoverIs DEF RmInv, RmNames, Names
  <2>5. ApplyInv' /\ RollbackInv'
    BY <1>1, <2>1, <2>3 DEF ApplyInv, RollbackInv, is_root
  <2> QED
    BY <1>1, <1>2, <2>3, <2>4, <2>5 DEF IInv, TypeOK, OsPcs
<1>4. CASE Rollback
  <2>1. PICK list \in SUBSET Systems :
          proc' = [Idle EXCEPT !.pc = "rb", !.todo = {s \in list : Unused(s, "old")}]
    BY Zenon, <1>4 DEF Rollback
  <2>2. /\ proc' \in Proc /\ proc'.pc = "rb" /\ proc'.rm = {}
        /\ proc'.todo = {s \in list : Unused(s, "old")}
    BY Zenon, <2>1 DEF Idle, Proc, Pcs
  <2>3. RmInv' /\ ApplyInv' /\ RollbackInv'
    BY <1>1, <2>2 DEF RmInv, ApplyInv, ApplyPcs, RollbackInv, Unused
  <2> QED
    BY <1>1, <1>2, <2>2, <2>3 DEF IInv, TypeOK, OsPcs
<1>5. CASE Clean
  <2>1. Leftover({"old", "broken"}) \in SUBSET (Systems \X Names)
    BY LeftoverIs DEF Names
  <2>2. /\ proc' \in Proc /\ proc'.pc = "clean"
        /\ proc'.rm = Leftover({"old", "broken"})
    BY Zenon, <1>5, <2>1 DEF Clean, Idle, Proc, Pcs
  <2>3. RmInv'
    BY <1>1, <2>2, LeftoverIs DEF RmInv, RmNames, Names
  <2>4. ApplyInv' /\ RollbackInv'
    BY <2>2 DEF ApplyInv, ApplyPcs, RollbackInv
  <2> QED
    BY <1>1, <1>2, <2>2, <2>3, <2>4 DEF IInv, TypeOK, OsPcs
<1> QED
  BY <1>3, <1>4, <1>5

LEMMA EndInv ==
    ASSUME IInv, ApplyEnd \/ RbEnd \/ CleanEnd
    PROVE  IInv'
<1>1. /\ proc.rm = {} /\ root' = root /\ root # None /\ root \in Systems \X Names
      /\ proc' = Idle /\ dir \in Dirs
      /\ dir' = dir \/ dir' = Synced(dir)
  BY DEF ApplyEnd, RbEnd, CleanEnd, At, IInv, TypeOK, DirInv
<1>2. DirInv'
  BY <1>1, SameDirs, SyncDirs
<1>3. dir' \in Dirs
  BY <1>1, SyncedIs
<1> QED
  BY <1>1, <1>2, <1>3, IdleInv

LEMMA AbortInv ==
    ASSUME IInv, Abort, \A x \in proc.rm : x[2] = "old" => ~InParts(x)
    PROVE  IInv'
<1>1. TypeOK
  BY DEF IInv
<1> QED
  BY <1>1, AbortIs, StopInv

LEMMA FailInv ==
    ASSUME IInv, FetchFails \/ UnpackFails \/ SwitchRefused \/ MoveAsideFails \/ RbAsideFails
    PROVE  IInv'
<1>1. proc.rm = {} /\ Abort
  BY DEF FetchFails, UnpackFails, SwitchRefused, MoveAsideFails, RbAsideFails, At
<1> QED
  BY <1>1, AbortInv

-----------------------------------------------------------------------------
(* A signal, a power cut, a boot, and the removals.                         *)
LEMMA KillInv ==
    ASSUME IInv, "remove" \in Whole, Kill
    PROVE  IInv'
<1>1. Abort /\ \A x \in proc.rm : x[2] = "old" => ~InParts(x)
  BY DEF Kill, InWindow
<1> QED
  BY <1>1, AbortInv

LEMMA CutInv ==
    ASSUME IInv, "remove" \in Whole, PowerCut
    PROVE  IInv'
<1>1. \A x \in proc.rm : x[2] = "old" => ~InParts(x)
  BY DEF PowerCut, InWindow
<1>2. dir \in Dirs /\ \A s \in Systems, n \in Names : dir[s][n] \in Trees \cup {None}
  BY DirType DEF IInv, TypeOK
<1> DEFINE T(t) == IF t # None /\ t.st = "cached" THEN [t EXCEPT !.st = "part"] ELSE t
<1>3. dir' = [s \in Systems |-> [n \in Names |-> T(dir[s][n])]]
  BY DEF PowerCut
<1>4. \A t \in Trees \cup {None} :
        /\ T(t) \in Trees \cup {None}
        /\ T(t) = t \/ (t # None /\ t.st = "cached" /\ T(t) = [t EXCEPT !.st = "part"])
  BY Zenon, TreeExcept
<1> HIDE DEF T
<1>5. dir' \in Dirs
  BY <1>2, <1>3, <1>4 DEF Dirs
<1>6. \A s \in Systems, n \in Names :
        \/ dir'[s][n] = dir[s][n]
        \/ /\ dir[s][n] # None /\ dir[s][n].st = "cached"
           /\ dir'[s][n] = [dir[s][n] EXCEPT !.st = "part"]
  BY <1>2, <1>3, <1>4
<1>7. proc' = Idle /\ root' = None
  BY DEF PowerCut
<1> QED
  BY <1>1, <1>5, <1>6, <1>7, StopInv

LEMMA BootInv ==
    ASSUME IInv, Boot
    PROVE  IInv'
<1>1. PICK s \in Systems : root = None /\ dir[s]["os"] # None /\ root' = <<s, "os">>
  BY DEF Boot
<1>2. UNCHANGED <<dir, proc>> /\ proc.pc = "idle" /\ proc \in Proc /\ dir \in Dirs
  BY <1>1 DEF Boot, IInv, DirInv, TypeOK
<1>3. proc.rm = {}
  BY <1>2 DEF IInv, RmInv, RmNames
<1>4. TypeOK' /\ RmInv'
  BY <1>1, <1>2, <1>3 DEF TypeOK, RmInv, OsPcs, Names
<1>5. ApplyInv' /\ RollbackInv'
  BY <1>2 DEF ApplyInv, RollbackInv, ApplyPcs
<1>6. \A t \in Systems : /\ dir'[t]["os"] # None => dir'[t]["os"].st = "solid"
                         /\ KeptInv(t)'
                         /\ ~is_root(t, "new")'
  BY Zenon, <1>1, <1>2 DEF IInv, DirInv, KeptInv, is_root
<1>7. RunningStays'
  BY <1>1, <1>2 DEF RunningStays, IsWhole, IInv, DirInv
<1> QED
  BY <1>2, <1>4, <1>5, <1>6, <1>7 DEF IInv, DirInv

\* A directory that is removed is not the one that runs, and no system's place.
LEMMA RemoveInv ==
    ASSUME IInv, Remove
    PROVE  IInv'
<1>1. PICK x \in proc.rm :
        \/ /\ dir' = [dir EXCEPT ![x[1]][x[2]].st = "part"] /\ UNCHANGED proc
        \/ /\ dir' = [dir EXCEPT ![x[1]][x[2]] = None]
           /\ proc' = [proc EXCEPT !.rm = @ \ {x}]
  BY Zenon DEF Remove
<1> DEFINE s == x[1]
           n == x[2]
<1>2. /\ s \in Systems /\ n \in Names /\ x = <<s, n>> /\ x \in Systems \X Names
      /\ dir \in Dirs /\ proc \in Proc /\ root' = root
      /\ n \in RmNames(proc.pc) /\ dir[s][n] # None /\ root # x
      /\ dir[s][n] \in Trees
  BY DirType DEF IInv, TypeOK, RmInv, Proc, Remove
<1>3. /\ proc.pc \in {"fetch", "aside", "clean", "rbaside", "rbdone"}
      /\ n \in {"new", "old", "broken"}
      /\ n = "new" => proc.pc = "fetch"
      /\ n = "old" => proc.pc \in {"aside", "clean"}
      /\ root # None
  BY <1>2 DEF RmNames, IInv, DirInv
\* What is at the name afterwards, and what is left to remove.
<1>4. PICK v \in Trees \cup {None} :
        /\ dir' = Put(dir, s, n, v)
        /\ v = None => proc' = [proc EXCEPT !.rm = @ \ {x}]
        /\ v # None => proc' = proc /\ v.st = "part" /\ v.shares = dir[s][n].shares
  <2>1. CASE dir' = [dir EXCEPT ![s][n].st = "part"] /\ UNCHANGED proc
    <3>1. dir' = Put(dir, s, n, [dir[s][n] EXCEPT !.st = "part"])
      BY <2>1 DEF Put
    <3> DEFINE w == [dir[s][n] EXCEPT !.st = "part"]
    <3>2. w \in Trees /\ w.st = "part" /\ w.shares = dir[s][n].shares
      BY Zenon, <1>2, TreeExcept
    <3> HIDE DEF w
    <3>3. w # None /\ dir' = Put(dir, s, n, w) /\ proc' = proc
      BY Zenon, <2>1, <3>1, <3>2 DEF w
    <3> QED
      BY <3>2, <3>3
  <2>2. CASE dir' = [dir EXCEPT ![s][n] = None] /\ proc' = [proc EXCEPT !.rm = @ \ {x}]
    BY Zenon, <2>2 DEF Put
  <2> QED
    BY <1>1, <2>1, <2>2
<1>5. /\ dir' \in Dirs
      /\ \A t \in Systems, m \in Names : dir'[t][m] = IF t = s /\ m = n THEN v ELSE dir[t][m]
  BY <1>2, <1>4, PutIs
<1> HIDE DEF s, n
<1>6. /\ proc' \in Proc
      /\ \A y \in Systems \X Names :
           y \in proc'.rm <=> y \in proc.rm /\ (y # x \/ v # None)
      /\ proc'.pc = proc.pc /\ proc'.todo = proc.todo /\ proc'.os = proc.os
      /\ proc'.shares = proc.shares
  <2>1. CASE v = None
    BY <1>2, <1>4, <2>1 DEF Proc
  <2>2. CASE v # None
    BY <1>2, <1>4, <2>2
  <2> QED
    BY <2>1, <2>2
<1>7. TypeOK'
  BY <1>2, <1>5, <1>6 DEF IInv, TypeOK
<1>8. RmInv'
  <2> SUFFICES ASSUME NEW y \in proc'.rm
               PROVE  y[2] \in RmNames(proc'.pc) /\ dir'[y[1]][y[2]] # None /\ root' # y
    BY DEF RmInv
  <2>1. y \in Systems \X Names /\ y \in proc.rm /\ (y # x \/ v # None)
    BY <1>6 DEF Proc
  <2>2. y[2] \in RmNames(proc.pc) /\ dir[y[1]][y[2]] # None /\ root # y
    BY <2>1 DEF IInv, RmInv
  <2>3. dir'[y[1]][y[2]] # None
    BY <1>2, <1>5, <2>1, <2>2
  <2> QED
    BY <1>2, <1>6, <2>2, <2>3
<1>9. /\ Aside' = Aside /\ Aside \in Names
      /\ \A t \in Systems : /\ dir'[t]["os"] = dir[t]["os"]
                            /\ n # "old" => dir'[t]["old"] = dir[t]["old"]
                            /\ n # "new" => dir'[t]["new"] = dir[t]["new"]
  BY <1>3, <1>5, <1>6 DEF Aside, Names
<1>10. ApplyInv'
  <2>1. CASE proc.pc = "fetch"
    <3>1. \A t \in proc.todo : dir[t]["os"] # None /\ ~is_root(t, "old")
      BY <2>1 DEF IInv, ApplyInv, ApplyPcs
    <3>2. \A t \in proc'.todo : dir'[t]["os"] # None /\ ~is_root(t, "old")'
      BY <1>2, <1>6, <1>9, <3>1 DEF Proc, is_root
    <3> QED
      BY <1>6, <2>1, <3>2 DEF ApplyInv
  <2>2. CASE proc.pc = "aside"
    <3>0. proc.os \in proc.todo /\ proc.os \in Systems
      BY <2>2 DEF IInv, TypeOK, Proc, OsPcs
    <3>1. /\ \A t \in proc.todo : dir[t]["os"] # None /\ ~is_root(t, "old")
          /\ IsWhole(dir[proc.os]["new"])
          /\ \A m \in {"old", Aside} : dir[proc.os][m] = None \/ <<proc.os, m>> \in proc.rm
      BY <2>2 DEF IInv, ApplyInv, ApplyPcs
    <3>2. \A t \in proc'.todo : dir'[t]["os"] # None /\ ~is_root(t, "old")'
      BY <1>2, <1>6, <1>9, <3>1 DEF Proc, is_root
    <3>3. IsWhole(dir'[proc.os]["new"])
      BY <1>3, <1>9, <2>2, <3>0, <3>1 DEF IsWhole
    <3>4. ASSUME NEW m \in {"old", Aside}
          PROVE  dir'[proc.os][m] = None \/ <<proc.os, m>> \in proc'.rm
      <4>1. m \in Names
        BY <1>9 DEF Names
      <4> QED
        BY <1>2, <1>5, <1>6, <3>0, <3>1, <3>4, <4>1
    <3> QED
      BY <1>6, <1>9, <2>2, <3>2, <3>3, <3>4 DEF ApplyInv, IsWhole
  <2>3. CASE proc.pc \in {"clean", "rbaside", "rbdone"}
    BY <1>6, <2>3 DEF ApplyInv, ApplyPcs
  <2> QED
    BY <1>3, <2>1, <2>2, <2>3
<1>11. RollbackInv'
  <2>1. CASE proc.pc \in {"rbaside", "rbdone"}
    <3>0. proc.os \in proc.todo /\ proc.os \in Systems /\ proc.todo \in SUBSET Systems
      BY <2>1 DEF IInv, TypeOK, Proc, OsPcs
    <3>1. \A t \in proc'.todo : dir'[t]["old"] # None \/ (proc'.pc = "rbdone" /\ t = proc'.os)
      BY <1>3, <1>6, <1>9, <2>1, <3>0 DEF IInv, RollbackInv
    <3>2. proc.pc = "rbaside" =>
             \/ dir'[proc.os]["broken"] = None \/ <<proc.os, "broken">> \in proc'.rm
             \/ is_root(proc.os, "broken")
      <4>1. "broken" \in Names
        BY DEF Names
      <4> QED
        BY <1>2, <1>5, <1>6, <2>1, <3>0, <4>1 DEF IInv, RollbackInv
    <3> QED
      BY <1>2, <1>6, <2>1, <3>1, <3>2 DEF RollbackInv, is_root
  <2>2. CASE proc.pc \in {"fetch", "aside", "clean"}
    BY <1>6, <2>2 DEF RollbackInv
  <2> QED
    BY <1>3, <2>1, <2>2
<1>12. ASSUME NEW t \in Systems PROVE KeptInv(t)'
  <2>1. KeptInv(t)
    BY DEF IInv, DirInv
  <2>2. CASE x = <<t, "old">>
    <3>1. s = t /\ n = "old" /\ dir'[t]["old"] = v
      BY <1>2, <1>5, <2>2
    <3>2. CASE v = None
      BY <3>1, <3>2 DEF KeptInv
    <3>3. CASE v # None
      BY <1>2, <1>4, <1>9, <2>1, <2>2, <3>1, <3>3 DEF KeptInv
    <3> QED
      BY <3>2, <3>3
  <2>3. CASE x # <<t, "old">>
    <3>1. dir'[t]["old"] = dir[t]["old"] /\ (<<t, "old">> \in proc.rm => <<t, "old">> \in proc'.rm)
      BY <1>2, <1>5, <1>6, <2>3 DEF Names
    <3> QED
      BY <1>9, <2>1, <3>1 DEF KeptInv
  <2> QED
    BY <2>2, <2>3
<1>13. RunningStays'
  <2>1. root \in Systems \X Names /\ IsWhole(dir[root[1]][root[2]])
    BY <1>3 DEF IInv, TypeOK, DirInv, RunningStays
  <2>2. dir'[root[1]][root[2]] = dir[root[1]][root[2]]
    BY <1>2, <1>5, <2>1
  <2> QED
    BY <1>2, <2>1, <2>2 DEF RunningStays, IsWhole
<1>14. DirInv'
  <2>1. \A t \in Systems : /\ dir'[t]["os"] # None => dir'[t]["os"].st = "solid"
                           /\ ~is_root(t, "new")'
    BY <1>2, <1>9 DEF IInv, DirInv, is_root
  <2> QED
    BY <1>2, <1>3, <1>12, <1>13, <2>1 DEF DirInv
<1> QED
  BY <1>7, <1>8, <1>10, <1>11, <1>14 DEF IInv

-----------------------------------------------------------------------------
(* apply: the steps that make <os>.new.                                     *)

\* Only <os>.new of one system is written.
LEMMA NewDirs ==
    ASSUME IInv, proc.rm = {}, root' = root, root # None, NEW s \in Systems,
           NEW v \in Trees, dir' = Put(dir, s, "new", v)
    PROVE  /\ dir' \in Dirs /\ DirInv' /\ dir'[s]["new"] = v
           /\ \A t \in Systems, n \in Names \ {"new"} : dir'[t][n] = dir[t][n]
<1>0. dir \in Dirs /\ "new" \in Names /\ v \in Trees \cup {None}
  BY DEF IInv, TypeOK, Names
<1>1. /\ dir' \in Dirs /\ dir'[s]["new"] = v
      /\ \A t \in Systems, n \in Names \ {"new"} : dir'[t][n] = dir[t][n]
  BY <1>0, PutIs
<1> QED
  BY <1>1, KeepDirs

LEMMA UnpackInv ==
    ASSUME IInv, Diff \/ Fetched \/ ApplyOne \/ Unpacked
    PROVE  IInv'
<1>1. /\ proc.pc \in {"fetch", "next", "unpack"} /\ proc.rm = {} /\ root' = root
      /\ root # None /\ root \in Systems \X Names
      /\ proc \in Proc /\ dir \in Dirs /\ proc.todo \in SUBSET Systems
      /\ \A t \in proc.todo : dir[t]["os"] # None /\ ~is_root(t, "old")
  BY Zenon DEF Diff, Fetched, ApplyOne, Unpacked, At, IInv, TypeOK, Proc, DirInv, ApplyInv, ApplyPcs
\* What remains to be shown once the updater's next pc is known.
<1>2. ASSUME dir' \in Dirs, DirInv', proc' \in Proc, proc'.pc \in {"fetch", "next", "unpack", "sync"},
             proc'.todo = proc.todo, proc'.rm = {},
             \A t \in Systems : dir'[t]["os"] = dir[t]["os"],
             proc'.pc \in {"unpack", "sync"} =>
               proc'.os \in proc.todo /\ dir'[proc'.os]["new"] # None,
             proc'.pc = "sync" => dir'[proc'.os]["new"].st = "cached"
      PROVE  IInv'
  <2>1. TypeOK' /\ RmInv'
    BY <1>1, <1>2 DEF TypeOK, RmInv, OsPcs
  <2>2. ApplyInv'
    BY <1>1, <1>2 DEF ApplyInv, is_root
  <2>3. RollbackInv'
    BY <1>2 DEF RollbackInv
  <2> QED
    BY <1>2, <2>1, <2>2, <2>3 DEF IInv
<1>3. CASE Diff
  <2>1. PICK s \in proc.todo : /\ dir' = Put(dir, s, "new", Tree("part"))
                               /\ proc' = [proc EXCEPT !.ready = @ \cup {s}]
    BY Zenon, <1>3 DEF Diff, Put
  <2>2. /\ proc' \in Proc /\ proc'.pc = "fetch" /\ proc'.todo = proc.todo /\ proc'.rm = {}
    BY <1>1, <1>3, <2>1 DEF Diff, At, Proc
  <2>3. /\ dir' \in Dirs /\ DirInv' /\ \A t \in Systems : dir'[t]["os"] = dir[t]["os"]
    BY <1>1, <2>1, NewDirs, TreeType DEF Names
  <2> QED
    BY <1>2, <2>2, <2>3
<1>4. CASE Fetched
  <2>1. /\ proc' \in Proc /\ proc'.pc = "next" /\ proc'.todo = proc.todo /\ proc'.rm = {}
        /\ dir' = dir
    BY <1>1, <1>4 DEF Fetched, Proc, Pcs
  <2> QED
    BY <1>1, <1>2, <2>1, SameDirs
<1>5. CASE ApplyOne
  <2>1. PICK s \in proc.todo : /\ dir' = Put(dir, s, "new", Tree("part"))
                               /\ proc' = [proc EXCEPT !.pc = "unpack", !.os = s]
    BY Zenon, <1>5 DEF ApplyOne, Put
  <2>2. /\ proc' \in Proc /\ proc'.pc = "unpack" /\ proc'.todo = proc.todo /\ proc'.rm = {}
        /\ proc'.os = s
    BY Zenon, <1>1, <2>1 DEF Proc, Pcs
  <2>3. /\ dir' \in Dirs /\ DirInv' /\ \A t \in Systems : dir'[t]["os"] = dir[t]["os"]
        /\ dir'[s]["new"] # None
    BY <1>1, <2>1, NewDirs, TreeType DEF Names
  <2> QED
    BY <1>2, <2>2, <2>3
<1>6. CASE Unpacked
  <2> DEFINE s == proc.os
             v == [dir[s]["new"] EXCEPT !.st = "cached"]
  <2>1. s \in proc.todo /\ dir[s]["new"] # None
    BY Zenon, <1>6 DEF Unpacked, At, IInv, TypeOK, OsPcs, ApplyInv
  <2>2. dir[s]["new"] \in Trees
    BY <1>1, <2>1, DirType DEF Names
  <2>3. v \in Trees /\ v.st = "cached" /\ None \notin Trees
    BY Zenon, <2>2, TreeExcept
  <2>4. dir' = Put(dir, s, "new", v)
    BY Zenon, <1>6 DEF Unpacked, Put
  <2>5. PICK k \in SUBSET Parts : proc' = [proc EXCEPT !.pc = "sync", !.shares = k]
    BY Zenon, <1>6 DEF Unpacked
  <2>6. /\ proc' \in Proc /\ proc'.pc = "sync" /\ proc'.todo = proc.todo /\ proc'.rm = {}
        /\ proc'.os = s
    BY Zenon, <1>1, <2>5 DEF Proc, Pcs
  <2> HIDE DEF v, s
  <2>7. /\ dir' \in Dirs /\ DirInv' /\ \A t \in Systems : dir'[t]["os"] = dir[t]["os"]
        /\ dir'[s]["new"] = v
    BY <1>1, <2>1, <2>3, <2>4, NewDirs DEF Names
  <2> QED
    BY <1>2, <2>1, <2>3, <2>6, <2>7
<1> QED
  BY <1>3, <1>4, <1>5, <1>6

\* <os>.new is on the disk before anything is moved, and what is in the way of
\* the old system is listed for removal.
LEMMA SwitchInv ==
    ASSUME IInv, Switch
    PROVE  IInv'
<1> DEFINE s == proc.os
           L == Leftover({"old", Aside}) \cap ({s} \X Names)
<1>1. /\ proc.pc = "sync" /\ proc.rm = {} /\ root' = root /\ dir' = Synced(dir)
      /\ root # None /\ root \in Systems \X Names
      /\ proc \in Proc /\ dir \in Dirs /\ s \in proc.todo /\ proc.todo \in SUBSET Systems
      /\ \A t \in proc.todo : dir[t]["os"] # None /\ ~is_root(t, "old")
      /\ dir[s]["new"] # None /\ dir[s]["new"].st = "cached" /\ ~is_root(s, Aside)
  BY DEF Switch, At, IInv, TypeOK, OsPcs, Proc, DirInv, ApplyInv, ApplyPcs
<1>2. DirInv' /\ dir' \in Dirs
  BY <1>1, SyncDirs, SyncedIs
<1>3. {"old", Aside} \in SUBSET Names
  BY NamesAre
<1>4. /\ L \in SUBSET (Systems \X Names)
      /\ \A x \in L : x[2] \in {"old", Aside} /\ dir[x[1]][x[2]] # None /\ root # x
      /\ \A n \in {"old", Aside} : dir[s][n] # None => <<s, n>> \in L
  <2>1. \A n \in {"old", Aside} : root # <<s, n>> /\ <<s, n>> \in {s} \X Names
    BY <1>1, <1>3 DEF is_root
  <2> QED
    BY <1>1, <1>3, <2>1, LeftoverIs
<1>5. proc' = [proc EXCEPT !.pc = "aside", !.rm = L]
  BY DEF Switch
<1> HIDE DEF L
<1>6. /\ proc' \in Proc /\ proc'.pc = "aside" /\ proc'.rm = L /\ proc'.todo = proc.todo
      /\ proc'.os = s /\ proc'.shares = proc.shares
  BY Zenon, <1>1, <1>4, <1>5 DEF Proc, Pcs
<1>7. \A t \in Systems, n \in Names : (dir'[t][n] = None) = (dir[t][n] = None)
  BY <1>1, SyncedIs
<1>8. TypeOK'
  BY <1>1, <1>2, <1>6 DEF TypeOK
<1>9. RmInv'
  <2>1. Aside \in {"old", "broken"}
    BY DEF Aside
  <2>2. ASSUME NEW x \in L PROVE x[2] \in {"old", "broken"} /\ dir'[x[1]][x[2]] # None /\ root' # x
    BY <1>1, <1>4, <1>7, <2>1
  <2> QED
    BY <1>6, <2>2 DEF RmInv, RmNames
<1>10. ApplyInv'
  <2>1. IsWhole(dir'[s]["new"])
    BY <1>1, SyncedIs DEF IsWhole, Names
  <2>2. \A t \in proc.todo : dir'[t]["os"] # None /\ ~is_root(t, "old")'
    BY <1>1, <1>7 DEF is_root, Names
  <2>3. \A n \in {"old", Aside} : dir'[s][n] = None \/ <<s, n>> \in L
    BY <1>1, <1>3, <1>4, <1>7
  <2>4. Aside' = Aside
    BY <1>6 DEF Aside
  <2> QED
    BY <1>6, <2>1, <2>2, <2>3, <2>4 DEF ApplyInv, IsWhole
<1>11. RollbackInv'
  BY <1>6 DEF RollbackInv
<1> QED
  BY <1>2, <1>8, <1>9, <1>10, <1>11 DEF IInv

-----------------------------------------------------------------------------
(* apply: the two renames.                                                  *)
LEMMA MoveAsideInv ==
    ASSUME IInv, MoveAside
    PROVE  IInv' /\ Leaves
<1> DEFINE s == proc.os
<1>1. /\ proc.pc = "aside" /\ proc.rm = {}
      /\ root # None /\ root \in Systems \X Names
      /\ proc \in Proc /\ dir \in Dirs /\ s \in proc.todo /\ proc.todo \in SUBSET Systems
      /\ \A t \in proc.todo : dir[t]["os"] # None /\ ~is_root(t, "old")
      /\ IsWhole(dir[s]["new"]) /\ dir[s]["old"] = None /\ dir[s][Aside] = None
  BY DEF MoveAside, At, IInv, TypeOK, OsPcs, Proc, DirInv, ApplyInv, ApplyPcs
<1>2. Aside \in {"old", "broken"} /\ Aside # "os" /\ Aside \in Names /\ "os" \in Names
  BY DEF Aside, Names
<1>3. Move(s, "os", Aside) /\ TypeOK
  BY DEF MoveAside, IInv
<1>4. /\ dir' \in Dirs /\ root' \in (Systems \X Names) \cup {None}
      /\ \A t \in Systems, n \in Names :
           dir'[t][n] = IF t = s /\ n = "os" THEN None
                        ELSE IF t = s /\ n = Aside THEN dir[s]["os"] ELSE dir[t][n]
      /\ root' = IF root = <<s, "os">> THEN <<s, Aside>> ELSE root
  BY <1>1, <1>2, <1>3, MoveIs
<1>5. /\ proc' \in Proc /\ proc'.pc = "place" /\ proc'.todo = proc.todo /\ proc'.rm = {}
      /\ proc'.os = s /\ proc'.shares = proc.shares /\ Aside' = Aside
  BY <1>1 DEF MoveAside, Proc, Pcs, Aside
<1>6. TypeOK' /\ RmInv'
  BY <1>1, <1>4, <1>5 DEF TypeOK, RmInv
<1>7. IsWhole(dir[s]["os"])
  BY <1>1 DEF IInv, DirInv, IsWhole
<1>8. /\ dir'[s]["os"] = None /\ dir'[s][Aside] = dir[s]["os"] /\ dir'[s]["new"] = dir[s]["new"]
      /\ Aside = "broken" => dir'[s]["old"] = None
  BY <1>1, <1>2, <1>4 DEF Names
<1>9. ApplyInv'
  <2>1. IsWhole(dir'[s]["new"]) /\ IsWhole(dir'[s][Aside])
    BY <1>1, <1>7, <1>8 DEF IsWhole
  <2>2. ASSUME NEW t \in proc.todo, t # s
        PROVE  dir'[t]["os"] # None /\ root' # <<t, "old">>
    BY <1>1, <1>2, <1>4, <2>2 DEF is_root
  <2>3. \A t \in proc'.todo :
          /\ dir'[t]["os"] # None \/ (proc'.pc = "place" /\ t = proc'.os)
          /\ is_root(t, "old")' => proc'.pc \in {"place", "placed"} /\ t = proc'.os
    BY <1>5, <2>2 DEF is_root
  <2> QED
    BY <1>5, <1>8, <2>1, <2>3 DEF ApplyInv, IsWhole
<1>10. RollbackInv'
  BY <1>5 DEF RollbackInv
<1>11. ASSUME NEW t \in Systems
       PROVE  /\ dir'[t]["os"] # None => dir'[t]["os"].st = "solid"
              /\ KeptInv(t)' /\ ~is_root(t, "new")'
  <2>1. /\ dir[t]["os"] # None => dir[t]["os"].st = "solid"
        /\ KeptInv(t) /\ ~is_root(t, "new")
    BY DEF IInv, DirInv
  <2>2. ~is_root(t, "new")'
    BY <1>1, <1>2, <1>4, <2>1 DEF is_root
  <2>3. CASE t # s
    <3>1. dir'[t]["os"] = dir[t]["os"] /\ dir'[t]["old"] = dir[t]["old"]
      BY <1>4, <2>3 DEF Names
    <3> QED
      BY <1>1, <2>1, <2>2, <3>1 DEF KeptInv
  <2>4. CASE t = s
    <3>1. dir'[t]["old"] = None \/ dir'[t]["old"].st = "solid"
      BY <1>2, <1>7, <1>8, <2>4 DEF IsWhole
    <3> QED
      BY <1>8, <2>2, <2>4, <3>1 DEF KeptInv
  <2> QED
    BY <2>3, <2>4
<1>12. RunningStays' /\ root' # None
  <2>1. IsWhole(dir[root[1]][root[2]])
    BY <1>1 DEF IInv, DirInv, RunningStays
  <2>2. CASE root = <<s, "os">>
    <3>1. root'[1] = s /\ root'[2] = Aside /\ root' \in Systems \X Names
      BY <1>1, <1>2, <1>4, <2>2
    <3> QED
      BY <1>7, <1>8, <3>1 DEF RunningStays, IsWhole
  <2>3. CASE root # <<s, "os">>
    <3>1. root # <<s, Aside>>
      BY <1>1, <2>1 DEF IsWhole
    <3>2. root' = root /\ dir'[root[1]][root[2]] = dir[root[1]][root[2]]
      BY <1>1, <1>4, <2>3, <3>1
    <3> QED
      BY <1>1, <2>1, <3>2 DEF RunningStays, IsWhole
  <2> QED
    BY <2>2, <2>3
<1>13. Leaves
  BY <1>4, <1>5, NamesAre DEF Leaves
<1> QED
  BY <1>13, <1>6, <1>9, <1>10, <1>11, <1>12 DEF IInv, DirInv

LEMMA Put3Is ==
    ASSUME NEW d \in Dirs, NEW s \in Systems, NEW a \in Names \ {"os", "new"},
           NEW u \in Trees, NEW y \in Trees, NEW e,
           e = Put(Put(Put(d, s, "os", u), s, "new", None), s, a, y)
    PROVE  /\ e \in Dirs
           /\ \A t \in Systems, n \in Names :
                e[t][n] = IF t # s THEN d[t][n]
                          ELSE IF n = "os" THEN u
                          ELSE IF n = "new" THEN None
                          ELSE IF n = a THEN y ELSE d[t][n]
<1>1. "os" \in Names /\ "new" \in Names /\ a \in Names
  BY DEF Names
<1>2. PICK d1 \in Dirs : /\ d1 = Put(d, s, "os", u)
                         /\ \A t \in Systems, n \in Names :
                              d1[t][n] = IF t = s /\ n = "os" THEN u ELSE d[t][n]
  BY <1>1, PutIs
<1>3. PICK d2 \in Dirs : /\ d2 = Put(d1, s, "new", None)
                         /\ \A t \in Systems, n \in Names :
                              d2[t][n] = IF t = s /\ n = "new" THEN None ELSE d1[t][n]
  BY <1>1, PutIs
<1>4. PICK d3 \in Dirs : /\ d3 = Put(d2, s, a, y)
                         /\ \A t \in Systems, n \in Names :
                              d3[t][n] = IF t = s /\ n = a THEN y ELSE d2[t][n]
  BY <1>1, PutIs
<1>5. \A t \in Systems, n \in Names :
        d3[t][n] = IF t # s THEN d[t][n]
                   ELSE IF n = "os" THEN u
                   ELSE IF n = "new" THEN None
                   ELSE IF n = a THEN y ELSE d[t][n]
  BY <1>1, <1>2, <1>3, <1>4
<1> QED
  BY <1>2, <1>3, <1>4, <1>5

\* The old system, aside, is marked with how the new one got its files.
Marked(t, k) == [t EXCEPT !.shares = k]
LEMMA MarkedIs ==
    ASSUME NEW t \in Trees, NEW k \in SUBSET Parts
    PROVE  Marked(t, k) \in Trees /\ Marked(t, k).st = t.st /\ Marked(t, k).shares = k
<1>1. /\ [t EXCEPT !.shares = k] \in Trees
      /\ [t EXCEPT !.shares = k].st = t.st /\ [t EXCEPT !.shares = k].shares = k
  BY DEF Trees
<1> QED
  BY Zenon, <1>1 DEF Marked

\* The directories once <os>.new is in place.
Placing(d, s, u, a, k) ==
    [d EXCEPT ![s]["os"] = u, ![s]["new"] = None, ![s][a].shares = k]
LEMMA PlacedIs ==
    ASSUME NEW d \in Dirs, NEW s \in Systems, NEW a \in Names \ {"os", "new"},
           NEW u \in Trees, NEW k
    PROVE  Placing(d, s, u, a, k)
             = Put(Put(Put(d, s, "os", u), s, "new", None), s, a, Marked(d[s][a], k))
<1> DEFINE d2 == Put(Put(d, s, "os", u), s, "new", None)
<1>1. Placing(d, s, u, a, k) = [d2 EXCEPT ![s][a] = Marked(d2[s][a], k)]
  BY DEF Put, Marked, Placing
<1>2. d2[s][a] = d[s][a]
  BY DEF Put, Dirs, Names
<1> QED
  BY Zenon, <1>1, <1>2 DEF Put

LEMMA PlaceNewInv ==
    ASSUME IInv, PlaceNew
    PROVE  IInv' /\ Returns
<1>0. PICK s \in Systems : s = proc.os
  BY DEF PlaceNew, At, IInv, TypeOK, OsPcs, Proc
<1>1. /\ proc.pc = "place" /\ proc.rm = {} /\ root' = root
      /\ root # None /\ root \in Systems \X Names
      /\ proc \in Proc /\ dir \in Dirs /\ s \in proc.todo /\ proc.todo \in SUBSET Systems
      /\ \A t \in proc.todo \ {s} : dir[t]["os"] # None /\ ~is_root(t, "old")
      /\ IsWhole(dir[s]["new"]) /\ IsWhole(dir[s][Aside]) /\ dir[s]["os"] = None
      /\ Aside = "broken" => dir[s]["old"] = None
  BY <1>0 DEF PlaceNew, At, IInv, TypeOK, OsPcs, Proc, DirInv, ApplyInv, ApplyPcs
<1>2. PICK u \in Trees, t \in Trees, a \in {"old", "broken"}, k \in SUBSET Parts :
        /\ u = dir[s]["new"] /\ u.st = "solid"
        /\ a = Aside /\ t = dir[s][a] /\ t.st = "solid"
        /\ k = proc.shares /\ (a = "old" => "files" \notin k)
  <2>1. Aside \in {"old", "broken"} /\ Aside \in Names /\ "new" \in Names
    BY DEF Aside, Names
  <2>2. dir[s]["new"] \in Trees /\ dir[s][Aside] \in Trees
    BY <1>1, <2>1, DirType DEF IsWhole
  <2>3. proc.shares \in SUBSET Parts /\ (Aside = "old" => "files" \notin proc.shares)
    BY <1>1 DEF Aside, Proc
  <2> QED
    BY <1>1, <2>1, <2>2, <2>3 DEF IsWhole
<1>3. PICK w \in Trees : w = Marked(t, k) /\ w.st = "solid" /\ w.shares = k
  BY <1>2, MarkedIs
<1>4. dir' = Put(Put(Put(dir, s, "os", u), s, "new", None), s, a, w)
  <2>1. dir' = Placing(dir, s, u, a, k)
    BY <1>0, <1>2 DEF PlaceNew, Placing
  <2>2. dir' = Put(Put(Put(dir, s, "os", u), s, "new", None), s, a, Marked(dir[s][a], k))
    BY <1>1, <1>2, <2>1, PlacedIs DEF Names
  <2> QED
    BY <1>2, <1>3, <2>2
<1>5. /\ dir' \in Dirs
      /\ \A r \in Systems, n \in Names :
           dir'[r][n] = IF r # s THEN dir[r][n]
                        ELSE IF n = "os" THEN u
                        ELSE IF n = "new" THEN None
                        ELSE IF n = a THEN w ELSE dir[r][n]
  <2>1. dir \in Dirs /\ a \in Names \ {"os", "new"}
    BY <1>1, <1>2 DEF Names
  <2>2. dir' \in Dirs
    BY <1>4, <2>1, Put3Is
  <2>3. \A r \in Systems, n \in Names :
          dir'[r][n] = IF r # s THEN dir[r][n]
                       ELSE IF n = "os" THEN u
                       ELSE IF n = "new" THEN None
                       ELSE IF n = a THEN w ELSE dir[r][n]
    BY <1>4, <2>1, Put3Is
  <2> QED
    BY <2>2, <2>3
<1>6. /\ proc' \in Proc /\ proc'.pc = "placed" /\ proc'.todo = proc.todo /\ proc'.rm = {}
      /\ proc'.os = s
  BY <1>0, <1>1 DEF PlaceNew, Proc, Pcs
<1>7. TypeOK' /\ RmInv' /\ RollbackInv'
  BY <1>1, <1>5, <1>6 DEF TypeOK, RmInv, RollbackInv
<1>8. ApplyInv'
  <2>1. ASSUME NEW r \in proc.todo PROVE dir'[r]["os"] # None /\ (is_root(r, "old")' => r = s)
    BY <1>1, <1>2, <1>5 DEF is_root, Names
  <2> QED
    BY <1>6, <2>1 DEF ApplyInv
<1>9. ASSUME NEW r \in Systems
      PROVE  /\ dir'[r]["os"] # None => dir'[r]["os"].st = "solid"
             /\ KeptInv(r)' /\ ~is_root(r, "new")'
  <2>1. /\ dir[r]["os"] # None => dir[r]["os"].st = "solid"
        /\ KeptInv(r) /\ ~is_root(r, "new")
    BY DEF IInv, DirInv
  <2>2. ~is_root(r, "new")'
    BY <1>1, <2>1 DEF is_root
  <2>3. CASE r # s
    <3>1. dir'[r]["os"] = dir[r]["os"] /\ dir'[r]["old"] = dir[r]["old"]
      BY <1>5, <2>3 DEF Names
    <3> QED
      BY <1>1, <2>1, <2>2, <3>1 DEF KeptInv
  <2>4. CASE r = s
    <3>1. dir'[r]["os"].st = "solid"
      BY <1>1, <1>2, <1>5, <2>4 DEF Names
    <3>2. dir'[r]["old"] = None \/ (dir'[r]["old"].st = "solid" /\ "files" \notin dir'[r]["old"].shares)
      <4>1. CASE a = "broken"
        BY <1>1, <1>2, <1>5, <2>4, <4>1 DEF Names
      <4>2. CASE a = "old"
        BY <1>1, <1>2, <1>3, <1>5, <2>4, <4>2 DEF Names
      <4> QED
        BY <1>2, <4>1, <4>2
    <3> QED
      BY <2>2, <3>1, <3>2 DEF KeptInv
  <2> QED
    BY <2>3, <2>4
<1>10. RunningStays'
  <2>1. IsWhole(dir[root[1]][root[2]]) /\ root[1] \in Systems /\ root[2] \in Names
        /\ (root[1] = s => root[2] # "os" /\ root[2] # "new")
    <3>1. IsWhole(dir[root[1]][root[2]]) /\ root[1] \in Systems /\ root[2] \in Names
      BY <1>1 DEF IInv, DirInv, RunningStays
    <3>2. root[1] = s => root[2] # "os"
      BY <1>1, <3>1 DEF IsWhole
    <3>3. root[1] = s => root[2] # "new"
      BY <1>1 DEF IInv, DirInv, is_root
    <3> QED
      BY <3>1, <3>2, <3>3
  <2>2. dir'[root[1]][root[2]] = dir[root[1]][root[2]] \/ dir'[root[1]][root[2]] = w
    BY <1>5, <2>1
  <2> QED
    BY <1>1, <1>3, <2>1, <2>2 DEF RunningStays, IsWhole
<1>11. Returns
  BY <1>0, <1>5, NamesAre DEF Returns
<1> QED
  BY <1>11, <1>1, <1>7, <1>8, <1>9, <1>10 DEF IInv, DirInv

\* The old system is put back and <os>.new, of this and every other system that
\* the run was making, is removed.
LEMMA PlaceFailsInv ==
    ASSUME IInv, PlaceFails
    PROVE  IInv' /\ Returns
<1>0. PICK s \in Systems, a \in {"old", "broken"} : s = proc.os /\ a = Aside
  BY DEF PlaceFails, At, IInv, TypeOK, OsPcs, Proc, Aside
<1>1. /\ dir \in Dirs /\ root # None /\ root \in Systems \X Names /\ proc.rm = {}
      /\ IsWhole(dir[s][a]) /\ dir[s]["os"] = None
      /\ a = "broken" => dir[s]["old"] = None
      /\ proc' = Idle
      /\ root' = IF root = <<s, a>> THEN <<s, "os">> ELSE root
  BY <1>0 DEF PlaceFails, At, IInv, TypeOK, DirInv, ApplyInv, is_root
<1>2. a \in Names /\ "os" \in Names /\ "old" \in Names /\ "new" \in Names /\ a # "os" /\ a # "new"
  BY DEF Names
<1>3. PICK v \in Trees : v = dir[s][a] /\ v.st = "solid"
  BY <1>1, <1>2, DirType DEF IsWhole
<1>4. PICK back \in Dirs :
        /\ \A t \in Systems, n \in Names :
             back[t][n] = IF t = s /\ n = a THEN None
                          ELSE IF t = s /\ n = "os" THEN v ELSE dir[t][n]
        /\ dir' = [t \in Systems |-> IF t \in Making THEN [back[t] EXCEPT !["new"] = None]
                                      ELSE back[t]]
  <2> DEFINE e == Put(Put(dir, s, "os", v), s, a, None)
             B == [dir EXCEPT ![proc.os]["os"] = dir[proc.os][Aside], ![proc.os][Aside] = None]
  <2>1. B = e
    BY <1>0, <1>3 DEF Put
  <2>2. dir' = [t \in Systems |-> IF t \in Making THEN [e[t] EXCEPT !["new"] = None] ELSE e[t]]
    <3>1. dir' = [t \in Systems |-> IF t \in Making THEN [B[t] EXCEPT !["new"] = None] ELSE B[t]]
      BY DEF PlaceFails
    <3> HIDE DEF B, e
    <3> QED
      BY <2>1, <3>1
  <2>3. e \in Dirs
    BY <1>1, <1>2, RenamedIs
  <2>4. \A t \in Systems, n \in Names :
          e[t][n] = IF t = s /\ n = a THEN None
                    ELSE IF t = s /\ n = "os" THEN v ELSE dir[t][n]
    BY <1>1, <1>2, RenamedIs
  <2> HIDE DEF e
  <2> QED
    BY Zenon, <2>2, <2>3, <2>4
<1>5. dir' \in Dirs
  BY Zenon, <1>4 DEF Dirs
<1>6. \A t \in Systems, n \in Names : n # "new" => dir'[t][n] = back[t][n]
  BY <1>4 DEF Dirs
<1>7. ASSUME NEW t \in Systems
      PROVE  /\ dir'[t]["os"] # None => dir'[t]["os"].st = "solid"
             /\ KeptInv(t)' /\ ~is_root(t, "new")'
  <2>1. /\ dir[t]["os"] # None => dir[t]["os"].st = "solid"
        /\ KeptInv(t) /\ ~is_root(t, "new")
    BY DEF IInv, DirInv
  <2>2. ~is_root(t, "new")'
    BY <1>1, <2>1 DEF is_root
  <2>3. CASE t # s
    <3>1. dir'[t]["os"] = dir[t]["os"] /\ dir'[t]["old"] = dir[t]["old"]
      BY <1>2, <1>4, <1>6, <2>3
    <3> QED
      BY <1>1, <2>1, <2>2, <3>1 DEF KeptInv
  <2>4. CASE t = s
    <3>1. dir'[t]["os"] = v /\ dir'[t]["old"] = None
      BY <1>1, <1>2, <1>4, <1>6, <2>4
    <3> QED
      BY <1>3, <2>2, <3>1 DEF KeptInv
  <2> QED
    BY <2>3, <2>4
<1>8. RunningStays' /\ root' # None /\ root' \in Systems \X Names
  <2>1. IsWhole(dir[root[1]][root[2]])
    BY <1>1 DEF IInv, DirInv, RunningStays
  <2>2. CASE root = <<s, a>>
    <3>1. root'[1] = s /\ root'[2] = "os" /\ root' \in Systems \X Names
      BY <1>1, <1>2, <2>2
    <3>2. dir'[s]["os"] = v
      BY <1>2, <1>4, <1>6
    <3> QED
      BY <1>3, <3>1, <3>2 DEF RunningStays, IsWhole
  <2>3. CASE root # <<s, a>>
    <3>1. root # <<s, "os">> /\ root[2] # "new"
      BY <1>1, <2>1 DEF IsWhole, IInv, DirInv, is_root
    <3>2. root' = root /\ dir'[root[1]][root[2]] = dir[root[1]][root[2]]
      BY <1>1, <1>4, <1>6, <2>3, <3>1
    <3> QED
      BY <1>1, <2>1, <3>2 DEF RunningStays, IsWhole
  <2> QED
    BY <2>2, <2>3
<1>9. Returns
  BY <1>0, <1>2, <1>4, <1>6 DEF Returns
<1> QED
  BY <1>9, <1>1, <1>5, <1>7, <1>8, IdleInv DEF DirInv

LEMMA PlacedInv ==
    ASSUME IInv, Placed
    PROVE  IInv'
<1>1. /\ proc.pc = "placed" /\ proc.rm = {} /\ root' = root /\ dir' = Synced(dir)
      /\ root # None /\ root \in Systems \X Names
      /\ proc \in Proc /\ dir \in Dirs /\ proc.todo \in SUBSET Systems
      /\ \A t \in proc.todo : dir[t]["os"] # None /\ (is_root(t, "old") => t = proc.os)
  BY DEF Placed, At, IInv, TypeOK, Proc, DirInv, ApplyInv, ApplyPcs
<1>2. DirInv' /\ dir' \in Dirs
  BY <1>1, SyncDirs, SyncedIs
<1>3. /\ proc' \in Proc /\ proc'.pc = "next" /\ proc'.rm = {}
      /\ proc'.todo = proc.todo \ {proc.os}
  BY Zenon, <1>1 DEF Placed, Proc, Pcs
<1>4. \A t \in proc'.todo : dir'[t]["os"] # None /\ ~is_root(t, "old")'
  BY <1>1, <1>3, SyncedIs DEF is_root, Names
<1>5. TypeOK' /\ RmInv' /\ RollbackInv'
  BY <1>1, <1>2, <1>3 DEF TypeOK, RmInv, RollbackInv, OsPcs
<1>6. ApplyInv'
  BY <1>3, <1>4 DEF ApplyInv
<1> QED
  BY <1>2, <1>5, <1>6 DEF IInv

-----------------------------------------------------------------------------
(* rollback.                                                                *)
LEMMA BrokenIs ==
    ASSUME NEW s \in Systems
    PROVE  LET L == Leftover({"broken"}) \cap ({s} \X Names) IN
           /\ L \in SUBSET (Systems \X Names)
           /\ \A x \in L : x = <<s, "broken">> /\ dir[s]["broken"] # None /\ root # x
           /\ dir[s]["broken"] # None /\ root # <<s, "broken">> => <<s, "broken">> \in L
<1>1. {"broken"} \in SUBSET Names
  BY DEF Names
<1>2. \A x \in {s} \X Names : x = <<x[1], x[2]>> /\ x[1] = s
  OBVIOUS
<1> QED
  BY <1>1, <1>2, LeftoverIs

LEMMA RbNextInv ==
    ASSUME IInv, RbNext
    PROVE  IInv'
<1>1. /\ proc.pc = "rb" /\ proc.rm = {} /\ root' = root /\ dir' = Synced(dir)
      /\ root # None /\ root \in Systems \X Names
      /\ proc \in Proc /\ dir \in Dirs /\ proc.todo \in SUBSET Systems
      /\ \A t \in proc.todo : dir[t]["old"] # None
  BY DEF RbNext, At, IInv, TypeOK, Proc, DirInv, RollbackInv
<1>2. DirInv' /\ dir' \in Dirs
  BY <1>1, SyncDirs, SyncedIs
<1>3. PICK s, L :
        /\ s \in proc.todo /\ L = Leftover({"broken"}) \cap ({s} \X Names)
        /\ proc' = [proc EXCEPT !.pc = "rbaside", !.os = s, !.rm = L]
  BY Zenon DEF RbNext
<1>4. /\ s \in Systems /\ L \in SUBSET (Systems \X Names)
      /\ \A x \in L : x = <<s, "broken">> /\ dir[s]["broken"] # None /\ root # x
      /\ dir[s]["broken"] # None /\ root # <<s, "broken">> => <<s, "broken">> \in L
  <2>1. s \in Systems
    BY <1>1, <1>3
  <2> QED
    BY <1>3, <2>1, BrokenIs
<1>5. /\ proc' \in Proc /\ proc'.pc = "rbaside" /\ proc'.rm = L /\ proc'.os = s
      /\ proc'.todo = proc.todo
  BY Zenon, <1>1, <1>3, <1>4 DEF Proc, Pcs
<1>6. \A t \in Systems : /\ (dir'[t]["old"] = None) = (dir[t]["old"] = None)
                         /\ (dir'[t]["broken"] = None) = (dir[t]["broken"] = None)
  BY <1>1, SyncedIs DEF Names
<1>7. TypeOK' /\ ApplyInv'
  <2>1. proc'.os \in proc'.todo
    BY <1>3, <1>5
  <2> QED
    BY <1>1, <1>2, <1>5, <2>1 DEF TypeOK, ApplyInv, ApplyPcs
<1>8. RmInv'
  BY <1>1, <1>4, <1>5, <1>6 DEF RmInv, RmNames
<1>9. RollbackInv'
  BY <1>1, <1>4, <1>5, <1>6 DEF RollbackInv, is_root
<1> QED
  BY <1>2, <1>7, <1>8, <1>9 DEF IInv

LEMMA RbDoneInv ==
    ASSUME IInv, RbDone
    PROVE  IInv'
<1>1. /\ proc.pc = "rbdone" /\ proc.rm = {} /\ root' = root /\ dir' = Synced(dir)
      /\ root # None /\ root \in Systems \X Names
      /\ proc \in Proc /\ dir \in Dirs /\ proc.todo \in SUBSET Systems
      /\ \A t \in proc.todo : dir[t]["old"] # None \/ t = proc.os
  BY DEF RbDone, At, IInv, TypeOK, Proc, DirInv, RollbackInv
<1>2. DirInv' /\ dir' \in Dirs
  BY <1>1, SyncDirs, SyncedIs
<1>3. /\ proc' \in Proc /\ proc'.pc = "rb" /\ proc'.rm = {}
      /\ proc'.todo = proc.todo \ {proc.os}
  BY Zenon, <1>1 DEF RbDone, Proc, Pcs
<1>4. \A t \in proc'.todo : dir'[t]["old"] # None
  BY <1>1, <1>3, SyncedIs DEF Names
<1>5. TypeOK' /\ RmInv' /\ ApplyInv'
  BY <1>1, <1>2, <1>3 DEF TypeOK, RmInv, ApplyInv, ApplyPcs, OsPcs
<1>6. RollbackInv'
  BY <1>3, <1>4 DEF RollbackInv
<1> QED
  BY <1>2, <1>5, <1>6 DEF IInv

\* The running system is aside under its new name, or the current one is in it.
LEMMA RbAsideInv ==
    ASSUME IInv, RbAside
    PROVE  IInv' /\ Leaves
<1>0. PICK s \in Systems : s = proc.os
  BY DEF RbAside, At, IInv, TypeOK, OsPcs, Proc
<1>1. /\ proc.pc = "rbaside" /\ proc.rm = {}
      /\ root # None /\ root \in Systems \X Names /\ IsWhole(dir[root[1]][root[2]])
      /\ proc \in Proc /\ dir \in Dirs /\ s \in proc.todo /\ proc.todo \in SUBSET Systems
      /\ \A t \in proc.todo : dir[t]["old"] # None
      /\ dir[s]["os"] # None
      /\ dir[s]["broken"] = None \/ root = <<s, "broken">>
  BY <1>0 DEF RbAside, At, IInv, TypeOK, OsPcs, Proc, DirInv, RollbackInv, RunningStays, is_root
<1>2. /\ proc' \in Proc /\ proc'.pc = "rbplace" /\ proc'.todo = proc.todo /\ proc'.rm = {}
      /\ proc'.os = s
  BY <1>0, <1>1 DEF RbAside, Proc, Pcs
<1>3. \A t \in Systems : /\ dir[t]["os"] # None => dir[t]["os"].st = "solid"
                         /\ KeptInv(t) /\ ~is_root(t, "new")
  BY DEF IInv, DirInv
\* Where the trees are: <os> is gone from its place, <os>.broken is complete.
<1>4. /\ dir' \in Dirs /\ dir'[s]["os"] = None /\ IsWhole(dir'[s]["broken"])
      /\ \A t \in Systems : /\ t # s => dir'[t]["os"] = dir[t]["os"]
                            /\ dir'[t]["old"] = dir[t]["old"]
      /\ root' \in Systems \X Names /\ root' # None /\ \A t \in Systems : root' # <<t, "new">>
      /\ IsWhole(dir'[root'[1]][root'[2]])
  <2>0. "os" \in Names /\ "broken" \in Names /\ "old" \in Names
    BY DEF Names
  <2>1. CASE dir[s]["broken"] = None /\ Move(s, "os", "broken")
    <3>1. TypeOK
      BY DEF IInv
    <3>2. /\ dir' \in Dirs
          /\ \A t \in Systems, n \in Names :
               dir'[t][n] = IF t = s /\ n = "os" THEN None
                            ELSE IF t = s /\ n = "broken" THEN dir[s]["os"] ELSE dir[t][n]
          /\ root' = IF root = <<s, "os">> THEN <<s, "broken">> ELSE root
      BY <2>0, <2>1, <3>1, MoveIs
    <3>3. /\ dir'[s]["os"] = None /\ dir'[s]["broken"] = dir[s]["os"]
          /\ \A t \in Systems : /\ t # s => dir'[t]["os"] = dir[t]["os"]
                                /\ dir'[t]["old"] = dir[t]["old"]
      BY <2>0, <3>2
    <3>4. IsWhole(dir'[s]["broken"])
      BY <1>1, <1>3, <3>3 DEF IsWhole
    <3>5. CASE root = <<s, "os">>
      <4>1. root'[1] = s /\ root'[2] = "broken" /\ root' \in Systems \X Names
        BY <2>0, <3>2, <3>5
      <4> QED
        BY <3>2, <3>3, <3>4, <4>1
    <3>6. CASE root # <<s, "os">>
      <4>1. root # <<s, "broken">>
        BY <1>1, <2>1 DEF IsWhole
      <4>2. root' = root /\ dir'[root[1]][root[2]] = dir[root[1]][root[2]]
        BY <1>1, <3>2, <3>6, <4>1
      <4>3. IsWhole(dir'[root[1]][root[2]])
        BY <1>1, <4>2 DEF IsWhole
      <4> QED
        BY <1>1, <1>3, <3>2, <3>3, <3>4, <4>2, <4>3 DEF is_root
    <3> QED
      BY <3>5, <3>6
  <2>2. CASE /\ dir[s]["broken"] # None
             /\ dir' = [dir EXCEPT ![s]["os"] = None, ![s]["broken"].in = TRUE]
             /\ root' = root
    <3>1. root = <<s, "broken">> /\ root[1] = s /\ root[2] = "broken"
      BY <1>1, <2>2
    <3>2. PICK t \in Trees : t = dir[s]["broken"] /\ t.st = "solid"
      BY <1>1, <2>0, <3>1, DirType DEF IsWhole
    <3>3. PICK w \in Trees : w = [t EXCEPT !.in = TRUE] /\ w.st = "solid"
      <4>1. [t EXCEPT !.in = TRUE].st = "solid"
        BY <3>2 DEF Trees
      <4>2. [t EXCEPT !.in = TRUE] \in Trees
        BY Zenon DEF Trees
      <4> QED
        BY <4>1, <4>2, Zenon
    <3>4. dir' = Put(Put(dir, s, "os", None), s, "broken", w)
      <4>1. dir' = [dir EXCEPT ![s]["os"] = None, ![s]["broken"] = [dir[s]["broken"] EXCEPT !.in = TRUE]]
        BY <1>1, <2>0, <2>2 DEF Dirs
      <4> QED
        BY <3>2, <3>3, <4>1 DEF Put
    <3>5. PICK d1 \in Dirs : /\ d1 = Put(dir, s, "os", None)
                             /\ \A r \in Systems, m \in Names :
                                  d1[r][m] = IF r = s /\ m = "os" THEN None ELSE dir[r][m]
      BY <1>1, <2>0, PutIs
    <3>6. dir' = Put(d1, s, "broken", w)
      BY <3>4, <3>5
    <3>7. dir' \in Dirs /\ \A r \in Systems, m \in Names :
            dir'[r][m] = IF r = s /\ m = "broken" THEN w ELSE d1[r][m]
      <4>1. w \in Trees \cup {None}
        OBVIOUS
      <4>2. Put(d1, s, "broken", w) \in Dirs /\ \A r \in Systems, m \in Names :
              Put(d1, s, "broken", w)[r][m] = IF r = s /\ m = "broken" THEN w ELSE d1[r][m]
        BY <2>0, <4>1 DEF Put, Dirs
      <4> QED
        BY <3>6, <4>2
    <3>8. /\ dir'[s]["os"] = None /\ dir'[s]["broken"] = w
          /\ \A r \in Systems : /\ r # s => dir'[r]["os"] = dir[r]["os"]
                                /\ dir'[r]["old"] = dir[r]["old"]
      BY <2>0, <3>5, <3>7
    <3>9. IsWhole(dir'[s]["broken"])
      BY Zenon, <3>3, <3>8 DEF IsWhole
    <3> QED
      BY Zenon, <1>1, <2>2, <3>1, <3>7, <3>8, <3>9
  <2> QED
    BY <1>0, <2>1, <2>2 DEF RbAside
<1>5. TypeOK' /\ RmInv' /\ ApplyInv'
  BY <1>1, <1>2, <1>4 DEF TypeOK, RmInv, ApplyInv, ApplyPcs
<1>6. RollbackInv'
  <2>1. "files" \notin dir'[s]["old"].shares
    BY <1>1, <1>3, <1>4 DEF KeptInv
  <2>2. \A t \in proc'.todo : dir'[t]["old"] # None
    BY <1>1, <1>2, <1>4
  <2> QED
    BY <1>2, <1>4, <2>1, <2>2 DEF RollbackInv, IsWhole
<1>7. DirInv'
  <2>1. ASSUME NEW t \in Systems
        PROVE  /\ dir'[t]["os"] # None => dir'[t]["os"].st = "solid"
               /\ KeptInv(t)' /\ ~is_root(t, "new")'
    <3>1. dir'[t]["os"] = None \/ dir'[t]["os"] = dir[t]["os"]
      BY <1>4
    <3>2. KeptInv(t)'
      BY <1>1, <1>3, <1>4, <3>1 DEF KeptInv
    <3> QED
      BY <1>3, <1>4, <3>1, <3>2 DEF is_root
  <2> QED
    BY <1>4, <2>1 DEF DirInv, RunningStays, IsWhole
<1>8. Leaves
  BY <1>0, <1>2, <1>4 DEF Leaves
<1> QED
  BY <1>8, <1>5, <1>6, <1>7 DEF IInv

\* The system that ran before comes back in its place.
LEMMA RbPlaceInv ==
    ASSUME IInv, RbPlace
    PROVE  IInv' /\ Returns
<1>0. PICK s \in Systems : s = proc.os
  BY DEF RbPlace, At, IInv, TypeOK, OsPcs, Proc
<1>1. /\ proc.pc = "rbplace" /\ proc.rm = {} /\ Move(s, "old", "os")
      /\ root # None /\ root \in Systems \X Names /\ IsWhole(dir[root[1]][root[2]])
      /\ proc \in Proc /\ dir \in Dirs /\ s \in proc.todo /\ proc.todo \in SUBSET Systems
      /\ \A t \in proc.todo : dir[t]["old"] # None
      /\ dir[s]["os"] = None /\ IsWhole(dir[s]["broken"])
  BY <1>0 DEF RbPlace, At, IInv, TypeOK, OsPcs, Proc, DirInv, RollbackInv, RunningStays
<1>2. PICK L : /\ L = Leftover({"broken"}) \cap ({s} \X Names)
               /\ proc' = [proc EXCEPT !.pc = "rbdone", !.rm = L]
  BY Zenon, <1>0 DEF RbPlace
<1>3. /\ L \in SUBSET (Systems \X Names)
      /\ \A x \in L : x = <<s, "broken">> /\ dir[s]["broken"] # None /\ root # x
  BY Zenon, <1>2, BrokenIs
<1>4. /\ proc' \in Proc /\ proc'.pc = "rbdone" /\ proc'.todo = proc.todo /\ proc'.rm = L
      /\ proc'.os = s
  BY Zenon, <1>0, <1>1, <1>2, <1>3 DEF Proc, Pcs
<1>5. "os" \in Names /\ "broken" \in Names /\ "old" \in Names
  BY DEF Names
<1>6. /\ dir' \in Dirs
      /\ \A t \in Systems, n \in Names :
           dir'[t][n] = IF t = s /\ n = "old" THEN None
                        ELSE IF t = s /\ n = "os" THEN dir[s]["old"] ELSE dir[t][n]
      /\ root' = IF root = <<s, "old">> THEN <<s, "os">> ELSE root
  <2>1. TypeOK
    BY DEF IInv
  <2> QED
    BY <1>1, <1>5, <2>1, MoveIs
<1>7. /\ dir'[s]["old"] = None /\ dir'[s]["os"] = dir[s]["old"]
      /\ dir'[s]["broken"] = dir[s]["broken"]
      /\ \A t \in Systems : t # s => dir'[t]["os"] = dir[t]["os"] /\ dir'[t]["old"] = dir[t]["old"]
  BY <1>5, <1>6
<1>8. \A t \in Systems : /\ dir[t]["os"] # None => dir[t]["os"].st = "solid"
                         /\ KeptInv(t) /\ ~is_root(t, "new")
  BY DEF IInv, DirInv
<1>9. dir[s]["old"].st = "solid"
  BY <1>1, <1>8 DEF KeptInv
<1>10. /\ root' \in Systems \X Names /\ root' # None /\ \A t \in Systems : root' # <<t, "new">>
       /\ IsWhole(dir'[root'[1]][root'[2]])
  <2>1. CASE root = <<s, "old">>
    <3>1. root'[1] = s /\ root'[2] = "os" /\ root' \in Systems \X Names /\ root' = <<s, "os">>
      BY <1>5, <1>6, <2>1
    <3>2. IsWhole(dir'[s]["os"])
      BY <1>1, <1>7, <1>9 DEF IsWhole
    <3> QED
      BY <3>1, <3>2
  <2>2. CASE root # <<s, "old">>
    <3>1. root # <<s, "os">>
      BY <1>1 DEF IsWhole
    <3>2. root' = root /\ dir'[root[1]][root[2]] = dir[root[1]][root[2]]
      BY <1>1, <1>6, <2>2, <3>1
    <3>3. IsWhole(dir'[root[1]][root[2]])
      BY <1>1, <3>2 DEF IsWhole
    <3> QED
      BY <1>1, <1>8, <3>2, <3>3 DEF is_root
  <2> QED
    BY <2>1, <2>2
<1>11. RmInv'
  <2>1. \A x \in L : root' # x
    BY <1>3, <1>6
  <2>2. \A x \in L : x = <<s, "broken">> /\ dir'[s]["broken"] # None
    BY <1>3, <1>7
  <2> QED
    BY <1>4, <2>1, <2>2 DEF RmInv, RmNames
<1>12. TypeOK' /\ ApplyInv'
  BY <1>1, <1>4, <1>6, <1>10 DEF TypeOK, ApplyInv, ApplyPcs
<1>13. RollbackInv'
  <2>1. \A t \in proc'.todo : dir'[t]["old"] # None \/ t = s
    BY <1>1, <1>4, <1>7
  <2> QED
    BY <1>4, <2>1 DEF RollbackInv
<1>14. DirInv'
  <2>1. ASSUME NEW t \in Systems
        PROVE  /\ dir'[t]["os"] # None => dir'[t]["os"].st = "solid"
               /\ KeptInv(t)' /\ ~is_root(t, "new")'
    <3>1. CASE t = s
      BY <1>7, <1>9, <1>10, <3>1 DEF KeptInv, is_root
    <3>2. CASE t # s
      <4>1. KeptInv(t)'
        <5>1. <<t, "old">> \notin proc'.rm
          BY <1>3, <1>4
        <5> QED
          BY <1>1, <1>4, <1>7, <1>8, <3>2, <5>1 DEF KeptInv
      <4> QED
        BY <1>7, <1>8, <1>10, <3>2, <4>1 DEF is_root
    <3> QED
      BY <3>1, <3>2
  <2> QED
    BY <1>10, <2>1 DEF DirInv, RunningStays, IsWhole
<1>15. Returns
  BY <1>0, <1>1, <1>7 DEF Returns
<1> QED
  BY <1>15, <1>11, <1>12, <1>13, <1>14 DEF IInv

\* It does not: the system put aside goes back where it was.
LEMMA RbPlaceFailsInv ==
    ASSUME IInv, RbPlaceFails
    PROVE  IInv' /\ Returns
<1>0. PICK s \in Systems : s = proc.os
  BY DEF RbPlaceFails, At, IInv, TypeOK, OsPcs, Proc
<1>1. /\ proc.pc = "rbplace" /\ proc.rm = {} /\ Move(s, "broken", "os") /\ proc' = Idle
      /\ root # None /\ root \in Systems \X Names /\ IsWhole(dir[root[1]][root[2]])
      /\ dir \in Dirs /\ s \in proc.todo /\ proc.todo \in SUBSET Systems
      /\ dir[s]["old"] # None /\ "files" \notin dir[s]["old"].shares
      /\ dir[s]["os"] = None /\ IsWhole(dir[s]["broken"])
  BY <1>0 DEF RbPlaceFails, At, IInv, TypeOK, OsPcs, Proc, DirInv, RollbackInv, RunningStays
<1>2. "os" \in Names /\ "broken" \in Names /\ "old" \in Names
  BY DEF Names
<1>3. /\ dir' \in Dirs
      /\ \A t \in Systems, n \in Names :
           dir'[t][n] = IF t = s /\ n = "broken" THEN None
                        ELSE IF t = s /\ n = "os" THEN dir[s]["broken"] ELSE dir[t][n]
      /\ root' = IF root = <<s, "broken">> THEN <<s, "os">> ELSE root
  <2>1. TypeOK
    BY DEF IInv
  <2> QED
    BY <1>1, <1>2, <2>1, MoveIs
<1>4. /\ dir'[s]["os"] = dir[s]["broken"]
      /\ \A t \in Systems : /\ t # s => dir'[t]["os"] = dir[t]["os"]
                            /\ dir'[t]["old"] = dir[t]["old"]
  BY <1>2, <1>3
<1>5. \A t \in Systems : /\ dir[t]["os"] # None => dir[t]["os"].st = "solid"
                         /\ KeptInv(t) /\ ~is_root(t, "new")
  BY DEF IInv, DirInv
<1>6. /\ root' \in Systems \X Names /\ root' # None /\ \A t \in Systems : root' # <<t, "new">>
      /\ IsWhole(dir'[root'[1]][root'[2]])
  <2>1. CASE root = <<s, "broken">>
    <3>1. root'[1] = s /\ root'[2] = "os" /\ root' \in Systems \X Names /\ root' = <<s, "os">>
      BY <1>2, <1>3, <2>1
    <3>2. IsWhole(dir'[s]["os"])
      BY <1>1, <1>4 DEF IsWhole
    <3> QED
      BY <3>1, <3>2
  <2>2. CASE root # <<s, "broken">>
    <3>1. root # <<s, "os">>
      BY <1>1 DEF IsWhole
    <3>2. root' = root /\ dir'[root[1]][root[2]] = dir[root[1]][root[2]]
      BY <1>1, <1>3, <2>2, <3>1
    <3>3. IsWhole(dir'[root[1]][root[2]])
      BY <1>1, <3>2 DEF IsWhole
    <3> QED
      BY <1>1, <1>5, <3>2, <3>3 DEF is_root
  <2> QED
    BY <2>1, <2>2
<1>7. ASSUME NEW t \in Systems
      PROVE  /\ dir'[t]["os"] # None => dir'[t]["os"].st = "solid"
             /\ KeptInv(t)' /\ ~is_root(t, "new")'
  <2>0. proc'.rm = {} /\ proc'.pc = "idle"
    BY <1>1 DEF Idle
  <2>1. CASE t = s
    BY <1>1, <1>4, <1>5, <1>6, <2>0, <2>1 DEF KeptInv, is_root, IsWhole
  <2>2. CASE t # s
    <3>1. KeptInv(t)'
      BY <1>1, <1>4, <1>5, <2>0, <2>2 DEF KeptInv
    <3> QED
      BY <1>4, <1>5, <1>6, <2>2, <3>1 DEF is_root
  <2> QED
    BY <2>1, <2>2
<1>8. DirInv'
  BY <1>6, <1>7 DEF DirInv, RunningStays, IsWhole
<1>9. Returns
  BY <1>0, <1>1, <1>4 DEF Returns, IsWhole
<1> QED
  BY <1>9, <1>1, <1>3, <1>6, <1>8, IdleInv

-----------------------------------------------------------------------------
(* The three results.                                                       *)
LEMMA UpdateInit == Init => IInv /\ InPlace
<1> SUFFICES ASSUME Init PROVE IInv /\ InPlace
  OBVIOUS
<1>1. PICK r \in Systems : root = <<r, "os">>
  BY DEF Init
<1>2. TypeOK /\ proc.pc = "idle" /\ proc.rm = {}
  BY TypeInit, IdleType DEF Init
<1>3. Tree("solid") \in Trees /\ Tree("solid").st = "solid" /\ Tree("solid") # None
  BY Zenon, TreeType DEF Tree
<1>4. \A s \in Systems : /\ dir[s]["os"] = Tree("solid")
                         /\ \A n \in Names : n # "os" => dir[s][n] = None
  BY Zenon DEF Init, Names
<1>5. \A s \in Systems : /\ IsWhole(dir[s]["os"]) /\ dir[s]["old"] = None
  BY Zenon, <1>3, <1>4, NamesAre DEF IsWhole
<1>6. DirInv
  BY <1>1, <1>2, <1>5 DEF DirInv, KeptInv, RunningStays, is_root, IsWhole
<1>7. RmInv /\ ApplyInv /\ RollbackInv
  BY <1>2 DEF RmInv, ApplyInv, ApplyPcs, RollbackInv
<1>8. InPlace
  BY <1>5 DEF InPlace, IsWhole
<1> QED
  BY <1>2, <1>6, <1>7, <1>8 DEF IInv

LEMMA UpdateNext ==
    ASSUME "remove" \in Whole
    PROVE  IInv /\ [Next]_vars => IInv'
<1> SUFFICES ASSUME IInv, [Next]_vars PROVE IInv'
  OBVIOUS
<1>1. CASE UNCHANGED vars
  BY <1>1 DEF vars, IInv, TypeOK, RmInv, ApplyInv, RollbackInv, DirInv, KeptInv, RunningStays,
              is_root, Aside
<1>2. CASE Next
  BY Zenon, <1>2, StartInv, EndInv, FailInv, KillInv, CutInv, BootInv, RemoveInv, UnpackInv,
     SwitchInv, MoveAsideInv, PlaceNewInv, PlaceFailsInv, PlacedInv, RbNextInv, RbAsideInv,
     RbPlaceInv, RbPlaceFailsInv, RbDoneInv DEF Next
<1> QED
  BY <1>1, <1>2

\* A step outside the two windows that leaves every system in its place.
LEMMA StayInPlace ==
    ASSUME InPlace, proc.pc \notin {"place", "rbplace"},
           \A t \in Systems : dir[t]["os"] # None => dir'[t]["os"] # None
    PROVE  InPlace'
BY DEF InPlace

LEMMA InPlaceNext ==
    ASSUME "switch" \in Whole
    PROVE  IInv /\ InPlace /\ [Next]_vars => InPlace'
<1> SUFFICES ASSUME IInv, InPlace, [Next]_vars PROVE InPlace'
  OBVIOUS
<1>0. /\ TypeOK /\ dir \in Dirs /\ "os" \in Names /\ "new" # "os" /\ proc.pc \in Pcs
      /\ \A t \in Systems : dir[t]["os"] # None => dir[t]["os"].st = "solid"
  BY NamesAre DEF IInv, TypeOK, DirInv, Proc
<1>1. CASE UNCHANGED vars
  BY <1>1 DEF vars, InPlace
\* The steps that leave <os> where it is.
<1>2. ASSUME dir' = dir \/ dir' = Synced(dir), proc.pc \notin {"place", "rbplace"} PROVE InPlace'
  BY <1>0, <1>2, SyncedIs, StayInPlace
<1>3. CASE Apply \/ Rollback \/ Clean \/ Fetched \/ ApplyEnd \/ RbEnd
  BY Zenon, <1>2, <1>3 DEF Apply, Rollback, Clean, Fetched, ApplyEnd, RbEnd, At
<1>4. CASE Switch \/ Placed \/ RbNext \/ RbDone \/ CleanEnd
  BY Zenon, <1>2, <1>4 DEF Switch, Placed, RbNext, RbDone, CleanEnd, At
<1>5. CASE Boot
  BY <1>2, <1>5 DEF Boot, IInv, DirInv
<1>6. CASE Abort /\ proc.pc \notin {"place", "rbplace"}
  BY <1>0, <1>6, AbortIs, StayInPlace
<1>7. CASE FetchFails \/ UnpackFails \/ SwitchRefused \/ MoveAsideFails \/ RbAsideFails
  BY <1>6, <1>7 DEF FetchFails, UnpackFails, SwitchRefused, MoveAsideFails, RbAsideFails, At
<1>8. CASE Kill
  BY <1>6, <1>8 DEF Kill, InWindow
<1>9. CASE PowerCut
  <2>1. proc.pc \notin {"place", "rbplace"}
    BY <1>9 DEF PowerCut, InWindow
  <2>2. \A t \in Systems : dir[t]["os"] # None => dir'[t]["os"] = dir[t]["os"]
    BY <1>0, <1>9 DEF PowerCut
  <2> QED
    BY <2>1, <2>2, StayInPlace
<1>10. CASE Diff \/ ApplyOne
  <2>1. PICK s \in Systems : dir' = [dir EXCEPT ![s]["new"] = Tree("part")]
    BY Zenon, <1>0, <1>10 DEF Diff, ApplyOne, TypeOK, Proc
  <2>2. \A t \in Systems : dir'[t]["os"] = dir[t]["os"]
    BY <1>0, <2>1 DEF Dirs
  <2> QED
    BY Zenon, <1>10, <2>2, StayInPlace DEF Diff, ApplyOne, At
<1>11. CASE Unpacked
  <2>1. \A t \in Systems : dir'[t]["os"] = dir[t]["os"]
    BY <1>0, <1>11 DEF Unpacked, Dirs
  <2> QED
    BY <1>11, <2>1, StayInPlace DEF Unpacked, At
<1>12. CASE Remove
  <2>1. PICK x \in proc.rm : \/ dir' = [dir EXCEPT ![x[1]][x[2]].st = "part"]
                             \/ dir' = [dir EXCEPT ![x[1]][x[2]] = None]
    BY Zenon, <1>12 DEF Remove
  <2>2. x[2] \in RmNames(proc.pc)
    BY DEF IInv, RmInv
  <2>3. x[2] # "os" /\ proc.pc \notin {"place", "rbplace"}
    BY <2>2 DEF RmNames
  <2>4. \A t \in Systems : dir'[t]["os"] = dir[t]["os"]
    BY <1>0, <2>1, <2>3 DEF Dirs
  <2> QED
    BY <2>3, <2>4, StayInPlace
\* The two renames of a run.
<1>13. ASSUME Leaves, proc.pc \notin {"place", "rbplace"} PROVE InPlace'
  BY <1>13 DEF Leaves, InPlace
<1>14. CASE MoveAside \/ RbAside
  <2>1. Leaves
    BY <1>14, MoveAsideInv, RbAsideInv
  <2> QED
    BY <1>13, <1>14, <2>1 DEF MoveAside, RbAside, At
<1>15. CASE PlaceNew \/ PlaceFails \/ RbPlace \/ RbPlaceFails
  <2>1. Returns
    BY <1>15, PlaceNewInv, PlaceFailsInv, RbPlaceInv, RbPlaceFailsInv
  <2> QED
    BY <2>1 DEF Returns, InPlace
<1> QED
  BY Zenon, <1>1, <1>3, <1>4, <1>5, <1>7, <1>8, <1>9, <1>10, <1>11, <1>12, <1>14, <1>15 DEF Next

LEMMA StaysImplies == IInv /\ InPlace => SystemStays
<1> SUFFICES ASSUME IInv, InPlace, NEW s \in Systems, dir[s]["os"] = None
             PROVE  \/ proc.pc = "place" /\ proc.os = s /\ IsWhole(dir[s][Aside])
                    \/ proc.pc = "rbplace" /\ proc.os = s /\ IsWhole(dir[s]["broken"])
  BY Zenon DEF IInv, DirInv, SystemStays, IsWhole
<1>1. proc.pc \in {"place", "rbplace"} /\ proc.os = s
  BY DEF InPlace
<1>2. proc.pc = "place" => IsWhole(dir[s][Aside])
  BY <1>1 DEF IInv, ApplyInv
<1>3. proc.pc = "rbplace" => IsWhole(dir[s]["broken"])
  BY <1>1 DEF IInv, RollbackInv
<1> QED
  BY <1>1, <1>2, <1>3

LEMMA KeptImplies == IInv => KeptIsCopy
BY DEF IInv, DirInv, KeptInv, KeptIsCopy, IsWhole

\* The directory the device runs from is never removed or left in parts by
\* apply, rollback or clean, whatever it is called by then, for any number of
\* systems, failures, kills, power cuts and boots (is_root, mu300-update:419, 4018,
\* 4033, 4038, 4049).  A kill or a power cut in the middle of the rm of an
\* <os>.old is left out: what it leaves is a kept copy in parts, to which a
\* rollback goes back.
THEOREM Running_Stays ==
    ASSUME "remove" \in Whole
    PROVE  Spec => []RunningStays
<1>1. Init => IInv
  BY UpdateInit
<1>2. IInv /\ [Next]_vars => IInv'
  BY UpdateNext
<1>3. IInv => RunningStays
  BY DEF IInv, DirInv
<1> QED
  BY <1>1, <1>2, <1>3, PTL DEF Spec

\* What rollback offers is complete and on the disk, and the system that replaced
\* it has none of the user's files by second names, unless it is being removed,
\* under the same premise and for any number of systems (mu300-update:2216-2225).
THEOREM Kept_Is_Copy ==
    ASSUME "remove" \in Whole
    PROVE  Spec => []KeptIsCopy
<1>1. Init => IInv
  BY UpdateInit
<1>2. IInv /\ [Next]_vars => IInv'
  BY UpdateNext
<1> QED
  BY <1>1, <1>2, KeptImplies, PTL DEF Spec

\* Every system can be started at every moment: it is complete in its place, or
\* the run that replaces it is between its two renames and has it aside, when no
\* kill or power cut falls between those renames (mu300-update:2213-2229, 4033-4035).
THEOREM System_Stays ==
    ASSUME "remove" \in Whole, "switch" \in Whole
    PROVE  Spec => []SystemStays
<1>1. Init => IInv /\ InPlace
  BY UpdateInit
<1>2. (IInv /\ InPlace) /\ [Next]_vars => (IInv /\ InPlace)'
  BY UpdateNext, InPlaceNext
<1> QED
  BY <1>1, <1>2, StaysImplies, PTL DEF Spec
=============================================================================
