--------------------------- MODULE KernelStepProofs ---------------------------
(***************************************************************************)
(* Proofs about KernelStep for any systems, builds, releases and faults:   *)
(* type correctness, and that the image to go back to is on the disk while *)
(* the slot is half written.                                               *)
(***************************************************************************)
EXTENDS KernelStep, TLAPS

USE BuildsAssumption, RunsAssumption

ProcType ==
    [pc : Pcs, new : Builds \cup {None}, back : Pcs, then : Pcs, todo : SUBSET Systems,
     half : Systems \cup {None}, src : [Systems -> Sets], rel : Rels \cup {None}]

\* The places of the kernel step before the write of the slot.
Stepping == {"boot", "clean", "fetch", "giveup", "unpacked", "compare", "save", "pend",
             "drop", "commit", "body", "write"}
Stepped == {"boot", "clean"}

\* Where modules_settle and the putting of a set may return to.
Backs == Stepped \cup {"idle", "tidy", "sweep", "handover", "rollback-boot"}
Thens == {"idle", "settled", "same", "drop", "undo", "restored", "unrecord", "sweep"}

\* The kernel step has a build and a whole slot until it writes, whatever it
\* calls on the way.
Control ==
    /\ proc.back \in Backs /\ proc.then \in Thens
    /\ proc.back \in Stepped =>
         proc.pc \in {"settle", "settled"} \/ (proc.pc = "put" /\ proc.then = "settled")
    /\ proc.then # "idle" => proc.pc = "put"
    /\ proc.pc \in Stepping \/ proc.back \in Stepped \/ proc.then = "drop" =>
         proc.new \in Builds /\ slot # Torn
    /\ proc.pc = "writing" => proc.new \in Builds

\* A write of the slot has an image to put back.
WriteInv ==
    /\ proc.pc = "write" => fs.kept = slot
    /\ proc.pc \in {"writing", "rewriting"} => fs.kept \in Builds

\* With the window of the kept image whole, only a step about to write has a kept
\* image that a power cut would lose.
TornInv ==
    /\ slot = Torn => was \in Builds /\ disk.kept = was /\ fs.kept = was
    /\ proc.pc \in {"writing", "rewriting"} => slot = Torn
    /\ proc.pc # "write" => fs.kept \in {disk.kept, None}

\* TypeOK, taken apart, and what a power cut finds on the disk.
FilesOK ==
    /\ fs \in Files /\ disk \in Files /\ solid \in BOOLEAN /\ loose \subseteq Systems
    /\ fs.pending # None => HasMods(fs.pending)
    /\ disk.pending # None => HasMods(disk.pending)
DeviceOK ==
    /\ slot \in Builds \cup {Torn} /\ running \in Builds \cup {None} /\ was \in Builds \cup {None}
    /\ phase \in {"off", "ramdisk", "up"}

\* A device that is off runs nothing.
OffInv == phase = "off" => proc.pc = "idle"

\* The inductive invariant, with OffInv.
IInv ==
    /\ FilesOK /\ DeviceOK /\ proc \in ProcType
    /\ Control /\ WriteInv
    /\ "keep" \in Whole => TornInv

-----------------------------------------------------------------------------
(* What the steps' building blocks do to the process and to the files.     *)

\* The process goes on at pc with the same build.
Moves(pc, back, then) ==
    /\ proc' \in ProcType /\ proc'.pc = pc /\ proc'.new = proc.new
    /\ proc'.back = back /\ proc'.then = then

LEMMA IdleType ==
    /\ Idle \in ProcType /\ NoMods \in Mods
    /\ \A v \in Sets : EachSystem(v) \in [Systems -> Sets]
BY DEF Idle, NoMods, EachSystem, ProcType, Pcs, Mods, Sets

LEMMA ProcHas ==
    ASSUME IInv
    PROVE  /\ proc \in ProcType /\ proc.pc \in Pcs /\ proc.back \in Pcs /\ proc.then \in Pcs
           /\ proc.new \in Builds \cup {None} /\ proc.src \in [Systems -> Sets]
           /\ proc.half \in Systems \cup {None}
BY DEF IInv, ProcType

LEMMA GotoMoves ==
    ASSUME IInv, NEW pc \in Pcs, Goto(pc)
    PROVE  Moves(pc, proc.back, "idle")
BY Zenon, ProcHas, IdleType DEF Goto, Moves, ProcType, Idle

LEMMA SettleMoves ==
    ASSUME IInv, NEW back \in Pcs, Settle(back)
    PROVE  Moves("settle", back, "idle")
<1>1. "settle" \in Pcs
  BY DEF Pcs
<1> QED
  BY Zenon, <1>1, ProcHas, IdleType DEF Settle, Moves, ProcType, Idle

LEMMA ReturnMoves ==
    ASSUME IInv, NEW pc \in Pcs, Return(pc)
    PROVE  Moves(pc, "idle", "idle")
BY Zenon, ProcHas, IdleType DEF Return, Moves, ProcType, Idle

LEMMA PutMoves ==
    ASSUME IInv, NEW rel \in Rels \cup {None}, NEW src \in [Systems -> Sets],
           NEW then \in Pcs, Put(rel, src, then)
    PROVE  Moves("put", proc.back, then)
<1>1. "put" \in Pcs /\ (IF rel = None THEN {} ELSE Systems) \in SUBSET Systems
  BY DEF Pcs
<1> QED
  BY Zenon, <1>1, ProcHas DEF Put, Moves, ProcType

\* The files keep their types and the kept image, and modules.pending names a
\* kernel with modules.
Kept ==
    /\ fs' \in Files /\ fs'.kept = fs.kept
    /\ fs'.pending # None => HasMods(fs'.pending)

LEMMA FilesHave ==
    ASSUME IInv
    PROVE  /\ fs \in Files /\ fs.kept \in Builds \cup {None} /\ fs.pending \in Builds \cup {None}
           /\ fs.mods \in Mods /\ fs.newMods \in Mods /\ fs.stage \in Sets
           /\ fs.set \in [Systems -> [Rels -> Sets]]
           /\ fs.pending # None => HasMods(fs.pending)
BY DEF IInv, FilesOK, Files

LEMMA KeptSame ==
    ASSUME IInv, UNCHANGED fs
    PROVE  Kept
BY FilesHave DEF Kept

LEMMA KeptPending ==
    ASSUME IInv, NEW b \in Builds \cup {None}, b # None => HasMods(b),
           fs' = [fs EXCEPT !.pending = b]
    PROVE  Kept
BY FilesHave DEF Kept, Files

LEMMA KeptSets ==
    ASSUME IInv, NEW t \in [Systems -> [Rels -> Sets]], NEW m \in Mods, NEW v \in Sets,
           fs' = [fs EXCEPT !.stage = v, !.newMods = m, !.set = t]
    PROVE  Kept
BY Zenon, FilesHave DEF Kept, Files

LEMMA WithoutType ==
    ASSUME NEW t \in [Systems -> [Rels -> Sets]], NEW rels
    PROVE  Without(t, rels) \in [Systems -> [Rels -> Sets]]
BY DEF Without, Sets

-----------------------------------------------------------------------------
(* Steps that neither write the slot nor change the kept image.            *)

\* The files stay well typed and the kept image, seen or on the disk, is the same.
Calm ==
    /\ FilesOK' /\ fs'.kept = fs.kept /\ disk'.kept \in {disk.kept, fs.kept}
    /\ UNCHANGED <<slot, running, phase, was>>

\* Whether the disk is synced or not, a step that keeps the files is calm.
LEMMA CalmFiles ==
    ASSUME IInv, Kept, Sync \/ NoSync, UNCHANGED <<slot, running, phase, was>>
    PROVE  Calm
<1>1. FilesOK
  BY DEF IInv
<1>2. CASE Sync
  <2>1. disk' = fs' /\ loose' = {} /\ solid' \in BOOLEAN
    BY Zenon, <1>2 DEF Sync
  <2> QED
    BY <2>1 DEF Calm, Kept, FilesOK
<1>3. CASE NoSync
  <2>1. disk' = disk /\ loose' = loose /\ solid' = solid
    BY <1>3 DEF NoSync
  <2> QED
    BY <1>1, <2>1 DEF Calm, Kept, FilesOK
<1> QED
  BY <1>2, <1>3

LEMMA CalmStep ==
    ASSUME IInv, Kept, Sync \/ NoSync, UNCHANGED device
    PROVE  Calm
BY Zenon, CalmFiles DEF device

\* A calm step that leaves no write half done keeps the invariant.
LEMMA Quiet ==
    ASSUME IInv, Calm, proc' \in ProcType, Control',
           proc'.pc \notin {"write", "writing", "rewriting"},
           proc.pc = "write" => "keep" \notin Whole
    PROVE  IInv'
<1>1. DeviceOK' /\ WriteInv'
  BY DEF IInv, DeviceOK, WriteInv, Calm, device
<1>2. ASSUME "keep" \in Whole PROVE TornInv'
  BY <1>2 DEF IInv, TornInv, Calm, device
<1> QED
  BY <1>1, <1>2 DEF IInv, Calm

LEMMA QuietGoto ==
    ASSUME IInv, Calm, NEW pc \in Pcs, Goto(pc),
           pc \notin {"write", "writing", "rewriting"}, pc \in Stepping => proc.pc \in Stepping,
           proc.pc \notin {"settle", "settled", "write"},
           proc.pc = "put" => proc.then # "settled"
    PROVE  IInv'
<1>1. Moves(pc, proc.back, "idle")
  BY GotoMoves
<1>2. Control'
  BY <1>1 DEF IInv, Control, Moves, Calm, device, Thens
<1> QED
  BY <1>1, <1>2, Quiet DEF Moves

LEMMA QuietSettle ==
    ASSUME IInv, Calm, NEW back \in Backs, Settle(back),
           back \in Stepped => proc.pc \in Stepping,
           proc.pc = "write" => "keep" \notin Whole
    PROVE  IInv'
<1>1. Moves("settle", back, "idle")
  BY SettleMoves DEF Backs, Stepped, Pcs
<1>2. Control'
  BY <1>1 DEF IInv, Control, Moves, Calm, device, Thens, Stepping
<1> QED
  BY <1>1, <1>2, Quiet DEF Moves

LEMMA QuietReturn ==
    ASSUME IInv, Calm, NEW pc \in Backs \cup {"end"}, Return(pc),
           pc \in Stepped => proc.back \in Stepped, proc.pc # "write"
    PROVE  IInv'
<1>1. Moves(pc, "idle", "idle")
  BY ReturnMoves DEF Backs, Stepped, Pcs
<1>2. Control'
  BY <1>1 DEF IInv, Control, Moves, Calm, device, Backs, Thens, Stepped, Stepping
<1> QED
  BY <1>1, <1>2, Quiet DEF Moves, Backs, Stepped

LEMMA QuietPut ==
    ASSUME IInv, Calm, NEW rel \in Rels \cup {None}, NEW src \in [Systems -> Sets],
           NEW then \in Thens, Put(rel, src, then),
           then = "drop" => proc.pc \in Stepping,
           proc.pc \in {"settle", "settled", "put"} => then = "settled" \/ proc.then = "drop",
           proc.pc # "write"
    PROVE  IInv'
<1>1. Moves("put", proc.back, then)
  BY PutMoves DEF Thens, Pcs
<1>2. Control'
  BY <1>1 DEF IInv, Control, Moves, Calm, device, Stepping
<1> QED
  BY <1>1, <1>2, Quiet DEF Moves

LEMMA QuietIdle ==
    ASSUME IInv, Calm, proc' = Idle, proc.pc = "write" => "keep" \notin Whole
    PROVE  IInv'
<1>1. Control'
  BY DEF Control, Idle, Backs, Thens, Stepped, Stepping
<1> QED
  BY <1>1, IdleType, Quiet DEF Idle

-----------------------------------------------------------------------------
(* Each step keeps the invariant.                                          *)

\* A build that brings modules has a release of its own directory.
LEMMA HasRelease ==
    ASSUME NEW b \in Builds, HasMods(b)
    PROVE  Release[b] \in Rels
BY DEF HasMods, Rels

\* A set changed in one place is a set.
LEMMA PlaceType ==
    ASSUME IInv, NEW o \in Systems, NEW r, NEW v \in Sets,
           fs' = [fs EXCEPT !.set[o][r] = v]
    PROVE  Kept
<1>1. [fs.set EXCEPT ![o][r] = v] \in [Systems -> [Rels -> Sets]]
  BY Zenon, FilesHave
<1>2. fs' = [fs EXCEPT !.set = [fs.set EXCEPT ![o][r] = v]]
  BY FilesHave DEF Files
<1> QED
  BY Zenon, <1>1, <1>2, FilesHave DEF Kept, Files

\* Putting a set into the systems (kernel_modules_into_systems and its kin).
LEMMA PutSteps ==
    ASSUME IInv, PutClear \/ PutLink \/ PutDone \/ PutFails \/ RestoreFails
    PROVE  IInv'
<1>0. /\ proc.pc = "put" /\ proc \in ProcType /\ Control
      /\ proc.back \in Backs /\ proc.then \in Thens
  BY Zenon DEF PutClear, PutLink, PutDone, PutFails, RestoreFails, At, IInv, Control
<1>1. ASSUME proc' \in ProcType, proc'.pc = proc.pc, proc'.new = proc.new,
             proc'.back = proc.back, proc'.then = proc.then, Calm
      PROVE  IInv'
  <2>1. Control'
    BY <1>0, <1>1 DEF Control, Calm, device
  <2> QED
    BY <1>0, <1>1, <2>1, Quiet
<1>2. CASE PutClear
  <2>1. PICK o \in proc.todo : /\ fs' = [fs EXCEPT !.set[o][proc.rel] = Part]
                               /\ proc' = [proc EXCEPT !.half = o]
    BY Zenon, <1>2 DEF PutClear
  <2>2. o \in Systems
    BY <1>0, <2>1 DEF ProcType
  <2>3. Kept
    BY Zenon, <2>1, <2>2, PlaceType DEF Sets
  <2>4. Calm
    BY <1>2, <2>3, CalmStep DEF PutClear
  <2> QED
    BY <1>0, <1>1, <2>1, <2>2, <2>4 DEF ProcType
<1>3. CASE PutLink
  <2>1. proc.half \in Systems /\ proc.src[proc.half] \in Sets
    BY <1>3, ProcHas DEF PutLink
  <2>2. Kept
    BY Zenon, <1>3, <2>1, PlaceType DEF PutLink
  <2>3. loose' \subseteq Systems /\ UNCHANGED <<disk, solid, device>>
    BY <1>3, <2>1 DEF PutLink, IInv, FilesOK
  <2>4. Calm
    BY <2>2, <2>3 DEF IInv, FilesOK, Kept, Calm, device
  <2>5. proc' = [proc EXCEPT !.half = None, !.todo = @ \ {proc.half}]
    BY <1>3 DEF PutLink
  <2> QED
    BY Zenon, <1>0, <1>1, <2>4, <2>5 DEF ProcType
<1>4. CASE PutDone
  <2>1. Calm
    BY <1>4, KeptSame, CalmStep DEF PutDone
  <2>2. Moves(proc.then, proc.back, "idle")
    BY Zenon, <1>4, ProcHas, IdleType DEF PutDone, Moves, ProcType, Idle
  <2>3. Control'
    BY <1>0, <2>1, <2>2 DEF Control, Moves, Calm, device, Thens, Stepping
  <2> QED
    BY <1>0, <2>1, <2>2, <2>3, Quiet DEF Moves, Thens
<1>5. CASE PutFails
  <2>1. Calm
    BY <1>5, KeptSame, CalmStep DEF PutFails
  <2>2. CASE proc.then = "drop"
    <3>1. Put(fs.newMods.rel, fs.newMods.set, "undo")
      BY <1>5, <2>2 DEF PutFails
    <3>2. fs.newMods.rel \in Rels \cup {None} /\ fs.newMods.set \in [Systems -> Sets]
      BY FilesHave DEF Mods
    <3> QED
      BY <1>0, <2>1, <2>2, <3>1, <3>2, QuietPut DEF Thens
  <2>3. CASE proc.then = "same"
    <3>1. Goto("end")
      BY <1>5, <2>3 DEF PutFails
    <3> QED
      BY <1>0, <2>1, <2>3, <3>1, QuietGoto DEF Pcs, Stepping
  <2>4. CASE proc.then = "settled"
    <3>1. Return(Unsettled)
      BY <1>5, <2>4 DEF PutFails
    <3>2. Unsettled \in Backs \cup {"end"} /\ (Unsettled \in Stepped => proc.back \in Stepped)
      BY <1>0 DEF Unsettled, Stepped
    <3> QED
      BY <1>0, <2>1, <3>1, <3>2, QuietReturn
  <2> QED
    BY <1>5, <2>2, <2>3, <2>4 DEF PutFails
<1>6. CASE RestoreFails
  <2>1. Calm
    <3>1. NoSync /\ UNCHANGED fs /\ UNCHANGED <<slot, running, phase, was>>
      BY <1>6 DEF RestoreFails
    <3> QED
      BY <3>1, KeptSame, CalmFiles
  <2>2. CASE proc.then = "restored"
    <3>1. Goto("end")
      BY <1>6, <2>2 DEF RestoreFails
    <3> QED
      BY <1>0, <2>1, <2>2, <3>1, QuietGoto DEF Pcs, Stepping
  <2>3. CASE proc.then = "unrecord"
    <3>1. Settle("sweep")
      BY <1>6, <2>3 DEF RestoreFails
    <3> QED
      BY <1>0, <2>1, <3>1, QuietSettle DEF Backs, Stepped
  <2>4. CASE proc.then \in {"undo", "sweep"}
    <3>1. Goto(proc.then)
      BY <1>6, <2>4 DEF RestoreFails
    <3> QED
      BY <1>0, <2>1, <2>4, <3>1, QuietGoto DEF Pcs, Stepping
  <2> QED
    BY <1>6, <2>2, <2>3, <2>4 DEF RestoreFails
<1> QED
  BY <1>2, <1>3, <1>4, <1>5, <1>6

\* modules_settle, by the updater or the ramdisk.
LEMMA SettleSteps ==
    ASSUME IInv, SettleNothing \/ SettleNew \/ SettleKept \/ Settled
    PROVE  IInv'
<1>0. proc.pc \in {"settle", "settled"} /\ proc.back \in Backs
  BY Zenon DEF SettleNothing, SettleNew, SettleKept, Settled, At, IInv, Control
<1>1. ASSUME fs.pending # None PROVE Release[fs.pending] \in Rels \cup {None}
  BY <1>1, FilesHave, HasRelease
<1>2. ASSUME fs' = [fs EXCEPT !.pending = None] PROVE Kept
  BY <1>2, KeptPending
<1>3. CASE SettleNothing
  <2>1. Calm
    BY <1>3, KeptSame, CalmStep DEF SettleNothing
  <2> QED
    BY <1>0, <1>3, <2>1, QuietReturn DEF SettleNothing
<1>4. CASE SettleNew /\ fs.stage # None
  <2>1. /\ Put(Release[fs.pending], EachSystem(fs.stage), "settled")
        /\ NoSync /\ UNCHANGED fs /\ UNCHANGED device /\ fs.pending # None
    BY <1>4 DEF SettleNew
  <2>2. Calm
    BY <2>1, KeptSame, CalmStep
  <2>3. EachSystem(fs.stage) \in [Systems -> Sets]
    BY FilesHave, IdleType
  <2> QED
    BY <1>0, <1>1, <2>1, <2>2, <2>3, QuietPut DEF Thens
<1>5. CASE SettleNew /\ fs.stage = None
  <2>1. /\ fs' = [fs EXCEPT !.pending = None] /\ Sync /\ Return(Unsettled)
        /\ UNCHANGED device
    BY <1>5 DEF SettleNew
  <2>2. Calm
    BY <1>2, <2>1, CalmStep
  <2>3. Unsettled \in Backs \cup {"end"} /\ (Unsettled \in Stepped => proc.back \in Stepped)
    BY <1>0 DEF Unsettled, Stepped
  <2> QED
    BY <1>0, <2>1, <2>2, <2>3, QuietReturn
<1>6. CASE SettleKept
  <2>1. /\ Put(Release[fs.pending], KeptOf(Release[fs.pending]), "settled")
        /\ fs.pending # None
    BY <1>6 DEF SettleKept
  <2>2. Calm
    BY <1>6, KeptSame, CalmStep DEF SettleKept
  <2>3. KeptOf(Release[fs.pending]) \in [Systems -> Sets]
    BY FilesHave, IdleType DEF KeptOf, Mods, Sets
  <2> QED
    BY <1>0, <1>1, <2>1, <2>2, <2>3, QuietPut DEF Thens
<1>7. CASE Settled
  <2>1. Calm
    BY <1>2, <1>7, CalmStep DEF Settled
  <2> QED
    BY <1>0, <1>7, <2>1, QuietReturn DEF Settled
<1> QED
  BY <1>3, <1>4, <1>5, <1>6, <1>7

\* The kernel step up to its image (boot_update, boot_update_run).
LEMMA FetchSteps ==
    ASSUME IInv, StepSettle \/ StepClean \/ KeptDropSet \/ Unpack \/ StepStops \/ UnpackSync
    PROVE  IInv'
<1>1. CASE StepSettle
  <2>1. Calm
    BY <1>1, KeptSame, CalmStep DEF StepSettle
  <2> QED
    BY <1>1, <2>1, QuietSettle DEF StepSettle, At, Backs, Stepped, Stepping
<1>2. CASE StepClean
  <2>1. Kept
    BY Zenon, <1>2, FilesHave, WithoutType, IdleType, KeptSets DEF StepClean, Sets
  <2>2. Calm
    BY <1>2, <2>1, CalmStep DEF StepClean
  <2> QED
    BY <1>2, <2>2, QuietGoto DEF StepClean, At, Pcs, Stepping
<1>3. CASE Unpack
  <2>1. Kept
    BY <1>3, FilesHave, ProcHas DEF Unpack, Kept, Files, Sets
  <2>2. solid' \in BOOLEAN
    BY Zenon, <1>3 DEF Unpack
  <2>3. Calm
    BY <1>3, <2>1, <2>2 DEF Unpack, IInv, FilesOK, Kept, Calm, device
  <2> QED
    BY <1>3, <2>3, QuietGoto DEF Unpack, At, Pcs, Stepping
<1>4. CASE StepStops
  <2>1. Calm
    BY <1>4, KeptSame, CalmStep DEF StepStops
  <2> QED
    BY <1>4, <2>1, QuietGoto DEF StepStops, Pcs, Stepping
<1>5. CASE UnpackSync
  <2>1. UNCHANGED fs /\ (Sync \/ NoSync) /\ UNCHANGED device /\ Goto("compare") /\ At("unpacked")
    BY <1>5 DEF UnpackSync
  <2>2. Calm
    BY <2>1, KeptSame, CalmStep
  <2> QED
    BY <2>1, <2>2, QuietGoto DEF At, Pcs, Stepping
<1>6. CASE KeptDropSet
  <2>1. Kept
    BY Zenon, <1>6, FilesHave, IdleType DEF KeptDropSet, Kept, Files
  <2>2. Calm
    BY <1>6, <2>1, CalmStep DEF KeptDropSet
  <2> QED
    BY <1>6, <2>2, QuietGoto DEF KeptDropSet, At, Pcs, Stepping
<1> QED
  BY <1>1, <1>2, <1>3, <1>4, <1>5, <1>6

\* Its modules: found in place, saved, announced and put in, or taken back.
LEMMA ModuleSteps ==
    ASSUME IInv, \/ UpToDate \/ Same \/ NewImage \/ PrevModulesSave \/ ModulesPending \/ Undo
                 \/ PrevModulesDrop \/ PrevModulesCommit
    PROVE  IInv'
<1>1. CASE UpToDate
  <2>1. proc.new \in Builds /\ proc.pc = "compare"
    BY <1>1 DEF UpToDate, At, IInv, Control, Stepping
  <2>2. CASE HasMods(proc.new)
    <3>1. /\ fs' = [fs EXCEPT !.pending = proc.new] /\ Sync /\ UNCHANGED device
          /\ Put(Release[proc.new], EachSystem(fs.stage), "same")
      BY <1>1, <2>2 DEF UpToDate
    <3>2. Calm
      BY <2>1, <2>2, <3>1, KeptPending, CalmStep
    <3>3. EachSystem(fs.stage) \in [Systems -> Sets] /\ Release[proc.new] \in Rels \cup {None}
      BY <2>1, <2>2, FilesHave, IdleType, HasRelease
    <3> QED
      BY <2>1, <3>1, <3>2, <3>3, QuietPut DEF Thens
  <2>3. CASE ~HasMods(proc.new)
    <3>1. Goto("end") /\ NoSync /\ UNCHANGED <<fs, device>>
      BY <1>1, <2>3 DEF UpToDate
    <3>2. Calm
      BY <3>1, KeptSame, CalmStep
    <3> QED
      BY <2>1, <3>1, <3>2, QuietGoto DEF Pcs, Stepping
  <2> QED
    BY <2>2, <2>3
<1>2. ASSUME fs' = [fs EXCEPT !.pending = None], Sync, Goto("end"), UNCHANGED device,
             proc.pc \in {"same", "undo", "restored"}
      PROVE  IInv'
  <2>1. Calm
    BY <1>2, KeptPending, CalmStep
  <2> QED
    BY <1>2, <2>1, QuietGoto DEF Pcs, Stepping
<1>3. CASE Same \/ Undo
  BY <1>2, <1>3 DEF Same, Undo, At
<1>4. CASE NewImage
  <2>1. Calm
    BY <1>4, KeptSame, CalmStep DEF NewImage
  <2> QED
    BY <1>4, <2>1, QuietGoto DEF NewImage, At, Pcs, Stepping
<1>5. CASE PrevModulesSave
  <2> DEFINE rel == Release[proc.new]
             m == IF HasMods(proc.new)
                  THEN [rel |-> rel, set |-> [o \in Systems |-> fs.set[o][rel]]]
                  ELSE NoMods
  <2>1. proc.new \in Builds
    BY <1>5 DEF PrevModulesSave, At, IInv, Control, Stepping
  <2>2. m \in Mods
    BY <2>1, FilesHave, HasRelease, IdleType DEF Mods
  <2>3. fs' = [fs EXCEPT !.newMods = m]
    BY <1>5 DEF PrevModulesSave
  <2> HIDE DEF m
  <2>4. Kept
    BY <2>2, <2>3, FilesHave DEF Kept, Files
  <2>5. Calm
    BY <1>5, <2>4, CalmStep DEF PrevModulesSave
  <2> QED
    BY <1>5, <2>5, QuietGoto DEF PrevModulesSave, At, Pcs, Stepping
<1>6. CASE ModulesPending
  <2>1. proc.new \in Builds /\ proc.pc = "pend"
    BY <1>6 DEF ModulesPending, At, IInv, Control, Stepping
  <2>2. CASE HasMods(proc.new)
    <3>1. /\ fs' = [fs EXCEPT !.pending = proc.new] /\ Sync /\ UNCHANGED device
          /\ Put(Release[proc.new], EachSystem(fs.stage), "drop")
      BY <1>6, <2>2 DEF ModulesPending
    <3>2. Calm
      BY <2>1, <2>2, <3>1, KeptPending, CalmStep
    <3>3. EachSystem(fs.stage) \in [Systems -> Sets] /\ Release[proc.new] \in Rels \cup {None}
      BY <2>1, <2>2, FilesHave, IdleType, HasRelease
    <3> QED
      BY <2>1, <3>1, <3>2, <3>3, QuietPut DEF Thens, Stepping
  <2>3. CASE ~HasMods(proc.new)
    <3>1. Goto("drop") /\ NoSync /\ UNCHANGED <<fs, device>>
      BY <1>6, <2>3 DEF ModulesPending
    <3>2. Calm
      BY <3>1, KeptSame, CalmStep
    <3> QED
      BY <2>1, <3>1, <3>2, QuietGoto DEF Pcs, Stepping
  <2> QED
    BY <2>2, <2>3
<1>7. CASE PrevModulesDrop \/ PrevModulesCommit
  <2>1. Kept
    BY Zenon, <1>7, FilesHave, IdleType DEF PrevModulesDrop, PrevModulesCommit, Kept, Files
  <2>2. Calm
    BY <1>7, <2>1, CalmStep DEF PrevModulesDrop, PrevModulesCommit
  <2> QED
    BY <1>7, <2>2, QuietGoto DEF PrevModulesDrop, PrevModulesCommit, At, Pcs, Stepping
<1> QED
  BY <1>1, <1>3, <1>4, <1>5, <1>6, <1>7

\* The end of the kernel step, and of rollback-boot but for its write.
LEMMA EndSteps ==
    ASSUME IInv, \/ Record \/ ModulesDone \/ StaleSets \/ StepEnd \/ StepTidy \/ Sweep
                 \/ RollbackNone \/ RollbackFails \/ Unrecord
    PROVE  IInv'
<1>1. CASE Record
  <2>1. Kept
    BY <1>1, FilesHave, ProcHas DEF Record, Kept, Files
  <2>2. Calm
    BY <1>1, <2>1, CalmStep DEF Record
  <2> QED
    BY <1>1, <2>2, QuietGoto DEF Record, At, Pcs, Stepping
<1>2. CASE ModulesDone
  <2>1. Calm
    BY <1>2, KeptPending, CalmStep DEF ModulesDone
  <2> QED
    BY <1>2, <2>1, QuietGoto DEF ModulesDone, At, Pcs, Stepping
<1>3. CASE StaleSets
  <2>1. Kept
    <3> DEFINE t == Without(fs.set, Needed(proc.new, fs.kept))
    <3>1. t \in [Systems -> [Rels -> Sets]]
      BY FilesHave, WithoutType
    <3>2. fs' = [fs EXCEPT !.set = t]
      BY <1>3 DEF StaleSets
    <3> HIDE DEF t
    <3> QED
      BY <3>1, <3>2, FilesHave DEF Kept, Files
  <2>2. Calm
    BY <1>3, <2>1, CalmStep DEF StaleSets
  <2> QED
    BY <1>3, <2>2, QuietGoto DEF StaleSets, At, Pcs, Stepping
<1>4. CASE StepEnd \/ RollbackNone \/ RollbackFails
  <2>1. Calm
    BY <1>4, KeptSame, CalmStep DEF StepEnd, RollbackNone, RollbackFails
  <2> QED
    BY <1>4, <2>1, QuietSettle DEF StepEnd, RollbackNone, RollbackFails, At, Backs, Stepped
<1>5. ASSUME fs' = [fs EXCEPT !.stage = None, !.newMods = NoMods] PROVE Kept
  BY Zenon, <1>5, FilesHave, IdleType DEF Kept, Files, Sets
<1>6. CASE StepTidy
  <2>1. Calm
    BY <1>5, <1>6, CalmStep DEF StepTidy
  <2> QED
    BY <1>6, <2>1, QuietSettle DEF StepTidy, At, Backs, Stepped
<1>7. CASE Sweep
  <2>1. Calm
    BY <1>5, <1>7, CalmStep DEF Sweep
  <2> QED
    BY <1>7, <2>1, QuietIdle DEF Sweep, At
<1>8. CASE Unrecord
  <2>1. Kept
    BY <1>8, FilesHave DEF Unrecord, Kept, Files
  <2>2. Calm
    BY <1>8, <2>1, CalmStep DEF Unrecord
  <2> QED
    BY <1>8, <2>2, QuietSettle DEF Unrecord, At, Backs, Stepped
<1> QED
  BY <1>1, <1>2, <1>3, <1>4, <1>6, <1>7, <1>8

\* A command takes the lock.
LEMMA StartStep ==
    ASSUME IInv, NEW op \in Ops, NEW b \in Builds \cup {None}, op = "boot" => b # None,
           Start(op, b)
    PROVE  IInv'
<1>1. Calm
  BY KeptSame, CalmStep DEF Start
<1>2. "settle" \in Pcs /\ op \in {"boot", "rollback-boot"} /\ op \in Pcs
  BY DEF Pcs
<1>3. /\ proc' \in ProcType /\ proc'.pc = "settle" /\ proc'.back = op /\ proc'.new = b
      /\ proc'.then = "idle"
  BY Zenon, <1>2, IdleType DEF Start, ProcType, Idle
<1>4. slot' = slot /\ (op = "boot" => slot # Torn) /\ proc.pc = "idle"
  BY DEF Start, At, device
<1>5. Control'
  BY <1>2, <1>3, <1>4 DEF Control, Backs, Thens, Stepped, Stepping
<1> QED
  BY <1>1, <1>3, <1>4, <1>5, Quiet

\* Short of room, the kept image is given up before the step has one to write.
LEMMA DropStep ==
    ASSUME IInv, KeptDrop
    PROVE  IInv'
<1> DEFINE t == Without(fs.set, Needed(slot, None) \cup {Release[proc.new]})
<1>1. t \in [Systems -> [Rels -> Sets]]
  BY FilesHave, WithoutType
<1>2. /\ fs' = [fs EXCEPT !.kept = None, !.set = t]
      /\ proc.pc = "giveup" /\ Goto("fetch") /\ UNCHANGED <<disk, solid, loose, device>>
  BY DEF KeptDrop, NoSync, At
<1> HIDE DEF t
<1>3. fs' \in Files /\ fs'.kept = None /\ fs'.pending = fs.pending
  BY Zenon, <1>1, <1>2, FilesHave DEF Files
<1>4. Moves("fetch", proc.back, "idle")
  <2>1. "fetch" \in Pcs
    BY DEF Pcs
  <2> QED
    BY <1>2, <2>1, GotoMoves
<1>5. FilesOK' /\ DeviceOK'
  BY <1>2, <1>3 DEF IInv, FilesOK, DeviceOK, device, HasMods
<1>6. Control' /\ WriteInv'
  BY <1>2, <1>3, <1>4 DEF IInv, Control, WriteInv, Moves, device, Stepping, Thens
<1>7. slot # Torn
  BY <1>2 DEF IInv, Control, Stepping
<1>8. "keep" \in Whole => TornInv'
  BY <1>2, <1>3, <1>4, <1>7 DEF TornInv, Moves, device
<1> QED
  BY <1>4, <1>5, <1>6, <1>8 DEF IInv, Moves

\* A sync puts what programs see on the disk.
LEMMA Synced ==
    ASSUME IInv, UNCHANGED fs, Sync
    PROVE  FilesOK' /\ fs' = fs /\ disk'.kept = fs.kept
<1>1. disk' = fs' /\ loose' = {} /\ solid' \in BOOLEAN
  BY Zenon DEF Sync
<1> QED
  BY <1>1 DEF IInv, FilesOK

\* The writes of the slot.  The image to put back is kept and synced first.
LEMMA KeepStep ==
    ASSUME IInv, KeepImage
    PROVE  IInv'
<1>1. proc.pc = "body" /\ slot \in Builds /\ proc.new \in Builds /\ proc.back \in Backs \ Stepped
  BY DEF KeepImage, At, IInv, Control, DeviceOK, Stepping
<1>2. fs' \in Files /\ fs'.kept = slot /\ fs'.pending = fs.pending
  BY <1>1, FilesHave DEF KeepImage, Files
<1>3. UNCHANGED <<disk, solid, loose, slot, running, phase, was>>
  BY DEF KeepImage, NoSync, device
<1>4. Moves("write", proc.back, "idle")
  <2>1. "write" \in Pcs
    BY DEF Pcs
  <2> QED
    BY <2>1, GotoMoves DEF KeepImage
<1>5. FilesOK' /\ DeviceOK'
  BY <1>2, <1>3 DEF IInv, FilesOK, DeviceOK, HasMods
<1>6. Control' /\ WriteInv'
  BY <1>1, <1>2, <1>3, <1>4 DEF Control, WriteInv, Moves, Thens
<1>7. TornInv'
  BY <1>1, <1>3, <1>4 DEF TornInv, Moves
<1> QED
  BY <1>4, <1>5, <1>6, <1>7 DEF IInv, Moves

LEMMA WriteBegins ==
    ASSUME IInv, WriteStart
    PROVE  IInv'
<1>1. /\ proc.pc = "write" /\ slot \in Builds /\ fs.kept = slot /\ proc.new \in Builds
      /\ proc.back \in Backs \ Stepped
  BY DEF WriteStart, At, IInv, Control, WriteInv, DeviceOK, Stepping
<1>2. /\ FilesOK' /\ fs' = fs /\ disk'.kept = fs.kept
      /\ slot' = Torn /\ was' = slot /\ UNCHANGED <<running, phase>>
  BY Synced DEF WriteStart
<1>3. Moves("writing", proc.back, "idle")
  <2>1. "writing" \in Pcs
    BY DEF Pcs
  <2> QED
    BY <2>1, GotoMoves DEF WriteStart
<1>4. DeviceOK'
  BY <1>1, <1>2 DEF IInv, DeviceOK
<1>5. Control' /\ WriteInv'
  BY <1>1, <1>2, <1>3 DEF Control, WriteInv, Moves, Thens, Stepping
<1>6. TornInv'
  BY <1>1, <1>2, <1>3 DEF TornInv, Moves
<1> QED
  BY <1>2, <1>3, <1>4, <1>5, <1>6 DEF IInv, Moves

LEMMA WriteEnds ==
    ASSUME IInv, WriteOk
    PROVE  IInv'
<1>1. proc.pc = "writing" /\ proc.new \in Builds /\ proc.back \in Backs \ Stepped
  BY DEF WriteOk, At, IInv, Control
<1>2. /\ FilesOK' /\ fs' = fs /\ disk'.kept = fs.kept
      /\ slot' = proc.new /\ was' = None /\ UNCHANGED <<running, phase>>
  BY Synced DEF WriteOk
<1>3. Moves("record", proc.back, "idle")
  <2>1. "record" \in Pcs
    BY DEF Pcs
  <2> QED
    BY <2>1, GotoMoves DEF WriteOk
<1>4. DeviceOK'
  BY <1>1, <1>2 DEF IInv, DeviceOK
<1>5. Control' /\ WriteInv'
  BY <1>1, <1>2, <1>3 DEF Control, WriteInv, Moves, Thens, Stepping
<1>6. TornInv'
  BY <1>1, <1>2, <1>3 DEF TornInv, Moves
<1> QED
  BY <1>2, <1>3, <1>4, <1>5, <1>6 DEF IInv, Moves

LEMMA WriteBack ==
    ASSUME IInv, WriteFails
    PROVE  IInv'
<1>1. proc.pc = "writing" /\ fs.kept \in Builds /\ proc.back \in Backs \ Stepped
  BY DEF WriteFails, At, IInv, Control, WriteInv
<1>2. /\ UNCHANGED <<fs, disk, solid, loose, running, phase>>
      /\ slot' \in {fs.kept, Torn} /\ was' = IF slot' = Torn THEN was ELSE None
  BY DEF WriteFails, NoSync
<1>3. Moves("put", proc.back, "restored")
  <2>1. "restored" \in Pcs /\ fs.mods.rel \in Rels \cup {None} /\ fs.mods.set \in [Systems -> Sets]
    BY FilesHave DEF Pcs, Mods
  <2> QED
    BY <2>1, PutMoves DEF WriteFails
<1>4. FilesOK' /\ DeviceOK'
  BY <1>1, <1>2 DEF IInv, FilesOK, DeviceOK, HasMods
<1>5. Control' /\ WriteInv'
  BY <1>1, <1>2, <1>3 DEF Control, WriteInv, Moves, Thens, Stepping
<1>6. "keep" \in Whole => TornInv'
  BY <1>1, <1>2, <1>3 DEF IInv, TornInv, Moves
<1> QED
  BY <1>3, <1>4, <1>5, <1>6 DEF IInv, Moves

\* rollback-boot writes the kept image, which no step has changed since it
\* reached the disk.
LEMMA RollbackBegins ==
    ASSUME IInv, RollbackStart
    PROVE  IInv'
<1>1. proc.pc = "rollback-boot" /\ fs.kept \in Builds /\ proc.back \in Backs \ Stepped
  BY FilesHave DEF RollbackStart, At, IInv, Control
<1>2. /\ UNCHANGED <<fs, disk, solid, loose, running, phase>>
      /\ slot' = Torn /\ was' = fs.kept
  BY DEF RollbackStart, NoSync
<1>3. Moves("rewriting", proc.back, "idle")
  <2>1. "rewriting" \in Pcs
    BY DEF Pcs
  <2> QED
    BY <2>1, GotoMoves DEF RollbackStart
<1>4. FilesOK' /\ DeviceOK'
  BY <1>1, <1>2 DEF IInv, FilesOK, DeviceOK, HasMods
<1>5. Control' /\ WriteInv'
  BY <1>1, <1>2, <1>3 DEF Control, WriteInv, Moves, Thens, Stepping
<1>6. "keep" \in Whole => TornInv'
  BY <1>1, <1>2, <1>3 DEF IInv, TornInv, Moves
<1> QED
  BY <1>3, <1>4, <1>5, <1>6 DEF IInv, Moves

LEMMA RollbackEnds ==
    ASSUME IInv, RollbackWritten
    PROVE  IInv'
<1>1. proc.pc = "rewriting" /\ fs.kept \in Builds /\ proc.back \in Backs \ Stepped
  BY DEF RollbackWritten, At, IInv, Control, WriteInv
<1>2. /\ FilesOK' /\ fs' = fs /\ disk'.kept = fs.kept
      /\ slot' = fs.kept /\ was' = None /\ UNCHANGED <<running, phase>>
  BY Synced DEF RollbackWritten
<1>3. Moves("put", proc.back, "unrecord")
  <2>1. "unrecord" \in Pcs /\ fs.mods.rel \in Rels \cup {None} /\ fs.mods.set \in [Systems -> Sets]
    BY FilesHave DEF Pcs, Mods
  <2> QED
    BY <2>1, PutMoves DEF RollbackWritten
<1>4. DeviceOK'
  BY <1>1, <1>2 DEF IInv, DeviceOK
<1>5. Control' /\ WriteInv'
  BY <1>1, <1>2, <1>3 DEF Control, WriteInv, Moves, Thens, Stepping
<1>6. TornInv'
  BY <1>1, <1>2, <1>3 DEF TornInv, Moves
<1> QED
  BY <1>2, <1>3, <1>4, <1>5, <1>6 DEF IInv, Moves

\* A run is stopped, with or without its trap.
LEMMA KillSteps ==
    ASSUME IInv, Kill \/ KillHard
    PROVE  IInv'
<1>1. proc.pc = "write" => "keep" \notin Whole
  BY DEF Kill, KillHard, Window, IInv, Control
<1>2. Calm
  BY KeptSame, CalmStep DEF Kill, KillHard
<1>3. CASE KillHard
  BY <1>1, <1>2, <1>3, QuietIdle DEF KillHard
<1>4. CASE Kill /\ Settle("sweep")
  BY <1>1, <1>2, <1>4, QuietSettle DEF Backs, Stepped
<1>5. CASE Kill /\ ~Settle("sweep")
  <2>1. /\ proc.pc = "pend"
        /\ proc' = [proc EXCEPT !.pc = "put", !.then = "sweep", !.back = "sweep", !.half = None,
                       !.rel = fs.newMods.rel, !.src = fs.newMods.set, !.todo = Systems]
    BY <1>5 DEF Kill, At
  <2>2. "put" \in Pcs /\ "sweep" \in Pcs
    BY DEF Pcs
  <2>3. fs.newMods.rel \in Rels \cup {None} /\ fs.newMods.set \in [Systems -> Sets]
    BY FilesHave DEF Mods
  <2>4. proc' \in ProcType /\ proc'.pc = "put" /\ proc'.then = "sweep" /\ proc'.back = "sweep"
    BY Zenon, <2>1, <2>2, <2>3, ProcHas DEF ProcType
  <2>5. Control'
    BY <2>4 DEF Control, Backs, Thens, Stepped, Stepping
  <2> QED
    BY <1>2, <2>1, <2>4, <2>5, Quiet
<1> QED
  BY <1>3, <1>4, <1>5

\* The file system writes down what was done.
LEMMA JournalStep ==
    ASSUME IInv, Journal
    PROVE  IInv'
<1>1. disk' = fs /\ UNCHANGED <<fs, solid, loose, slot, running, phase, was, proc>>
  BY DEF Journal, device
<1>2. FilesOK' /\ DeviceOK' /\ Control' /\ WriteInv'
  BY <1>1 DEF IInv, FilesOK, DeviceOK, Control, WriteInv, HasMods
<1>3. "keep" \in Whole => TornInv'
  BY <1>1 DEF IInv, TornInv
<1> QED
  BY <1>1, <1>2, <1>3 DEF IInv

\* With the device off or the run at its end no write is under way.
LEMMA Rests ==
    ASSUME IInv, FilesOK', DeviceOK', proc' \in ProcType, proc'.pc \in {"idle", "settle"},
           proc'.back \in {"idle", "handover"}, proc'.then = "idle",
           "keep" \in Whole =>
             /\ slot = Torn => was \in Builds /\ disk'.kept = was /\ fs'.kept = was
             /\ fs'.kept \in {disk'.kept, None},
           UNCHANGED <<slot, was>>
    PROVE  IInv'
<1>1. Control' /\ WriteInv'
  BY DEF Control, WriteInv, Backs, Thens, Stepped, Stepping
<1>2. "keep" \in Whole => TornInv'
  BY DEF TornInv
<1> QED
  BY <1>1, <1>2 DEF IInv

\* A power cut, a restart, and the start up to the system.
LEMMA PowerSteps ==
    ASSUME IInv, OffInv, PowerCut \/ Reboot \/ PowerOn \/ Handover
    PROVE  IInv'
<1>1. Idle \in ProcType /\ Idle.pc = "idle" /\ Idle.back = "idle" /\ Idle.then = "idle"
  BY IdleType DEF Idle
<1>2. CASE PowerCut
  <2> DEFINE v == IF solid \/ disk.stage = None THEN disk.stage ELSE Part
             t == [o \in Systems |-> [r \in Rels |->
                     IF o \in loose /\ disk.set[o][r] = disk.stage THEN Part ELSE disk.set[o][r]]]
  <2>1. disk \in Files /\ (disk.pending # None => HasMods(disk.pending))
    BY DEF IInv, FilesOK
  <2>2. v \in Sets /\ t \in [Systems -> [Rels -> Sets]]
    BY <2>1 DEF Files, Sets
  <2>3. /\ fs' = [disk EXCEPT !.stage = v, !.set = t] /\ disk' = fs' /\ loose' = {}
        /\ UNCHANGED <<slot, was>> /\ proc' = Idle
    BY <1>2 DEF PowerCut, Sync
  <2>4. solid' \in BOOLEAN
    BY Zenon, <1>2 DEF PowerCut, Sync
  <2> HIDE DEF v, t
  <2>5. fs' \in Files /\ fs'.kept = disk.kept /\ fs'.pending = disk.pending
    BY Zenon, <2>1, <2>2, <2>3 DEF Files
  <2>6. FilesOK' /\ disk'.kept = disk.kept
    BY <2>1, <2>3, <2>4, <2>5 DEF FilesOK
  <2>7. DeviceOK'
    BY <1>2, <2>3 DEF PowerCut, IInv, DeviceOK
  <2>8. "keep" \in Whole => (slot = Torn => was \in Builds /\ disk.kept = was)
    BY DEF IInv, TornInv
  <2> QED
    BY <1>1, <2>3, <2>5, <2>6, <2>7, <2>8, Rests
<1>3. CASE Reboot
  <2>1. FilesOK' /\ fs' = fs /\ disk'.kept = fs.kept
    BY <1>3, Synced DEF Reboot
  <2>2. UNCHANGED <<slot, was, proc>> /\ proc.pc = "idle" /\ DeviceOK'
    BY <1>3 DEF Reboot, At, IInv, DeviceOK
  <2>3. /\ proc' \in ProcType /\ proc.then = "idle" /\ proc.back \in Backs \ Stepped
        /\ Control' /\ WriteInv'
    BY <2>1, <2>2 DEF IInv, Control, WriteInv
  <2>4. "keep" \in Whole => TornInv'
    BY <2>1, <2>2 DEF IInv, TornInv
  <2> QED
    BY <2>1, <2>2, <2>3, <2>4 DEF IInv
<1>4. ASSUME NoSync, UNCHANGED fs PROVE FilesOK' /\ fs' = fs /\ disk' = disk
  BY <1>4 DEF NoSync, IInv, FilesOK, HasMods
<1>5. ASSUME "keep" \in Whole, proc.pc # "write"
      PROVE  /\ slot = Torn => was \in Builds /\ disk.kept = was /\ fs.kept = was
             /\ fs.kept \in {disk.kept, None}
  BY <1>5 DEF IInv, TornInv
<1>6. CASE PowerOn
  <2>1. proc' = [Idle EXCEPT !.pc = "settle", !.back = "handover"]
    BY <1>6 DEF PowerOn
  <2>2. "settle" \in Pcs /\ "handover" \in Pcs
    BY DEF Pcs
  <2>3. /\ proc' \in ProcType /\ proc'.pc = "settle" /\ proc'.back = "handover"
        /\ proc'.then = "idle"
    BY Zenon, <1>1, <2>1, <2>2 DEF ProcType, Idle
  <2>4. FilesOK' /\ fs' = fs /\ disk' = disk /\ UNCHANGED <<slot, was>> /\ DeviceOK'
    BY <1>4, <1>6 DEF PowerOn, IInv, DeviceOK
  <2>5. proc.pc # "write"
    BY <1>6 DEF PowerOn, OffInv
  <2> QED
    BY <1>5, <2>3, <2>4, <2>5, Rests
<1>7. CASE Handover
  <2>1. FilesOK' /\ fs' = fs /\ disk' = disk /\ UNCHANGED <<slot, was>> /\ DeviceOK'
    BY <1>4, <1>7 DEF Handover, IInv, DeviceOK
  <2>2. proc' = Idle /\ proc.pc # "write"
    BY <1>7 DEF Handover, At
  <2> QED
    BY <1>1, <1>5, <2>1, <2>2, Rests
<1> QED
  BY <1>2, <1>3, <1>6, <1>7

LEMMA OffNext ==
    ASSUME OffInv, [Next]_vars
    PROVE  OffInv'
<1>1. ASSUME phase' = phase, proc.pc # "idle" PROVE OffInv'
  BY <1>1 DEF OffInv
<1>2. ASSUME NEW op \in Ops, NEW b \in Builds \cup {None}, Start(op, b) PROVE OffInv'
  BY <1>2 DEF Start, device, OffInv
<1>3. CASE PutClear \/ PutLink \/ PutDone \/ PutFails \/ RestoreFails
  BY Zenon, <1>1, <1>3
     DEF PutClear, PutLink, PutDone, PutFails, RestoreFails, At, device
<1>4. CASE SettleNothing \/ SettleNew \/ SettleKept \/ Settled
  BY Zenon, <1>1, <1>4 DEF SettleNothing, SettleNew, SettleKept, Settled, At, device
<1>5. CASE StepSettle \/ StepClean \/ KeptDropSet \/ KeptDrop \/ Unpack \/ StepStops \/ UnpackSync
  BY <1>1, <1>5 DEF StepSettle, StepClean, KeptDropSet, KeptDrop, Unpack, StepStops, UnpackSync, At, device
<1>6. CASE UpToDate \/ Same \/ NewImage \/ PrevModulesSave
  BY <1>1, <1>6 DEF UpToDate, Same, NewImage, PrevModulesSave, At, device
<1>7. CASE ModulesPending \/ Undo \/ PrevModulesDrop \/ PrevModulesCommit \/ KeepImage
  BY <1>1, <1>7 DEF ModulesPending, Undo, PrevModulesDrop, PrevModulesCommit, KeepImage, At, device
<1>8. CASE WriteStart \/ WriteOk \/ WriteFails \/ RollbackStart \/ RollbackWritten
  BY <1>1, <1>8 DEF WriteStart, WriteOk, WriteFails, RollbackStart, RollbackWritten, At
<1>9. CASE Record \/ ModulesDone \/ StaleSets \/ StepEnd \/ StepTidy \/ Sweep
  BY <1>1, <1>9 DEF Record, ModulesDone, StaleSets, StepEnd, StepTidy, Sweep, At, device
<1>10. CASE RollbackNone \/ RollbackFails \/ Unrecord
  BY <1>1, <1>10 DEF RollbackNone, RollbackFails, Unrecord, At, device
<1>11. CASE Kill \/ KillHard
  BY <1>1, <1>11 DEF Kill, KillHard, device
<1>12. CASE Journal \/ UNCHANGED vars
  BY <1>12 DEF Journal, vars, device, OffInv
<1>13. CASE PowerCut \/ Reboot \/ PowerOn \/ Handover
  BY <1>13 DEF PowerCut, Reboot, PowerOn, Handover, At, OffInv, Idle
<1> QED
  BY Zenon, <1>2, <1>3, <1>4, <1>5, <1>6, <1>7, <1>8, <1>9, <1>10, <1>11, <1>12, <1>13 DEF Next

LEMMA KernelNext ==
    ASSUME IInv, OffInv, [Next]_vars
    PROVE  IInv'
<1>1. CASE UNCHANGED vars
  <2>1. UNCHANGED <<fs, disk, solid, loose, slot, running, phase, was, proc>>
    BY <1>1 DEF vars, device
  <2> QED
    BY <2>1 DEF IInv, FilesOK, DeviceOK, Control, WriteInv, TornInv, HasMods
<1> QED
  BY Zenon, <1>1, StartStep, PutSteps, SettleSteps, FetchSteps, ModuleSteps, DropStep, KeepStep,
     WriteBegins, WriteEnds, WriteBack, EndSteps, RollbackBegins, RollbackEnds, KillSteps,
     JournalStep, PowerSteps DEF Next

\* A set that was lost stays lost, and only a failing restore loses one.
LEMMA LostNext ==
    ASSUME lost \in BOOLEAN, [Next]_vars
    PROVE  /\ lost' \in BOOLEAN /\ (lost => lost')
           /\ ~RestoreFails => lost' = lost
<1>1. CASE RestoreFails
  BY Zenon, <1>1 DEF RestoreFails
<1>2. CASE UNCHANGED device \/ UNCHANGED lost
  BY Zenon, <1>2 DEF device
<1>3. ASSUME NEW op \in Ops, NEW b \in Builds \cup {None}, Start(op, b) PROVE UNCHANGED device
  BY <1>3 DEF Start
<1>4. CASE PutClear \/ PutLink \/ PutDone \/ PutFails
  BY Zenon, <1>2, <1>4 DEF PutClear, PutLink, PutDone, PutFails
<1>5. CASE SettleNothing \/ SettleNew \/ SettleKept \/ Settled
  BY Zenon, <1>2, <1>5 DEF SettleNothing, SettleNew, SettleKept, Settled
<1>6. CASE StepSettle \/ StepClean \/ KeptDropSet \/ KeptDrop \/ Unpack \/ StepStops \/ UnpackSync
  BY Zenon, <1>2, <1>6
     DEF StepSettle, StepClean, KeptDropSet, KeptDrop, Unpack, StepStops, UnpackSync
<1>7. CASE UpToDate \/ Same \/ NewImage \/ PrevModulesSave
  BY Zenon, <1>2, <1>7 DEF UpToDate, Same, NewImage, PrevModulesSave
<1>8. CASE ModulesPending \/ Undo \/ PrevModulesDrop \/ PrevModulesCommit \/ KeepImage
  BY Zenon, <1>2, <1>8 DEF ModulesPending, Undo, PrevModulesDrop, PrevModulesCommit, KeepImage
<1>9. CASE WriteStart \/ WriteOk \/ WriteFails \/ RollbackStart \/ RollbackWritten
  BY Zenon, <1>2, <1>9 DEF WriteStart, WriteOk, WriteFails, RollbackStart, RollbackWritten
<1>10. CASE Record \/ ModulesDone \/ StaleSets \/ StepEnd \/ StepTidy \/ Sweep
  BY Zenon, <1>2, <1>10 DEF Record, ModulesDone, StaleSets, StepEnd, StepTidy, Sweep
<1>11. CASE RollbackNone \/ RollbackFails \/ Unrecord
  BY Zenon, <1>2, <1>11 DEF RollbackNone, RollbackFails, Unrecord
<1>12. CASE Kill \/ KillHard \/ Journal \/ UNCHANGED vars
  BY Zenon, <1>2, <1>12 DEF Kill, KillHard, Journal, vars
<1>13. CASE PowerCut \/ Reboot \/ PowerOn \/ Handover
  BY Zenon, <1>2, <1>13 DEF PowerCut, Reboot, PowerOn, Handover
<1> QED
  BY Zenon, <1>1, <1>2, <1>3, <1>4, <1>5, <1>6, <1>7, <1>8, <1>9, <1>10, <1>11, <1>12, <1>13 DEF Next

LEMMA KernelInit ==
    ASSUME Init
    PROVE  IInv /\ OffInv /\ lost \in BOOLEAN
<1>1. /\ slot \in Builds /\ running = None /\ phase = "off" /\ was = None
      /\ disk = fs /\ loose = {} /\ proc = Idle
  BY DEF Init
<1>2. solid \in BOOLEAN /\ lost \in BOOLEAN
  BY Zenon DEF Init
<1>3. fs \in Files /\ fs.pending = None /\ fs.kept = None
  BY <1>1, IdleType DEF Init, Files, Sets
<1>4. Control /\ WriteInv /\ TornInv /\ OffInv
  BY <1>1, <1>3 DEF Control, WriteInv, TornInv, OffInv, Idle, Backs, Thens, Stepped, Stepping
<1> QED
  BY <1>1, <1>2, <1>3, <1>4, IdleType DEF IInv, FilesOK, DeviceOK

LEMMA KernelAlways == Spec => [](IInv /\ OffInv /\ lost \in BOOLEAN)
<1>1. (IInv /\ OffInv /\ lost \in BOOLEAN) /\ [Next]_vars => (IInv /\ OffInv /\ lost \in BOOLEAN)'
  BY KernelNext, OffNext, LostNext
<1> QED
  BY <1>1, KernelInit, PTL DEF Spec

\* Whatever interrupts the updater, every file of the kernel step holds a value
\* its writers can have written and modules.pending names a kernel that brings
\* modules, for any systems, builds, commands and faults.
THEOREM KernelTypes == Spec => []TypeOK
<1>1. IInv /\ lost \in BOOLEAN => TypeOK
  BY DEF IInv, FilesOK, DeviceOK, ProcType, TypeOK
<1> QED
  BY <1>1, KernelAlways, PTL

\* While the slot is half written, by the kernel step or by rollback-boot, the
\* image to go back to is on the disk: boot_update_run keeps it and syncs before
\* write_boot, and nothing between drops or replaces it.  This holds for any
\* systems, builds and failing steps, and for every way to stop a run but one:
\* the assumption excludes a stop between the kept set's replacement and the sync.
THEOREM KernelTornIsKept ==
    ASSUME "keep" \in Whole
    PROVE  Spec => []TornIsKept
<1>1. IInv => TornIsKept
  BY DEF IInv, TornInv, TornIsKept
<1> QED
  BY <1>1, KernelAlways, PTL
=============================================================================
