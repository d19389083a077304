------------------------------ MODULE KernelStep ------------------------------
(***************************************************************************)
(* The kernel step of mu300-update (boot, kernel and the end of apply) and *)
(* rollback-boot: the boot image in the Linux slot, the module sets of the *)
(* systems, the image and the set kept for rollback-boot, and the file     *)
(* boot/modules.pending that says the two do not belong together yet.      *)
(* The updater may be stopped, killed or cut off between any two steps;    *)
(* the ramdisk settles what it finds at the next start.                    *)
(*                                                                         *)
(* A kernel build stands for its image, its banner and its modules.  Two   *)
(* builds of one release share the directory lib/modules/<release>.        *)
(***************************************************************************)
CONSTANTS
    Systems,     \* the installed systems
    Builds,      \* kernel builds: bundles of releases, and the one installed first
    Release,     \* the kernel release of each build
    Vendor,      \* the release of the vendor kernel, whose bundle has no modules
    None,        \* no such file
    Part,        \* a set that is not complete, or of empty files
    Torn,        \* a slot that is half written
    First,       \* the builds an installer may have put in place
    Ops,         \* the commands: "boot" (the kernel step), "rollback-boot"
    Faults,      \* what may fail: "install", "settle", "write", "restore"
    Whole        \* the windows of a run that nothing interrupts

Rels == {Release[b] : b \in Builds} \ {Vendor}
Sets == Builds \cup {None, Part}
FaultKinds == {"install", "settle", "write", "restore"}

ASSUME BuildsAssumption ==
    /\ {None, Part, Torn} \cap Builds = {} /\ None # Part /\ None # Torn /\ Part # Torn
    /\ DOMAIN Release = Builds /\ None \notin Rels /\ None # Vendor
    /\ First \subseteq Builds
ASSUME RunsAssumption ==
    /\ Ops \subseteq {"boot", "rollback-boot"} /\ Faults \subseteq FaultKinds
    /\ Whole \subseteq {"keep", "restore", "abort"}

VARIABLES
    fs,       \* the files of the Linux partition as programs see them
    disk,     \* the same as a power cut leaves them
    solid,    \* what was unpacked has reached the disk
    loose,    \* systems whose set are names of files that had not
    slot,     \* the boot image of the Linux slot (written past the cache)
    running,  \* the kernel that runs
    phase,    \* "off", "ramdisk" (init before the system starts), "up"
    proc,     \* the mu300-update that holds the lock, or the ramdisk's settling
    was,      \* history: the image that has to be kept while the slot is written
    lost      \* history: a kept set did not go back and no modules.pending says so

device == <<slot, running, phase, was, lost>>
vars == <<fs, disk, solid, loose, device, proc>>

EachSystem(v) == [o \in Systems |-> v]
NoMods == [rel |-> None, set |-> EachSystem(None)]
Idle == [pc |-> "idle", new |-> None, back |-> "idle", then |-> "idle",
         todo |-> {}, half |-> None, src |-> EachSystem(None), rel |-> None]

Init ==
    /\ slot \in First /\ running = None /\ phase = "off" /\ was = None /\ lost = FALSE
    /\ fs = [set |-> [o \in Systems |-> [r \in Rels |-> IF r = Release[slot] THEN slot ELSE None]],
             kept |-> None, mods |-> NoMods,       \* prev.body, prev.modules
             newMods |-> NoMods,                   \* prev.modules.new
             pending |-> None,                     \* modules.pending
             stage |-> None,                       \* the bundle unpacked in $STAGE/boot
             installed |-> None]                   \* written.sha256 and installed.id
    /\ disk = fs /\ solid = TRUE /\ loose = {} /\ proc = Idle

HasMods(b) == Release[b] # Vendor
At(pc) == proc.pc = pc
Goto(pc) == proc' = [Idle EXCEPT !.pc = pc, !.new = proc.new, !.back = proc.back]
\* The disk has what programs see from here on.
Sync == disk' = fs' /\ solid' = TRUE /\ loose' = {}
NoSync == UNCHANGED <<disk, solid, loose>>

-----------------------------------------------------------------------------
(* Putting a set into the systems: the old names are removed, then the new  *)
(* ones made, system after system (kernel_modules_into_systems,             *)
(* prev_modules_restore, the ramdisk's settling).  src says what each gets. *)
Put(rel, src, then) ==
    proc' = [proc EXCEPT !.pc = "put", !.rel = rel, !.src = src, !.then = then, !.half = None,
                         !.todo = IF rel = None THEN {} ELSE Systems]

PutClear ==
    /\ At("put") /\ proc.half = None
    /\ \E o \in proc.todo : /\ fs' = [fs EXCEPT !.set[o][proc.rel] = Part]
                            /\ proc' = [proc EXCEPT !.half = o]
    /\ NoSync /\ UNCHANGED device

PutLink ==
    /\ At("put") /\ proc.half # None
    /\ fs' = [fs EXCEPT !.set[proc.half][proc.rel] = proc.src[proc.half]]
    /\ loose' = IF ~solid /\ proc.src[proc.half] = fs.stage THEN loose \cup {proc.half} ELSE loose
    /\ proc' = [proc EXCEPT !.half = None, !.todo = @ \ {proc.half}]
    /\ UNCHANGED <<disk, solid, device>>

PutDone ==
    /\ At("put") /\ proc.todo = {}
    /\ proc' = [Idle EXCEPT !.pc = proc.then, !.new = proc.new, !.back = proc.back]
    /\ NoSync /\ UNCHANGED <<fs, device>>

-----------------------------------------------------------------------------
(* modules_settle.  back is where its caller goes on.                       *)
Settle(back) == proc' = [Idle EXCEPT !.pc = "settle", !.back = back, !.new = proc.new]
\* Its status 1: boot_update_run returns, every other caller goes on.
Unsettled == IF proc.back = "clean" THEN "end" ELSE proc.back

Return(pc) == proc' = [Idle EXCEPT !.pc = pc, !.new = proc.new]

\* Whether the slot holds the kernel of modules.pending; of a slot half
\* written either may be read.
SlotIsPending == IF slot = Torn THEN BOOLEAN ELSE {slot = fs.pending}

SettleNothing ==
    /\ At("settle") /\ fs.pending = None /\ Return(proc.back)
    /\ NoSync /\ UNCHANGED <<fs, device>>

\* The unpacked set goes in again; were it gone, the mark would go as well.
SettleNew ==
    /\ At("settle") /\ fs.pending # None /\ TRUE \in SlotIsPending
    /\ IF fs.stage # None
       THEN /\ Put(Release[fs.pending], EachSystem(fs.stage), "settled")
            /\ NoSync /\ UNCHANGED fs
       ELSE fs' = [fs EXCEPT !.pending = None] /\ Sync /\ Return(Unsettled)
    /\ UNCHANGED device

\* The kept set of that release: prev.modules.new, prev.modules, or none.
KeptOf(rel) == IF fs.newMods.rel = rel THEN fs.newMods.set
               ELSE IF fs.mods.rel = rel THEN fs.mods.set
               ELSE EachSystem(None)

SettleKept ==
    /\ At("settle") /\ fs.pending # None /\ FALSE \in SlotIsPending
    /\ Put(Release[fs.pending], KeptOf(Release[fs.pending]), "settled")
    /\ NoSync /\ UNCHANGED <<fs, device>>

\* modules_done
Settled ==
    /\ At("settled") /\ fs' = [fs EXCEPT !.pending = None] /\ Sync
    /\ Return(proc.back) /\ UNCHANGED device

-----------------------------------------------------------------------------
(* The kernel step: boot_update and boot_update_run.                        *)

\* A command takes the lock and settles what an earlier run left.  A kernel
\* step on a slot that a failed write left half written is not followed.
Start(op, b) ==
    /\ phase = "up" /\ At("idle") /\ op \in Ops
    /\ op = "boot" => slot # Torn
    /\ op = "rollback-boot" => b = None
    /\ proc' = [Idle EXCEPT !.pc = "settle", !.back = op, !.new = b]
    /\ NoSync /\ UNCHANGED <<fs, device>>

StepSettle ==
    /\ At("boot") /\ Settle("clean")
    /\ NoSync /\ UNCHANGED <<fs, device>>

\* The sets of releases other than these go (kernel_sets_remove).
Without(set, rels) == [o \in Systems |-> [r \in Rels |-> IF r \in rels THEN set[o][r] ELSE None]]

\* boot_sets_stale: the slot, the running kernel and the kept image need theirs.
Needed(img, kept) == {Release[img], Release[running]} \cup {Release[k] : k \in {kept} \ {None}}

StepClean ==
    /\ At("clean")
    /\ fs' = [fs EXCEPT !.stage = None, !.newMods = NoMods,
                        !.set = Without(@, Needed(slot, fs.kept))]
    /\ Goto("fetch") /\ NoSync /\ UNCHANGED device

\* Short of room, the kept image and its set are given up (boot_kept_drop):
\* rm takes prev.modules first, prev.body after it.
KeptDropSet ==
    /\ At("fetch") /\ fs.kept # None
    /\ fs' = [fs EXCEPT !.mods = NoMods]
    /\ Goto("giveup") /\ NoSync /\ UNCHANGED device

\* Mutant of KeptDrop: prev.body is left out of the files removed.
MutKeptDrop ==
    /\ At("giveup")
    /\ fs' = [fs EXCEPT !.set = Without(@, Needed(slot, None) \cup {Release[proc.new]})]
    /\ Goto("fetch") /\ NoSync /\ UNCHANGED device

KeptDrop ==
    /\ At("giveup")
    /\ fs' = [fs EXCEPT !.kept = None,
                        !.set = Without(@, Needed(slot, None) \cup {Release[proc.new]})]
    /\ Goto("fetch") /\ NoSync /\ UNCHANGED device

Unpack ==
    /\ At("fetch") /\ fs' = [fs EXCEPT !.stage = proc.new]
    /\ solid' = FALSE /\ Goto("unpacked") /\ UNCHANGED <<disk, loose, device>>

\* A download, a look at the bundle, the room, the unpacked files, the image in
\* the slot or the new one: each may stop the step before anything changes.
StepStops ==
    /\ proc.pc \in {"fetch", "unpacked", "compare", "save"} /\ Goto("end")
    /\ NoSync /\ UNCHANGED <<fs, device>>

UnpackSync ==
    /\ At("unpacked") /\ UNCHANGED fs
    /\ IF HasMods(proc.new) THEN Sync ELSE NoSync
    /\ Goto("compare") /\ UNCHANGED device

\* The image in place is this one: only its modules go in again.
UpToDate ==
    /\ At("compare") /\ slot = proc.new /\ fs.installed = proc.new
    /\ IF HasMods(proc.new)
       THEN /\ fs' = [fs EXCEPT !.pending = proc.new] /\ Sync
            /\ Put(Release[proc.new], EachSystem(fs.stage), "same")
       ELSE Goto("end") /\ NoSync /\ UNCHANGED fs
    /\ UNCHANGED device

Same ==
    /\ At("same") /\ fs' = [fs EXCEPT !.pending = None] /\ Sync
    /\ Goto("end") /\ UNCHANGED device

NewImage ==
    /\ At("compare") /\ ~(slot = proc.new /\ fs.installed = proc.new)
    /\ Goto("save") /\ NoSync /\ UNCHANGED <<fs, device>>

PrevModulesSave ==
    /\ At("save")
    /\ fs' = [fs EXCEPT !.newMods =
                 LET rel == Release[proc.new]
                 IN  IF HasMods(proc.new)
                     THEN [rel |-> rel, set |-> [o \in Systems |-> fs.set[o][rel]]]
                     ELSE NoMods]
    /\ Goto("pend") /\ NoSync /\ UNCHANGED device

\* Mutants of ModulesPending: nothing is written down; it is for every bundle.
MutNoPending ==
    /\ At("pend")
    /\ IF HasMods(proc.new) THEN Put(Release[proc.new], EachSystem(fs.stage), "drop")
                            ELSE Goto("drop")
    /\ NoSync /\ UNCHANGED <<fs, device>>
MutAlwaysPending ==
    /\ At("pend") /\ fs' = [fs EXCEPT !.pending = proc.new] /\ Sync
    /\ IF HasMods(proc.new) THEN Put(Release[proc.new], EachSystem(fs.stage), "drop")
                            ELSE Goto("drop")
    /\ UNCHANGED device

\* modules_pending, for a bundle with modules.  Every such bundle's Image has a
\* banner that kernel_banner reads; without one nothing would be written down.
ModulesPending ==
    /\ At("pend")
    /\ IF HasMods(proc.new)
       THEN /\ fs' = [fs EXCEPT !.pending = proc.new] /\ Sync
            /\ Put(Release[proc.new], EachSystem(fs.stage), "drop")
       ELSE Goto("drop") /\ NoSync /\ UNCHANGED fs
    /\ UNCHANGED device

\* Putting a set in fails.  In the install the kept set goes back; in the step
\* that found its image in place, the end of the step settles it; a settling
\* leaves modules.pending as it is.
PutFails ==
    /\ At("put") /\ proc.half # None /\ proc.then \in {"drop", "same", "settled"}
    /\ (IF proc.then = "settled" THEN "settle" ELSE "install") \in Faults
    /\ CASE proc.then = "drop" -> Put(fs.newMods.rel, fs.newMods.set, "undo")
         [] proc.then = "same" -> Goto("end")
         [] proc.then = "settled" -> Return(Unsettled)
    /\ NoSync /\ UNCHANGED <<fs, device>>

\* The kept set does not go back (prev_modules_restore).  A failed install does
\* not look at the status, rollback-boot stops and says so, the trap goes on:
\* none of them leaves modules.pending.  After a failed write it stays.
RestoreFails ==
    /\ "restore" \in Faults /\ At("put") /\ proc.half # None /\ proc.src[proc.half] # None
    /\ proc.then \in {"undo", "restored", "unrecord", "sweep"}
    /\ CASE proc.then = "restored" -> Goto("end")
         [] proc.then = "unrecord" -> Settle("sweep")
         [] OTHER -> Goto(proc.then)
    /\ lost' = (lost \/ proc.then # "restored")
    /\ NoSync /\ UNCHANGED <<fs, slot, running, phase, was>>

Undo ==
    /\ proc.pc \in {"undo", "restored"} /\ fs' = [fs EXCEPT !.pending = None] /\ Sync
    /\ Goto("end") /\ UNCHANGED device

\* prev_modules_commit: the set kept so far goes, the new one takes its name.
PrevModulesDrop ==
    /\ At("drop") /\ fs' = [fs EXCEPT !.mods = NoMods]
    /\ Goto("commit") /\ NoSync /\ UNCHANGED device

PrevModulesCommit ==
    /\ At("commit") /\ fs' = [fs EXCEPT !.mods = fs.newMods, !.newMods = NoMods]
    /\ Goto("body") /\ NoSync /\ UNCHANGED device

KeepImage ==
    /\ At("body") /\ fs' = [fs EXCEPT !.kept = slot]
    /\ Goto("write") /\ NoSync /\ UNCHANGED device

\* Mutant of WriteStart: no sync before the write.
MutWriteStart ==
    /\ At("write") /\ slot' = Torn /\ was' = slot
    /\ Goto("writing") /\ NoSync /\ UNCHANGED <<fs, running, phase, lost>>

\* sync, then write_boot, which reads back what it wrote.
WriteStart ==
    /\ At("write") /\ UNCHANGED fs /\ Sync
    /\ slot' = Torn /\ was' = slot
    /\ Goto("writing") /\ UNCHANGED <<running, phase, lost>>

WriteOk ==
    /\ At("writing") /\ UNCHANGED fs /\ Sync
    /\ slot' = proc.new /\ was' = None
    /\ Goto("record") /\ UNCHANGED <<running, phase, lost>>

\* The previous image and its set go back; the second write may fail as well.
WriteFails ==
    /\ "write" \in Faults /\ At("writing") /\ UNCHANGED fs /\ NoSync
    /\ slot' \in {fs.kept, Torn} /\ was' = IF slot' = Torn THEN was ELSE None
    /\ Put(fs.mods.rel, fs.mods.set, "restored") /\ UNCHANGED <<running, phase, lost>>

Record ==
    /\ At("record") /\ fs' = [fs EXCEPT !.installed = proc.new]
    /\ Goto("done") /\ NoSync /\ UNCHANGED device

ModulesDone ==
    /\ At("done") /\ fs' = [fs EXCEPT !.pending = None] /\ Sync
    /\ Goto("stale") /\ UNCHANGED device

StaleSets ==
    /\ At("stale")
    /\ fs' = [fs EXCEPT !.set = Without(@, Needed(proc.new, fs.kept))] /\ Sync
    /\ Goto("end") /\ UNCHANGED device

\* Mutant of StepEnd: the clean-up comes before the settling.
MutStepEnd ==
    /\ At("end") /\ fs' = [fs EXCEPT !.stage = None, !.newMods = NoMods]
    /\ Settle("tidy") /\ NoSync /\ UNCHANGED device

StepEnd ==
    /\ At("end") /\ Settle("tidy")
    /\ NoSync /\ UNCHANGED <<fs, device>>

\* What the step unpacked goes, and then the EXIT trap runs boot_abort.
StepTidy ==
    /\ At("tidy") /\ fs' = [fs EXCEPT !.stage = None, !.newMods = NoMods]
    /\ Settle("sweep") /\ NoSync /\ UNCHANGED device

Sweep ==
    /\ At("sweep") /\ fs' = [fs EXCEPT !.stage = None, !.newMods = NoMods]
    /\ proc' = Idle /\ NoSync /\ UNCHANGED device

-----------------------------------------------------------------------------
(* rollback_boot: the kept image, then the kept set.                        *)
RollbackNone ==
    /\ At("rollback-boot") /\ fs.kept = None /\ Settle("sweep")
    /\ NoSync /\ UNCHANGED <<fs, device>>

RollbackStart ==
    /\ At("rollback-boot") /\ fs.kept # None
    /\ slot' = Torn /\ was' = fs.kept
    /\ Goto("rewriting") /\ NoSync /\ UNCHANGED <<fs, running, phase, lost>>

RollbackWritten ==
    /\ At("rewriting") /\ UNCHANGED fs /\ Sync
    /\ slot' = fs.kept /\ was' = None
    /\ Put(fs.mods.rel, fs.mods.set, "unrecord") /\ UNCHANGED <<running, phase, lost>>

RollbackFails ==
    /\ "write" \in Faults /\ At("rewriting") /\ Settle("sweep")
    /\ NoSync /\ UNCHANGED <<fs, device>>

Unrecord ==
    /\ At("unrecord") /\ fs' = [fs EXCEPT !.installed = None] /\ Sync
    /\ Settle("sweep") /\ UNCHANGED device

-----------------------------------------------------------------------------
(* Stops, restarts and the ramdisk.                                         *)
\* The windows a run may assume whole, where nothing stops the updater and the
\* file system writes down no part: "keep", while the kept set and the kept image
\* are not each other's, on the way in or given up; "restore", from the write of
\* the previous image until its set is back; "abort", the trap that finds the
\* set saved and no modules.pending yet (no signal comes there).
Window == CASE proc.pc \in {"giveup", "commit", "body", "write"} -> "keep"
            [] proc.pc = "unrecord" \/ proc.then = "unrecord" -> "restore"
            [] OTHER -> "none"

\* A signal: the EXIT trap runs boot_abort.
Kill ==
    /\ phase = "up" /\ Window \notin Whole
    /\ proc.pc \notin {"idle", "sweep"} /\ proc.back # "sweep"
    /\ At("pend") /\ fs.newMods # NoMods => "abort" \notin Whole
    /\ IF At("pend") /\ fs.newMods # NoMods
       THEN proc' = [proc EXCEPT !.pc = "put", !.then = "sweep", !.back = "sweep", !.half = None,
                        !.rel = fs.newMods.rel, !.src = fs.newMods.set, !.todo = Systems]
       ELSE Settle("sweep")
    /\ NoSync /\ UNCHANGED <<fs, device>>

\* Killed without the trap.
KillHard ==
    /\ phase = "up" /\ proc.pc # "idle" /\ Window \notin Whole
    /\ proc' = Idle /\ NoSync /\ UNCHANGED <<fs, device>>

\* The file system writes down what was done so far, in its order.
Journal ==
    /\ disk # fs /\ Window \notin Whole /\ disk' = fs
    /\ UNCHANGED <<fs, solid, loose, device, proc>>

\* Files whose data had not reached the disk come back empty.
PowerCut ==
    /\ phase # "off" /\ Window \notin Whole
    /\ LET empty(o, r) == o \in loose /\ disk.set[o][r] = disk.stage
       IN  fs' = [disk EXCEPT !.stage = IF solid \/ @ = None THEN @ ELSE Part,
                              !.set = [o \in Systems |-> [r \in Rels |->
                                          IF empty(o, r) THEN Part ELSE disk.set[o][r]]]]
    /\ Sync
    /\ phase' = "off" /\ running' = None /\ proc' = Idle /\ UNCHANGED <<slot, was, lost>>

Reboot ==
    /\ phase = "up" /\ At("idle") /\ UNCHANGED fs /\ Sync
    /\ phase' = "off" /\ running' = None /\ UNCHANGED <<slot, was, lost, proc>>

\* A whole image starts, and its init settles the modules first.
PowerOn ==
    /\ phase = "off" /\ slot # Torn
    /\ phase' = "ramdisk" /\ running' = slot
    /\ proc' = [Idle EXCEPT !.pc = "settle", !.back = "handover"]
    /\ NoSync /\ UNCHANGED <<fs, slot, was, lost>>

Handover ==
    /\ At("handover") /\ phase' = "up" /\ proc' = Idle
    /\ NoSync /\ UNCHANGED <<fs, slot, running, was, lost>>

Next ==
    \/ \E op \in Ops, b \in Builds \cup {None} : (op = "boot" => b # None) /\ Start(op, b)
    \/ PutClear \/ PutLink \/ PutDone \/ PutFails \/ RestoreFails
    \/ SettleNothing \/ SettleNew \/ SettleKept \/ Settled
    \/ StepSettle \/ StepClean \/ KeptDropSet \/ KeptDrop \/ Unpack \/ StepStops \/ UnpackSync
    \/ UpToDate \/ Same \/ NewImage \/ PrevModulesSave \/ ModulesPending \/ Undo
    \/ PrevModulesDrop \/ PrevModulesCommit \/ KeepImage \/ WriteStart \/ WriteOk \/ WriteFails
    \/ Record \/ ModulesDone \/ StaleSets \/ StepEnd \/ StepTidy \/ Sweep
    \/ RollbackNone \/ RollbackStart \/ RollbackWritten \/ RollbackFails \/ Unrecord
    \/ Kill \/ KillHard \/ Journal \/ PowerCut \/ Reboot \/ PowerOn \/ Handover

Spec == Init /\ [][Next]_vars

-----------------------------------------------------------------------------
(* Properties.                                                              *)
Pcs == {"idle", "settle", "settled", "put", "boot", "clean", "fetch", "giveup", "unpacked",
        "compare", "same", "save", "pend", "undo", "restored", "drop", "commit", "body", "write", "writing",
        "record", "done", "stale", "end", "tidy", "sweep", "rollback-boot", "rewriting", "unrecord", "handover"}
Mods == [rel : Rels \cup {None}, set : [Systems -> Sets]]
Files == [set : [Systems -> [Rels -> Sets]], kept : Builds \cup {None}, mods : Mods, newMods : Mods,
          pending : Builds \cup {None}, stage : Sets, installed : Builds \cup {None}]

\* Every file holds a value its writers can have written, and modules.pending
\* names a kernel that brings modules.
TypeOK ==
    /\ fs \in Files /\ disk \in Files /\ solid \in BOOLEAN /\ loose \subseteq Systems
    /\ slot \in Builds \cup {Torn} /\ running \in Builds \cup {None} /\ was \in Builds \cup {None}
    /\ lost \in BOOLEAN
    /\ phase \in {"off", "ramdisk", "up"}
    /\ proc \in [pc : Pcs, new : Builds \cup {None}, back : Pcs, then : Pcs, todo : SUBSET Systems,
                 half : Systems \cup {None}, src : [Systems -> Sets], rel : Rels \cup {None}]
    /\ fs.pending # None => HasMods(fs.pending)

Matched(b) == HasMods(b) => \A o \in Systems : fs.set[o][Release[b]] = b

\* "The two belong together": when the ramdisk hands over to a system, and
\* whenever no step is under way or waiting to be settled, every system has the
\* modules of the very build in the slot, whatever interrupted the updater.  A
\* kept set that failed to go back, which the updater can only report, is the
\* one exception.
SetsMatch ==
    ~lost => /\ At("handover") => Matched(running)
             /\ phase = "up" /\ At("idle") /\ fs.pending = None /\ slot # Torn => Matched(slot)

\* "Whoever finds it next puts in the set of the image in the slot": as long as
\* modules.pending is there, what the settling would put in is there too, the
\* unpacked set or the one saved, however often it is interrupted.
Repairable ==
    ~lost /\ fs.pending # None /\ slot # Torn =>
        IF slot = fs.pending THEN fs.stage = slot
        ELSE Release[slot] = Release[fs.pending] => KeptOf(Release[slot]) = EachSystem(slot)

\* No run is under way and rollback-boot has an image to put back.
Rollable == phase = "up" /\ At("idle") /\ fs.pending = None /\ fs.kept # None
\* rollback-boot "never puts back an image without its modules": between runs
\* the set it would put in place for the kept image is that image's own, as
\* long as every set put back went back whole.
KeptMatch ==
    ~lost /\ Rollable /\ HasMods(fs.kept)
        => \A o \in Systems :
             fs.kept = IF fs.mods.rel = Release[fs.kept] THEN fs.mods.set[o]
                                                         ELSE fs.set[o][Release[fs.kept]]

\* While the slot is half written the image to go back to is on the disk.
TornIsKept == slot = Torn => disk.kept = was

=============================================================================
