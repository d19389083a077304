--------------------------- MODULE KernelSetSteps ---------------------------
(***************************************************************************)
(* That the module sets belong to the images, 1: the inductive invariant,  *)
(* and the steps that keep it up to the mark: the settling, the putting in *)
(* of a set, and the kernel step until the new image is about to be        *)
(* written.  The settling does not fail here, and nothing interrupts a run *)
(* in one of the three windows (see KernelSetProofs).                      *)
(***************************************************************************)
EXTENDS KernelStepProofs
USE BuildsAssumption, RunsAssumption

\* Every system has the set of build b, in the sets t.
Holds(t, b) == HasMods(b) => \A o \in Systems : t[o][Release[b]] = b

\* What the settling puts in when the slot is not the pending kernel (KeptOf).
SavedOf(new, old, rel) == IF new.rel = rel THEN new.set
                          ELSE IF old.rel = rel THEN old.set
                          ELSE EachSystem(None)

\* With the sets t and the mark q in place of those of the files f: the sets
\* belong to the image s of the slot, or the settling has what makes them.
SlotFits(t, q, f, s) ==
    s # Torn =>
      IF q = None THEN Holds(t, s)
      ELSE IF s = q THEN f.stage = s
      ELSE IF Release[s] = Release[q] THEN SavedOf(f.newMods, f.mods, Release[s]) = EachSystem(s)
      ELSE Holds(t, s)

\* The same for the kept image: its set is saved with it, or the systems have
\* it, or the settling puts it in.
KeptFits(t, q, f, s) ==
    f.kept # None /\ HasMods(f.kept) =>
      IF f.mods.rel = Release[f.kept] THEN f.mods.set = EachSystem(f.kept)
      ELSE IF q # None /\ Release[q] = Release[f.kept]
      THEN /\ s # Torn
           /\ IF s = q THEN EachSystem(f.stage) = EachSystem(f.kept)
              ELSE f.newMods.rel = Release[f.kept] /\ f.newMods.set = EachSystem(f.kept)
      ELSE Holds(t, f.kept)

Fits(f, s) == SlotFits(f.set, f.pending, f, s)
Keeps(f, s) == KeptFits(f.set, f.pending, f, s)

\* The sets t with src put in under rel.
Filled(t, rel, src) ==
    [o \in Systems |-> [r \in Rels |-> IF r = rel THEN src[o] ELSE t[o][r]]]

\* With the sets t the mark may go.
Ends(t) == SlotFits(t, None, fs, slot) /\ KeptFits(t, None, fs, slot)

Putting(then) == proc.pc = "put" /\ proc.then = then
Restoring == Putting("unrecord") \/ proc.pc = "unrecord"
Keeping == proc.pc \in {"giveup", "commit", "body", "write"}
Installing ==
    Putting("drop") \/ proc.pc \in {"drop", "commit", "body", "write", "writing", "record", "done"}
\* No run, or a run that has settled and marked nothing since.
Unmarked == {"boot", "clean", "fetch", "giveup", "unpacked", "compare", "save", "pend", "tidy",
             "sweep", "rollback-boot", "rewriting", "handover", "stale", "unrecord"}

\* What was unpacked is on the disk before anything depends on it.
Firm == \/ fs.pending # None
        \/ proc.pc = "put" /\ proc.todo # {}
        \/ proc.pc \in {"compare", "save", "pend"} /\ HasMods(proc.new)
        \/ proc.pc = "writing"
\* A power cut keeps the mark and empties no set.
CutInv == loose = {} /\ disk.pending = fs.pending /\ (Firm => solid = TRUE)

\* What programs see, and what a power cut leaves.
FitInv ==
    /\ ~Putting("unrecord") => Fits(fs, slot)
    /\ ~Restoring => Fits(disk, slot)
    /\ ~Keeping => Keeps(fs, slot) /\ Keeps(disk, slot)
    /\ proc.pc = "giveup" => Keeps(disk, slot)

\* A set being put in: once it is, the sets are as the next step needs them.
PutInv ==
    proc.pc = "put" =>
      /\ proc.then \in {"settled", "same", "undo", "restored", "unrecord", "drop"}
      /\ proc.rel # None => \A o \in Systems \ proc.todo : fs.set[o][proc.rel] = proc.src[o]
      /\ proc.half # None => proc.half \in proc.todo
      /\ proc.todo # {} => proc.rel # None
      /\ proc.todo # {} /\ proc.then # "unrecord" =>
           fs.pending # None /\ proc.rel = Release[fs.pending]
      /\ proc.then \in {"settled", "same", "undo", "restored"} =>
           Ends(Filled(fs.set, proc.rel, proc.src))
      /\ proc.then = "unrecord" =>
           /\ fs.pending = None /\ fs.kept = slot /\ proc.rel = fs.mods.rel
           /\ SlotFits(Filled(fs.set, proc.rel, proc.src), None, fs, slot)
      /\ proc.then = "drop" => proc.rel = Release[proc.new] /\ proc.src = EachSystem(proc.new)

\* The saved set m is that of the slot, if the new kernel's takes its place.
Saved(m) ==
    /\ m.rel = IF HasMods(proc.new) THEN Release[proc.new] ELSE None
    /\ HasMods(proc.new) /\ Release[slot] = Release[proc.new] => m.set = EachSystem(slot)

StepInv ==
    /\ proc.pc \in {"settled", "same", "undo", "restored"} => Ends(fs.set)
    /\ proc.pc \in Unmarked => fs.pending = None
    /\ proc.pc \in {"unpacked", "compare", "save", "pend"} \/ Installing => fs.stage = proc.new
    /\ proc.pc = "pend" /\ HasMods(proc.new) =>
         /\ fs.newMods.rel = Release[proc.new]
         /\ fs.newMods.set = [o \in Systems |-> fs.set[o][Release[proc.new]]]
    /\ proc.pc = "pend" /\ ~HasMods(proc.new) => fs.newMods = NoMods
    /\ Installing => fs.pending = IF HasMods(proc.new) THEN proc.new ELSE None
    /\ Installing /\ proc.pc # "put" => Holds(fs.set, proc.new)
    /\ Putting("drop") \/ proc.pc \in {"drop", "commit"} => Saved(fs.newMods)
    /\ proc.pc \in {"body", "write"} => Saved(fs.mods)
    /\ proc.pc \in {"body", "write", "writing", "record", "done"} => fs.newMods = NoMods
    /\ proc.pc = "writing" =>
         disk = fs /\ fs.mods.rel = IF HasMods(proc.new) THEN Release[proc.new] ELSE None
    /\ proc.pc \in {"record", "done", "stale"} => slot = proc.new /\ proc.new \in Builds

\* The ramdisk settles for the kernel that runs, and for nobody else.
RamInv ==
    /\ phase = "ramdisk" =>
         /\ running = slot
         /\ \/ proc.pc = "handover"
            \/ proc.back = "handover" /\ (proc.pc \in {"settle", "settled"} \/ Putting("settled"))
    /\ proc.pc = "handover" \/ proc.back = "handover" => phase = "ramdisk"

MatchInv == CutInv /\ FitInv /\ PutInv /\ StepInv

-----------------------------------------------------------------------------
(* What the two predicates depend on.                                      *)
\* With no mark, only the sets and what is kept matter.
LEMMA FitsUnmarked ==
    ASSUME NEW t, NEW f, NEW g, NEW s
    PROVE  /\ SlotFits(t, None, f, s) => SlotFits(t, None, g, s)
           /\ g.kept = f.kept /\ g.mods = f.mods =>
                \A v : KeptFits(t, None, f, s) => KeptFits(t, None, g, v)
BY DEF SlotFits, KeptFits

\* With the mark of q, the sets of q's release do not matter.
LEMMA FitsPut ==
    ASSUME NEW t, NEW u, NEW q, NEW f, NEW s, q # None,
           \A o \in Systems, r \in Rels : r # Release[q] => u[o][r] = t[o][r],
           s \in Builds \cup {Torn}, f.kept \in Builds \cup {None}
    PROVE  /\ SlotFits(t, q, f, s) => SlotFits(u, q, f, s)
           /\ KeptFits(t, q, f, s) => KeptFits(u, q, f, s)
<1>1. ASSUME NEW b \in Builds, Release[b] # Release[q], Holds(t, b) PROVE Holds(u, b)
  BY Zenon, <1>1, HasRelease DEF Holds
<1>2. SlotFits(t, q, f, s) => SlotFits(u, q, f, s)
  BY <1>1 DEF SlotFits
<1>3. KeptFits(t, q, f, s) => KeptFits(u, q, f, s)
  BY <1>1 DEF KeptFits
<1> QED
  BY <1>2, <1>3

\* The sets that boot_sets_stale leaves are those of the images.
LEMMA HoldsWithout ==
    ASSUME NEW t, NEW rels, NEW b \in Builds, Release[b] \in rels, Holds(t, b)
    PROVE  Holds(Without(t, rels), b)
BY Zenon, HasRelease DEF Holds, Without

LEMMA FitsWithout ==
    ASSUME NEW t, NEW rels, NEW f, NEW s \in Builds \cup {Torn},
           s # Torn => Release[s] \in rels,
           f.kept \in Builds \cup {None}, f.kept # None => Release[f.kept] \in rels
    PROVE  /\ SlotFits(t, None, f, s) => SlotFits(Without(t, rels), None, f, s)
           /\ KeptFits(t, None, f, s) => KeptFits(Without(t, rels), None, f, s)
BY HoldsWithout DEF SlotFits, KeptFits

\* Sets that are in already, and sets put in over others.
LEMMA FilledIs ==
    ASSUME NEW t \in [Systems -> [Rels -> Sets]], NEW rel, NEW src,
           rel \in Rels => \A o \in Systems : t[o][rel] = src[o]
    PROVE  Filled(t, rel, src) = t
BY DEF Filled

LEMMA FilledHolds ==
    ASSUME NEW t, NEW rel, NEW src, NEW b \in Builds
    PROVE  /\ Release[b] = rel /\ src = EachSystem(b) => Holds(Filled(t, rel, src), b)
           /\ Release[b] # rel /\ Holds(t, b) => Holds(Filled(t, rel, src), b)
BY HasRelease DEF Filled, Holds, EachSystem

\* Sets put in under the release of the mark let the mark go, if they are the
\* slot's and, where the systems are to hold the kept image's, that one's.
LEMMA EndsPut ==
    ASSUME NEW t, NEW q \in Builds, NEW f, NEW s \in Builds \cup {Torn}, NEW src,
           SlotFits(t, q, f, s), KeptFits(t, q, f, s), f.kept \in Builds \cup {None},
           s # Torn /\ Release[s] = Release[q] => src = EachSystem(s),
           f.kept # None /\ HasMods(f.kept) /\ Release[f.kept] = Release[q]
             /\ f.mods.rel # Release[f.kept] => src = EachSystem(f.kept)
    PROVE  /\ SlotFits(Filled(t, Release[q], src), None, f, s)
           /\ KeptFits(Filled(t, Release[q], src), None, f, s)
<1> DEFINE u == Filled(t, Release[q], src)
<1>1. \A b \in Builds : Release[b] = Release[q] /\ src = EachSystem(b) => Holds(u, b)
  BY FilledHolds
<1>2. \A b \in Builds : Release[b] # Release[q] /\ Holds(t, b) => Holds(u, b)
  BY FilledHolds
<1>3. q # None
  OBVIOUS
<1> HIDE DEF u
<1>4. SlotFits(u, None, f, s)
  BY <1>1, <1>2, <1>3 DEF SlotFits
<1>5. KeptFits(u, None, f, s)
  BY <1>1, <1>2, <1>3 DEF KeptFits
<1> QED
  BY <1>4, <1>5 DEF u

LEMMA SavedIs ==
    ASSUME NEW rel
    PROVE  KeptOf(rel) = SavedOf(fs.newMods, fs.mods, rel)
BY DEF KeptOf, SavedOf

\* The two sets the settling puts in.
LEMMA EndsNew ==
    ASSUME IInv, fs.pending # None, slot = fs.pending \/ slot = Torn, Fits(fs, slot), Keeps(fs, slot)
    PROVE  Ends(Filled(fs.set, Release[fs.pending], EachSystem(fs.stage)))
<1>1. fs.pending \in Builds /\ slot \in Builds \cup {Torn} /\ fs.kept \in Builds \cup {None}
  BY FilesHave DEF IInv, DeviceOK
<1>2. slot # Torn => fs.stage = slot
  BY <1>1 DEF Fits, SlotFits
<1>3. fs.kept # None /\ HasMods(fs.kept) /\ Release[fs.kept] = Release[fs.pending]
        /\ fs.mods.rel # Release[fs.kept] => EachSystem(fs.stage) = EachSystem(fs.kept)
  BY <1>1 DEF Keeps, KeptFits
<1> QED
  BY <1>1, <1>2, <1>3, EndsPut DEF Ends, Fits, Keeps

LEMMA EndsKept ==
    ASSUME IInv, fs.pending # None, slot # fs.pending, Fits(fs, slot), Keeps(fs, slot)
    PROVE  Ends(Filled(fs.set, Release[fs.pending], KeptOf(Release[fs.pending])))
<1>1. fs.pending \in Builds /\ slot \in Builds \cup {Torn} /\ fs.kept \in Builds \cup {None}
  BY FilesHave DEF IInv, DeviceOK
<1>2. slot # Torn /\ Release[slot] = Release[fs.pending] =>
        KeptOf(Release[fs.pending]) = EachSystem(slot)
  BY <1>1, SavedIs DEF Fits, SlotFits
<1>3. fs.kept # None /\ HasMods(fs.kept) /\ Release[fs.kept] = Release[fs.pending]
        /\ fs.mods.rel # Release[fs.kept] => KeptOf(Release[fs.pending]) = EachSystem(fs.kept)
  BY <1>1 DEF Keeps, KeptFits, KeptOf
<1> QED
  BY <1>1, <1>2, <1>3, EndsPut DEF Ends, Fits, Keeps

-----------------------------------------------------------------------------
(* What the steps have in common.                                          *)

\* Between the windows both images fit, now and after a power cut.
Sound == Fits(fs, slot) /\ Fits(disk, slot) /\ Keeps(fs, slot) /\ Keeps(disk, slot)

\* Nothing the invariant speaks of changes, or the files reach the disk.
LEMMA MatchStays ==
    ASSUME MatchInv, UNCHANGED <<fs, solid, loose, slot, proc>>,
           disk' = disk \/ (disk' = fs /\ ~Keeping)
    PROVE  MatchInv'
<1>1. CutInv'
  BY Zenon DEF MatchInv, CutInv, Firm
<1>2. Installing' <=> Installing
  BY DEF Installing, Putting
<1>3. Putting("drop")' <=> Putting("drop")
  BY DEF Putting
<1>4. Ends(fs.set)' <=> Ends(fs.set)
  BY DEF Ends
<1>5. (Saved(fs.newMods)' <=> Saved(fs.newMods)) /\ (Saved(fs.mods)' <=> Saved(fs.mods))
  BY DEF Saved
<1>6. StepInv'
  BY <1>2, <1>3, <1>4, <1>5 DEF MatchInv, StepInv
<1>7. /\ Restoring' <=> Restoring
      /\ Keeping' <=> Keeping
      /\ Putting("unrecord")' <=> Putting("unrecord")
      /\ Putting("unrecord") => Restoring
      /\ proc.pc = "giveup" => Keeping
  BY DEF Restoring, Keeping, Putting
<1>8. FitInv'
  BY <1>7 DEF MatchInv, FitInv
<1>9. PutInv'
  BY DEF MatchInv, PutInv, Ends
<1> QED
  BY <1>1, <1>6, <1>8, <1>9 DEF MatchInv

LEMMA SoundIs ==
    ASSUME FitInv, ~Restoring, ~Keeping
    PROVE  Sound
BY DEF FitInv, Sound, Restoring

LEMMA SoundStays ==
    ASSUME Sound, fs' = fs, disk' = disk, slot' = slot
    PROVE  Sound'
BY DEF Sound, Fits, Keeps

LEMMA SoundSynced ==
    ASSUME disk' = fs', Fits(fs', slot'), Keeps(fs', slot')
    PROVE  Sound'
BY DEF Sound, Fits, Keeps

LEMMA SoundSees ==
    ASSUME Sound, disk' = disk, slot' = slot, Fits(fs', slot'), Keeps(fs', slot')
    PROVE  Sound'
BY DEF Sound, Fits, Keeps

\* Places that need nothing else.
LEMMA Rest ==
    ASSUME CutInv', Sound',
           proc'.pc \in {"idle", "settle", "end"} \/ (fs'.pending = None /\ proc'.pc \in Backs)
    PROVE  MatchInv'
<1>1. FitInv'
  BY DEF Sound, FitInv
<1>2. PutInv'
  BY DEF PutInv, Backs, Stepped
<1>3. StepInv'
  BY DEF StepInv, Backs, Stepped, Installing, Putting, Unmarked
<1> QED
  BY <1>1, <1>2, <1>3 DEF MatchInv

\* Steps that change no file.
LEMMA CutStays ==
    ASSUME CutInv, UNCHANGED <<fs, disk, solid, loose>>,
           fs.pending # None \/ proc'.pc \notin {"put", "compare", "save", "pend", "writing"}
    PROVE  CutInv'
BY Zenon DEF CutInv, Firm

LEMMA CutSynced ==
    ASSUME Sync
    PROVE  CutInv'
BY Zenon DEF Sync, CutInv, Firm

\* The windows that nothing interrupts.
LEMMA WindowIs ==
    ASSUME Control, {"keep", "restore"} \subseteq Whole, Window \notin Whole
    PROVE  ~Restoring /\ ~Keeping
<1>1. proc.pc \in {"giveup", "commit", "body", "write"} => Window = "keep"
  BY DEF Window
<1>2. proc.pc = "unrecord" \/ proc.then = "unrecord" =>
        proc.pc \notin {"giveup", "commit", "body", "write"}
  BY DEF Control
<1>3. proc.pc = "unrecord" \/ proc.then = "unrecord" => Window = "restore"
  BY <1>2 DEF Window
<1> QED
  BY <1>1, <1>3 DEF Keeping, Restoring, Putting

\* A step that changes no file and goes where nothing else is needed.
LEMMA Goes ==
    ASSUME MatchInv, ~Restoring, ~Keeping, UNCHANGED <<fs, disk, solid, loose>>, slot' = slot,
           proc'.pc \in {"idle", "settle", "end"} \/ (fs.pending = None /\ proc'.pc \in Backs)
    PROVE  MatchInv'
<1>1. Sound'
  BY SoundIs, SoundStays DEF MatchInv
<1>2. proc'.pc \notin {"put", "compare", "save", "pend", "writing"}
  BY DEF Backs, Stepped
<1>3. CutInv'
  BY <1>2, CutStays DEF MatchInv
<1> QED
  BY <1>1, <1>3, Rest

LEMMA MatchGoes ==
    ASSUME IInv, MatchInv
    PROVE  /\ \A op \in Ops, b \in Builds \cup {None} : Start(op, b) => MatchInv'
           /\ SettleNothing \/ StepSettle \/ StepStops \/ StepEnd \/ RollbackNone \/ RollbackFails
                => MatchInv'
           /\ (PowerOn /\ OffInv) \/ Handover => MatchInv'
<1> USE DEF device, NoSync, At, Restoring, Keeping, Putting
<1>1. ASSUME NEW op \in Ops, NEW b \in Builds \cup {None}, Start(op, b) PROVE MatchInv'
  <2>1. proc'.pc = "settle" /\ proc.pc = "idle"
    BY <1>1 DEF Start, Idle
  <2>2. UNCHANGED <<fs, disk, solid, loose>> /\ slot' = slot
    BY <1>1 DEF Start
  <2> QED
    BY <2>1, <2>2, Goes
<1>2. CASE SettleNothing
  <2>1. proc'.pc = proc.back /\ proc.pc = "settle" /\ fs.pending = None /\ proc.back \in Backs
    BY <1>2, ReturnMoves, ProcHas DEF SettleNothing, Moves, IInv, Control
  <2>2. UNCHANGED <<fs, disk, solid, loose>> /\ slot' = slot
    BY <1>2 DEF SettleNothing
  <2> QED
    BY <2>1, <2>2, Goes
<1>3. CASE StepSettle \/ StepEnd \/ RollbackNone \/ RollbackFails
  <2>1. /\ proc'.pc = "settle" /\ proc.pc \in {"boot", "end", "rollback-boot", "rewriting"}
    BY Zenon, <1>3 DEF StepSettle, StepEnd, RollbackNone, RollbackFails, Settle, Idle
  <2>2. UNCHANGED <<fs, disk, solid, loose>> /\ slot' = slot
    BY <1>3 DEF StepSettle, StepEnd, RollbackNone, RollbackFails
  <2> QED
    BY <2>1, <2>2, Goes
<1>4. CASE StepStops
  <2>1. proc'.pc = "end" /\ proc.pc \in {"fetch", "unpacked", "compare", "save"}
    BY <1>4 DEF StepStops, Goto, Idle
  <2>2. UNCHANGED <<fs, disk, solid, loose>> /\ slot' = slot
    BY <1>4 DEF StepStops
  <2> QED
    BY <2>1, <2>2, Goes
<1>5. CASE PowerOn /\ OffInv
  <2>1. proc'.pc = "settle" /\ proc.pc = "idle"
    BY <1>5 DEF PowerOn, OffInv, Idle
  <2>2. UNCHANGED <<fs, disk, solid, loose>> /\ slot' = slot
    BY <1>5 DEF PowerOn
  <2> QED
    BY <2>1, <2>2, Goes
<1>6. CASE Handover
  <2>1. proc'.pc = "idle" /\ proc.pc = "handover"
    BY <1>6 DEF Handover, Idle
  <2>2. UNCHANGED <<fs, disk, solid, loose>> /\ slot' = slot
    BY <1>6 DEF Handover
  <2> QED
    BY <2>1, <2>2, Goes
<1> QED
  BY <1>1, <1>2, <1>3, <1>4, <1>5, <1>6

LEMMA MatchKill ==
    ASSUME IInv, MatchInv, {"keep", "restore", "abort"} \subseteq Whole, Kill \/ KillHard
    PROVE  MatchInv'
<1>1. ~Restoring /\ ~Keeping
  BY WindowIs DEF Kill, KillHard, IInv
<1>2. UNCHANGED <<fs, disk, solid, loose>> /\ slot' = slot
  BY DEF Kill, KillHard, device, NoSync
<1>3. Settle("sweep") \/ proc' = Idle
  <2>1. "abort" \in Whole
    OBVIOUS
  <2> QED
    BY Zenon, <2>1 DEF Kill, KillHard
<1>4. proc'.pc \in {"settle", "idle"}
  BY <1>3, SettleMoves DEF Moves, Idle, Pcs
<1> QED
  BY <1>1, <1>2, <1>4, Goes

-----------------------------------------------------------------------------
(* Putting a set in.                                                       *)

LEMMA PlaceIs ==
    ASSUME IInv, NEW o \in Systems, NEW r, NEW v, fs' = [fs EXCEPT !.set[o][r] = v]
    PROVE  /\ fs'.set = [fs.set EXCEPT ![o][r] = v]
           /\ fs'.kept = fs.kept /\ fs'.mods = fs.mods /\ fs'.newMods = fs.newMods
           /\ fs'.pending = fs.pending /\ fs'.stage = fs.stage
BY FilesHave DEF Files

\* One system's set changes under the release that is put in.
LEMMA PutFitInv ==
    ASSUME IInv, MatchInv, proc.pc = "put", NEW o \in proc.todo, NEW v,
           fs' = [fs EXCEPT !.set[o][proc.rel] = v], disk' = disk, slot' = slot,
           proc'.pc = "put", proc'.then = proc.then
    PROVE  FitInv'
<1>1. o \in Systems /\ proc.rel \in Rels
  BY DEF IInv, ProcType, MatchInv, PutInv
<1>2. /\ fs'.set = [fs.set EXCEPT ![o][proc.rel] = v]
      /\ fs'.kept = fs.kept /\ fs'.mods = fs.mods /\ fs'.newMods = fs.newMods
      /\ fs'.pending = fs.pending /\ fs'.stage = fs.stage
  BY <1>1, PlaceIs
<1>3. \A p \in Systems, r \in Rels : r # proc.rel => fs'.set[p][r] = fs.set[p][r]
  BY <1>1, <1>2, FilesHave
<1>4. slot \in Builds \cup {Torn} /\ fs.kept \in Builds \cup {None}
  BY FilesHave DEF IInv, DeviceOK
<1>5. ~Keeping /\ ~Keeping'
  BY DEF Keeping
<1>6. Keeps(fs, slot) /\ Keeps(disk, slot)
  BY <1>5 DEF MatchInv, FitInv
<1>7. CASE proc.then # "unrecord"
  <2>1. fs.pending # None /\ proc.rel = Release[fs.pending]
    BY <1>7 DEF MatchInv, PutInv
  <2>2. Sound
    BY <1>5, <1>7, SoundIs DEF MatchInv, Restoring, Putting
  <2>3. SlotFits(fs'.set, fs.pending, fs, slot) /\ KeptFits(fs'.set, fs.pending, fs, slot)
    <3>1. \A p \in Systems, r \in Rels : r # Release[fs.pending] => fs'.set[p][r] = fs.set[p][r]
      BY <1>3, <2>1
    <3>2. SlotFits(fs.set, fs.pending, fs, slot) /\ KeptFits(fs.set, fs.pending, fs, slot)
      BY <2>2 DEF Sound, Fits, Keeps
    <3> QED
      BY Zenon, <1>4, <2>1, <3>1, <3>2, FitsPut
  <2>4. Fits(fs', slot') /\ Keeps(fs', slot')
    BY <1>2, <2>3 DEF Fits, Keeps, SlotFits, KeptFits
  <2>5. Sound'
    BY <2>2, <2>4, SoundSees
  <2> QED
    BY <2>5 DEF Sound, FitInv
<1>8. CASE proc.then = "unrecord"
  <2>1. fs.pending = None /\ proc.rel = fs.mods.rel
    BY <1>8 DEF MatchInv, PutInv
  <2>2. fs.kept # None /\ HasMods(fs.kept) /\ fs.mods.rel # Release[fs.kept] /\ Holds(fs.set, fs.kept)
          => Holds(fs'.set, fs.kept)
    BY <1>3, <1>4, <2>1, HasRelease DEF Holds
  <2>3. Keeps(fs', slot')
    BY <1>2, <1>6, <2>1, <2>2 DEF Keeps, KeptFits
  <2>4. Keeps(disk', slot')
    BY <1>6
  <2> QED
    BY <1>8, <2>3, <2>4 DEF FitInv, Restoring, Putting
<1> QED
  BY <1>7, <1>8

\* What is left to put in, and what the sets will be, once the step is done.
LEMMA PutStepInv ==
    ASSUME IInv, MatchInv, proc.pc = "put", NEW o \in proc.todo, NEW v,
           fs' = [fs EXCEPT !.set[o][proc.rel] = v], slot' = slot,
           proc'.pc = "put", proc'.then = proc.then, proc'.rel = proc.rel, proc'.src = proc.src,
           proc'.new = proc.new,
           \/ proc'.half = o /\ proc'.todo = proc.todo
           \/ proc'.half = None /\ proc'.todo = proc.todo \ {o} /\ v = proc.src[o]
    PROVE  PutInv' /\ StepInv'
<1>1. o \in Systems /\ proc.rel \in Rels
  BY DEF IInv, ProcType, MatchInv, PutInv
<1>2. /\ fs'.set = [fs.set EXCEPT ![o][proc.rel] = v]
      /\ fs'.kept = fs.kept /\ fs'.mods = fs.mods /\ fs'.newMods = fs.newMods
      /\ fs'.pending = fs.pending /\ fs'.stage = fs.stage
  BY <1>1, PlaceIs
<1>3. \A p \in Systems \ proc'.todo : fs'.set[p][proc.rel] = proc.src[p]
  BY <1>1, <1>2, FilesHave DEF MatchInv, PutInv
<1>4. Filled(fs'.set, proc.rel, proc.src) = Filled(fs.set, proc.rel, proc.src)
  <2>1. \A p \in Systems, r \in Rels : r # proc.rel => fs'.set[p][r] = fs.set[p][r]
    BY <1>1, <1>2, FilesHave
  <2> QED
    BY <2>1 DEF Filled
<1>5. proc.then \in {"settled", "same", "undo", "restored"} => Ends(Filled(fs.set, proc.rel, proc.src))'
  <2>1. SUFFICES ASSUME proc.then \in {"settled", "same", "undo", "restored"}
                 PROVE  Ends(Filled(fs.set, proc.rel, proc.src))'
    OBVIOUS
  <2>2. Ends(Filled(fs.set, proc.rel, proc.src))
    BY <2>1 DEF MatchInv, PutInv
  <2> QED
    BY <1>2, <1>4, <2>2 DEF Ends, SlotFits, KeptFits
<1>6. proc.then = "unrecord" =>
        SlotFits(Filled(fs'.set, proc.rel, proc.src), None, fs', slot')
  BY <1>4, FitsUnmarked DEF MatchInv, PutInv
<1>7. PutInv'
  BY <1>1, <1>2, <1>3, <1>5, <1>6 DEF MatchInv, PutInv
<1>8. StepInv'
  BY <1>2 DEF MatchInv, StepInv, Installing, Putting, Saved, Unmarked
<1> QED
  BY <1>7, <1>8

LEMMA MatchPutOne ==
    ASSUME IInv, MatchInv, PutClear \/ PutLink
    PROVE  MatchInv'
<1>1. proc.pc = "put" /\ proc.todo \subseteq Systems /\ CutInv
  BY DEF PutClear, PutLink, At, IInv, ProcType, MatchInv
<1>2. CASE PutClear
  <2>1. PICK o \in proc.todo : /\ fs' = [fs EXCEPT !.set[o][proc.rel] = Part]
                               /\ proc' = [proc EXCEPT !.half = o]
    BY Zenon, <1>2 DEF PutClear
  <2>2. disk' = disk /\ slot' = slot /\ solid' = solid /\ loose' = loose
    BY <1>2 DEF PutClear, NoSync, device
  <2>3. /\ proc'.pc = "put" /\ proc'.then = proc.then /\ proc'.rel = proc.rel
        /\ proc'.src = proc.src /\ proc'.new = proc.new /\ proc'.half = o
        /\ proc'.todo = proc.todo
    BY <1>1, <2>1, ProcHas DEF ProcType
  <2>4. FitInv' /\ PutInv' /\ StepInv'
    BY <1>1, <2>1, <2>2, <2>3, PutFitInv, PutStepInv
  <2>5. fs'.pending = fs.pending
    BY <1>1, <2>1, PlaceIs
  <2>6. CutInv'
    BY <1>1, <2>2, <2>3, <2>5 DEF CutInv, Firm
  <2> QED
    BY <2>4, <2>6 DEF MatchInv
<1>3. CASE PutLink
  <2> DEFINE o == proc.half
  <2>1. o \in proc.todo
    BY <1>1, <1>3 DEF PutLink, MatchInv, PutInv
  <2>2. /\ fs' = [fs EXCEPT !.set[o][proc.rel] = proc.src[o]]
        /\ proc' = [proc EXCEPT !.half = None, !.todo = @ \ {proc.half}]
        /\ disk' = disk /\ slot' = slot /\ solid' = solid
    BY <1>3 DEF PutLink, device
  <2>3. /\ proc'.pc = "put" /\ proc'.then = proc.then /\ proc'.rel = proc.rel
        /\ proc'.src = proc.src /\ proc'.new = proc.new /\ proc'.half = None
        /\ proc'.todo = proc.todo \ {o}
    BY <1>1, <2>2, ProcHas DEF ProcType
  <2>4. FitInv' /\ PutInv' /\ StepInv'
    BY <1>1, <2>1, <2>2, <2>3, PutFitInv, PutStepInv
  <2>5. fs'.pending = fs.pending
    BY <1>1, <2>1, <2>2, PlaceIs
  <2>6. solid = TRUE
    BY <1>1, <2>1 DEF CutInv, Firm
  <2>7. loose' = loose
    BY Zenon, <1>3, <2>6 DEF PutLink
  <2>8. CutInv'
    BY Zenon, <1>1, <2>2, <2>5, <2>6, <2>7 DEF CutInv, Firm
  <2> QED
    BY <2>4, <2>8 DEF MatchInv
<1> QED
  BY <1>2, <1>3

LEMMA PutHas ==
    ASSUME IInv, NEW rel, NEW src, NEW then, Put(rel, src, then)
    PROVE  /\ proc'.pc = "put" /\ proc'.rel = rel /\ proc'.src = src /\ proc'.then = then
           /\ proc'.half = None /\ proc'.new = proc.new /\ proc'.back = proc.back
           /\ proc'.todo = IF rel = None THEN {} ELSE Systems
BY ProcHas DEF Put, ProcType

\* A set begins to be put in after which the mark may go.
LEMMA PutStarts ==
    ASSUME IInv, CutInv', Sound', NEW rel \in Rels \cup {None}, NEW src,
           NEW then \in {"settled", "same", "undo", "restored"}, Put(rel, src, then),
           rel # None => fs'.pending # None /\ rel = Release[fs'.pending],
           SlotFits(Filled(fs'.set, rel, src), None, fs', slot'),
           KeptFits(Filled(fs'.set, rel, src), None, fs', slot')
    PROVE  MatchInv'
<1>1. /\ proc'.pc = "put" /\ proc'.rel = rel /\ proc'.src = src /\ proc'.then = then
      /\ proc'.half = None /\ proc'.todo = IF rel = None THEN {} ELSE Systems
  BY PutHas
<1>2. FitInv'
  BY DEF Sound, FitInv
<1>3. PutInv'
  BY <1>1 DEF PutInv, Ends
<1>4. StepInv'
  BY <1>1 DEF StepInv, Installing, Putting, Unmarked
<1> QED
  BY <1>2, <1>3, <1>4 DEF MatchInv

LEMMA MatchSettles ==
    ASSUME IInv, MatchInv, SettleNew \/ SettleKept
    PROVE  MatchInv'
<1> DEFINE q == fs.pending
<1>1. proc.pc = "settle" /\ q # None /\ slot' = slot
  BY Zenon DEF SettleNew, SettleKept, At, device
<1>2. Sound /\ CutInv
  BY <1>1, SoundIs DEF MatchInv, Restoring, Keeping, Putting
<1>3. Release[q] \in Rels
  BY <1>1, FilesHave, HasRelease
<1>4. ASSUME NEW src, Put(Release[q], src, "settled"), UNCHANGED fs, NoSync,
             Ends(Filled(fs.set, Release[q], src))
      PROVE  MatchInv'
  <2>1. fs' = fs /\ disk' = disk /\ solid' = solid /\ loose' = loose
    BY <1>4 DEF NoSync
  <2>2. Sound'
    BY <1>1, <1>2, <2>1, SoundStays
  <2>3. CutInv'
    BY <1>1, <1>2, <2>1, CutStays
  <2>4. /\ SlotFits(Filled(fs'.set, Release[q], src), None, fs', slot')
        /\ KeptFits(Filled(fs'.set, Release[q], src), None, fs', slot')
    BY <1>1, <1>4, <2>1 DEF Ends
  <2> QED
    BY <1>1, <1>3, <1>4, <2>1, <2>2, <2>3, <2>4, PutStarts
<1>5. CASE SettleNew /\ fs.stage # None
  <2>1. Put(Release[q], EachSystem(fs.stage), "settled") /\ UNCHANGED fs /\ NoSync
    BY <1>5 DEF SettleNew
  <2>2. slot = q \/ slot = Torn
    BY Zenon, <1>5 DEF SettleNew, SlotIsPending
  <2>3. Ends(Filled(fs.set, Release[q], EachSystem(fs.stage)))
    BY <1>1, <1>2, <2>2, EndsNew DEF Sound
  <2> QED
    BY <1>4, <2>1, <2>3
<1>6. CASE SettleNew /\ fs.stage = None
  <2>1. fs' = [fs EXCEPT !.pending = None] /\ Sync /\ Return(Unsettled)
    BY <1>6 DEF SettleNew
  <2>2. slot = q \/ slot = Torn
    BY Zenon, <1>6 DEF SettleNew, SlotIsPending
  <2>3. slot = Torn
    BY <1>1, <1>2, <1>6, <2>2 DEF Sound, Fits, SlotFits
  <2>4. /\ fs'.pending = None /\ fs'.set = fs.set /\ fs'.kept = fs.kept /\ fs'.mods = fs.mods
        /\ disk' = fs'
    BY <2>1, FilesHave DEF Files, Sync
  <2>5. Fits(fs', slot') /\ Keeps(fs', slot')
    BY <1>1, <1>2, <2>3, <2>4 DEF Sound, Fits, Keeps, SlotFits, KeptFits
  <2>6. Sound' /\ CutInv'
    BY <2>1, <2>4, <2>5, SoundSynced, CutSynced
  <2>7. proc'.pc = Unsettled /\ Unsettled \in Backs \cup {"end"}
    BY <2>1, ProcHas, ReturnMoves DEF Moves, Unsettled, IInv, Control, Pcs
  <2> QED
    BY <2>4, <2>6, <2>7, Rest
<1>7. CASE SettleKept
  <2>1. Put(Release[q], KeptOf(Release[q]), "settled") /\ UNCHANGED fs /\ NoSync
    BY <1>7 DEF SettleKept
  <2>2. slot # q
    BY Zenon, <1>7, FilesHave DEF SettleKept, SlotIsPending
  <2>3. Ends(Filled(fs.set, Release[q], KeptOf(Release[q])))
    BY <1>1, <1>2, <2>2, EndsKept DEF Sound
  <2> QED
    BY <1>4, <2>1, <2>3
<1> QED
  BY <1>5, <1>6, <1>7

LEMMA MatchPutDone ==
    ASSUME IInv, MatchInv, PutDone
    PROVE  MatchInv'
<1>1. /\ proc.pc = "put" /\ proc.todo = {} /\ proc'.pc = proc.then /\ proc'.new = proc.new
      /\ fs' = fs /\ disk' = disk /\ slot' = slot /\ solid' = solid /\ loose' = loose
  BY DEF PutDone, At, Idle, NoSync, device
<1>2. proc.then \in {"settled", "same", "undo", "restored", "unrecord", "drop"}
  BY <1>1 DEF MatchInv, PutInv
<1>3. CutInv'
  BY <1>1, <1>2, CutStays DEF MatchInv
<1>4. Filled(fs.set, proc.rel, proc.src) = fs.set
  <2>1. proc.rel \in Rels => \A o \in Systems : fs.set[o][proc.rel] = proc.src[o]
    BY <1>1 DEF MatchInv, PutInv
  <2> QED
    BY <2>1, FilledIs, FilesHave
<1>5. PutInv'
  BY <1>1, <1>2 DEF PutInv
<1>6. ~Keeping /\ ~Keeping' /\ ~Putting("unrecord")'
  BY <1>1, <1>2 DEF Keeping, Putting
<1>7. Keeps(fs', slot') /\ Keeps(disk', slot')
  BY <1>1, <1>6 DEF MatchInv, FitInv
<1>8. CASE proc.then # "unrecord"
  <2>1. Sound'
    BY <1>1, <1>6, <1>8, SoundIs, SoundStays DEF MatchInv, Restoring, Putting
  <2>2. proc.then \in {"settled", "same", "undo", "restored"} => Ends(fs.set)'
    BY <1>1, <1>4 DEF MatchInv, PutInv, Ends
  <2>3. proc.then = "drop" => Holds(fs.set, proc.new)
    <3>1. SUFFICES ASSUME proc.then = "drop", HasMods(proc.new)
                   PROVE  \A o \in Systems : fs.set[o][Release[proc.new]] = proc.new
      BY Zenon DEF Holds
    <3>2. proc.new \in Builds
      BY <3>1 DEF IInv, Control
    <3>3. Release[proc.new] # None
      BY <3>1, <3>2, HasRelease
    <3> QED
      BY <1>1, <3>1, <3>3 DEF MatchInv, PutInv, EachSystem
  <2>4. StepInv'
    BY Zenon, <1>1, <1>2, <1>8, <2>2, <2>3
    DEF MatchInv, StepInv, Installing, Putting, Unmarked, Saved, Holds
  <2> QED
    BY <1>3, <1>5, <2>1, <2>4 DEF MatchInv, FitInv, Sound
<1>9. CASE proc.then = "unrecord"
  <2>1. fs.pending = None /\ SlotFits(fs.set, None, fs, slot)
    BY <1>1, <1>4, <1>9 DEF MatchInv, PutInv
  <2>2. Fits(fs', slot')
    BY <1>1, <2>1 DEF Fits
  <2>3. Restoring'
    BY <1>1, <1>9 DEF Restoring
  <2>4. StepInv'
    BY <1>1, <1>9, <2>1 DEF StepInv, Installing, Putting, Unmarked
  <2> QED
    BY <1>3, <1>5, <1>6, <1>7, <2>2, <2>3, <2>4 DEF MatchInv, FitInv
<1> QED
  BY <1>8, <1>9

\* The mark goes.
LEMMA Unmarks ==
    ASSUME IInv, fs' = [fs EXCEPT !.pending = None], Sync, slot' = slot, Ends(fs.set)
    PROVE  /\ CutInv' /\ Sound' /\ fs'.pending = None /\ fs'.set = fs.set /\ fs'.kept = fs.kept
           /\ fs'.mods = fs.mods
<1>1. /\ fs'.pending = None /\ fs'.set = fs.set /\ fs'.kept = fs.kept /\ fs'.mods = fs.mods
      /\ disk' = fs'
  BY FilesHave DEF Files, Sync
<1>2. Fits(fs', slot') /\ Keeps(fs', slot')
  BY <1>1 DEF Ends, Fits, Keeps, SlotFits, KeptFits
<1> QED
  BY <1>1, <1>2, SoundSynced, CutSynced

LEMMA MatchUnmarks ==
    ASSUME IInv, MatchInv, Settled \/ Same \/ Undo
    PROVE  MatchInv'
<1>1. /\ proc.pc \in {"settled", "same", "undo", "restored"}
      /\ fs' = [fs EXCEPT !.pending = None] /\ Sync /\ slot' = slot
  BY DEF Settled, Same, Undo, At, device
<1>2. Ends(fs.set)
  BY <1>1 DEF MatchInv, StepInv
<1>3. CutInv' /\ Sound' /\ fs'.pending = None
  BY <1>1, <1>2, Unmarks
<1>4. CASE Settled
  <2>1. proc'.pc = proc.back /\ proc.back \in Backs
    BY <1>4, ReturnMoves, ProcHas DEF Settled, Moves, IInv, Control
  <2> QED
    BY <1>3, <2>1, Rest
<1>5. CASE Same \/ Undo
  <2>1. proc'.pc = "end"
    BY Zenon, <1>5 DEF Same, Undo, Goto, Idle
  <2> QED
    BY <1>3, <2>1, Rest
<1> QED
  BY <1>4, <1>5

\* modules_done after a write: the systems have the new kernel's set.
LEMMA MatchModulesDone ==
    ASSUME IInv, MatchInv, ModulesDone
    PROVE  MatchInv'
<1>1. /\ proc.pc = "done" /\ fs' = [fs EXCEPT !.pending = None] /\ Sync /\ slot' = slot
      /\ proc'.pc = "stale" /\ proc'.new = proc.new
  BY DEF ModulesDone, At, device, Goto, Idle
<1>2. /\ slot = proc.new /\ Holds(fs.set, slot) /\ fs.stage = slot /\ slot \in Builds
      /\ fs.pending = IF HasMods(slot) THEN slot ELSE None
  BY <1>1 DEF MatchInv, StepInv, Installing
<1>3. Keeps(fs, slot)
  BY <1>1 DEF MatchInv, FitInv, Keeping
<1>4. Ends(fs.set)
  <2>1. SlotFits(fs.set, None, fs, slot)
    BY <1>2 DEF SlotFits
  <2>2. KeptFits(fs.set, None, fs, slot)
    BY <1>2, <1>3 DEF Keeps, KeptFits, Holds, EachSystem
  <2> QED
    BY <2>1, <2>2 DEF Ends
<1>5. CutInv' /\ Sound' /\ fs'.pending = None
  BY <1>1, <1>4, Unmarks
<1>6. FitInv' /\ PutInv' /\ StepInv'
  BY <1>1, <1>2, <1>5 DEF FitInv, Sound, PutInv, StepInv, Installing, Putting, Unmarked
<1> QED
  BY <1>5, <1>6 DEF MatchInv

\* A set that could not be put in: the one saved goes back.
LEMMA MatchPutFails ==
    ASSUME IInv, MatchInv, "settle" \notin Faults, PutFails
    PROVE  MatchInv'
<1>1. /\ proc.pc = "put" /\ proc.half # None /\ proc.then \in {"drop", "same"}
      /\ fs' = fs /\ disk' = disk /\ slot' = slot /\ solid' = solid /\ loose' = loose
  BY DEF PutFails, At, NoSync, device
<1>2. ~Restoring /\ ~Keeping
  BY <1>1 DEF Restoring, Keeping, Putting
<1>3. CASE proc.then = "same"
  <2>1. Goto("end")
    BY Zenon, <1>3 DEF PutFails
  <2>2. proc'.pc = "end"
    BY <2>1 DEF Goto, Idle
  <2> QED
    BY <1>1, <1>2, <2>2, Goes
<1>4. CASE proc.then = "drop"
  <2> DEFINE q == proc.new  src == fs.newMods.set
  <2>1. Put(fs.newMods.rel, src, "undo")
    BY Zenon, <1>4 DEF PutFails
  <2>2. fs.pending # None /\ q \in Builds /\ slot \in Builds /\ fs.kept \in Builds \cup {None}
    <3>1. proc.new \in Builds /\ slot # Torn
      BY <1>4 DEF IInv, Control
    <3>2. fs.pending # None
      BY <1>1, <1>4 DEF MatchInv, PutInv
    <3> QED
      BY <3>1, <3>2, FilesHave DEF IInv, DeviceOK
  <2>3. HasMods(q) /\ fs.pending = q /\ fs.stage = q /\ Saved(fs.newMods)
    BY <1>1, <1>4, <2>2 DEF MatchInv, StepInv, Installing, Putting
  <2>4. fs.newMods.rel = Release[q] /\ (Release[slot] = Release[q] => src = EachSystem(slot))
    BY <2>3 DEF Saved
  <2>5. Sound /\ CutInv
    BY <1>2, SoundIs DEF MatchInv
  <2>6. SlotFits(fs.set, q, fs, slot) /\ KeptFits(fs.set, q, fs, slot)
    BY <2>3, <2>5 DEF Sound, Fits, Keeps
  <2>7. fs.kept # None /\ HasMods(fs.kept) /\ Release[fs.kept] = Release[q]
          /\ fs.mods.rel # Release[fs.kept] => src = EachSystem(fs.kept)
    BY <2>2, <2>3, <2>4, <2>6 DEF KeptFits
  <2>8. /\ SlotFits(Filled(fs.set, Release[q], src), None, fs, slot)
        /\ KeptFits(Filled(fs.set, Release[q], src), None, fs, slot)
    BY <2>2, <2>4, <2>6, <2>7, EndsPut
  <2>9. /\ SlotFits(Filled(fs'.set, Release[q], src), None, fs', slot')
        /\ KeptFits(Filled(fs'.set, Release[q], src), None, fs', slot')
    BY <1>1, <2>8
  <2>10. Sound' /\ CutInv'
    BY <1>1, <2>2, <2>5, SoundStays, CutStays
  <2>11. Release[q] \in Rels /\ Put(Release[q], src, "undo")
    BY <2>1, <2>2, <2>3, <2>4, HasRelease
  <2>12. fs'.pending # None /\ Release[q] = Release[fs'.pending]
    BY <1>1, <2>2, <2>3
  <2> QED
    BY <2>9, <2>10, <2>11, <2>12, PutStarts
<1> QED
  BY <1>1, <1>3, <1>4

\* A set that did not go back after a failed write: the mark stays.
LEMMA MatchRestoreFails ==
    ASSUME IInv, MatchInv, RestoreFails, ~lost'
    PROVE  MatchInv'
<1>1. proc.then = "restored"
  BY Zenon DEF RestoreFails
<1>2. /\ proc.pc = "put" /\ Goto("end") /\ slot' = slot
      /\ fs' = fs /\ disk' = disk /\ solid' = solid /\ loose' = loose
  BY <1>1 DEF RestoreFails, At, NoSync
<1>3. ~Restoring /\ ~Keeping
  BY <1>1, <1>2 DEF Restoring, Keeping, Putting
<1>4. proc'.pc = "end"
  BY <1>2 DEF Goto, Idle
<1> QED
  BY <1>2, <1>3, <1>4, Goes

-----------------------------------------------------------------------------
(* The kernel step before the mark: nothing it does needs settling.        *)

\* Places between the settling and the mark.
Early == {"fetch", "unpacked", "compare", "save", "pend"}

LEMMA EarlyHas ==
    ASSUME IInv, MatchInv, proc.pc \in Early \cup {"clean"}
    PROVE  /\ Sound /\ CutInv /\ fs.pending = None /\ disk.pending = None
           /\ slot \in Builds /\ proc.new \in Builds /\ fs.kept \in Builds \cup {None}
           /\ SlotFits(fs.set, None, fs, slot) /\ KeptFits(fs.set, None, fs, slot)
<1>1. ~Restoring /\ ~Keeping
  BY DEF Early, Restoring, Keeping, Putting
<1>2. Sound /\ CutInv
  BY <1>1, SoundIs DEF MatchInv
<1>3. fs.pending = None
  BY DEF MatchInv, StepInv, Unmarked, Early
<1>4. disk.pending = None
  BY <1>2, <1>3 DEF CutInv, Firm
<1>5. slot \in Builds /\ proc.new \in Builds /\ fs.kept \in Builds \cup {None}
  BY FilesHave DEF IInv, Control, Stepping, DeviceOK, Early
<1> QED
  BY <1>2, <1>3, <1>4, <1>5 DEF Sound, Fits, Keeps

\* The sets stay or lose releases that neither image needs, and no mark is made.
LEMMA EarlyStep ==
    ASSUME Fits(disk, slot), Keeps(disk, slot),
           slot' = slot, disk' = disk \/ disk' = fs', fs'.pending = None,
           SlotFits(fs'.set, None, fs', slot), KeptFits(fs'.set, None, fs', slot),
           CutInv', proc'.pc \in Early,
           proc'.pc # "fetch" => fs'.stage = proc'.new,
           proc'.pc # "pend"
    PROVE  MatchInv'
<1>1. Fits(fs', slot') /\ Keeps(fs', slot')
  BY DEF Fits, Keeps
<1>2. Sound'
  BY <1>1 DEF Sound, Fits, Keeps
<1>3. FitInv'
  BY <1>2 DEF FitInv, Sound
<1>4. proc'.pc \in {"fetch", "unpacked", "compare", "save"}
  BY DEF Early
<1>5. PutInv' /\ ~Installing' /\ ~Putting("drop")'
  BY <1>4 DEF PutInv, Installing, Putting
<1>6. StepInv'
  BY <1>4, <1>5 DEF StepInv
<1> QED
  BY <1>3, <1>5, <1>6 DEF MatchInv

LEMMA MatchClean ==
    ASSUME IInv, MatchInv, StepClean
    PROVE  MatchInv'
<1> DEFINE rels == Needed(slot, fs.kept)
<1>1. proc.pc = "clean" /\ slot' = slot /\ disk' = disk /\ loose' = loose /\ proc'.pc = "fetch"
  BY DEF StepClean, At, device, NoSync, Goto, Idle
<1>2. /\ Sound /\ CutInv /\ fs.pending = None /\ slot \in Builds /\ fs.kept \in Builds \cup {None}
      /\ SlotFits(fs.set, None, fs, slot) /\ KeptFits(fs.set, None, fs, slot)
  BY <1>1, EarlyHas
<1>3. /\ fs'.set = Without(fs.set, rels) /\ fs'.pending = None
      /\ fs'.kept = fs.kept /\ fs'.mods = fs.mods
  BY <1>2, FilesHave DEF StepClean, Files
<1>4. Release[slot] \in rels /\ (fs.kept # None => Release[fs.kept] \in rels)
  BY DEF Needed
<1>5. /\ SlotFits(Without(fs.set, rels), None, fs, slot)
      /\ KeptFits(Without(fs.set, rels), None, fs, slot)
  BY <1>2, <1>4, FitsWithout
<1>6. SlotFits(fs'.set, None, fs', slot) /\ KeptFits(fs'.set, None, fs', slot)
  BY <1>3, <1>5 DEF SlotFits, KeptFits
<1>7. CutInv'
  BY <1>1, <1>2, <1>3 DEF CutInv, Firm
<1> QED
  BY <1>1, <1>2, <1>3, <1>6, <1>7, EarlyStep DEF Early, Sound

\* boot_kept_drop: the disk has the kept image and its set, or neither.
LEMMA MatchGiveUp ==
    ASSUME IInv, MatchInv, KeptDropSet
    PROVE  MatchInv'
<1>1. /\ proc.pc = "fetch" /\ slot' = slot /\ disk' = disk /\ loose' = loose
      /\ proc'.pc = "giveup"
  BY DEF KeptDropSet, At, device, NoSync, Goto, Idle
<1>2. /\ Sound /\ CutInv /\ fs.pending = None /\ SlotFits(fs.set, None, fs, slot)
  BY <1>1, EarlyHas DEF Early
<1>3. fs'.set = fs.set /\ fs'.pending = None
  BY <1>2, FilesHave DEF KeptDropSet, Files
<1>4. CutInv'
  BY <1>1, <1>2, <1>3 DEF CutInv, Firm
<1>5. Fits(fs', slot')
  BY <1>1, <1>2, <1>3 DEF Fits, SlotFits
<1>6. FitInv'
  BY <1>1, <1>2, <1>5 DEF FitInv, Sound, Keeping
<1>7. PutInv' /\ ~Installing' /\ ~Putting("drop")'
  BY <1>1 DEF PutInv, Installing, Putting
<1>8. StepInv'
  BY <1>1, <1>3, <1>7 DEF StepInv
<1> QED
  BY <1>4, <1>6, <1>7, <1>8 DEF MatchInv

LEMMA MatchDrop ==
    ASSUME IInv, MatchInv, KeptDrop
    PROVE  MatchInv'
<1> DEFINE rels == Needed(slot, None) \cup {Release[proc.new]}
<1>1. /\ proc.pc = "giveup" /\ slot' = slot /\ disk' = disk /\ loose' = loose
      /\ proc'.pc = "fetch"
  BY DEF KeptDrop, At, device, NoSync, Goto, Idle
<1>2. ~Putting("unrecord") /\ ~Restoring
  BY <1>1 DEF Putting, Restoring
<1>3. /\ CutInv /\ Fits(fs, slot) /\ Fits(disk, slot) /\ Keeps(disk, slot) /\ fs.pending = None
  BY <1>1, <1>2 DEF MatchInv, FitInv, StepInv, Unmarked
<1>4. slot \in Builds
  BY <1>1 DEF IInv, Control, Stepping, DeviceOK
<1>5. fs'.set = Without(fs.set, rels) /\ fs'.pending = None /\ fs'.kept = None
  BY <1>3, FilesHave DEF KeptDrop, Files
<1>6. Release[slot] \in rels /\ Holds(fs.set, slot)
  BY <1>3, <1>4 DEF Needed, Fits, SlotFits
<1>7. Holds(Without(fs.set, rels), slot)
  BY <1>4, <1>6, HoldsWithout
<1>8. SlotFits(fs'.set, None, fs', slot) /\ KeptFits(fs'.set, None, fs', slot)
  BY <1>5, <1>7 DEF SlotFits, KeptFits
<1>9. CutInv'
  BY <1>1, <1>3, <1>5 DEF CutInv, Firm
<1> QED
  BY <1>1, <1>3, <1>5, <1>8, <1>9, EarlyStep DEF Early

LEMMA MatchUnpack ==
    ASSUME IInv, MatchInv, Unpack \/ UnpackSync \/ NewImage
    PROVE  MatchInv'
<1>1. proc.pc \in Early /\ slot' = slot
  BY DEF Unpack, UnpackSync, NewImage, At, Early, device
<1>2. /\ Sound /\ CutInv /\ fs.pending = None /\ disk.pending = None
      /\ SlotFits(fs.set, None, fs, slot) /\ KeptFits(fs.set, None, fs, slot)
      /\ proc.new \in Builds
  BY <1>1, EarlyHas
<1>3. CASE Unpack
  <2>1. /\ fs'.stage = proc.new /\ fs'.pending = None /\ fs'.set = fs.set
        /\ fs'.kept = fs.kept /\ fs'.mods = fs.mods
    BY <1>2, <1>3, FilesHave DEF Unpack, Files
  <2>2. proc'.pc = "unpacked" /\ proc'.new = proc.new /\ disk' = disk /\ loose' = loose
    BY <1>3 DEF Unpack, Goto, Idle
  <2>3. SlotFits(fs'.set, None, fs', slot) /\ KeptFits(fs'.set, None, fs', slot)
    BY <1>2, <2>1 DEF SlotFits, KeptFits
  <2>4. CutInv'
    BY <1>2, <2>1, <2>2 DEF CutInv, Firm
  <2> QED
    BY <1>1, <1>2, <2>1, <2>2, <2>3, <2>4, EarlyStep DEF Early, Sound
<1>4. CASE UnpackSync
  <2>1. proc.pc = "unpacked" /\ fs' = fs /\ proc'.pc = "compare" /\ proc'.new = proc.new
    BY <1>4 DEF UnpackSync, Goto, Idle, At
  <2>2. fs.stage = proc.new
    BY <2>1 DEF MatchInv, StepInv
  <2>3. (disk' = disk \/ disk' = fs') /\ CutInv'
    <3>1. CASE HasMods(proc.new)
      BY <1>4, <3>1, CutSynced DEF UnpackSync, Sync
    <3>2. CASE ~HasMods(proc.new)
      <4>1. disk' = disk /\ loose' = loose
        BY <1>4, <3>2 DEF UnpackSync, NoSync
      <4> QED
        BY <1>2, <2>1, <3>2, <4>1 DEF CutInv, Firm
    <3> QED
      BY <3>1, <3>2
  <2> QED
    BY <1>1, <1>2, <2>1, <2>2, <2>3, EarlyStep DEF Early, Sound
<1>5. CASE NewImage
  <2>1. proc.pc = "compare" /\ fs' = fs /\ proc'.pc = "save" /\ proc'.new = proc.new
    BY <1>5 DEF NewImage, Goto, Idle, At
  <2>2. disk' = disk /\ loose' = loose /\ solid' = solid
    BY <1>5 DEF NewImage, NoSync
  <2>3. fs.stage = proc.new
    BY <2>1 DEF MatchInv, StepInv
  <2>4. CutInv'
    BY Zenon, <1>2, <2>1, <2>2 DEF CutInv, Firm
  <2> QED
    BY <1>1, <1>2, <2>1, <2>2, <2>3, <2>4, EarlyStep DEF Early, Sound
<1> QED
  BY <1>3, <1>4, <1>5

\* prev_modules_save: the set in place of the new kernel's is saved.
LEMMA MatchSave ==
    ASSUME IInv, MatchInv, PrevModulesSave
    PROVE  MatchInv'
<1>1. proc.pc = "save" /\ proc'.pc = "pend" /\ proc'.new = proc.new /\ slot' = slot
  BY DEF PrevModulesSave, At, Goto, Idle, device
<1>2. disk' = disk /\ solid' = solid /\ loose' = loose
  BY DEF PrevModulesSave, NoSync
<1>3. /\ Sound /\ CutInv /\ fs.pending = None /\ disk.pending = None
      /\ SlotFits(fs.set, None, fs, slot) /\ KeptFits(fs.set, None, fs, slot)
  BY <1>1, EarlyHas DEF Early
<1>4. /\ fs'.set = fs.set /\ fs'.pending = None /\ fs'.kept = fs.kept /\ fs'.mods = fs.mods
      /\ fs'.stage = fs.stage
      /\ fs'.newMods = IF HasMods(proc.new)
           THEN [rel |-> Release[proc.new], set |-> [o \in Systems |-> fs.set[o][Release[proc.new]]]]
           ELSE NoMods
  BY <1>3, FilesHave DEF PrevModulesSave, Files
<1>5. Fits(fs', slot') /\ Keeps(fs', slot')
  BY <1>1, <1>3, <1>4 DEF Fits, Keeps, SlotFits, KeptFits
<1>6. Sound'
  BY <1>1, <1>2, <1>3, <1>5, SoundSees
<1>7. CutInv'
  BY Zenon, <1>1, <1>2, <1>3, <1>4 DEF CutInv, Firm
<1>8. fs.stage = proc.new
  BY <1>1 DEF MatchInv, StepInv
<1>9. StepInv'
  <2>1. ~Installing' /\ ~Putting("drop")'
    BY <1>1 DEF Installing, Putting
  <2>2. fs'.stage = proc'.new
    BY <1>1, <1>4, <1>8
  <2>3. HasMods(proc'.new) =>
          /\ fs'.newMods.rel = Release[proc'.new]
          /\ fs'.newMods.set = [o \in Systems |-> fs'.set[o][Release[proc'.new]]]
    BY <1>1, <1>4
  <2>4. ~HasMods(proc'.new) => fs'.newMods = NoMods
    BY <1>1, <1>4
  <2> QED
    BY Zenon, <1>1, <1>4, <2>1, <2>2, <2>3, <2>4 DEF StepInv
<1>10. PutInv' /\ FitInv'
  BY <1>1, <1>6 DEF PutInv, FitInv, Sound
<1> QED
  BY <1>7, <1>9, <1>10 DEF MatchInv

\* Marked files whose saved set is what the systems had.
LEMMA Marks ==
    ASSUME IInv, NEW q \in Builds, HasMods(q), slot \in Builds, fs.stage = q,
           SlotFits(fs.set, None, fs, slot), KeptFits(fs.set, None, fs, slot),
           fs' = [fs EXCEPT !.pending = q], Sync, slot' = slot,
           \/ slot = q
           \/ /\ fs.newMods.rel = Release[q]
              /\ fs.newMods.set = [o \in Systems |-> fs.set[o][Release[q]]]
    PROVE  /\ Sound' /\ CutInv' /\ fs'.pending = q /\ fs'.stage = q /\ fs'.set = fs.set
           /\ fs'.kept = fs.kept /\ fs'.mods = fs.mods /\ fs'.newMods = fs.newMods
<1>1. /\ fs'.pending = q /\ fs'.stage = q /\ fs'.set = fs.set /\ disk' = fs'
      /\ fs'.kept = fs.kept /\ fs'.mods = fs.mods /\ fs'.newMods = fs.newMods
  BY FilesHave DEF Files, Sync
<1>2. q # None /\ fs.kept \in Builds \cup {None}
  BY FilesHave
<1>3. ASSUME NEW b \in Builds, Release[b] = Release[q], Holds(fs.set, b), slot # q
      PROVE  fs.newMods.rel = Release[b] /\ fs.newMods.set = EachSystem(b)
  BY <1>3 DEF Holds, EachSystem, HasMods
<1>4. \A m : fs.newMods.rel = Release[slot] =>
        SavedOf(fs.newMods, m, Release[slot]) = fs.newMods.set
  BY DEF SavedOf
<1>5. Holds(fs.set, slot)
  BY DEF SlotFits
<1>6. Fits(fs', slot')
  <2>1. CASE slot = q
    BY <1>1, <1>2, <2>1 DEF Fits, SlotFits
  <2>2. CASE slot # q /\ Release[slot] = Release[q]
    <3>1. SavedOf(fs.newMods, fs.mods, Release[slot]) = EachSystem(slot)
      BY <1>3, <1>4, <1>5, <2>2
    <3> QED
      BY <1>1, <1>2, <2>2, <3>1 DEF Fits, SlotFits
  <2>3. CASE slot # q /\ Release[slot] # Release[q]
    BY <1>1, <1>2, <1>5, <2>3 DEF Fits, SlotFits
  <2> QED
    BY <2>1, <2>2, <2>3
<1>7. Keeps(fs', slot')
  <2>1. SUFFICES ASSUME fs.kept # None, HasMods(fs.kept), fs.mods.rel # Release[fs.kept],
                        Release[q] = Release[fs.kept]
                 PROVE  /\ slot # Torn
                        /\ IF slot = q THEN EachSystem(q) = EachSystem(fs.kept)
                           ELSE fs.newMods.rel = Release[fs.kept]
                                  /\ fs.newMods.set = EachSystem(fs.kept)
    BY <1>1, <1>2 DEF Keeps, KeptFits
  <2>2. Holds(fs.set, fs.kept)
    BY <2>1 DEF KeptFits
  <2>3. slot = q => EachSystem(q) = EachSystem(fs.kept)
    BY <1>2, <1>5, <2>1, <2>2 DEF Holds, EachSystem
  <2> QED
    BY <1>2, <1>3, <2>1, <2>2, <2>3
<1> QED
  BY <1>1, <1>6, <1>7, SoundSynced, CutSynced

LEMMA MatchUpToDate ==
    ASSUME IInv, MatchInv, UpToDate
    PROVE  MatchInv'
<1> DEFINE q == proc.new
<1>1. proc.pc = "compare" /\ slot = q /\ slot' = slot
  BY DEF UpToDate, At, device
<1>2. /\ slot \in Builds /\ SlotFits(fs.set, None, fs, slot) /\ KeptFits(fs.set, None, fs, slot)
      /\ fs.kept \in Builds \cup {None}
  BY <1>1, EarlyHas DEF Early
<1>3. fs.stage = q
  BY <1>1 DEF MatchInv, StepInv
<1>4. CASE HasMods(q)
  <2>1. /\ fs' = [fs EXCEPT !.pending = slot] /\ Sync
        /\ Put(Release[slot], EachSystem(slot), "same")
    BY <1>1, <1>3, <1>4 DEF UpToDate
  <2>2. /\ Sound' /\ CutInv' /\ fs'.pending = slot /\ fs'.kept = fs.kept
        /\ fs'.set = fs.set /\ fs'.stage = slot
    BY Zenon, <1>1, <1>2, <1>3, <1>4, <2>1, Marks
  <2>3. SlotFits(fs'.set, slot, fs', slot) /\ KeptFits(fs'.set, slot, fs', slot)
    BY <1>1, <2>2 DEF Sound, Fits, Keeps
  <2>4. fs'.kept # None /\ HasMods(fs'.kept) /\ Release[fs'.kept] = Release[slot]
          /\ fs'.mods.rel # Release[fs'.kept] => EachSystem(slot) = EachSystem(fs'.kept)
    BY <1>2, <2>2, <2>3 DEF KeptFits
  <2>5. /\ SlotFits(Filled(fs'.set, Release[slot], EachSystem(slot)), None, fs', slot)
        /\ KeptFits(Filled(fs'.set, Release[slot], EachSystem(slot)), None, fs', slot)
    BY <1>2, <2>2, <2>3, <2>4, EndsPut
  <2>6. Release[slot] \in Rels /\ slot # None
    BY <1>1, <1>2, <1>4, HasRelease
  <2> QED
    BY <1>1, <2>1, <2>2, <2>5, <2>6, PutStarts
<1>5. CASE ~HasMods(q)
  <2>1. Goto("end") /\ NoSync /\ UNCHANGED fs
    BY <1>5 DEF UpToDate
  <2>2. proc'.pc = "end" /\ UNCHANGED <<fs, disk, solid, loose>>
    BY <2>1 DEF Goto, Idle, NoSync
  <2>3. ~Restoring /\ ~Keeping
    BY <1>1 DEF Restoring, Keeping, Putting
  <2> QED
    BY <1>1, <2>2, <2>3, Goes
<1> QED
  BY <1>4, <1>5

LEMMA MatchPending ==
    ASSUME IInv, MatchInv, ModulesPending
    PROVE  MatchInv'
<1> DEFINE q == proc.new
<1>1. proc.pc = "pend" /\ slot' = slot
  BY DEF ModulesPending, At, device
<1>2. /\ slot \in Builds /\ SlotFits(fs.set, None, fs, slot) /\ KeptFits(fs.set, None, fs, slot)
      /\ fs.kept \in Builds \cup {None} /\ q \in Builds /\ Sound /\ CutInv /\ fs.pending = None
  BY <1>1, EarlyHas DEF Early
<1>3. fs.stage = q
  BY <1>1 DEF MatchInv, StepInv
<1>4. CASE HasMods(q)
  <2>1. /\ fs' = [fs EXCEPT !.pending = q] /\ Sync
        /\ Put(Release[q], EachSystem(q), "drop")
    BY <1>3, <1>4 DEF ModulesPending
  <2>2. /\ fs.newMods.rel = Release[q]
        /\ fs.newMods.set = [o \in Systems |-> fs.set[o][Release[q]]]
    BY <1>1, <1>4 DEF MatchInv, StepInv
  <2>3. /\ Sound' /\ CutInv' /\ fs'.pending = q /\ fs'.newMods = fs.newMods /\ fs'.stage = q
    BY <1>1, <1>2, <1>3, <1>4, <2>1, <2>2, Marks
  <2>4. /\ proc'.pc = "put" /\ proc'.rel = Release[q] /\ proc'.src = EachSystem(q)
        /\ proc'.then = "drop" /\ proc'.half = None /\ proc'.new = q
        /\ proc'.todo = IF Release[q] = None THEN {} ELSE Systems
    BY <2>1, PutHas
  <2>5. Release[q] \in Rels /\ q # None
    BY <1>2, <1>4, HasRelease
  <2>6. Release[slot] = Release[q] => fs.newMods.set = EachSystem(slot)
    BY <1>2, <1>4, <2>2 DEF SlotFits, Holds, EachSystem, HasMods
  <2>7. FitInv'
    BY <2>3 DEF FitInv, Sound
  <2>8. PutInv'
    BY <2>3, <2>4, <2>5 DEF PutInv
  <2>9. StepInv'
    BY Zenon, <1>1, <1>4, <2>2, <2>3, <2>4, <2>6 DEF StepInv, Installing, Putting, Unmarked, Saved
  <2> QED
    BY <2>3, <2>7, <2>8, <2>9 DEF MatchInv
<1>5. CASE ~HasMods(q)
  <2>1. Goto("drop") /\ NoSync /\ UNCHANGED fs
    BY <1>5 DEF ModulesPending
  <2>2. proc'.pc = "drop" /\ proc'.new = q /\ UNCHANGED <<fs, disk, solid, loose>>
    BY <2>1 DEF Goto, Idle, NoSync
  <2>3. Sound' /\ CutInv'
    BY <1>1, <1>2, <2>2, SoundStays, CutStays
  <2>4. fs.newMods = NoMods
    BY <1>1, <1>5 DEF MatchInv, StepInv
  <2>5. FitInv' /\ PutInv'
    BY Zenon, <2>2, <2>3 DEF FitInv, Sound, PutInv
  <2>6. Saved(fs.newMods)'
    BY <1>5, <2>2, <2>4 DEF Saved, NoMods
  <2>7. Holds(fs'.set, proc'.new)
    BY <1>5, <2>2 DEF Holds
  <2>8. fs'.pending = None /\ fs'.stage = proc'.new /\ ~HasMods(proc'.new)
    BY <1>2, <1>3, <1>5, <2>2
  <2>9. StepInv'
    BY <2>2, <2>6, <2>7, <2>8 DEF StepInv, Unmarked
  <2> QED
    BY <2>3, <2>5, <2>9 DEF MatchInv
<1> QED
  BY <1>4, <1>5
=============================================================================
