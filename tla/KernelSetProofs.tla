-------------------------- MODULE KernelSetProofs ---------------------------
(***************************************************************************)
(* That the module sets belong to the images, 2: the steps from the keeping*)
(* of the old set on, rollback-boot, the power and the ramdisk; and what   *)
(* follows for every set of builds, systems and releases: the systems have *)
(* the sets of the image that boots and of the kept one, or a settling can *)
(* give them.                                                              *)
(***************************************************************************)
EXTENDS KernelSetSteps
USE BuildsAssumption, RunsAssumption

-----------------------------------------------------------------------------
(* The kept set and image change, and the slot is written.                 *)

\* A step of the install between the mark and the write: the slot still fits.
LEMMA InstallHas ==
    ASSUME IInv, MatchInv, proc.pc \in {"drop", "commit", "body", "write"}
    PROVE  /\ slot \in Builds /\ proc.new \in Builds /\ CutInv
           /\ Fits(fs, slot) /\ Fits(disk, slot) /\ Holds(fs.set, proc.new) /\ fs.stage = proc.new
           /\ fs.pending = IF HasMods(proc.new) THEN proc.new ELSE None
<1>1. slot \in Builds /\ proc.new \in Builds
  BY DEF IInv, Control, Stepping, DeviceOK
<1>2. ~Restoring /\ ~Putting("unrecord")
  BY DEF Restoring, Putting
<1> QED
  BY <1>1, <1>2 DEF MatchInv, FitInv, StepInv, Installing

LEMMA InstallStep ==
    ASSUME IInv, MatchInv, proc.pc \in {"drop", "commit", "body"},
           proc'.pc \in {"commit", "body", "write"}, proc'.new = proc.new,
           UNCHANGED <<disk, solid, loose>>, slot' = slot,
           fs'.set = fs.set, fs'.pending = fs.pending, fs'.stage = fs.stage,
           Fits(fs', slot),
           proc'.pc = "commit" => Saved(fs.newMods) /\ fs'.newMods = fs.newMods,
           proc'.pc # "commit" => /\ fs'.newMods = NoMods
                                  /\ \/ Saved(fs.newMods) /\ fs'.mods = fs.newMods
                                     \/ Saved(fs.mods) /\ fs'.mods = fs.mods
    PROVE  MatchInv'
<1>1. /\ slot \in Builds /\ proc.new \in Builds /\ CutInv
      /\ Fits(fs, slot) /\ Fits(disk, slot) /\ Holds(fs.set, proc.new) /\ fs.stage = proc.new
      /\ fs.pending = IF HasMods(proc.new) THEN proc.new ELSE None
  BY InstallHas
<1>2. CutInv'
  BY Zenon, <1>1 DEF CutInv, Firm
<1>3. FitInv'
  BY <1>1 DEF FitInv, Keeping
<1>4. PutInv'
  BY DEF PutInv
<1>5. StepInv'
  <2>1. proc'.pc = "commit" => Saved(fs.newMods)'
    BY DEF Saved
  <2>2. proc'.pc # "commit" => Saved(fs.mods)'
    BY DEF Saved
  <2>3. Holds(fs'.set, proc'.new)
    BY <1>1
  <2> QED
    BY <1>1, <2>1, <2>2, <2>3 DEF StepInv, Installing, Putting, Unmarked
<1> QED
  BY <1>2, <1>3, <1>4, <1>5 DEF MatchInv

LEMMA MatchKeep ==
    ASSUME IInv, MatchInv, PrevModulesDrop \/ PrevModulesCommit \/ KeepImage
    PROVE  MatchInv'
<1> DEFINE q == proc.new
<1>1. /\ proc.pc \in {"drop", "commit", "body"} /\ slot' = slot
      /\ UNCHANGED <<disk, solid, loose>>
  BY DEF PrevModulesDrop, PrevModulesCommit, KeepImage, At, device, NoSync
<1>2. /\ slot \in Builds /\ q \in Builds /\ CutInv /\ Fits(fs, slot)
      /\ fs.pending = IF HasMods(q) THEN q ELSE None
  BY <1>1, InstallHas
<1>3. CASE PrevModulesDrop
  <2>1. proc.pc = "drop" /\ proc'.pc = "commit" /\ proc'.new = q
    BY <1>3 DEF PrevModulesDrop, At, Goto, Idle
  <2>2. /\ fs'.set = fs.set /\ fs'.pending = fs.pending /\ fs'.stage = fs.stage
        /\ fs'.newMods = fs.newMods /\ fs'.mods = NoMods
    BY <1>3, FilesHave DEF PrevModulesDrop, Files
  <2>3. Saved(fs.newMods)
    BY <2>1 DEF MatchInv, StepInv
  <2>4. HasMods(q) /\ Release[slot] = Release[q] =>
          SavedOf(fs'.newMods, fs'.mods, Release[slot]) = EachSystem(slot)
    BY <2>2, <2>3 DEF Saved, SavedOf
  <2>5. Fits(fs', slot)
    BY <1>2, <2>2, <2>4 DEF Fits, SlotFits
  <2> QED
    BY <1>1, <2>1, <2>2, <2>3, <2>5, InstallStep
<1>4. CASE PrevModulesCommit
  <2>1. proc.pc = "commit" /\ proc'.pc = "body" /\ proc'.new = q
    BY <1>4 DEF PrevModulesCommit, At, Goto, Idle
  <2>2. /\ fs'.set = fs.set /\ fs'.pending = fs.pending /\ fs'.stage = fs.stage
        /\ fs'.newMods = NoMods /\ fs'.mods = fs.newMods
    BY <1>4, FilesHave DEF PrevModulesCommit, Files
  <2>3. Saved(fs.newMods)
    BY <2>1 DEF MatchInv, StepInv
  <2>4. HasMods(q) /\ Release[slot] = Release[q] =>
          SavedOf(fs'.newMods, fs'.mods, Release[slot]) = EachSystem(slot)
    BY <1>2, <2>2, <2>3, HasRelease DEF Saved, SavedOf, NoMods
  <2>5. Fits(fs', slot)
    BY <1>2, <2>2, <2>4 DEF Fits, SlotFits
  <2>6. proc'.pc # "commit"
    BY <2>1
  <2> QED
    BY Zenon, <1>1, <2>1, <2>2, <2>3, <2>5, <2>6, InstallStep
<1>5. CASE KeepImage
  <2>1. proc.pc = "body" /\ proc'.pc = "write" /\ proc'.new = q
    BY <1>5 DEF KeepImage, At, Goto, Idle
  <2>2. /\ fs'.set = fs.set /\ fs'.pending = fs.pending /\ fs'.stage = fs.stage
        /\ fs'.newMods = fs.newMods /\ fs'.mods = fs.mods
    BY <1>5, FilesHave DEF KeepImage, Files
  <2>3. Saved(fs.mods) /\ fs.newMods = NoMods
    BY <2>1 DEF MatchInv, StepInv
  <2>4. Fits(fs', slot)
    BY <1>2, <2>2 DEF Fits, SlotFits
  <2>5. fs'.newMods = NoMods /\ Saved(fs.mods) /\ fs'.mods = fs.mods
    BY <2>2, <2>3
  <2>6. proc'.pc # "commit"
    BY <2>1
  <2> QED
    BY Zenon, <1>1, <2>1, <2>2, <2>4, <2>5, <2>6, InstallStep
<1> QED
  BY <1>3, <1>4, <1>5

LEMMA MatchWriteStart ==
    ASSUME IInv, MatchInv, WriteStart
    PROVE  MatchInv'
<1> DEFINE q == proc.new
<1>1. /\ proc.pc = "write" /\ fs' = fs /\ disk' = fs' /\ slot' = Torn /\ Sync
      /\ proc'.pc = "writing" /\ proc'.new = q
  BY DEF WriteStart, At, Goto, Idle, Sync
<1>2. /\ slot \in Builds /\ q \in Builds /\ Fits(fs, slot) /\ Holds(fs.set, q) /\ fs.stage = q
      /\ fs.pending = IF HasMods(q) THEN q ELSE None
  BY <1>1, InstallHas
<1>3. Saved(fs.mods) /\ fs.newMods = NoMods /\ fs.kept = slot
  BY <1>1 DEF MatchInv, StepInv, IInv, WriteInv
<1>4. Keeps(fs', slot')
  <2>1. SUFFICES ASSUME HasMods(slot)
                 PROVE  IF fs.mods.rel = Release[slot] THEN fs.mods.set = EachSystem(slot)
                        ELSE /\ ~(fs.pending # None /\ Release[fs.pending] = Release[slot])
                             /\ Holds(fs.set, slot)
    BY <1>1, <1>3 DEF Keeps, KeptFits
  <2>2. Release[slot] # None
    BY <1>2, <2>1, HasRelease
  <2>3. CASE HasMods(q)
    BY <1>2, <1>3, <2>3 DEF Saved, Fits, SlotFits
  <2>4. CASE ~HasMods(q)
    BY <1>2, <1>3, <2>2, <2>4 DEF Saved, Fits, SlotFits
  <2> QED
    BY <2>3, <2>4
<1>5. Fits(fs', slot')
  BY <1>1 DEF Fits, SlotFits
<1>6. Sound' /\ CutInv'
  BY <1>1, <1>4, <1>5, SoundSynced, CutSynced
<1>7. FitInv' /\ PutInv'
  BY <1>1, <1>6 DEF FitInv, Sound, PutInv
<1>8. StepInv'
  BY <1>1, <1>2, <1>3 DEF StepInv, Installing, Putting, Unmarked, Saved
<1> QED
  BY <1>6, <1>7, <1>8 DEF MatchInv

\* A failed or a good write.
LEMMA WritingHas ==
    ASSUME IInv, MatchInv, proc.pc = "writing"
    PROVE  /\ proc.new \in Builds /\ Sound /\ CutInv /\ Holds(fs.set, proc.new)
           /\ fs.stage = proc.new /\ fs.newMods = NoMods /\ fs.kept \in Builds
           /\ fs.pending = IF HasMods(proc.new) THEN proc.new ELSE None
<1>1. ~Restoring /\ ~Keeping
  BY DEF Restoring, Putting, Keeping
<1>2. Sound /\ CutInv
  BY <1>1, SoundIs DEF MatchInv
<1>3. proc.new \in Builds /\ fs.kept \in Builds
  BY DEF IInv, Control, WriteInv
<1> QED
  BY <1>2, <1>3 DEF MatchInv, StepInv, Installing

LEMMA MatchWriteOk ==
    ASSUME IInv, MatchInv, TornInv, WriteOk
    PROVE  MatchInv'
<1> DEFINE q == proc.new
<1>1. /\ proc.pc = "writing" /\ fs' = fs /\ disk' = fs' /\ slot' = q /\ Sync
      /\ proc'.pc = "record" /\ proc'.new = q
  BY DEF WriteOk, At, Goto, Idle, Sync
<1>2. /\ q \in Builds /\ Sound /\ Holds(fs.set, q) /\ fs.stage = q /\ fs.newMods = NoMods
      /\ fs.kept \in Builds /\ fs.pending = IF HasMods(q) THEN q ELSE None
  BY <1>1, WritingHas
<1>3. slot = Torn
  BY <1>1 DEF TornInv
<1>4. Fits(fs', slot')
  BY <1>1, <1>2 DEF Fits, SlotFits
<1>5. Keeps(fs', slot')
  BY <1>1, <1>2, <1>3 DEF Sound, Keeps, KeptFits
<1>6. Sound' /\ CutInv'
  BY <1>1, <1>4, <1>5, SoundSynced, CutSynced
<1>7. FitInv' /\ PutInv'
  BY <1>1, <1>6 DEF FitInv, Sound, PutInv
<1>8. StepInv'
  BY <1>1, <1>2 DEF StepInv, Installing, Putting, Unmarked
<1> QED
  BY <1>6, <1>7, <1>8 DEF MatchInv

LEMMA MatchWriteFails ==
    ASSUME IInv, MatchInv, TornInv, WriteFails
    PROVE  MatchInv'
<1> DEFINE q == proc.new  k == fs.kept  src == fs.mods.set
<1>1. /\ proc.pc = "writing" /\ fs' = fs /\ disk' = disk /\ solid' = solid /\ loose' = loose
      /\ slot' \in {k, Torn} /\ Put(fs.mods.rel, src, "restored")
  BY DEF WriteFails, At, NoSync
<1>2. /\ q \in Builds /\ Sound /\ CutInv /\ fs.stage = q /\ fs.newMods = NoMods
      /\ k \in Builds /\ fs.pending = IF HasMods(q) THEN q ELSE None
  BY <1>1, WritingHas
<1>3. slot = Torn /\ disk = fs /\ fs.mods.rel = IF HasMods(q) THEN Release[q] ELSE None
  BY <1>1 DEF TornInv, MatchInv, StepInv
<1>4. KeptFits(fs.set, fs.pending, fs, Torn)
  BY <1>2, <1>3 DEF Sound, Keeps
<1>5. Keeps(fs, slot') /\ KeptFits(fs.set, fs.pending, fs, slot')
  BY <1>1, <1>2, <1>4 DEF Keeps, KeptFits
<1>6. CASE HasMods(q)
  <2>1. fs.pending = q /\ fs.mods.rel = Release[q] /\ Release[q] \in Rels /\ q # None
    BY <1>2, <1>3, <1>6, HasRelease
  <2>2. Release[k] = Release[q] => src = EachSystem(k)
    BY <1>2, <1>4, <1>6, <2>1 DEF KeptFits, HasMods
  <2>3. Release[k] # Release[q] => Holds(fs.set, k)
    BY Zenon, <1>2, <1>4, <2>1 DEF KeptFits, Holds
  <2>4. Release[k] = Release[q] => SavedOf(fs.newMods, fs.mods, Release[k]) = EachSystem(k)
    BY <1>2, <2>1, <2>2 DEF SavedOf, NoMods
  <2>5. SlotFits(fs.set, q, fs, slot')
    BY <1>1, <1>2, <2>1, <2>3, <2>4 DEF SlotFits
  <2>6. Fits(fs', slot') /\ Keeps(fs', slot')
    BY <1>1, <1>5, <2>1, <2>5 DEF Fits
  <2>7. Sound' /\ CutInv'
    BY <1>1, <1>2, <1>3, <2>1, <2>6, SoundSynced, CutStays
  <2>8. /\ SlotFits(Filled(fs.set, Release[q], src), None, fs, slot')
        /\ KeptFits(Filled(fs.set, Release[q], src), None, fs, slot')
    <3>1. slot' \in Builds \cup {Torn} /\ k \in Builds \cup {None}
      BY <1>1, <1>2
    <3>2. KeptFits(fs.set, q, fs, slot')
      BY <1>5, <2>1
    <3>3. slot' # Torn /\ Release[slot'] = Release[q] => src = EachSystem(slot')
      BY <1>1, <2>2
    <3>4. fs.mods.rel # Release[k] => Release[k] # Release[q]
      BY <2>1
    <3> QED
      BY <1>2, <2>5, <3>1, <3>2, <3>3, <3>4, EndsPut
  <2> QED
    BY <1>1, <2>1, <2>7, <2>8, PutStarts
<1>7. CASE ~HasMods(q)
  <2>1. fs.pending = None /\ fs.mods.rel = None
    BY <1>2, <1>3, <1>7
  <2>2. Holds(fs.set, k)
    BY Zenon, <1>2, <1>4, <2>1, HasRelease DEF KeptFits, Holds
  <2>3. SlotFits(fs.set, None, fs, slot') /\ KeptFits(fs.set, None, fs, slot')
    BY <1>1, <1>5, <2>1, <2>2 DEF SlotFits
  <2>4. Fits(fs', slot') /\ Keeps(fs', slot')
    BY <1>1, <2>1, <2>3 DEF Fits, Keeps
  <2>5. solid = TRUE
    BY <1>1, <1>2 DEF CutInv, Firm
  <2>6. Sound' /\ CutInv'
    <3>1. Sound'
      BY <1>1, <1>3, <2>4, SoundSynced
    <3>2. CutInv'
      BY Zenon, <1>1, <1>2, <2>5 DEF CutInv, Firm
    <3> QED
      BY <3>1, <3>2
  <2>7. Filled(fs.set, None, src) = fs.set
    BY FilledIs, FilesHave
  <2> QED
    BY <1>1, <2>1, <2>3, <2>6, <2>7, PutStarts
<1> QED
  BY <1>6, <1>7

-----------------------------------------------------------------------------
(* The end of the step, rollback-boot and the power.                       *)

LEMMA MatchRecord ==
    ASSUME IInv, MatchInv, Record
    PROVE  MatchInv'
<1>1. /\ proc.pc = "record" /\ proc'.pc = "done" /\ proc'.new = proc.new /\ slot' = slot
      /\ disk' = disk /\ solid' = solid /\ loose' = loose
  BY DEF Record, At, Goto, Idle, device, NoSync
<1>2. /\ fs'.set = fs.set /\ fs'.pending = fs.pending /\ fs'.stage = fs.stage
      /\ fs'.newMods = fs.newMods /\ fs'.mods = fs.mods /\ fs'.kept = fs.kept
  BY FilesHave DEF Record, Files
<1>3. Sound /\ CutInv
  BY <1>1, SoundIs DEF MatchInv, Restoring, Putting, Keeping
<1>4. Fits(fs', slot') /\ Keeps(fs', slot')
  BY <1>1, <1>2, <1>3 DEF Sound, Fits, Keeps, SlotFits, KeptFits
<1>5. Sound'
  BY <1>1, <1>3, <1>4, SoundSees
<1>6. CutInv'
  BY Zenon, <1>1, <1>2, <1>3 DEF CutInv, Firm
<1>7. FitInv' /\ PutInv'
  BY <1>1, <1>5 DEF FitInv, Sound, PutInv
<1>8. StepInv'
  BY <1>1, <1>2 DEF MatchInv, StepInv, Installing, Putting, Unmarked
<1> QED
  BY <1>6, <1>7, <1>8 DEF MatchInv

LEMMA MatchStale ==
    ASSUME IInv, MatchInv, StaleSets
    PROVE  MatchInv'
<1> DEFINE rels == Needed(slot, fs.kept)
<1>1. proc.pc = "stale" /\ proc'.pc = "end" /\ slot' = slot /\ Sync /\ disk' = fs'
  BY DEF StaleSets, At, Goto, Idle, device, Sync
<1>2. slot = proc.new /\ slot \in Builds /\ fs.pending = None
  BY <1>1 DEF MatchInv, StepInv, Unmarked
<1>3. fs.kept \in Builds \cup {None}
  BY FilesHave
<1>4. Sound
  BY <1>1, SoundIs DEF MatchInv, Restoring, Putting, Keeping
<1>5. /\ fs'.set = Without(fs.set, rels) /\ fs'.pending = None
      /\ fs'.mods = fs.mods /\ fs'.kept = fs.kept
  BY <1>2, FilesHave DEF StaleSets, Files
<1>6. Release[slot] \in rels /\ (fs.kept # None => Release[fs.kept] \in rels)
  BY DEF Needed
<1>7. SlotFits(fs.set, None, fs, slot) /\ KeptFits(fs.set, None, fs, slot)
  BY <1>2, <1>4 DEF Sound, Fits, Keeps
<1>8. /\ SlotFits(Without(fs.set, rels), None, fs, slot)
      /\ KeptFits(Without(fs.set, rels), None, fs, slot)
  BY <1>2, <1>3, <1>6, <1>7, FitsWithout
<1>9. Fits(fs', slot') /\ Keeps(fs', slot')
  BY <1>1, <1>5, <1>8 DEF Fits, Keeps, SlotFits, KeptFits
<1>10. Sound' /\ CutInv'
  BY <1>1, <1>9, SoundSynced, CutSynced
<1> QED
  BY <1>1, <1>10, Rest

LEMMA MatchTidy ==
    ASSUME IInv, MatchInv, StepTidy \/ Sweep
    PROVE  MatchInv'
<1>1. /\ proc.pc \in {"tidy", "sweep"} /\ proc'.pc \in {"settle", "idle"} /\ slot' = slot
      /\ disk' = disk /\ solid' = solid /\ loose' = loose
  <2>1. /\ proc.pc \in {"tidy", "sweep"} /\ slot' = slot
        /\ disk' = disk /\ solid' = solid /\ loose' = loose
    BY DEF StepTidy, Sweep, At, device, NoSync
  <2>2. StepTidy => proc'.pc = "settle"
    BY DEF StepTidy, Settle, Idle
  <2>3. Sweep => proc'.pc = "idle"
    BY DEF Sweep, Idle
  <2> QED
    BY <2>1, <2>2, <2>3
<1>2. Sound /\ CutInv
  BY <1>1, SoundIs DEF MatchInv, Restoring, Putting, Keeping
<1>3. fs.pending = None
  BY <1>1 DEF MatchInv, StepInv, Unmarked
<1>4. fs'.set = fs.set /\ fs'.pending = None /\ fs'.mods = fs.mods /\ fs'.kept = fs.kept
  BY Zenon, <1>3, FilesHave DEF StepTidy, Sweep, Files
<1>5. Fits(fs', slot') /\ Keeps(fs', slot')
  BY <1>1, <1>2, <1>3, <1>4 DEF Sound, Fits, Keeps, SlotFits, KeptFits
<1>6. Sound'
  BY <1>1, <1>2, <1>5, SoundSees
<1>7. CutInv'
  BY <1>1, <1>2, <1>3, <1>4 DEF CutInv, Firm
<1> QED
  BY <1>1, <1>6, <1>7, Rest

\* rollback-boot begins: what is kept fits whatever the slot holds.
LEMMA MatchRollbackStart ==
    ASSUME IInv, MatchInv, RollbackStart
    PROVE  MatchInv'
<1>1. /\ proc.pc = "rollback-boot" /\ proc'.pc = "rewriting" /\ slot' = Torn
      /\ fs' = fs /\ disk' = disk /\ solid' = solid /\ loose' = loose
  BY DEF RollbackStart, At, Goto, Idle, NoSync
<1>2. Sound /\ CutInv
  BY <1>1, SoundIs DEF MatchInv, Restoring, Putting, Keeping
<1>3. fs.pending = None
  BY <1>1 DEF MatchInv, StepInv, Unmarked
<1>4. disk.pending = None
  BY <1>2, <1>3 DEF CutInv
<1>5. Fits(fs', slot') /\ Keeps(fs', slot') /\ Fits(disk', slot') /\ Keeps(disk', slot')
  BY <1>1, <1>2, <1>3, <1>4 DEF Sound, Fits, Keeps, SlotFits, KeptFits
<1>6. CutInv'
  BY <1>1, <1>2, CutStays
<1>7. FitInv' /\ PutInv' /\ StepInv'
  BY <1>1, <1>3, <1>5 DEF FitInv, PutInv, StepInv, Installing, Putting, Unmarked
<1> QED
  BY <1>6, <1>7 DEF MatchInv

\* The kept image is written, and its set begins to go back.
LEMMA MatchRollbackWritten ==
    ASSUME IInv, MatchInv, RollbackWritten
    PROVE  MatchInv'
<1> DEFINE k == fs.kept  rel == fs.mods.rel  src == fs.mods.set
<1>1. /\ proc.pc = "rewriting" /\ fs' = fs /\ disk' = fs' /\ Sync /\ slot' = k
      /\ Put(rel, src, "unrecord")
  BY DEF RollbackWritten, At, Sync
<1>2. Sound
  BY <1>1, SoundIs DEF MatchInv, Restoring, Putting, Keeping
<1>3. fs.pending = None /\ k \in Builds
  BY <1>1 DEF MatchInv, StepInv, Unmarked, IInv, WriteInv
<1>4. KeptFits(fs.set, None, fs, slot)
  BY <1>2, <1>3 DEF Sound, Keeps
<1>5. Keeps(fs', slot') /\ Keeps(disk', slot')
  BY <1>1, <1>3, <1>4 DEF Keeps, KeptFits
<1>6. Holds(Filled(fs.set, rel, src), k)
  <2>1. CASE HasMods(k) /\ rel = Release[k]
    <3>1. src = EachSystem(k)
      BY <1>3, <1>4, <2>1 DEF KeptFits
    <3> QED
      BY <1>3, <2>1, <3>1, FilledHolds
  <2>2. CASE HasMods(k) /\ rel # Release[k]
    <3>1. Holds(fs.set, k)
      BY <1>3, <1>4, <2>2 DEF KeptFits
    <3> QED
      BY <1>3, <2>2, <3>1, FilledHolds
  <2>3. CASE ~HasMods(k)
    BY <2>3 DEF Holds
  <2> QED
    BY <2>1, <2>2, <2>3
<1>7. SlotFits(Filled(fs.set, rel, src), None, fs, k)
  BY <1>6 DEF SlotFits
<1>8. /\ proc'.pc = "put" /\ proc'.rel = rel /\ proc'.src = src /\ proc'.then = "unrecord"
      /\ proc'.half = None /\ proc'.todo = IF rel = None THEN {} ELSE Systems
  BY <1>1, PutHas
<1>9. PutInv'
  BY <1>1, <1>3, <1>7, <1>8 DEF PutInv
<1>10. FitInv' /\ StepInv'
  BY <1>5, <1>8 DEF FitInv, StepInv, Installing, Putting, Unmarked, Restoring
<1> QED
  BY <1>1, <1>9, <1>10, CutSynced DEF MatchInv

LEMMA MatchUnrecord ==
    ASSUME IInv, MatchInv, Unrecord
    PROVE  MatchInv'
<1>1. proc.pc = "unrecord" /\ proc'.pc = "settle" /\ slot' = slot /\ Sync /\ disk' = fs'
  BY DEF Unrecord, At, Settle, Idle, device, Sync
<1>2. Fits(fs, slot) /\ Keeps(fs, slot)
  BY <1>1 DEF MatchInv, FitInv, Putting, Keeping
<1>3. /\ fs'.set = fs.set /\ fs'.pending = fs.pending /\ fs'.stage = fs.stage
      /\ fs'.newMods = fs.newMods /\ fs'.mods = fs.mods /\ fs'.kept = fs.kept
  BY FilesHave DEF Unrecord, Files
<1>4. Fits(fs', slot') /\ Keeps(fs', slot')
  BY <1>1, <1>2, <1>3 DEF Fits, Keeps, SlotFits, KeptFits
<1> QED
  BY <1>1, <1>4, SoundSynced, CutSynced, Rest

LEMMA MatchPower ==
    ASSUME IInv, MatchInv, {"keep", "restore"} \subseteq Whole, Journal \/ PowerCut \/ Reboot
    PROVE  MatchInv'
<1>1. CASE Journal
  <2>1. fs' = fs /\ disk' = fs /\ solid' = solid /\ loose' = loose /\ slot' = slot /\ proc' = proc
    BY <1>1 DEF Journal, device
  <2>2. ~Keeping
    BY <1>1, WindowIs DEF Journal, IInv
  <2> QED
    BY <2>1, <2>2, MatchStays
<1>2. CASE Reboot
  <2>1. fs' = fs /\ Sync /\ slot' = slot /\ proc'.pc = "idle" /\ proc.pc = "idle" /\ disk' = fs'
    BY <1>2 DEF Reboot, At, Sync
  <2>2. Sound
    BY <2>1, SoundIs DEF MatchInv, Restoring, Putting, Keeping
  <2>3. Fits(fs', slot') /\ Keeps(fs', slot')
    BY <2>1, <2>2 DEF Sound
  <2> QED
    BY <2>1, <2>3, SoundSynced, CutSynced, Rest
<1>3. CASE PowerCut
  <2>1. ~Restoring /\ ~Keeping
    BY <1>3, WindowIs DEF PowerCut, IInv
  <2>2. Sound /\ CutInv
    BY <2>1, SoundIs DEF MatchInv
  <2>3. loose = {} /\ disk.pending = fs.pending
    BY <2>2 DEF CutInv
  <2>4. disk \in Files /\ disk.set \in [Systems -> [Rels -> Sets]]
    BY DEF IInv, FilesOK, Files
  <2>5. PICK v : \E t : /\ fs' = [disk EXCEPT !.stage = v, !.set = t]
                        /\ v = IF solid \/ disk.stage = None THEN disk.stage ELSE Part
                        /\ t = [o \in Systems |-> [r \in Rels |->
                                 IF o \in loose /\ disk.set[o][r] = disk.stage THEN Part
                                 ELSE disk.set[o][r]]]
    BY Zenon, <1>3 DEF PowerCut
  <2>6. PICK t : /\ fs' = [disk EXCEPT !.stage = v, !.set = t]
                 /\ v = IF solid \/ disk.stage = None THEN disk.stage ELSE Part
                 /\ t = [o \in Systems |-> [r \in Rels |->
                          IF o \in loose /\ disk.set[o][r] = disk.stage THEN Part
                          ELSE disk.set[o][r]]]
    BY Zenon, <2>5
  <2>7. t = disk.set
    BY <2>3, <2>4, <2>6
  <2>8. disk.pending # None => v = disk.stage
    <3>1. disk.pending # None => solid = TRUE
      BY <2>2, <2>3 DEF CutInv, Firm
    <3> QED
      BY Zenon, <2>6, <3>1
  <2>9. /\ fs'.set = disk.set /\ fs'.pending = disk.pending /\ fs'.kept = disk.kept
        /\ fs'.mods = disk.mods /\ fs'.newMods = disk.newMods /\ fs'.stage = v
    BY <2>4, <2>6, <2>7 DEF Files
  <2>10. Fits(fs', slot) /\ Keeps(fs', slot)
    BY <2>2, <2>8, <2>9 DEF Sound, Fits, Keeps, SlotFits, KeptFits
  <2>11. slot' = slot /\ Sync /\ disk' = fs' /\ proc'.pc = "idle"
    BY <1>3 DEF PowerCut, Sync, Idle
  <2> QED
    BY <2>10, <2>11, SoundSynced, CutSynced, Rest
<1> QED
  BY <1>1, <1>2, <1>3

-----------------------------------------------------------------------------
(* The ramdisk.                                                            *)
LEMMA RamNext ==
    ASSUME IInv, OffInv, RamInv, [Next]_vars
    PROVE  RamInv'
<1> USE DEF At, device
<1>1. ASSUME phase' = phase, proc'.pc # "handover", proc'.back # "handover",
             proc.pc \notin {"settle", "settled", "put", "handover"}
      PROVE  RamInv'
  BY <1>1 DEF RamInv, Putting
<1>2. ASSUME proc.pc \notin {"settle", "settled", "put", "handover"}
      PROVE  proc.back # "handover"
  BY <1>2 DEF RamInv, Putting
<1>3. ASSUME phase' = phase, NEW pc, pc # "handover", Goto(pc),
             proc.pc \notin {"settle", "settled", "put", "handover"}
      PROVE  RamInv'
  <2>1. proc'.pc = pc /\ proc'.back = proc.back
    BY <1>3 DEF Goto, Idle
  <2> QED
    BY <1>1, <1>2, <1>3, <2>1
<1>4. ASSUME phase' = phase, NEW back, back # "handover", Settle(back),
             proc.pc \notin {"settle", "settled", "put", "handover"}
      PROVE  RamInv'
  <2>1. proc'.pc = "settle" /\ proc'.back = back
    BY <1>4 DEF Settle, Idle
  <2> QED
    BY <1>1, <1>4, <2>1
<1>5. ASSUME phase' = phase, NEW rel, NEW src, NEW then, Put(rel, src, then),
             proc.pc \notin {"settle", "settled", "put", "handover"}
      PROVE  RamInv'
  <2>1. proc'.pc = "put" /\ proc'.back = proc.back
    BY <1>5, PutHas
  <2> QED
    BY <1>1, <1>2, <1>5, <2>1
<1>6. ASSUME NEW op \in Ops, NEW b \in Builds \cup {None}, Start(op, b) PROVE RamInv'
  <2>1. proc'.pc = "settle" /\ proc'.back = op /\ op # "handover" /\ proc.pc = "idle"
        /\ phase' = phase
    BY <1>6 DEF Start, Idle
  <2> QED
    BY <1>1, <2>1
<1>7. CASE StepSettle \/ StepEnd \/ StepTidy \/ RollbackNone \/ RollbackFails \/ Unrecord
  BY <1>4, <1>7 DEF StepSettle, StepEnd, StepTidy, RollbackNone, RollbackFails, Unrecord
<1>8. CASE StepClean \/ Unpack \/ StepStops \/ UnpackSync \/ Same \/ NewImage \/ PrevModulesSave
  BY <1>3, <1>8 DEF StepClean, Unpack, StepStops, UnpackSync, Same, NewImage, PrevModulesSave
<1>9. CASE Undo \/ PrevModulesDrop \/ PrevModulesCommit \/ KeepImage \/ WriteStart \/ WriteOk
             \/ Record \/ ModulesDone \/ StaleSets \/ RollbackStart
  BY <1>3, <1>9 DEF Undo, PrevModulesDrop, PrevModulesCommit, KeepImage, WriteStart, WriteOk,
     Record, ModulesDone, StaleSets, RollbackStart
<1>10. CASE UpToDate \/ ModulesPending
  BY <1>3, <1>5, <1>10 DEF UpToDate, ModulesPending
<1>11. CASE WriteFails \/ RollbackWritten
  BY <1>5, <1>11 DEF WriteFails, RollbackWritten
<1>12. CASE KeptDropSet \/ KeptDrop
  BY <1>3, <1>12 DEF KeptDropSet, KeptDrop
<1>13. CASE Sweep
  BY <1>1, <1>13 DEF Sweep, Idle
<1>14. CASE PutClear \/ PutLink
  <2>1. proc'.pc = proc.pc /\ proc'.back = proc.back /\ proc'.then = proc.then
    BY Zenon, <1>14, ProcHas DEF PutClear, PutLink, ProcType
  <2> QED
    BY <1>14, <2>1 DEF PutClear, PutLink, RamInv, Putting
<1>15. CASE PutDone
  <2>1. proc.pc = "put" /\ proc'.pc = proc.then /\ proc'.back = proc.back /\ phase' = phase
        /\ running' = running /\ slot' = slot
    BY <1>15 DEF PutDone, Idle
  <2>2. proc.then # "handover"
    BY DEF IInv, Control, Thens
  <2> QED
    BY <2>1, <2>2 DEF RamInv, Putting
<1>16. CASE PutFails
  <2>1. /\ proc.pc = "put" /\ proc.then \in {"drop", "same", "settled"} /\ phase' = phase
        /\ running' = running /\ slot' = slot
    BY <1>16 DEF PutFails
  <2>2. CASE proc.then = "settled"
    <3>1. Return(Unsettled)
      BY Zenon, <1>16, <2>2 DEF PutFails
    <3>2. proc'.pc = Unsettled /\ proc'.back = "idle"
      BY <3>1 DEF Return, Idle
    <3> QED
      BY <2>1, <2>2, <3>2 DEF RamInv, Putting, Unsettled
  <2>3. CASE proc.then = "same"
    <3>1. Goto("end")
      BY Zenon, <1>16, <2>3 DEF PutFails
    <3>2. proc'.pc = "end" /\ proc'.back = proc.back
      BY <3>1 DEF Goto, Idle
    <3> QED
      BY <2>1, <2>3, <3>2 DEF RamInv, Putting
  <2>4. CASE proc.then = "drop"
    <3>1. Put(fs.newMods.rel, fs.newMods.set, "undo")
      BY Zenon, <1>16, <2>4 DEF PutFails
    <3>2. proc'.pc = "put" /\ proc'.back = proc.back
      BY <3>1, PutHas
    <3> QED
      BY <2>1, <2>4, <3>2 DEF RamInv, Putting
  <2> QED
    BY <2>1, <2>2, <2>3, <2>4
<1>17. CASE SettleNothing \/ Settled
  <2>1. /\ proc.pc \in {"settle", "settled"} /\ proc'.pc = proc.back /\ proc'.back = "idle"
        /\ phase' = phase /\ running' = running /\ slot' = slot
    BY Zenon, <1>17 DEF SettleNothing, Settled, Return, Idle
  <2> QED
    BY <2>1 DEF RamInv
<1>18. CASE SettleNew \/ SettleKept
  <2>1. /\ proc.pc = "settle" /\ phase' = phase /\ running' = running /\ slot' = slot
    BY Zenon, <1>18 DEF SettleNew, SettleKept
  <2>2. ASSUME NEW rel, NEW src, Put(rel, src, "settled") PROVE RamInv'
    <3>1. proc'.pc = "put" /\ proc'.back = proc.back /\ proc'.then = "settled"
      BY <2>2, PutHas
    <3> QED
      BY <2>1, <3>1 DEF RamInv, Putting
  <2>3. CASE Return(Unsettled)
    <3>1. proc'.pc = Unsettled /\ proc'.back = "idle"
      BY <2>3 DEF Return, Idle
    <3> QED
      BY <2>1, <3>1 DEF RamInv, Unsettled
  <2> QED
    BY Zenon, <1>18, <2>2, <2>3 DEF SettleNew, SettleKept
<1>19. CASE Kill \/ KillHard
  <2>1. phase = "up" /\ phase' = phase
    BY <1>19 DEF Kill, KillHard
  <2>2. proc'.pc # "handover" /\ proc'.back # "handover"
    <3>1. CASE KillHard
      BY <3>1 DEF KillHard, Idle
    <3>2. CASE Kill /\ Settle("sweep")
      BY <3>2 DEF Settle, Idle
    <3>3. CASE Kill /\ ~Settle("sweep")
      <4>1. proc' = [proc EXCEPT !.pc = "put", !.then = "sweep", !.back = "sweep", !.half = None,
                        !.rel = fs.newMods.rel, !.src = fs.newMods.set, !.todo = Systems]
        BY <3>3 DEF Kill
      <4> QED
        BY <4>1, ProcHas DEF ProcType
    <3> QED
      BY <1>19, <3>1, <3>2, <3>3
  <2> QED
    BY <2>1, <2>2 DEF RamInv
<1>20. CASE Journal
  BY <1>20 DEF Journal, RamInv, Putting
<1>21. CASE PowerCut \/ Reboot
  BY <1>21 DEF PowerCut, Reboot, RamInv, Idle
<1>22. CASE PowerOn
  BY <1>22 DEF PowerOn, RamInv, Idle
<1>23. CASE Handover
  BY <1>23 DEF Handover, RamInv, Idle
<1>24. CASE RestoreFails
  <2>1. /\ proc.pc = "put" /\ proc.then \in {"undo", "restored", "unrecord", "sweep"}
        /\ phase' = phase /\ running' = running /\ slot' = slot
    BY <1>24 DEF RestoreFails
  <2>2. phase # "ramdisk" /\ proc.back # "handover"
    BY <2>1 DEF RamInv, Putting
  <2>3. proc'.pc # "handover" /\ proc'.back # "handover"
    <3>1. CASE proc.then = "restored"
      BY <1>24, <2>2, <3>1 DEF RestoreFails, Goto, Idle
    <3>2. CASE proc.then = "unrecord"
      BY <1>24, <3>2 DEF RestoreFails, Settle, Idle
    <3>3. CASE proc.then \in {"undo", "sweep"}
      <4>1. Goto(proc.then)
        BY <1>24, <3>3 DEF RestoreFails
      <4> QED
        BY <2>2, <3>3, <4>1 DEF Goto, Idle
    <3> QED
      BY <2>1, <3>1, <3>2, <3>3
  <2> QED
    BY <2>1, <2>2, <2>3 DEF RamInv
<1>25. CASE UNCHANGED vars
  BY <1>25 DEF vars, RamInv, Putting
<1> QED
  BY Zenon, <1>6, <1>7, <1>8, <1>9, <1>10, <1>11, <1>12, <1>13, <1>14, <1>15, <1>16, <1>17, <1>18,
     <1>19, <1>20, <1>21, <1>22, <1>23, <1>24, <1>25 DEF Next

-----------------------------------------------------------------------------
LEMMA MatchNext ==
    ASSUME {"keep", "restore", "abort"} \subseteq Whole, "settle" \notin Faults,
           IInv, OffInv, MatchInv, [Next]_vars, ~lost'
    PROVE  MatchInv'
<1>1. CASE UNCHANGED vars
  <2>1. UNCHANGED <<fs, disk, solid, loose, slot, proc>>
    BY <1>1 DEF vars, device
  <2> QED
    BY <2>1, MatchStays
<1>2. TornInv /\ {"keep", "restore"} \subseteq Whole
  BY DEF IInv
<1> QED
  BY Zenon, <1>1, <1>2, MatchGoes, MatchKill, MatchPutOne, MatchPutDone, MatchPutFails, MatchRestoreFails,
     MatchSettles, MatchUnmarks, MatchModulesDone, MatchClean, MatchGiveUp, MatchDrop, MatchUnpack, MatchSave, MatchUpToDate, MatchPending,
     MatchKeep, MatchWriteStart, MatchWriteOk, MatchWriteFails, MatchRecord, MatchStale, MatchTidy,
     MatchRollbackStart, MatchRollbackWritten, MatchUnrecord, MatchPower DEF Next

LEMMA MatchInit ==
    ASSUME Init
    PROVE  MatchInv /\ RamInv
<1>1. /\ slot \in Builds /\ phase = "off" /\ proc.pc = "idle" /\ proc.back = "idle"
      /\ disk = fs /\ loose = {} /\ fs.pending = None /\ fs.kept = None
  BY DEF Init, Idle
<1>2. Holds(fs.set, slot)
  BY Zenon, <1>1, HasRelease DEF Init, Holds
<1>3. Fits(fs, slot) /\ Keeps(fs, slot)
  BY <1>1, <1>2 DEF Fits, Keeps, SlotFits, KeptFits
<1>4. CutInv
  BY <1>1 DEF CutInv, Firm
<1>5. FitInv /\ PutInv
  BY <1>1, <1>3 DEF FitInv, PutInv
<1>6. ~Installing /\ ~Putting("drop")
  BY <1>1 DEF Installing, Putting
<1>7. StepInv
  BY <1>1, <1>6 DEF StepInv
<1>8. RamInv
  BY <1>1 DEF RamInv
<1> QED
  BY <1>4, <1>5, <1>7, <1>8 DEF MatchInv

LEMMA MatchAlways ==
    ASSUME {"keep", "restore", "abort"} \subseteq Whole, "settle" \notin Faults
    PROVE  Spec => [](IInv /\ (~lost => MatchInv) /\ RamInv)
<1> DEFINE All == IInv /\ OffInv /\ lost \in BOOLEAN /\ (~lost => MatchInv) /\ RamInv
<1>1. Init => All
  BY KernelInit, MatchInit
<1>2. All /\ [Next]_vars => All'
  <2>1. SUFFICES ASSUME All, [Next]_vars PROVE All'
    OBVIOUS
  <2>2. IInv' /\ OffInv' /\ RamInv' /\ lost' \in BOOLEAN /\ (lost => lost')
    BY <2>1, KernelNext, OffNext, RamNext, LostNext
  <2>3. ASSUME ~lost' PROVE MatchInv'
    BY <2>1, <2>2, <2>3, MatchNext
  <2> QED
    BY Zenon, <2>2, <2>3
<1>3. All => IInv /\ (~lost => MatchInv) /\ RamInv
  OBVIOUS
<1> HIDE DEF All
<1> QED
  BY <1>1, <1>2, <1>3, PTL DEF Spec

\* The modules belong to the kernel: when the ramdisk hands over, and between
\* runs with nothing left to settle, every system has the set of the very build
\* in the slot.  This holds for any systems, builds and releases, whatever
\* install or write fails and wherever a signal, a kill or a power cut stops a
\* run of boot_update or rollback_boot, but for the three windows, for a settling
\* that fails, and from a kept set on that failed to go back unmarked (lost).
THEOREM KernelSetsMatch ==
    ASSUME {"keep", "restore", "abort"} \subseteq Whole, "settle" \notin Faults
    PROVE  Spec => []SetsMatch
<1>1. ASSUME IInv, ~lost => MatchInv, RamInv PROVE SetsMatch
  <2>0. SUFFICES ASSUME MatchInv
                 PROVE  /\ At("handover") => Matched(running)
                        /\ At("idle") /\ fs.pending = None /\ slot # Torn => Matched(slot)
    BY Zenon, <1>1 DEF SetsMatch
  <2>1. ASSUME proc.pc = "handover" PROVE Matched(running)
    <3>1. running = slot /\ slot # Torn
      BY <1>1, <2>1 DEF RamInv, IInv, DeviceOK
    <3>2. Fits(fs, slot) /\ fs.pending = None
      BY <2>0, <2>1 DEF MatchInv, FitInv, StepInv, Unmarked, Putting
    <3> QED
      BY Zenon, <3>1, <3>2 DEF Fits, SlotFits, Holds, Matched
  <2>2. ASSUME proc.pc = "idle", fs.pending = None, slot # Torn PROVE Matched(slot)
    <3>1. Fits(fs, slot)
      BY <2>0, <2>2 DEF MatchInv, FitInv, Putting
    <3> QED
      BY Zenon, <2>2, <3>1 DEF Fits, SlotFits, Holds, Matched
  <2> QED
    BY <2>1, <2>2 DEF At
<1> QED
  BY <1>1, MatchAlways, PTL

\* As long as modules.pending is there, the set the settling would put in is
\* there as well, the unpacked one or the one prev_modules_save kept, however
\* often the install, the undoing or the settling itself is interrupted, and
\* also when the kept set does not go back after a failed write.
THEOREM KernelRepairable ==
    ASSUME {"keep", "restore", "abort"} \subseteq Whole, "settle" \notin Faults
    PROVE  Spec => []Repairable
<1>1. ASSUME IInv, ~lost => MatchInv PROVE Repairable
  <2>1. ~lost /\ fs.pending # None => Fits(fs, slot)
    BY <1>1 DEF MatchInv, FitInv, PutInv, Putting
  <2>2. KeptOf(Release[slot]) = SavedOf(fs.newMods, fs.mods, Release[slot])
    BY SavedIs
  <2> QED
    BY <2>1, <2>2 DEF Fits, SlotFits, Repairable
<1> QED
  BY <1>1, MatchAlways, PTL

\* rollback-boot never puts back an image without its modules: between runs the
\* set it would put in for the kept image, saved by the step that replaced it or
\* still in the systems, is that image's own, also across builds of different
\* releases and after any run that was stopped, unless a kept set failed to go
\* back unmarked before (lost).
THEOREM KernelKeptMatch ==
    ASSUME {"keep", "restore", "abort"} \subseteq Whole, "settle" \notin Faults
    PROVE  Spec => []KeptMatch
<1>1. ASSUME IInv, ~lost => MatchInv PROVE KeptMatch
  <2>1. SUFFICES ASSUME ~lost, proc.pc = "idle", fs.pending = None, fs.kept # None, HasMods(fs.kept),
                        NEW o \in Systems
                 PROVE  fs.kept = IF fs.mods.rel = Release[fs.kept] THEN fs.mods.set[o]
                                  ELSE fs.set[o][Release[fs.kept]]
    BY Zenon DEF KeptMatch, Rollable, At
  <2>2. Keeps(fs, slot)
    BY <1>1, <2>1 DEF MatchInv, FitInv, Keeping
  <2> QED
    BY <2>1, <2>2 DEF Keeps, KeptFits, Holds, EachSystem
<1> QED
  BY <1>1, MatchAlways, PTL
=============================================================================
