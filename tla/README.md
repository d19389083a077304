# MU300 Linux: a verification project

The MU300 and its relatives keep Android in one slot of the eMMC and Linux in
the other. This directory holds TLA+ models of the programs of this repository
that decide what such a device boots and with what, and of the kernel modules that
power its mobile data path; TLC runs that check them on small instances; and
TLAPS proofs of their most important properties for every instance.

| file | what it is |
|---|---|
| `BootControl.tla` | which slot boots: LK, the initramfs, `mu300-next-boot`, `mu300-os`, `mu300-linux` |
| `BootControlTypes.tla`, `BootControlProofs.tla` | its theorems: types; failed boots, the backstop, and what the user chose |
| `MCBootControl.tla`, `Boot*.cfg` | its instances |
| `CpuVoltage.tla` | the experimental CPU voltage offset across crashes |
| `CpuVoltageProofs.tla` | its theorems |
| `MCCpuVoltage.tla`, `Cpu*.cfg` | its instances |
| `KernelStep.tla` | boot image, module sets and rollback-boot across interruptions |
| `KernelStepProofs.tla`, `KernelSetSteps.tla`, `KernelSetProofs.tla` | its theorems: types and the half-written slot; that the module sets belong to the images, up to the mark, and the other steps with the theorems |
| `MCKernelStep.tla`, `Kernel*.cfg` | its instances |
| `SystemUpdate.tla` | the systems' directories through apply, rollback and clean |
| `SystemUpdateProofs.tla` | its theorems |
| `MCSystemUpdate.tla`, `SystemUpdate.cfg` | its instance |
| `SipaRm.tla` | the resource manager of the mobile data path, one operator per entry point |
| `SipaDriver.tla` | the manager between any clients and drivers that keep a stated promise |
| `SipaDriverProofs.tla` | its theorems |
| `SipaTx.tla` | the uplink: transmit, inactivity alarm, flow control, ring (extends `SipaDriver`) |
| `SipaDele.tla` | the IPA's power work and the modem's delegate (implements `SipaDriver`) |
| `MCSipaDriver.tla`, `MCSipaTx.tla`, `MCSipaDele.tla`, `Sipa*.cfg` | their instances |
| `PROJECT.json` | runs, mutants, the map from definitions to source lines, findings, hazards, theorems |

## 1. The system

Paths are relative to `src/`; `bin/` stands for `rootfs/overlay/opt/mu300/bin/`.

| part | state | operations | what makes it hard |
|---|---|---|---|
| boot control: `boot/init`, `bin/mu300-next-boot`, `bin/mu300-os`, `android/magisk/mu300-linux-switch/switch.sh`, `mu300-boot-ok.service` | the `misc` block (active slot, tries, success bit), `default-boot` per system, `.mu300/boot-os`, `boot-lock`, `boot-attempts`, `boot-tries` | LK's count-down and fallback; count, backstop, restore in the initramfs; `linux`, `android`, `attempts N`, `lock`, `unlock`, `--trial`, `--rearm`; arm from Android | power cuts between two durable writes, two runs behind one `flock`, a writer outside the lock, stale counts, 3-bit tries |
| CPU voltage offset: `boot/init`, `bin/mu300-cpu`, the cpufreq driver | request, trial, good, armed and keep-good files; the driver's one-shot register | the guard at every boot; set, off, keep-good, mark-good, shutdown | a crash may be caused by the very value under test; cuts inside the clean-up; late driver |
| kernel step: `bin/mu300-update` 3205-3750, `modules_settle` of `boot/init` | boot image, previous image, module sets of every system, `modules.pending` | `boot_update_run`, `rollback_boot`, `modules_settle` | power cuts between image and modules; rollback without a pending mark |
| data path: `sipa_v3/`, `sipa_delegate/` of `upstream/modules/sprd_modem/` | reference counts and states of consumers and producers, event queues; per interface the lazily held resource; IPA power and enable count; the delegate's state and messages | request, release, add and delete a dependency, completion, failure; transmit, alarm, callbacks, free thread, open, close; resume, suspend; OPEN, CLOSE, REQUEST, RELEASE, DONE, ENABLE, DISABLE, modem restart | several cores, works, timers and a second processor around four locks; state read before an unlock and used after it; answers after the asker gave up |
| system update: `bin/mu300-update` | system trees, previous trees, the updater's lock | `apply`, `apply_one`, `rollback`, `clean` | rename chains cut in the middle; stale locks |
| boot chain sync: `bootchain.sh` | LK and vbmeta partitions of both slots, backups | `bc_sync` | one of several writes failing |
| mobile data: `bin/mobile-data` | PDP contexts, interface, watch state | up, down, watch | retries, a modem that restarts meanwhile |
| AT channel: `bin/mu300-at`, `bin/mu300-atd` | the channel and its queue | send, subscribe | late answers to a timed-out command |
| SMS: `bin/sms`, `bin/mu300-sms-forward`, `bin/mu300-cmt-spool` | modem store, spool, sent log | receive, forward, retry, delete | duplicates and losses around a failed forward |
| SIM selection: `bin/mu300-sim`, `bin/mu300-sim-u30` | selected slot, saved choice | select, restore | a switch cut in the middle |
| thermal guard: `bin/thermal-guard` | current step | poll | hysteresis at the limits |
| power, Wi-Fi, USB, LEDs, panel API, toolkit, backup, installers, resume/carry, web installer, desktop GUI, kernel port | configuration and external daemons | see `PROJECT.json` | see `PROJECT.json` |

Interactions: `mu300-update` unlocks and arms the slot through
`mu300-next-boot --trial` before it writes a boot image; `mu300-boot-ok` re-arms
it once Linux is up; `mu300-os` changes which system's `default-boot` the
initramfs reads; the initramfs reads every file the running system writes, in a
later boot.

The data path is a stack of its own: `sipa_eth` and the modem (through the
delegate) are clients of the resource manager, the IPA's power work and the
delegate are the drivers it calls, and every callback runs under its lock.

## 2. How the modules fit together

Four of the models are of programs that survive power cuts (`BootControl`,
`CpuVoltage`, `KernelStep`, `SystemUpdate`); each stands alone. The data path is one system in four
modules:

```
SipaTx  --extends-->  SipaDriver  --extends-->  SipaRm
                          ^                        ^
                          | implements             | extends
                          +------- SipaDele -------+
```

`SipaRm` is the manager's code. `SipaDriver` adds what a driver promises it, as
abstract drivers, and the ways in which that promise may be broken; the
manager's properties are stated and proved there. `SipaTx` puts the real uplink on
top of the promise. `SipaDele` puts the real drivers under the manager, and its
property `KeepsPromise` says that they implement `SipaDriver`: so the theorems
about `SipaDriver` are about the code on both sides.

What would come next, most useful first: `SystemUpdate` composed with `KernelStep`
(at every cut there is one complete system with the modules of the kernel in the
slot); a `BootPromise` that `BootControl` implements; the boot chain sync; SMS forwarding; the AT channel and mobile data; theorems for the properties
section 10 lists as only model-checked.

## 3. BootControl

**State.** `misc` is the bootloader control block reduced to what LK and the
programs read: the active slot and the Linux slot's tries and success bit.
`conf`, `bootOs`, `bootLock`, `attempts`, `bootTries` are the files of the same
names. `proc` is one record per concurrent run of `mu300-next-boot`, with its
next step, `holder` the `flock`, `os` the run of `mu300-os`. `since` (boots LK
gave this block, boots promised), `androidChosen`, `lockHeld` and `torn` are
history: no action's guard reads them.

**Actions.** One per durable write or per decision: a run of `mu300-next-boot`
goes through `Start`, `TakeLock` (or `LockTimeout`), `Begin`, `Decide`, `Arm`,
`WriteMisc`, `SetConf`, with `PairMismatch` (`pair_ok`), `WriteFails` (the block
did not go in), `VerifyFails` (it went in and did not read back), `SetConfFails`,
`PutBack` and `PutBackFails` for the errors, and `Flash` for the image the updater
writes after `--trial`. The initramfs is `CountBoot`, `BackstopClear`,
`BackstopRestore`, `EnterLinux`, `NoRoot`, `RestoreFails`
("misc-restored-MISMATCH", after which it goes on), `RescueTimer`, `ToAndroid`. LK is not
in the repository: its four actions are modelled from how `boot/init`,
`mu300-next-boot` and `switch.sh` use and describe it, and marked external.
`PowerCut` ends every process at any step; `BreakDown` makes Linux unable to
reach `mu300-boot-ok`.

**Runs.**

| run | instance | states | shows |
|---|---|---|---|
| `boot_safety` | 1 system, 2 runs, all commands, N up to 2, misc and root found or not | 1,143,137 | `TypeOK`, `FailedBootsBounded`, `BackstopNotEarly`, `AndroidStays`, `LockHolds`, `DefaultAgrees` hold |
| `boot_live` | 2 systems, 1 run of `linux`, `android`, `lock`, `unlock`, `mu300-os`, fairness; `Rebuilds` has one of the systems, the other takes the degraded arm; misc is always found | 544,025 | `BrokenFallsBack`: a broken Linux ends in Android |
| `boot_new_image` | 1 system | violation | a slot can be locked again between the image write and the reboot |

*Bounds.* Two attempts are enough for every case of the counters: a first, a
middle and a last boot exist (`tries` 3, 2, 1), and the backstop's comparison is
reached on both sides. Counters saturate at `MaxBoots` = 3, one above the
largest promise, so no comparison changes its outcome. Two runs are enough for
any pair of commands around the lock; a third would only wait. The two systems
are needed for `mu300-os` only. `Rebuilds` is the set of systems on which
`make_bc_b` reproduces the initramfs' block byte for byte (the condition of
`arm_linux` is "on this system"). `boot_live` leaves `attempts` and `--trial` out
to stay small; with every command and one system the same property was checked
on its own (103,687 states). It has `MiscFound` = {TRUE}: where the initramfs never
finds `misc` it cannot give the slot back, and TLC shows the property false.

`DefaultAgrees` has one exception, the history `torn`: a command or the initramfs
said that `misc` did not read back, or could not be put back, and a Linux block is
in `misc` under a default boot that says Android. The code has nothing more to do
then; the exception ends with the next command that sets the default boot, and with
the reboot.

*Assumptions.* `take_lock` takes a lock: where `flock` or `/run/mu300` is missing the
code returns and serialises nothing. A write of the 32 bytes of the block is whole
or not there.

*Fairness.* A device that is off is started (weak fairness of LK). The steps of
the initramfs that count and restore are strongly fair: power may be cut at any
of them and a write of `misc` may fail, but not at the same one of every boot for
ever. A Linux that hangs is
reset (`panic=5`, `softlockup_panic`, the watchdog, or its user pulling the
plug). Nothing is assumed of commands, of `mu300-os` or of the repair of Linux.

**Finding.** The violation run, against a line of the repository; see `findings`
in `PROJECT.json`. Two more disagreements are visible in the model and have no
run: the default boot is kept per system, so `mu300-next-boot android` given after
`mu300-os NAME` leaves `linux` in the system that starts next, although `mu300-os`
calls it "a choice about the device"; and a boot armed from Android with
`mu300-linux` does not return to Android, as `switch.sh` says, when the system's
`default-boot` says `linux`.

**Theorems** (for any number of systems, runs, attempts and any outcome sets,
under the `ASSUME`s of the module).

* `BootTypeCorrect`. `TypeOK` is not inductive: that `SetConf` writes `linux` or
  `android` depends on which commands reach it, so `ProcInv` (what each step of
  a run knows of its command, and that the lock's holder is the one run inside
  the critical section) is proved along with it.
* `FailedBoots`: `FailedBootsBounded` always. The inductive invariant
  `CountInv` says that of every block - in `misc`, in the hands of a run, saved
  for putting back - the boots given and the tries left add up to the promise;
  it needs that a saved old block is still the one in `misc` until it is
  replaced, which is what the lock is for.
* `BackstopPatient`: `BackstopNotEarly` always. `BackInv` relates the
  initramfs' count to LK's: `boot-tries` never exceeds the boots LK has given
  the block in `misc`, or the block is one that no boot will count.
* `ChosenAndroidStays`, `LockedStays` and `MiscAndFileAgree`: `AndroidStays`,
  `LockHolds` and `DefaultAgrees` always, if `OsTargets = {}` (no `mu300-os`, as in
  `boot_safety`: it carries a default boot to another system without
  `mu300-next-boot`'s lock, and with it TLC finds all three violated). `WriterInv` says what a run inside the lock knows: a
  block marked successful is one that locked Linux writes on a system that can
  rebuild it, and after the write of `misc` the block there is this run's. On it
  rest three invariants, one for each theorem. `ChosenInv`: once Android was chosen,
  the file says so, a run in the critical section chooses nothing and has decided
  nothing yet, and the block in `misc` has at most the one boot `mu300-linux` gives.
  `LockInv`: after `lock`, what any run is about to write or to put back is locked as
  well, and a boot on its way to Android has no `misc`. `AgreeInv`: while the file
  says Android and nothing is `torn`, a run between its two writes has an old block
  that boots Android.

## 4. CpuVoltage

**State.** The five files of `.mu300/cpu-voltage-...` that decide anything
(`cpu-voltage-rejected` is for the panels and left out), the driver's
`voltage_state`, queued and applied values, the phase of the boot, the pending
half of `voltage set` (`cmd`) and of `mark-good` (`mark`). `Offsets` is any set
of valid offsets: the check of `A,B,C` is the difference between `Offsets` and
`Odd`. History: `bad` (values whose boot ended uncleanly since they were asked
for), `runs` (boots that handed over the request), `earned`, `late`,
`skipped` (a boot went on without the guard while a value was armed).

**Actions.** `cpu_voltage_boot` is `Look` to `StockCall`, one action per durable
write, so that `End` (a power cut, or the end of a shutdown) may come between
any two; `cpuv_reject` is three actions in the order of its writes. Writes are
taken to reach the disk in program order. The driver is `Probe` (which ends waiting,
or `disabled` by the command line's debug magic), `VoltageWritten`, `StartWork` (which may fail and may come after the guard's 5 s
wait) and `StartTimeout`. The firmware check may fail at any boot.
`DriverAt` says in which states the initramfs may find the driver.

**Runs.**

| run | instance | states | shows |
|---|---|---|---|
| `cpu_safety` | 2 offsets, the driver in any state at boot | 151,890 | `TypeOK`, `SeenCrashNotRunAgain`, `TrialOrEarned`, `CrashIsSeen` hold |
| `cpu_late_crash` | 1 offset, the driver in any state | violation | a boot that skips the guard hands the armed mark to its own clean shutdown |

*Bounds.* The only counter, `runs`, tells 0, 1 and more boots apart. Two offsets
are one that runs and one asked for meanwhile; values are only compared for
equality. Nothing else is bounded.

Visible in the model without a run of its own: `mark-good` may rename its armed
file into place after `voltage_shutdown` removed it, and without keep-good the next
boot then drops a good offset after a clean shutdown. It errs on the safe side.

**Theorems** (for every set of offsets). `IInv` is `TypeOK` with `DriverInv`
(what the driver holds in each phase), `ArmInv` (which marks the guard has
written by then), `RunInv` (what set, mark-good and the shutdown rely on) and
`SeenInv` (what a crash would find). From it:

* `VoltageTypeCorrect`: `TypeOK`.
* `CrashSeen`: `CrashIsSeen`, for any `DriverAt`.
* `OneTrial`: `TrialOrEarned`, for any `DriverAt`, with `EarnInv`: a good mark
  was earned by ten minutes, and a request that has had a boot has its trial mark
  or an earned value.
* `CrashDrops`: `SeenCrashNotRunAgain`, for any `DriverAt`: `CrashedNotRunAgain`
  as long as no boot has passed over an armed mark (`skipped`). Without that
  condition `cpu_late_crash` is the counterexample.
  `BadInv`: a crashed value is no longer asked for, or the boot has not got
  past the place where its armed mark takes it back.

## 5. KernelStep

**State.** A kernel build stands for its image, its banner and its modules;
`Release` says which builds share a `lib/modules/<release>` directory. `fs` is the
Linux partition as programs see it: the set of each release in each system,
`prev.body` (`kept`), `prev.modules` (`mods`), `prev.modules.new` (`newMods`),
`modules.pending`, the unpacked bundle (`stage`), and `installed` for
`written.sha256` and `installed.id`, which are only ever compared together.
`disk` is what a power cut leaves: `Journal` may bring it up to date at any time
and `sync` does, so a cut loses a tail of the changes in their order. Unpacked
files whose data was not synced (`solid`, `loose`) come back empty. The slot is
a build or half written (`Torn`).

**Actions.** One run at a time (the updater's lock) walks through
`boot_update_run` in the order of its writes; `proc.pc` names the next one.
Replacing the set of a system is `PutClear` and `PutLink`, one pair per system
(in any order), used by the install, the restore and the settling. `modules_settle` is
`SettleNothing` to `Settled`; the ramdisk's copy makes the same choice, since
the running kernel is the one in the slot, and so it runs the same actions between
`PowerOn` and `Handover`. A run ends by itself, by a signal (`Kill`, the EXIT
trap), by `KillHard`, or by `PowerCut`; a step may stop early, be short of room
(`KeptDropSet`, then `KeptDrop`, in the order of `rm`), fail to install, fail to
write, or fail to put a kept set back (`RestoreFails`). A half-written slot does not
start, so these runs do not check for deadlock; a kernel step on a slot that a
failed write left half written is not followed further (`rollback-boot` is).

**Runs.** `a` and `b` are builds of one release, `v` is the vendor kernel, whose
modules are the systems' own.

| run | instance | states | shows |
|---|---|---|---|
| `kernel_step` | 2 systems, `a b v`, kernel steps and rollback-boot, failing installs, writes and restores | 1,453,333 | `TypeOK`, `SetsMatch`, `Repairable`, `KeptMatch`, `TornIsKept` hold |
| `kernel_rollback_cut` | 1 system, `a b` | violation of `SetsMatch` | rollback-boot stopped between image and modules |

`SetsMatch` is the aim: what starts has its own modules. `Repairable` says why it
survives a stop: as long as `modules.pending` is there, so is the set that
settles it. `KeptMatch` is the same for the image that rollback-boot would put
back, and `TornIsKept` for a slot that is half written.

The first three have one exception, the history `lost`: a kept set did not go back
and no `modules.pending` says so. A failed install ignores the status of
`prev_modules_restore` and calls `modules_done` (3636), `rollback_boot` stops with a
message that the modules are not those of the image (3722), and the EXIT trap goes on;
only a failed write keeps the mark (the `&&` of 3652), and there the properties hold
without exception. `kernel_step` checks the state in which a set was lost and does not
follow it further (the constraint `NoneLost`); without the constraint TLC finds no
error in 31.5 million states, and the theorems need none.

**What `kernel_step` assumes.** `Whole` names windows that nothing interrupts and
`Faults` what may fail. `kernel_step` is not interrupted in three windows and
lets no settling fail, because with any of these TLC finds a violation:

- `"restore"` (mu300-update:3720-3726): `rollback_boot` writes the image and then
  the modules, with no `modules.pending` between. This is the finding of
  `kernel_rollback_cut`.
- `"keep"` (3641-3647): `prev_modules_commit` replaces `prev.modules` before
  `prev.body` is moved and both are synced. A stop in between keeps the older
  image with no set or with that of the image in the slot (`KeptMatch`). The same
  window is in `boot_kept_drop` (3395-3399), whose `rm` takes `prev.modules` before
  `prev.body`.
- `"abort"` (3501): a signal after `prev_modules_save` and before
  `modules.pending` makes the trap put the set in again without a mark; a cut in
  the middle of that leaves a part of it (`SetsMatch`).
- `"settle"` in `Faults` (3457-3465, 3490): a settling that fails leaves
  `modules.pending`, and the clean-up after it removes the sets that the next
  one would need (`Repairable`, `SetsMatch`). A slot that cannot be read ends the
  settling in the same way and has no action of its own.

Setting `Whole` or `Faults` in `KernelStep.cfg` accordingly shows each. (The window
`"restore"` is about an interruption of `rollback_boot`, the fault `"restore"`, which
the run has, about a set that fails to go back.) A window that is whole is also not
written to the disk in part: `Journal` waits for its end.

One premise more: an image that comes with modules has a banner that
`kernel_banner` can read. With an empty one nothing would be written to
`modules.pending` (3596, 3634), and the install would go on without the mark.

*Bounds.* None but the sets: every run may go on for ever. Two builds of a
release are the smallest case of a wrong set, the vendor kernel adds a release to
the removal of stale sets and a bundle without modules, two systems a set that
is half done. The systems are interchangeable (`SystemSymmetry`). A half-written
slot does not start, so deadlock is not checked.

**Theorems** (any systems, builds, releases, commands and faults):

* `KernelTypes`: `TypeOK`, however the runs are interrupted.
* `KernelTornIsKept`: `TornIsKept`, assuming `"keep" \in Whole`. Without it, a run
  killed before its sync leaves a kept image that is only in the page cache, and
  `rollback_boot`, which syncs after its write and not before, would write the slot
  from it.

The inductive invariant `IInv` adds to the types: where `modules_settle` and the
putting of a set return to, and that from its start to the write of the slot a
kernel step has a build and a whole slot (`Control`; without it nothing says that
what `WriteOk` leaves in the slot is an image); that a write has a kept image to put
back (`WriteInv`); and that the kept image a program sees is the one on the disk or
none, except in a step about to write (`TornInv`). `OffInv` says that a device that
is off runs nothing. Most steps change neither the slot nor the kept image: the
lemmas `Quiet*` deal with these once for each way a step goes on.

* `KernelSetsMatch`, `KernelRepairable`, `KernelKeptMatch`: `SetsMatch`, `Repairable`
  and `KeptMatch`, under the run's premises (`"keep"`, `"restore"`, `"abort"` in
  `Whole`, no `"settle"` in `Faults`), for any number of releases, where the run has
  two, and whatever fails in putting a set back (`~lost` is in the properties, and the
invariant below is kept by every step that does not lose a set).

None of the three says what an interrupted run leaves, so none is inductive. The
invariant is stated with two predicates on the files: `SlotFits` (the systems have the
set of the slot, or the mark is of its release and a settling gives them that set) and
`KeptFits` (the same for the kept image, from `prev.modules` or, until the commit,
from `prev.modules.new`). `FitInv` asks both of what programs see and of what is on
the disk, outside the windows in which the code itself breaks them; `CutInv` says that
a power cut keeps the mark and empties no set; `PutInv` says of a set half put in that
the rest of it ends in files that fit without a mark; `StepInv` what each step of an
install knows of the mark, of the unpacked set and of the saved ones; `RamInv` that
the ramdisk settles for the kernel that runs. TLC checked all of them on instances
with two releases, with the vendor kernel, and with two systems before they were
proved. `KernelSetSteps` has the settling, the putting in of a set and the step up to
the mark; `KernelSetProofs` the commit, the write, rollback-boot and the power.

## 6. SipaRm and SipaDriver: the resource manager

**State.** For every consumer and producer its `enum sipa_rm_res_state` and
`ref_count`; the dependency graph `dep` (the two peers lists, which are always
updated together); `fifo`, each resource's queue of events; `event` and `left`, the
place of the one loop that is not a single step.

**Actions.** `sipa_rm_lock` makes every entry point one step. `RequestResource`,
`ReleaseResource`, `AddDependency`, `DeleteDependency` and `NotifyCompletion` are
the exported functions, `HandleProducer` and `NotifyClients` the two commands of
`sipa_rm_wq_handler`. A producer's event is told to its consumers one by one
(`HandleConsumer`), with the lock held, because what the first one does changes what
the next one finds. The works of different resources may run in any order here;
the code has one queue, so the model has more behaviours than the code.

`SipaDriver` closes it. Clients request and release whenever they like, as the
network interfaces, the modem and the USB function do. A driver's promise is:
asked for its producer, it answers 0 with the power on, or `-EINPROGRESS` and
later GRANTED, once; told to release, it gives the producer up. It breaks the
promise with `Fail` (a failure, asked for or not) or `Lose` (it forgets what it was
asked); `Kept` says that this has not happened.

**Run.** `sipa_rm`: uplink and USB, IPA and CP, two changes of the graph, two
references, one fault; 263,327 states.

* `RefsMatch`: a producer's count is the number of consumers that hold it.
* `GrantedIsPowered`: a granted consumer has all its producers, powered.
* `NoPowerLeaked`: a released producer is off, and one that nobody holds is released
  or will be when its driver completes.
* `WaitsForSomeone`: a consumer in progress waits for a driver that is starting or
  an answer that is on its way.
* `ListenersKnow`: with the queue empty the listeners' last event is the state, after
  failures as well.
* `Settles` (liveness): every request and release ends, unless a promise is broken.

*Bounds.* Two consumers on two producers are the smallest graph in which one
consumer's release meets the other's request and a grant is complete for one
consumer only. `MaxRef` 2 tells the first and the last reference from the others.
`MaxQueued` bounds undelivered events and is far from the fifo's 16.
`AddWhile` leaves `RELEASE_IN_PROGRESS` out: a dependency added then takes no
reference (`sipa_rm_res.c` 706), nor does the request that follows, so `RefsMatch`
fails and the consumer waits for ever. The IPA's own dependencies are added before
anything is requested; only the start of the delegate is exposed to it (section 8).

*Fairness.* Work that is queued runs, and a driver that answered `-EINPROGRESS`
completes. Nothing is assumed of clients.

**Theorems** (`SipaDriverProofs`; for any finite set of consumers,
any producers, any graph, any bounds). `TypeCorrect` needs nothing else. `RefsMatchHolds`,
`GrantedIsPoweredHolds`, `NoPowerLeakedHolds` and `WaitsForSomeoneHolds` assume
`"RELEASE_IN_PROGRESS" \notin AddWhile`. None of the four is inductive: a count says
nothing of power, and power nothing of a queued answer. `DriverInv` joins them:

* `ProducerInv`: the count, what the driver is doing and what is in the queue agree
  with the producer's state (released: off, nothing queued, nobody holds it; granted:
  on, nothing queued, held; in progress: the driver is starting, or on with exactly
  its answer queued).
* `ConsumerInv`: a granted consumer's producers are granted.
* `WaitInv`: one in progress that was told all there is has a producer that is not
  granted.

The proof has one lemma per action (`RequestKeeps`, `ReleaseKeeps`, `AddKeeps`,
`DeleteKeeps`, `CompleteKeeps`, `WorkProducerKeeps`, `TellConsumerKeeps`,
`WorkConsumerKeeps`); `HoldersFinite`, `TakesAll` and `GivesAll` carry the counting:
a consumer that leaves or enters a state changes the number of holders of each of its
producers by one and of no other.

`ListenersKnowHolds` is `Spec /\ []NoneFull => []ListenersKnow` and needs no promise of
the drivers: `ToldInv` says at every moment that the last event queued, or the last one
heard, is the state. Its premise is that no consumer's `work_type_fifo` is full when an
event is to be queued: `sipa_rm_wq_send_cmd` drops what does not fit, and 16 requests and
releases of a client before the work runs are enough. In the run `MaxQueued` keeps the
queue short.

## 7. SipaTx: the uplink

**State.** `nic` is, per interface, `struct sipa_nic_cons_res`, its flow-control
flag, whether its queue is stopped and whether the qdisc holds a packet that came
back. `pc` and `ret` say where a transmit, an open or a close is; `letting`, `calling`, `leaving` are the
alarm handler and the manager's callbacks between two critical sections; `sending`
and `sent` are the ring's descriptors before and after the IPA took them.

**Actions.** One per critical section or unlocked store: `Xmit` to `XmitTrigger` are
`sipa_eth_start_xmit` and `sipa_nic_tx`; `Alarm` and `AlarmRelease` the inactivity
alarm; `Notify`, `Callback`, `Leave` the manager's event on its way to
`netif_wake_queue`; `FreeSent` and `Inform` the free thread; `Close`, `Deregister`,
`Closed` and `Open`, `Opened`, between which an event may find the interface
registered and not open. A send may find the ring full, or fail to map its skb
(`MapFails`). The IPA takes descriptors only while it is on. The manager is
`SipaDriver` with drivers that keep their promise.

**Runs.**

| run | instance | states | shows |
|---|---|---|---|
| `sipa_tx` | 1 interface, ring of 2, closed and opened once, up to 3 events untold | 354,305 | `OneReference` (no interleaving of transmit, alarm, close and reopen loses or doubles a reference), `SendsPowered`, `RingDrained`, `QueueWakes` hold |
| `sipa_tx_shared` | 2 interfaces | violation of `QueueWakes` | a lost wake-up that the other interface's traffic keeps from being repaired |

*A grant told late.* The manager's event carries no sign of the request that it
answers. If the alarm gives the consumer up and a transmit requests it again before
the GRANTED of the earlier request was told, the callback takes that event for the
answer, clears `request_in_progress` (`sipa_nic.c:163`), and the next packet is
written into the ring of an IPA that is still resuming. It needs the notify work to
be about as late as the alarm's three seconds. The history `stale` is set by such a
request until a grant settles it. `SendsPowered` and `RingDrained` are stated without
it, and without that condition TLC finds both the case and the packet; `OneReference`
and `QueueWakes` hold in it as well.

*Bounds.* `MaxQueued` = 3 leaves room for a grant, a release and a further event that
nobody was told yet; with 4 the run passes too (621,708 states). `sipa_tx_shared` has
`MapFails` = FALSE, so that its trace is the one described next and not a failed
mapping.

The finding: `sipa_eth_flowctrl_handler` reads whether the queue is stopped without
`queue_lock`. If that falls between the transmit's check of flow control and its
`netif_stop_queue`, nothing is woken. With one interface the alarm's release is told
three seconds later and wakes it, which is why `sipa_tx` passes. With a second one
that keeps the shared consumer granted, nothing more is told.

*Timing.* `Expires` is the one place where time matters: the three seconds of
`SIPA_NIC_RM_INACTIVE_TIMER` are longer than the rest of a transmit after it
set the alarm, and than the qdisc's retry of a packet while the queue runs.

*Fairness.* A transmit that began ends, the qdisc retries a packet it holds while
its queue runs, alarms expire, works, the IPA and the free thread run. New packets are
not assumed.

## 8. SipaDele: the drivers and the modem

**State.** `power_flag`, the queued `power_work`, what the running one is `doing`,
whether the IPA is `asleep` (the suspend stages that matter) and the device's
runtime PM state, `enable_cnt`; the delegate's fields; `smsg_wq`, its queued works;
`to_cp` and `from_cp`, the channel; what the modem believes it has.

**Actions.** `IpaTold`, `DeleRequested` and `DeleReleased` are the callbacks, part
of the manager's step that makes them. `PowerWork` to `Sleep` are the power work, cut
where `power_flag` is read again. `OnOpen` to `Cleared` are `conn_thread`'s messages:
one step each, but for those somebody can come between. `OnOpen` and `Flush`, `OnClose`
and `Forget` are the two writes of OPEN and CLOSE; ENABLE is `OnEnable`, `PowerGet`,
`Enabled`, DISABLE `OnDisable`, `PowerOff`, `Cleared`, RELEASE `OnRelease`, `Drop`,
`Released`. `Send` and `SendFails` are its work queue. `Report` to `ReportRelease` are
the steps of `cp_dele_restart_handler`, which runs when user space reports a restart,
with no lock against the thread, and may run again for the same restart.
`cons_ref_cnt` is a `u32`, which a decrement at 0 takes to `UintMax`; `enable_cnt` stops
at 0, where `sipa_set_enabled` warns and refuses.

The modem is external: it answers a REQUEST with DONE or a failure, asks for one
thing at a time and waits for the answer, gives back what it has, and may restart,
with or without closing its channel; it asks again once the restart was reported.
A receive that fails with `-EIO` is left out: the channel becomes free only when this
side closes it.

What may go wrong is a `Mishap`: a send fails, the modem answers with a failure,
runtime PM refuses, a request overtakes an OPEN (between `connected = true` and
`on_open`), the delegate starts while the uplink is releasing, the modem restarts. A
`setting` says which of them a behaviour may have, what the modem asks for and
whether there is uplink traffic.

**Run.** `sipa_dele`: four settings with one mishap each; 225,681 states. It does not
follow a behaviour in which a report and the thread were at it together
(`NotRaced`, below); followed to the end, these make 450,259 states without an error,
too long for a run.

* `GrantedIsAwake`: a granted consumer finds the IPA awake, whatever the power
  work was doing; the modem holds PROD_CP for a granted uplink.
* `EnableBalanced`: what the modem holds is counted once. The enable count is one for
  the manager and one for the modem (the comment of `sipa_set_enabled`: true and
  false "must be matched"), and the manager's count of CONS_WWAN_DL is the delegate's,
  at every step, after any mishap and any number of reports, as long as no report
  overlaps the thread's ENABLE, DISABLE, REQUEST or RELEASE (`raced`).
* `DoneIsGranted`: the modem is told it may send only while the downlink is granted
  and the IPA awake.
* `ModemAgrees`: with no message under way the two sides agree on PROD_CP.
* `NoLockCycle`: when `sipa_dele_on_done` takes the manager's lock with its own held,
  the manager has no call of the delegate to make.
* `WorksOnce`: no work is initialised while it is queued.
* `KeepsPromise`: **the refinement.** With `drv` mapped to what the power work and the
  delegate are doing, every step is a step of `SipaDriver` or leaves it unchanged. A
  failed send is its `Fail`, a closed channel its `Lose`; nothing else breaks the
  promise, and a late, doubled or unwanted DONE does not.
* `Answered` (liveness): the uplink's request and the modem's are answered.

*A report beside the thread.* The handler looks at `pd_get_flag` and at `cons_ref_cnt`
and acts on what it saw (`sipa_dele_cp_in_ap.c` 97-109), and so does the thread (42-75,
`sipa_dele_cmn.c` 246-250), with nothing between them. An ENABLE of the old modem that
has set `pd_get_flag` and not yet counted has its count taken back too early: it
takes the manager's, or is refused at 0, and the count that follows stays; two that see the same `cons_ref_cnt` both release. Without
`~raced` TLC finds `EnableBalanced` violated in 11 states. Whether it happens depends on
when user space reports the restart, which is not in the repository; the overlap is
therefore an exception of the property and not a finding.

All but `GrantedIsAwake`, `EnableBalanced` and `KeepsPromise` are stated for
behaviours without a mishap, because after one the code does not promise them:

- after a FAIL the manager makes every dependent consumer release its producers,
  those it does not hold included, so that another consumer's reference is taken;
- a CLOSE while the manager waits makes the delegate forget the request, and OPEN
  sends nothing; the comment of `sipa_delegator_start` ("`on_open()` will flush any
  pending request") is true before the first OPEN only;
- a failed send of a DONE is reported as a failure of PROD_CP, since its flag is
  DELE_REQUEST as well, and a failed REQUEST leaves the delegate in REQUESTING;
- a request between `connected = true` and `on_open` is sent twice;
- the delegate started while the uplink is releasing takes no reference of PROD_CP,
  and the uplink, requested again, waits for it for ever;
- after a FAIL a DONE may arrive while the manager calls the delegate: the two locks
  are then taken in opposite orders.

*Assumptions.* The modem's next request does not overtake the undelivered events of
its last one (`MaxQueued`): a stale GRANTED would otherwise answer it early. The
restart is reported, for the last time, before the new modem asks, and by one
program: two reports do not overlap each other.

*Fairness.* It is assumed until the first mishap only; `Answered` asks nothing after
it. Queued work and the thread run, runtime PM suspends an idle device
(without it `pm_runtime_get_sync` answers 1 for ever and the resume is retried for
ever), the modem answers. The manager's works are strongly fair: the lock is free
again and again, and the queue is served in turn.

## 9. SystemUpdate

**State.** For every installed system the directories `<os>`, `<os>.new`, `<os>.old`
and `<os>.broken`, each with a tree or none; the directory that is `/`, which keeps
its identity when it is renamed; the one run of `mu300-update` that holds the lock.
Of a tree the model keeps whether it is complete and on the disk, which of its files
its successor has by second names (`shares`: the programs that did not change, in every
mode; the user's files, with `--no-rollback`), and whether another system was moved
into it (`in`). Its release only decides which systems an `apply` replaces and
is left to choice.

**Actions.** `Apply` is the checks of `apply` with `clean_broken` and `delta_clean`;
`Diff` to `ApplyOne` the downloads and diffs; `Unpacked` to `Placed` is `apply_one`,
one action per rename, removal and `sync`, each failing step with its restore;
`Rollback` to `RbEnd` and `Clean`, `CleanEnd` are the two commands. `Remove` is
`rm -rf`, which leaves parts before it leaves nothing. `Kill` is a signal with its
EXIT trap (`unpack_abort`). `PowerCut` makes parts of what was only in the page
cache; a cut that also loses the last renames leaves what an earlier cut leaves,
so the disk needs no variable of its own. `Boot` is `pick_root` with any choice.

**Run.** `system_update`: 2 systems, all commands and faults; 986,097 states.
`SystemStays`, `RunningStays` and `KeptIsCopy` hold. Nothing is bounded but the
number of systems; two are one that is changed and one that runs or is changed
later in the same run. The systems are interchangeable.

**What it assumes.** `Whole` names two windows that nothing interrupts, because with
either open TLC finds a violation (setting `Both` in `MCSystemUpdate.tla` shows it):

- `"switch"` (mu300-update:2226-2227, 4034-4035): between the two renames there is
  no `<os>`. After a signal the trap has removed `<os>.new` as well; `pick_root` starts
  another system or none, `apply` takes it for not installed, `rollback` cannot move `<os>`
  aside and stops, and `clean` removes the copy that is left (`SystemStays`).
- `"remove"` (2225, 4050): `rm -rf <os>.old` leaves parts of it when it is stopped,
  and `rollback` offers them, although `wiki/Updating.md:181` calls the kept system
  "whole", "exactly as it was when you updated" (`KeptIsCopy`).

`KeptIsCopy` says that a kept system is whole and shares no file of the user's with the
system in its place, so that what that one writes does not change the copy. Shared
programs are replaced and never written into (`wiki/Updating.md:183, 197`), which the
model takes from there. It relates `<os>.old` to its successor only: after
`--no-rollback` and a second `apply` without a reboot, `<os>.old` is a system that never
ran, and has its user's files by second names from the `<os>.broken` that still runs.

Visible in the model without a property: after a rollback and an `apply` without a
reboot between, `<os>.broken` runs, and a second rollback moves the current system
into it. If its second rename fails, what goes back is `<os>.broken`, not, as the
message says, the current system. A third such rollback stops at the rename.

**Theorems** (any number of systems, any failing steps): `Running_Stays` and
`Kept_Is_Copy` assume `"remove" \in Whole`, `System_Stays` also `"switch" \in Whole`.
The inductive invariant `IInv` has, besides the types, `RmInv` (what is being removed
has one of the names the code removes there, exists, and does not run), `ApplyInv` and
`RollbackInv` (what stands under each of the four names at each step of a replacement:
`<os>.new` on the disk before `<os>` is moved, what is aside complete until its
successor is in place, no system to be replaced running as its `<os>.old`), and
`DirInv` (a kept copy is on the disk or being removed, and shares no file of the user's
with a system in its place). `System_Stays` adds `InPlace`: only between its two renames does a run
have a system out of its place.

## 10. What is only model-checked, and what is not modelled

Only model-checked: liveness (`BrokenFallsBack`, `Settles`, `QueueWakes`,
`Answered`), which TLAPS cannot prove under fairness; the refinement
`KeepsPromise`; and the properties of `SipaTx` and `SipaDele`, which have no proofs
yet. Of the safety properties that are proved, those
with premises on `Whole`, `Faults`, `OsTargets` or `AddWhile` are proved under the
premises of their runs: without them they are false, as the sections say.
Every property of a passing run is
broken by a mutant of a mapped definition (`mutants` in `PROJECT.json`), so none
holds by the shape of the model.

Not modelled, of the modelled parts: deletion of resources, the synchronous
`add_dependency_sync` (its check is inverted, so it never waits), bandwidth fields,
the receive path, headers and checksums, the backup of the IPA's registers and FIFOs,
the handshake of smsg channels; of the updater, its lock without `flock`, the
downloads and their checks, the extras, and how the user's files are carried over.

Not modelled at all: the parts that section 2 lists as next; and the parts whose state lives
in external daemons or that only format and copy (panel API, toolkit, backup,
LEDs, GUI, web pages). Most of the repository's lines are vendored drivers (Wi-Fi,
audio, the kernel port) and user interfaces; the models cover the small part of them
that decides, and a large share of the lines is out of reach of any model that
stays faithful. `PROJECT.json` gives the reason for each part. Torn single sectors
and writes that the file system reorders are outside the models.
