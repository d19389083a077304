------------------------------ MODULE BootControl ------------------------------
(***************************************************************************)
(* Which slot the MU300 boots, and who may change that: the LK bootloader  *)
(* (external), the initramfs (boot/init), mu300-next-boot with its         *)
(* callers (mu300-boot-ok, mu300-update, the user), mu300-os, and Android's *)
(* mu300-linux.  Everything durable survives a power cut between any two   *)
(* steps; a process does not.                                              *)
(***************************************************************************)
EXTENDS Integers

CONSTANTS
    Systems,          \* the systems on the Linux disk (ubuntu, openwrt, ...)
    Procs,            \* concurrent runs of mu300-next-boot
    Commands,         \* the subcommands users give (a subset of UserCommands)
    OsTargets,        \* the systems users name to mu300-os
    MaxAttempts,      \* 6 in the code: the 3-bit tries field has room for 7
    DefaultAttempts,  \* 5 in the code: no .mu300/boot-attempts
    MaxBoots,         \* counters of boots saturate here
    Rebuilds,         \* the systems on which make_bc_b reproduces the initramfs' block
    MiscFound,        \* possible outcomes of find_partitions for misc
    RootFound,        \* possible outcomes of root selection
    NoProc            \* nobody holds the flock

UserCommands == {"linux", "android", "attempts", "lock", "unlock", "trial"}

ASSUME SystemsAssumption == Systems # {} /\ OsTargets \subseteq Systems
ASSUME ProcsAssumption == NoProc \notin Procs
ASSUME CommandsAssumption == Commands \subseteq UserCommands
ASSUME AttemptsAssumption ==
    /\ MaxAttempts \in Nat /\ DefaultAttempts \in 1..MaxAttempts
    /\ MaxBoots \in Nat /\ MaxBoots > MaxAttempts
ASSUME OutcomesAssumption ==
    /\ Rebuilds \subseteq Systems
    /\ MiscFound \subseteq BOOLEAN /\ MiscFound # {}
    /\ RootFound \subseteq BOOLEAN /\ RootFound # {}

VARIABLES
    misc,        \* the bootloader_control block: active slot, Linux slot's byte
    since,       \* history: boots LK gave the block in misc, and the promise
    conf,        \* /etc/mu300/default-boot of each system
    bootOs,      \* .mu300/boot-os
    bootLock,    \* .mu300/boot-lock exists
    attempts,    \* .mu300/boot-attempts; 0: no file
    bootTries,   \* .mu300/boot-tries
    image,       \* the boot image in the Linux slot: has it reached boot-ok?
    phase,       \* where the device is
    system,      \* the system the initramfs picked for this boot
    miscDev,     \* the initramfs of this boot found misc
    ran,         \* the image this boot runs
    bootOk,      \* mu300-boot-ok has started its --rearm in this boot
    healthy,     \* Linux can still get to mu300-boot-ok
    proc,        \* the runs of mu300-next-boot
    holder,      \* who holds /run/mu300/next-boot.lock
    os,          \* the run of mu300-os
    androidChosen, lockHeld,  \* history: what the user's last command holds
    torn         \* history: this boot left an unverified block in misc

durable == <<misc, since, conf, bootOs, bootLock, attempts, bootTries, image>>
boot == <<phase, system, miscDev, ran, bootOk, healthy>>
history == <<androidChosen, lockHeld, torn>>
vars == <<durable, boot, proc, holder, os, history>>

-----------------------------------------------------------------------------
(* Blocks.  tries and succ are the Linux slot's; Android's slot is always   *)
(* bootable and marked successful.                                          *)
Word == {"linux", "android"}
Block == [slot : Word, tries : 0..MaxAttempts + 1, succ : BOOLEAN]
Since == [boots : 0..MaxBoots, promise : 0..MaxAttempts]
AndroidBlock == [slot |-> "android", tries |-> 1, succ |-> FALSE]
OneShot == [slot |-> "linux", tries |-> 2, succ |-> FALSE]
MutLinuxBlock(n, succ) == [slot |-> "linux", tries |-> n + 2, succ |-> succ]
LinuxBlock(n, succ) == [slot |-> "linux", tries |-> n + 1, succ |-> succ]
\* A block just written that promises n boots, none of them given yet.
Promised(n) == [boots |-> 0, promise |-> n]

Attempts == IF attempts \in 1..MaxAttempts THEN attempts ELSE DefaultAttempts
Inc(n) == IF n < MaxBoots THEN n + 1 ELSE n

Idle == [pc |-> "idle", cmd |-> "linux", arg |-> 1, blk |-> AndroidBlock,
         old |-> AndroidBlock, oldSince |-> Promised(0)]
OsIdle(s) == [pc |-> "idle", to |-> s, want |-> "android"]

LinuxPhases == {"root", "exceeded", "giveup", "handover", "linux", "rescue", "stay"}

-----------------------------------------------------------------------------
(* A device just installed: Android runs, the installer wrote the wanted    *)
(* default boot into every system.                                          *)
Init ==
    /\ misc = AndroidBlock /\ since = Promised(0)
    /\ \E w \in Word : conf = [s \in Systems |-> w]
    /\ bootOs \in Systems
    /\ bootLock = FALSE
    /\ attempts \in 0..MaxAttempts
    /\ bootTries = 0
    /\ image = "proven" /\ ran = "proven"
    /\ phase = "android"
    /\ system = bootOs
    /\ miscDev \in MiscFound
    /\ bootOk = FALSE /\ healthy = TRUE
    /\ proc = [p \in Procs |-> Idle] /\ holder = NoProc
    /\ os = OsIdle(bootOs)
    /\ androidChosen = FALSE /\ lockHeld = FALSE /\ torn = FALSE

-----------------------------------------------------------------------------
(* LK.  It never counts a successful slot down; tries = 1 without success   *)
(* is a boot that failed, and Android's slot is started instead.            *)
LKAndroid ==
    /\ phase = "off" /\ misc.slot = "android"
    /\ phase' = "android"
    /\ UNCHANGED <<durable, system, miscDev, ran, bootOk, healthy, proc, holder, os, history>>

LKRollback ==
    /\ phase = "off" /\ misc.slot = "linux" /\ ~misc.succ /\ misc.tries <= 1
    /\ misc' = AndroidBlock /\ since' = Promised(0)
    /\ phase' = "android"
    /\ UNCHANGED <<conf, bootOs, bootLock, attempts, bootTries, image, system,
                   miscDev, ran, bootOk, healthy, proc, holder, os, history>>

LKCountDown ==
    /\ phase = "off" /\ misc.slot = "linux"
    /\ misc.succ \/ misc.tries > 1
    /\ misc' = IF misc.succ THEN misc ELSE [misc EXCEPT !.tries = @ - 1]
    /\ since' = [since EXCEPT !.boots = Inc(@)]

LKLinux ==
    /\ LKCountDown
    /\ phase' = "root" /\ ran' = image
    /\ miscDev' \in MiscFound
    /\ UNCHANGED <<conf, bootOs, bootLock, attempts, bootTries, image, system,
                   bootOk, healthy, proc, holder, os, history>>

\* LK is reset (a watchdog dump, a power cut) after it took a try and before
\* it started the kernel.
LKAborted ==
    /\ LKCountDown /\ ~misc.succ
    /\ UNCHANGED <<conf, bootOs, bootLock, attempts, bootTries, image, boot,
                   proc, holder, os, history>>

-----------------------------------------------------------------------------
(* The initramfs, boot/init.                                                *)
RestoreAndroid ==
    IF miscDev
    THEN misc' = AndroidBlock /\ since' = Promised(0)
    ELSE UNCHANGED <<misc, since>>

lk_locked == miscDev /\ misc.slot = "linux" /\ misc.succ
\* LK left the Linux slot one try (unknown for a successful slot).
lk_tries_1 == miscDev /\ ~misc.succ /\ misc.tries = 1

\* boot_tries_exceeded: this boot's number as the initramfs counts it.
MutCountedTries == Inc(bootTries)
CountedTries ==
    LET t == Inc(bootTries)
    IN  IF t > Attempts /\ lk_tries_1 THEN 1 ELSE t

MutCounts == conf[bootOs] = "linux"
MutCountsBit == conf[bootOs] = "linux" /\ ~lk_locked
Counts == conf[bootOs] = "linux" /\ ~(lk_locked /\ bootLock)

CountBoot ==
    /\ phase = "root" /\ TRUE \in RootFound
    /\ system' = bootOs
    /\ bootTries' = IF Counts THEN CountedTries ELSE bootTries
    /\ phase' = IF Counts /\ CountedTries > Attempts THEN "exceeded" ELSE "handover"
    /\ UNCHANGED <<misc, since, conf, bootOs, bootLock, attempts, image, miscDev,
                   ran, bootOk, healthy, proc, holder, os, history>>

BackstopClear ==
    /\ phase = "exceeded"
    /\ bootTries' = 0 /\ phase' = "giveup"
    /\ UNCHANGED <<misc, since, conf, bootOs, bootLock, attempts, image, system,
                   miscDev, ran, bootOk, healthy, proc, holder, os, history>>

BackstopRestore ==
    /\ phase = "giveup"
    /\ RestoreAndroid /\ phase' = "off"
    /\ UNCHANGED <<conf, bootOs, bootLock, attempts, bootTries, image, system,
                   miscDev, ran, bootOk, healthy, proc, holder, os, history>>

\* The restore is skipped in default-Linux mode; then switch_root.
EnterLinux ==
    /\ phase = "handover"
    /\ IF conf[system] = "linux" THEN UNCHANGED <<misc, since>> ELSE RestoreAndroid
    /\ phase' = "linux" /\ bootOk' = FALSE
    /\ UNCHANGED <<conf, bootOs, bootLock, attempts, bootTries, image, system,
                   miscDev, ran, healthy, proc, holder, os, history>>

\* No root file system: a locked slot stays in the rescue shell for good,
\* any other goes back to Android with the 300 s timer.
NoRoot ==
    /\ phase = "root" /\ FALSE \in RootFound
    /\ IF lk_locked
       THEN phase' = "stay" /\ UNCHANGED <<misc, since>>
       ELSE phase' = "rescue" /\ RestoreAndroid
    /\ UNCHANGED <<conf, bootOs, bootLock, attempts, bootTries, image, system,
                   miscDev, ran, bootOk, healthy, proc, holder, os, history>>

\* "misc-restored-MISMATCH": the three places that restore Android's slot log a
\* block that does not read back and go on.
RestoreFails ==
    /\ miscDev
    /\ \/ /\ phase = "giveup" /\ phase' = "off"
          /\ UNCHANGED <<bootOk, torn>>
       \/ /\ phase = "handover" /\ conf[system] # "linux" /\ phase' = "linux"
          /\ bootOk' = FALSE /\ torn' = TRUE
       \/ /\ phase = "root" /\ FALSE \in RootFound /\ ~lk_locked /\ phase' = "rescue"
          /\ UNCHANGED <<bootOk, torn>>
    /\ UNCHANGED <<durable, system, miscDev, ran, healthy, proc, holder, os,
                   androidChosen, lockHeld>>

RescueTimer ==
    /\ phase = "rescue"
    /\ phase' = "off"
    /\ UNCHANGED <<durable, system, miscDev, ran, bootOk, healthy, proc, holder, os, history>>

\* sh /run/to-android, by hand over telnet.
ToAndroid ==
    /\ phase = "stay"
    /\ misc' = AndroidBlock /\ since' = Promised(0)
    /\ phase' = "off" /\ lockHeld' = FALSE
    /\ UNCHANGED <<conf, bootOs, bootLock, attempts, bootTries, image, system,
                   miscDev, ran, bootOk, healthy, proc, holder, os, androidChosen, torn>>

-----------------------------------------------------------------------------
(* Android's mu300-linux: the one-shot block, read back, then the reboot    *)
(* (or none, --no-reboot).                                                  *)
ArmFromAndroid ==
    /\ phase = "android" /\ healthy
    /\ misc' = OneShot /\ since' = Promised(1)
    /\ phase' \in {"off", "android"}
    /\ UNCHANGED <<conf, bootOs, bootLock, attempts, bootTries, image, system,
                   miscDev, ran, bootOk, healthy, proc, holder, os, history>>

\* Power cut, crash, watchdog or reboot: every process is gone.
PowerCut ==
    /\ phase # "off"
    /\ phase' = "off"
    /\ proc' = [p \in Procs |-> Idle] /\ holder' = NoProc
    /\ os' = OsIdle(os.to)
    /\ torn' = FALSE
    /\ UNCHANGED <<durable, system, miscDev, ran, bootOk, healthy, androidChosen, lockHeld>>

\* From here on no Linux boot gets to mu300-boot-ok (a broken system or disk).
BreakDown ==
    /\ phase = "off" /\ healthy
    /\ healthy' = FALSE
    /\ UNCHANGED <<durable, phase, system, miscDev, ran, bootOk, proc, holder, os, history>>

-----------------------------------------------------------------------------
(* mu300-next-boot.                                                         *)
Step(p, r) == proc' = [proc EXCEPT ![p] = r]
\* The command is over.  mu300-update goes on to write the boot image also
\* when --trial could not arm the slot ("flashAnyway").
EndAs(p, flash) ==
    /\ Step(p, IF proc[p].cmd = "trial" THEN [Idle EXCEPT !.pc = flash, !.cmd = "trial"]
                                        ELSE Idle)
    /\ holder' = IF holder = p THEN NoProc ELSE holder
CanRebuild == system \in Rebuilds

\* The degraded arm (CanRebuild false) has written its block and exits 1.
Done(p) == EndAs(p, IF CanRebuild THEN "flash" ELSE "flashAnyway")
Exit(p) == EndAs(p, "flashAnyway")
GoOn(p, pc) == Step(p, [proc[p] EXCEPT !.pc = pc]) /\ UNCHANGED holder

\* The default boot the command is about to write (PENDING_CONF).
Pending(p) ==
    CASE proc[p].cmd \in {"linux", "lock"} -> "linux"
      [] proc[p].cmd = "android" -> "android"
      [] OTHER -> "none"

MutStart(p) ==
    /\ phase = "linux" /\ healthy /\ proc[p].pc = "idle"
    /\ \E c \in Commands, n \in 1..MaxAttempts + 1 :
         Step(p, [Idle EXCEPT !.pc = "wait", !.cmd = c, !.arg = n])
    /\ UNCHANGED <<durable, boot, holder, os, history>>
Start(p) ==
    /\ phase = "linux" /\ healthy /\ proc[p].pc = "idle"
    /\ \E c \in Commands, n \in 1..MaxAttempts :
         /\ c # "attempts" => n = 1
         \* one mu300-update at a time (lock_take)
         /\ c = "trial" => \A q \in Procs : proc[q].pc = "idle" \/ proc[q].cmd # "trial"
         /\ Step(p, [Idle EXCEPT !.pc = "wait", !.cmd = c, !.arg = n])
    /\ UNCHANGED <<durable, boot, holder, os, history>>

\* mu300-boot-ok, once per boot: this boot's image has proven itself.
BootOk(p) ==
    /\ phase = "linux" /\ healthy /\ ~bootOk /\ proc[p].pc = "idle"
    /\ bootOk' = TRUE
    /\ image' = IF ran = "replaced" THEN image ELSE "proven"
    /\ Step(p, [Idle EXCEPT !.pc = "wait", !.cmd = "rearm"])
    /\ UNCHANGED <<misc, since, conf, bootOs, bootLock, attempts, bootTries,
                   phase, system, miscDev, ran, healthy, holder, os, history>>

\* take_lock, where flock(1) and /run/mu300 are there (as on both systems the
\* project ships; without them take_lock returns and nothing is serialised).
MutTakeLock(p) ==
    /\ proc[p].pc = "wait"
    /\ holder' = p
    /\ Step(p, [proc[p] EXCEPT !.pc = "begin"])
    /\ androidChosen' = (androidChosen /\ Pending(p) = "none")
    /\ lockHeld' = (lockHeld /\ proc[p].cmd \notin {"android", "unlock", "trial"})
    /\ UNCHANGED <<durable, boot, os, torn>>
TakeLock(p) ==
    /\ proc[p].pc = "wait" /\ holder = NoProc
    /\ holder' = p
    /\ Step(p, [proc[p] EXCEPT !.pc = "begin"])
    /\ androidChosen' = (androidChosen /\ Pending(p) = "none")
    /\ lockHeld' = (lockHeld /\ proc[p].cmd \notin {"android", "unlock", "trial"})
    /\ UNCHANGED <<durable, boot, os, torn>>

\* "another mu300-next-boot is still running" after 60 seconds.
LockTimeout(p) ==
    /\ proc[p].pc = "wait" /\ holder # NoProc
    /\ Exit(p)
    /\ UNCHANGED <<durable, boot, os, history>>

\* The lock is taken, but the blocks are not this slot's pair (pair_ok): the
\* command says so and exits.
PairMismatch(p) ==
    /\ proc[p].pc = "wait" /\ holder = NoProc
    /\ Exit(p)
    /\ UNCHANGED <<durable, boot, os, history>>

\* The first step of the command, up to its read of the default boot.
Begin(p) ==
    /\ proc[p].pc = "begin"
    /\ LET c == proc[p].cmd IN
       /\ attempts' = IF c = "attempts" THEN proc[p].arg ELSE attempts
       /\ bootLock' = IF c = "lock" THEN TRUE ELSE IF c = "unlock" THEN FALSE ELSE bootLock
       /\ bootTries' = IF c = "rearm" THEN 0 ELSE bootTries
       /\ Step(p, [proc[p] EXCEPT
                     !.pc = IF c = "android" THEN "write"
                            ELSE IF c \in {"linux", "lock"} THEN "arm" ELSE "decide",
                     !.blk = AndroidBlock])
    /\ UNCHANGED <<misc, since, conf, bootOs, image, boot, holder, os, history>>

\* attempts, unlock, --trial and --rearm arm only when Linux is the default.
Decide(p) ==
    /\ proc[p].pc = "decide"
    /\ IF conf[system] = "linux" THEN GoOn(p, "arm") ELSE Exit(p)
    /\ UNCHANGED <<durable, boot, os, history>>

\* arm_linux: the count starts over before the new block goes in.
Arm(p) ==
    /\ proc[p].pc = "arm"
    /\ bootTries' = 0
    /\ Step(p, [proc[p] EXCEPT !.pc = "write", !.arg = IF CanRebuild THEN Attempts ELSE 1,
                  !.blk = IF CanRebuild
                          THEN LinuxBlock(Attempts, bootLock /\ proc[p].cmd # "trial")
                          ELSE OneShot])
    /\ UNCHANGED <<misc, since, conf, bootOs, bootLock, attempts, image, boot,
                   holder, os, history>>

\* The dd of write_bc: the block of this command is in misc.
PutBlock(p) ==
    /\ misc' = proc[p].blk
    /\ since' = Promised(IF proc[p].cmd = "android" THEN 0 ELSE proc[p].arg)

\* write_bc: the block, read back; then the default boot that goes with it.
WriteMisc(p) ==
    /\ proc[p].pc = "write" /\ miscDev
    /\ PutBlock(p)
    /\ IF Pending(p) = "none" THEN Done(p)
       ELSE /\ Step(p, [proc[p] EXCEPT !.pc = "conf", !.old = misc, !.oldSince = since])
            /\ UNCHANGED holder
    /\ UNCHANGED <<conf, bootOs, bootLock, attempts, bootTries, image, boot, os, history>>

\* "writing misc failed", or "misc verify failed" for a block that is not there:
\* nothing changed.
WriteFails(p) ==
    /\ proc[p].pc = "write"
    /\ Exit(p)
    /\ UNCHANGED <<durable, boot, os, history>>

\* "misc verify failed" for a block that went in: nothing is put back and the
\* default boot stays.
VerifyFails(p) ==
    /\ proc[p].pc = "write" /\ miscDev
    /\ PutBlock(p)
    /\ Exit(p)
    /\ torn' = (torn \/ Pending(p) = "linux")
    /\ UNCHANGED <<conf, bootOs, bootLock, attempts, bootTries, image, boot, os,
                   androidChosen, lockHeld>>

SetConf(p) ==
    /\ proc[p].pc = "conf"
    /\ conf' = [conf EXCEPT ![system] = Pending(p)]
    /\ Done(p)
    /\ androidChosen' = (androidChosen \/ proc[p].cmd = "android")
    /\ lockHeld' = (lockHeld \/ (proc[p].cmd = "lock" /\ proc[p].blk.succ))
    /\ torn' = FALSE
    /\ UNCHANGED <<misc, since, bootOs, bootLock, attempts, bootTries, image, boot, os>>

SetConfFails(p) ==
    /\ proc[p].pc = "conf"
    /\ GoOn(p, "undo")
    /\ UNCHANGED <<durable, boot, os, history>>

\* The previous block goes back, so that misc and the file agree.
MutPutBack(p) ==
    /\ proc[p].pc = "undo"
    /\ Exit(p)
    /\ UNCHANGED <<durable, boot, os, history>>
PutBack(p) ==
    /\ proc[p].pc = "undo"
    /\ misc' = proc[p].old /\ since' = proc[p].oldSince
    /\ Exit(p)
    /\ UNCHANGED <<conf, bootOs, bootLock, attempts, bootTries, image, boot, os, history>>

\* put_bc failed, in its dd or in its read-back.
PutBackFails(p) ==
    /\ proc[p].pc = "undo"
    /\ \/ torn' = TRUE /\ UNCHANGED <<misc, since>>
       \/ misc' = proc[p].old /\ since' = proc[p].oldSince /\ UNCHANGED torn
    /\ Exit(p)
    /\ UNCHANGED <<conf, bootOs, bootLock, attempts, bootTries, image, boot, os,
                   androidChosen, lockHeld>>

\* mu300-update's write_boot after --trial: the new image, or (a failed
\* verification) the previous one put back.
Flash(p) ==
    /\ proc[p].pc \in {"flash", "flashAnyway"}
    /\ \/ image' = (IF proc[p].pc = "flash" THEN "fresh" ELSE "unarmed") /\ ran' = "replaced"
       \/ UNCHANGED <<image, ran>>
    /\ Step(p, Idle)
    /\ UNCHANGED <<misc, since, conf, bootOs, bootLock, attempts, bootTries,
                   phase, system, miscDev, bootOk, healthy, holder, os, history>>

-----------------------------------------------------------------------------
(* mu300-os NAME: the running system's default boot is carried over, then   *)
(* boot-os is replaced.  It does not take mu300-next-boot's lock.           *)
OsStart ==
    /\ phase = "linux" /\ healthy /\ os.pc = "idle"
    /\ \E s \in OsTargets : os' = [pc |-> "carry", to |-> s, want |-> conf[system]]
    /\ UNCHANGED <<durable, boot, proc, holder, history>>

OsCarry ==
    /\ os.pc = "carry"
    /\ conf' = [conf EXCEPT ![os.to] = os.want]
    /\ os' = [os EXCEPT !.pc = "choose"]
    /\ UNCHANGED <<misc, since, bootOs, bootLock, attempts, bootTries, image, boot,
                   proc, holder, history>>

OsChoose ==
    /\ os.pc = "choose"
    /\ bootOs' = os.to
    /\ os' = OsIdle(os.to)
    /\ UNCHANGED <<misc, since, conf, bootLock, attempts, bootTries, image, boot,
                   proc, holder, history>>

-----------------------------------------------------------------------------
LK == LKAndroid \/ LKRollback \/ LKLinux \/ LKAborted
Initramfs == CountBoot \/ BackstopClear \/ BackstopRestore \/ EnterLinux
             \/ NoRoot \/ RestoreFails \/ RescueTimer \/ ToAndroid
NextBoot(p) ==
    \/ Start(p) \/ BootOk(p) \/ TakeLock(p) \/ LockTimeout(p) \/ PairMismatch(p)
    \/ Begin(p) \/ Decide(p) \/ Arm(p) \/ WriteMisc(p) \/ WriteFails(p)
    \/ VerifyFails(p) \/ SetConf(p) \/ SetConfFails(p) \/ PutBack(p)
    \/ PutBackFails(p) \/ Flash(p)
Os == OsStart \/ OsCarry \/ OsChoose

Next ==
    \/ LK \/ Initramfs \/ ArmFromAndroid \/ PowerCut \/ BreakDown
    \/ \E p \in Procs : NextBoot(p)
    \/ Os

Spec == Init /\ [][Next]_vars

-----------------------------------------------------------------------------
(* Fairness.  A device that is off is started; the initramfs' steps are     *)
(* taken; a Linux that cannot get to boot-ok ends in a reset (panic_on_oops, *)
(* softlockup_panic, the watchdog, or the plug).  Cuts do not strike at the *)
(* same step of every boot, nor does every write of misc fail, hence strong *)
(* fairness of the steps that count.                                        *)
Fairness ==
    /\ WF_vars(LKAndroid) /\ WF_vars(LKRollback) /\ WF_vars(LKLinux)
    /\ SF_vars(CountBoot) /\ SF_vars(BackstopClear) /\ SF_vars(BackstopRestore)
    /\ SF_vars(EnterLinux) /\ WF_vars(NoRoot) /\ WF_vars(RescueTimer)
    /\ WF_vars(phase = "linux" /\ ~healthy /\ PowerCut)

FairSpec == Spec /\ Fairness

-----------------------------------------------------------------------------
Commanding == UserCommands \cup {"rearm"}
Pcs == {"idle", "wait", "begin", "decide", "arm", "write", "conf", "undo", "flash", "flashAnyway"}
Critical == {"begin", "decide", "arm", "write", "conf", "undo"}
Proc == [pc : Pcs, cmd : Commanding, arg : 1..MaxAttempts, blk : Block,
         old : Block, oldSince : Since]

TypeOK ==
    /\ misc \in Block /\ since \in Since
    /\ conf \in [Systems -> Word] /\ bootOs \in Systems
    /\ bootLock \in BOOLEAN /\ attempts \in 0..MaxAttempts
    /\ bootTries \in 0..MaxBoots
    /\ image \in {"proven", "fresh", "unarmed"}
    /\ phase \in LinuxPhases \cup {"off", "android"}
    /\ system \in Systems /\ miscDev \in BOOLEAN
    /\ ran \in {"proven", "fresh", "unarmed", "replaced"}
    /\ bootOk \in BOOLEAN /\ healthy \in BOOLEAN
    /\ proc \in [Procs -> Proc] /\ holder \in Procs \cup {NoProc}
    /\ os \in [pc : {"idle", "carry", "choose"}, to : Systems, want : Word]
    /\ androidChosen \in BOOLEAN /\ lockHeld \in BOOLEAN /\ torn \in BOOLEAN

\* The next boot LK makes from this block is Android's.
NextIsAndroid == misc.slot = "android" \/ (~misc.succ /\ misc.tries <= 1)

(* A slot that is not locked never gets more boots in a row than the arm    *)
(* promised: the boot after the Nth that did not reach mu300-boot-ok is     *)
(* Android's (mu300-next-boot:17-19), whatever commands were cut off.       *)
FailedBootsBounded ==
    misc.slot = "linux" /\ ~misc.succ =>
        since.boots <= since.promise /\ (since.boots = since.promise => NextIsAndroid)

(* The initramfs' backstop sends a boot to Android only after the N failed  *)
(* boots of this arm (arm_linux:147-149, boot/init:948-950): a count left   *)
(* from an earlier arm never bounces an early boot.                         *)
BackstopNotEarly == phase = "exceeded" /\ miscDev => since.boots > Attempts

(* After "mu300-next-boot android" every reboot of a running Linux goes to  *)
(* Android - the next one and later ones - until the user chooses Linux     *)
(* again; mu300-boot-ok's concurrent --rearm does not undo it.              *)
AndroidStays == androidChosen /\ phase = "linux" => NextIsAndroid

(* After "mu300-next-boot lock" nothing sends the device to Android by      *)
(* itself: no failed boot, no missing root file system, no interrupted      *)
(* command that leaves the lock alone.                                      *)
LockHolds == lockHeld => phase # "android"

(* Between commands misc and the default-boot file agree in a running       *)
(* Linux: with Android as the default the next boot is Android's, also      *)
(* after a "linux" whose default-boot file could not be written.  The       *)
(* exception (torn) is a Linux block that a command or the initramfs left   *)
(* in misc, saying that misc does not read back or could not be put back    *)
(* (mu300-next-boot:121, 128; boot/init:290-298), until a command sets the  *)
(* default boot or the device reboots.                                      *)
DefaultAgrees ==
    phase = "linux" /\ miscDev /\ holder = NoProc /\ ~torn /\ conf[system] = "android" =>
        NextIsAndroid

(* A new boot image never meets a locked slot (mu300-update:293), also when *)
(* only images whose --trial armed the slot count.                          *)
NewImageNotLocked == phase = "root" /\ ran = "fresh" => ~misc.succ

(* A Linux that can no longer get to mu300-boot-ok ends in Android, or - on *)
(* a slot marked successful with no root file system - in the rescue shell; *)
(* a locked device is the exception.                                        *)
BrokenFallsBack ==
    ~healthy /\ ~(misc.slot = "linux" /\ misc.succ /\ bootLock /\ conf[bootOs] = "linux")
        ~> phase \in {"android", "stay"}
=============================================================================
