--------------------------- MODULE BootControlProofs ---------------------------
(***************************************************************************)
(* The bound on failed boots, the initramfs' backstop, and what a user's   *)
(* choice of the default boot means, for any number of systems, processes  *)
(* and attempts.                                                           *)
(***************************************************************************)
EXTENDS BootControlTypes

USE SystemsAssumption, ProcsAssumption, CommandsAssumption, AttemptsAssumption,
    OutcomesAssumption

\* A run of mu300-next-boot changes nothing of the other runs.
LEMMA OthersStay ==
    ASSUME TypeOK, NEW p \in Procs, NextBoot(p)
    PROVE  \A q \in Procs \ {p} : proc'[q] = proc[q]
<1>1. PICK r : Step(p, r)
  BY Zenon DEF NextBoot, Start, BootOk, TakeLock, LockTimeout, PairMismatch, Begin, Decide, Arm,
         WriteMisc, WriteFails, VerifyFails, SetConf, SetConfFails, PutBack, PutBackFails, Flash,
         Exit, Done, EndAs, GoOn
<1> QED
  BY <1>1 DEF Step, TypeOK

(***************************************************************************)
(* The bound on failed boots.  In every block that can be or come back in  *)
(* misc, the boots LK gave and the tries it has left add up to what the    *)
(* arm promised; the last try is the boot that failed.                     *)
(***************************************************************************)
Counted(b, s) ==
    b.slot = "linux" /\ ~b.succ => b.tries >= 1 /\ s.boots + b.tries = s.promise + 1

CountInv ==
    /\ Counted(misc, since)
    /\ \A p \in Procs :
         /\ Counted(proc[p].old, proc[p].oldSince)
         /\ proc[p].pc = "write" =>
              Counted(proc[p].blk, Promised(IF proc[p].cmd = "android" THEN 0 ELSE proc[p].arg))

LEMMA AndroidCounted == \A s : Counted(AndroidBlock, s)
BY DEF Counted, AndroidBlock

LEMMA OneShotCounted == Counted(OneShot, Promised(1))
BY DEF Counted, OneShot, Promised

LEMMA LinuxCounted ==
    ASSUME NEW n \in 1..MaxAttempts, NEW b \in BOOLEAN
    PROVE  Counted(LinuxBlock(n, b), Promised(n))
BY DEF Counted, LinuxBlock, Promised

LEMMA CountDownCounted ==
    ASSUME TypeOK, Counted(misc, since), LKCountDown
    PROVE  Counted(misc', since')
<1>1. CASE misc.succ
  BY <1>1 DEF LKCountDown, Counted
<1>2. CASE ~misc.succ
  <2>1. misc' = [misc EXCEPT !.tries = @ - 1] /\ misc.tries > 1 /\ misc.slot = "linux"
    BY <1>2 DEF LKCountDown
  <2>2. since.boots + misc.tries = since.promise + 1
    BY <1>2, <2>1 DEF Counted
  <2>3. since.boots < MaxBoots
    BY <2>1, <2>2 DEF TypeOK, Block, Since
  <2>4. since' = [since EXCEPT !.boots = @ + 1]
    BY <2>3 DEF LKCountDown, Inc
  <2> QED
    BY <2>1, <2>2, <2>4 DEF TypeOK, Block, Since, Counted
<1> QED
  BY <1>1, <1>2

LEMMA CountInit == Init => CountInv
BY AndroidCounted DEF Init, CountInv, Idle

LEMMA CountNext == TypeOK /\ ProcInv /\ CountInv /\ [Next]_vars => CountInv'
<1> SUFFICES ASSUME TypeOK, ProcInv, CountInv, [Next]_vars PROVE CountInv'
  OBVIOUS
<1>1. ASSUME UNCHANGED proc, Counted(misc', since') PROVE CountInv'
  BY <1>1 DEF CountInv
<1>2. ASSUME UNCHANGED <<misc, since>> PROVE Counted(misc', since')
  BY <1>2 DEF CountInv
<1>3. CASE LK
  BY <1>1, <1>2, <1>3, AndroidCounted, CountDownCounted
     DEF LK, LKAndroid, LKRollback, LKLinux, LKAborted, durable, CountInv
<1>4. CASE Initramfs
  BY Zenon, <1>1, <1>2, <1>4, AndroidCounted
     DEF Initramfs, CountBoot, BackstopClear, BackstopRestore, EnterLinux, NoRoot,
         RestoreFails, RescueTimer, ToAndroid, RestoreAndroid, durable
<1>5. CASE ArmFromAndroid
  BY <1>1, <1>5, OneShotCounted DEF ArmFromAndroid
<1>6. CASE BreakDown
  BY <1>1, <1>2, <1>6 DEF BreakDown, durable
<1>7. CASE PowerCut
  BY Zenon, <1>2, <1>7, AndroidCounted DEF PowerCut, durable, CountInv, Idle
<1>8. ASSUME NEW p \in Procs, NextBoot(p) PROVE CountInv'
  <2>0. proc \in [Procs -> Proc] /\ proc[p] \in Proc
    BY DEF TypeOK
  <2>1. SUFFICES /\ Counted(misc', since')
                 /\ Counted(proc'[p].old, proc'[p].oldSince)
                 /\ proc'[p].pc = "write" =>
                      Counted(proc'[p].blk,
                              Promised(IF proc'[p].cmd = "android" THEN 0 ELSE proc'[p].arg))
    BY <1>8, OthersStay DEF CountInv
  <2> USE DEF Step
  <2>2. CASE Start(p)
    BY <2>0, <2>2, <1>2, AndroidCounted DEF Start, Idle, durable
  <2>3. CASE BootOk(p)
    BY <2>0, <2>3, <1>2, AndroidCounted DEF BootOk, Idle
  <2>4. CASE TakeLock(p)
    BY <2>0, <2>4, <1>2 DEF TakeLock, durable, CountInv, Proc
  <2>5. ASSUME NEW f, EndAs(p, f), f # "write"
        PROVE  Counted(proc'[p].old, proc'[p].oldSince) /\ proc'[p].pc # "write"
    BY <2>0, <2>5, AndroidCounted DEF EndAs, Idle
  <2>6. CASE LockTimeout(p) \/ PairMismatch(p)
    BY <2>6, <2>5, <1>2 DEF LockTimeout, PairMismatch, Exit, durable
  <2>7. CASE Begin(p)
    BY <2>0, <2>7, <1>2, AndroidCounted DEF Begin, CountInv, Proc
  <2>8. CASE Decide(p)
    <3>1. CASE conf[system] = "linux"
      BY <2>0, <2>8, <3>1, <1>2 DEF Decide, GoOn, durable, CountInv, Proc
    <3>2. CASE conf[system] # "linux"
      BY <2>8, <3>2, <2>5, <1>2 DEF Decide, Exit, durable
    <3> QED
      BY <3>1, <3>2
  <2>9. CASE Arm(p)
    <3>1. Attempts \in 1..MaxAttempts /\ (bootLock /\ proc[p].cmd # "trial") \in BOOLEAN
      BY AttemptsType, Zenon DEF TypeOK
    <3>2. proc[p].cmd # "android"
      BY <2>9 DEF Arm, ProcInv
    <3>3. /\ proc'[p].old = proc[p].old /\ proc'[p].oldSince = proc[p].oldSince
          /\ proc'[p].cmd = proc[p].cmd
          /\ proc'[p].arg = IF CanRebuild THEN Attempts ELSE 1
          /\ proc'[p].blk = IF CanRebuild
                            THEN LinuxBlock(Attempts, bootLock /\ proc[p].cmd # "trial")
                            ELSE OneShot
      BY <2>0, <2>9 DEF Arm, Proc
    <3>4. CASE CanRebuild
      BY Zenon, <2>9, <3>1, <3>2, <3>3, <3>4, <1>2, LinuxCounted DEF Arm, CountInv
    <3>5. CASE ~CanRebuild
      BY <2>9, <3>2, <3>3, <3>5, <1>2, OneShotCounted DEF Arm, CountInv
    <3> QED
      BY <3>4, <3>5
  <2>10. CASE WriteMisc(p)
    <3>1. Counted(misc', since')
      BY <2>10 DEF WriteMisc, PutBlock, CountInv
    <3>2. CASE Pending(p) = "none"
      BY <2>10, <3>1, <3>2, <2>5 DEF WriteMisc, Done
    <3>3. CASE Pending(p) # "none"
      <4>1. proc' = [proc EXCEPT ![p] = [proc[p] EXCEPT !.pc = "conf", !.old = misc,
                                           !.oldSince = since]]
        BY <2>10, <3>3 DEF WriteMisc
      <4>2. /\ proc'[p].pc = "conf" /\ proc'[p].old = misc /\ proc'[p].oldSince = since
        BY <2>0, <4>1 DEF Proc
      <4> QED
        BY <3>1, <4>2 DEF CountInv
    <3> QED
      BY <3>2, <3>3
  <2>11. CASE WriteFails(p)
    BY <2>11, <2>5, <1>2 DEF WriteFails, Exit, durable
  <2>17. CASE VerifyFails(p)
    <3>1. Counted(misc', since')
      BY <2>17 DEF VerifyFails, PutBlock, CountInv
    <3> QED
      BY <2>17, <2>5, <3>1 DEF VerifyFails, Exit
  <2>12. CASE SetConf(p)
    BY <2>12, <2>5, <1>2 DEF SetConf, Done
  <2>13. CASE SetConfFails(p)
    BY <2>0, <2>13, <1>2 DEF SetConfFails, GoOn, durable, CountInv, Proc
  <2>14. CASE PutBack(p)
    BY <2>14, <2>5 DEF PutBack, Exit, CountInv
  <2>15. CASE PutBackFails(p)
    <3>1. Counted(misc', since')
      BY <2>15, <1>2 DEF PutBackFails, CountInv
    <3> QED
      BY <2>15, <2>5, <3>1 DEF PutBackFails, Exit
  <2>16. CASE Flash(p)
    BY <2>0, <2>16, <1>2, AndroidCounted DEF Flash, Idle
  <2> QED
    BY Zenon, <1>8, <2>2, <2>3, <2>4, <2>6, <2>7, <2>8, <2>9, <2>10, <2>11, <2>12, <2>13,
       <2>14, <2>15, <2>16, <2>17 DEF NextBoot
<1>9. CASE Os
  BY <1>1, <1>2, <1>9 DEF Os, OsStart, OsCarry, OsChoose, durable
<1>10. CASE UNCHANGED vars
  BY <1>1, <1>2, <1>10 DEF vars, durable
<1> QED
  BY <1>3, <1>4, <1>5, <1>6, <1>7, <1>8, <1>9, <1>10 DEF Next

LEMMA CountImplies == TypeOK /\ CountInv => FailedBootsBounded
BY SMTT(30) DEF TypeOK, CountInv, Counted, FailedBootsBounded, NextIsAndroid, Block, Since

\* The boot after the Nth boot that did not reach mu300-boot-ok is Android's
\* (mu300-next-boot:17-19), for every number of attempts, every set of
\* systems and commands, and any number of concurrent mu300-next-boot runs.
THEOREM FailedBoots == Spec => []FailedBootsBounded
<1>1. Init => TypeOK /\ ProcInv /\ CountInv
  BY TypeInit, ProcInit, CountInit
<1>2. (TypeOK /\ ProcInv /\ CountInv) /\ [Next]_vars => (TypeOK /\ ProcInv /\ CountInv)'
  BY TypeNext, ProcNext, CountNext
<1> QED
  BY <1>1, <1>2, CountImplies, PTL DEF Spec

(***************************************************************************)
(* The initramfs' backstop.  Its count never runs ahead of the boots LK    *)
(* gave the block, except where a block of one boot (mu300-linux) met a    *)
(* count left behind: there the last try restarts the count.               *)
(***************************************************************************)
OneBoot(b, s) == ~b.succ /\ s.boots + b.tries = 2
Fits(b, s) == b.slot = "linux" => bootTries <= s.boots \/ OneBoot(b, s)

ChainInv ==
    /\ Fits(misc, since)
    /\ phase \in {"root", "exceeded"} => misc.slot = "linux" /\ since.boots >= 1
    /\ phase = "root" => Inc(bootTries) <= since.boots \/ OneBoot(misc, since)
    /\ BackstopNotEarly
BackInv ==
    /\ ChainInv
    /\ \A p \in Procs :
         /\ proc[p].pc \in {"conf", "undo"} => Fits(proc[p].old, proc[p].oldSince)
         /\ proc[p].pc = "write" /\ proc[p].blk.slot = "linux" => bootTries = 0

LEMMA BackInit == Init => BackInv
BY SMTT(30) DEF Init, BackInv, ChainInv, Fits, AndroidBlock, Idle, BackstopNotEarly

\* A cleared count fits every block, and fewer counted boots fit as well.
LEMMA ClearedFits ==
    ASSUME bootTries' = 0, NEW b \in Block, NEW s \in Since
    PROVE  (b.slot = "linux" => bootTries' <= s.boots)
BY DEF Since

LEMMA BackChain ==
    ASSUME TypeOK, ProcInv, CountInv, BackInv,
           LK \/ Initramfs \/ ArmFromAndroid \/ BreakDown
    PROVE  BackInv'
<1>0. /\ misc \in Block /\ since \in Since /\ bootTries \in 0..MaxBoots
      /\ attempts \in 0..MaxAttempts
  BY DEF TypeOK
<1>1. /\ phase # "linux" /\ UNCHANGED proc
      /\ \A p \in Procs : proc[p].pc = "idle" /\ proc'[p].pc = "idle"
  BY ChainSteps DEF ProcInv
<1> SUFFICES ASSUME ChainInv PROVE ChainInv'
  BY <1>1 DEF BackInv
<1>3. ASSUME UNCHANGED <<misc, since, bootTries, attempts>>, phase' \notin {"root", "exceeded"}
      PROVE  ChainInv'
  BY <1>1, <1>3 DEF ChainInv, Fits, OneBoot, BackstopNotEarly
<1>4. ASSUME misc' = AndroidBlock, phase' \notin {"root", "exceeded"}
      PROVE  ChainInv'
  BY <1>1, <1>4 DEF ChainInv, Fits, AndroidBlock, BackstopNotEarly
<1>5. CASE LKAndroid \/ RestoreFails \/ RescueTimer
  <2>1. /\ UNCHANGED <<misc, since, bootTries, attempts>>
        /\ phase' \in {"android", "off", "linux", "rescue"}
    BY Zenon, <1>5 DEF LKAndroid, RestoreFails, RescueTimer, durable
  <2> QED
    BY <1>3, <2>1
<1>6. CASE LKRollback \/ BackstopRestore \/ EnterLinux \/ ToAndroid \/ NoRoot
  <2>1. /\ misc' = AndroidBlock \/ UNCHANGED <<misc, since>>
        /\ UNCHANGED <<bootTries, attempts>>
        /\ phase' \in {"android", "off", "linux", "rescue", "stay"}
    BY Zenon, <1>6 DEF LKRollback, BackstopRestore, EnterLinux, ToAndroid, NoRoot, RestoreAndroid
  <2> QED
    BY <1>3, <1>4, <2>1
<1>7. ASSUME LKCountDown, bootTries' = bootTries
      PROVE  /\ misc'.slot = "linux" /\ since'.boots >= 1
             /\ Inc(bootTries) <= since'.boots \/ OneBoot(misc, since)'
             /\ Fits(misc, since)'
  <2>1. misc'.slot = "linux" /\ since'.boots = Inc(since.boots)
    BY <1>0, <1>7 DEF LKCountDown, Block, Since
  <2>2. CASE bootTries <= since.boots
    BY <1>0, <1>7, <2>1, <2>2 DEF Inc, Since, Fits
  <2>3. CASE OneBoot(misc, since)
    <3>1. misc'.succ = misc.succ /\ misc'.tries = misc.tries - 1 /\ misc.tries > 1
      BY <1>0, <1>7, <2>3 DEF LKCountDown, OneBoot, Block
    <3>2. since.boots = 0 /\ since'.boots = 1
      BY <1>0, <2>1, <2>3, <3>1 DEF OneBoot, Block, Since, Inc
    <3> QED
      BY <1>0, <2>1, <2>3, <3>1, <3>2 DEF OneBoot, Fits, Block, Since
  <2> QED
    BY <1>7, <2>2, <2>3 DEF ChainInv, Fits, LKCountDown
<1>8. CASE LKLinux
  BY <1>7, <1>8 DEF LKLinux, ChainInv, BackstopNotEarly
<1>9. CASE LKAborted
  BY <1>7, <1>9 DEF LKAborted, LKCountDown, boot, ChainInv, BackstopNotEarly
<1>10. CASE CountBoot
  <2> DEFINE t == Inc(bootTries)
  <2>0. /\ misc.slot = "linux" /\ since.boots >= 1
        /\ t <= since.boots \/ OneBoot(misc, since)
        /\ UNCHANGED <<misc, since, attempts, miscDev>>
    BY <1>10 DEF CountBoot, ChainInv
  <2>1. Attempts \in 1..MaxAttempts /\ Attempts' = Attempts /\ CountedTries \in 0..MaxBoots
    BY <1>0, <2>0, AttemptsType, IncType DEF CountedTries, Attempts
  <2>2. CountedTries <= since.boots \/ OneBoot(misc, since)
    BY <1>0, <2>0, <2>1, IncType DEF CountedTries, Since
  <2>3. bootTries <= since.boots \/ OneBoot(misc, since)
    BY <1>0, <2>0 DEF Inc, Since
  <2>4. Fits(misc, since)'
    BY <1>10, <2>0, <2>2, <2>3 DEF CountBoot, Fits, OneBoot
  <2>5. ASSUME miscDev, CountedTries > Attempts PROVE since.boots > Attempts
    <3>1. CASE OneBoot(misc, since)
      <4>1. misc.tries = 1 /\ ~misc.succ
        BY <1>0, <2>0, <3>1, SMTT(30) DEF OneBoot, CountInv, Counted, Block, Since
      <4> QED
        BY <2>1, <2>5, <4>1 DEF CountedTries, lk_tries_1
    <3>2. CASE CountedTries <= since.boots
      BY <1>0, <2>1, <2>5, <3>2 DEF Since
    <3> QED
      BY <2>2, <3>1, <3>2
  <2>6. phase' \in {"exceeded", "handover"} /\ (phase' = "exceeded" => CountedTries > Attempts)
    BY <1>10 DEF CountBoot
  <2> QED
    BY <2>0, <2>1, <2>4, <2>5, <2>6 DEF ChainInv, BackstopNotEarly
<1>11. CASE BackstopClear
  BY <1>0, <1>11, ClearedFits DEF BackstopClear, ChainInv, Fits, BackstopNotEarly
<1>12. CASE ArmFromAndroid
  <2>1. Fits(misc, since)'
    <3>1. OneBoot(misc, since)'
      BY <1>12 DEF ArmFromAndroid, OneBoot, OneShot, Promised
    <3> QED
      BY <3>1 DEF Fits
  <2> QED
    BY <1>12, <2>1 DEF ArmFromAndroid, ChainInv, BackstopNotEarly
<1>13. CASE BreakDown
  BY SMTT(20), <1>3, <1>13 DEF BreakDown, durable
<1> QED
  BY <1>5, <1>6, <1>8, <1>9, <1>10, <1>11, <1>12, <1>13 DEF LK, Initramfs

LEMMA BackNextBoot ==
    ASSUME TypeOK, ProcInv, CountInv, BackInv, NEW p \in Procs, NextBoot(p)
    PROVE  BackInv'
<1>0. /\ misc \in Block /\ since \in Since /\ bootTries \in 0..MaxBoots
      /\ proc \in [Procs -> Proc] /\ proc[p] \in Proc
      /\ \A q \in Procs : proc[q].old \in Block /\ proc[q].oldSince \in Since
  BY DEF TypeOK, Proc
<1>1. phase = "linux" /\ phase' = "linux"
  BY Zenon DEF ProcInv, NextBoot, Start, BootOk, TakeLock, LockTimeout, PairMismatch, Begin, Decide, Arm,
         WriteMisc, WriteFails, VerifyFails, SetConf, SetConfFails, PutBack, PutBackFails, Flash, boot
<1>2. \A q \in Procs \ {p} : proc'[q] = proc[q]
  BY OthersStay
\* No command counts a boot, so a block that fitted still does.
<1>3. bootTries' \in {0, bootTries}
  BY Zenon DEF NextBoot, Start, BootOk, TakeLock, LockTimeout, PairMismatch, Begin, Decide, Arm, WriteMisc,
         WriteFails, VerifyFails, SetConf, SetConfFails, PutBack, PutBackFails, Flash, durable
<1>4. ASSUME NEW b \in Block, NEW s \in Since, Fits(b, s)
      PROVE  b.slot = "linux" => bootTries' <= s.boots \/ OneBoot(b, s)
  BY <1>0, <1>3, <1>4 DEF Fits, Since
<1>5. SUFFICES /\ Fits(misc, since)'
               /\ proc'[p].pc \in {"conf", "undo"} => Fits(proc[p].old, proc[p].oldSince)'
               /\ proc'[p].pc = "write" /\ proc'[p].blk.slot = "linux" => bootTries' = 0
  <2>1. ASSUME NEW q \in Procs \ {p}, proc[q].pc \in {"conf", "undo"}
        PROVE  Fits(proc[q].old, proc[q].oldSince)'
    <3>1. Fits(proc[q].old, proc[q].oldSince) /\ proc'[q] = proc[q]
      BY <1>2, <2>1 DEF BackInv
    <3>2. proc[q].old.slot = "linux" =>
            bootTries' <= proc[q].oldSince.boots \/ OneBoot(proc[q].old, proc[q].oldSince)
      BY <1>0, <1>4, <3>1
    <3> QED
      BY <3>1, <3>2 DEF Fits, OneBoot
  <2>2. ASSUME NEW q \in Procs \ {p}, proc[q].pc = "write", proc[q].blk.slot = "linux"
        PROVE  bootTries' = 0
    BY <1>3, <2>2 DEF BackInv
  <2> QED
    BY <1>1, <1>2, <1>5, <2>1, <2>2 DEF BackInv, ChainInv, BackstopNotEarly
<1>6. ASSUME UNCHANGED <<misc, since>> PROVE Fits(misc, since)'
  BY <1>0, <1>4, <1>6 DEF BackInv, ChainInv, Fits, OneBoot
<1>7. ASSUME NEW f \in {"flash", "flashAnyway"}, EndAs(p, f)
      PROVE  proc'[p].pc \notin {"conf", "undo", "write"}
  BY <1>0, <1>7 DEF EndAs, Step, Idle
<1>8. CASE Start(p) \/ BootOk(p) \/ TakeLock(p) \/ Flash(p)
  <2>1. UNCHANGED <<misc, since>>
    BY Zenon, <1>8 DEF Start, BootOk, TakeLock, Flash, durable
  <2>2. CASE Start(p)
    BY <1>0, <1>6, <2>1, <2>2 DEF Start, Step, Idle
  <2>3. CASE BootOk(p)
    BY <1>0, <1>6, <2>1, <2>3 DEF BootOk, Step, Idle
  <2>4. CASE TakeLock(p)
    BY <1>0, <1>6, <2>1, <2>4 DEF TakeLock, Step, Proc
  <2>5. CASE Flash(p)
    BY <1>0, <1>6, <2>1, <2>5 DEF Flash, Step, Idle
  <2> QED
    BY <1>8, <2>2, <2>3, <2>4, <2>5
<1>9. CASE LockTimeout(p) \/ PairMismatch(p) \/ WriteFails(p) \/ SetConf(p)
  <2>1. UNCHANGED <<misc, since>> /\ (Exit(p) \/ Done(p))
    BY Zenon, <1>9 DEF LockTimeout, PairMismatch, WriteFails, SetConf, durable
  <2> QED
    BY <1>6, <1>7, <2>1 DEF Exit, Done
<1>10. CASE Begin(p)
  <2>1. /\ UNCHANGED <<misc, since>> /\ proc'[p].pc \in {"write", "arm", "decide"}
        /\ proc'[p].blk = AndroidBlock
    BY <1>0, <1>10 DEF Begin, Step, Proc
  <2>2. proc'[p].blk.slot # "linux"
    BY <2>1 DEF AndroidBlock
  <2>3. Fits(misc, since)'
    BY <1>6, <2>1
  <2> QED
    BY <2>1, <2>2, <2>3
<1>11. CASE Decide(p)
  <2>1. CASE GoOn(p, "arm")
    <3>1. proc'[p].pc = "arm"
      BY <1>0, <2>1 DEF GoOn, Step, Proc
    <3> QED
      BY <1>6, <1>11, <3>1 DEF Decide, durable
  <2>2. CASE Exit(p)
    BY <1>6, <1>7, <1>11, <2>2 DEF Decide, Exit, durable
  <2> QED
    BY <1>11, <2>1, <2>2 DEF Decide
<1>12. CASE Arm(p)
  <2>1. UNCHANGED <<misc, since>> /\ bootTries' = 0 /\ proc'[p].pc = "write"
    BY <1>0, <1>12 DEF Arm, Step, Proc
  <2> QED
    BY <1>6, <2>1
<1>17. ASSUME PutBlock(p), proc[p].pc = "write", bootTries' = bootTries
       PROVE  Fits(misc, since)'
  <2>1. /\ proc[p].blk.slot = "linux" => bootTries = 0
        /\ misc' = proc[p].blk /\ since'.boots = 0
    BY <1>17 DEF PutBlock, BackInv, Promised
  <2> QED
    BY <1>17, <2>1 DEF Fits
<1>13. CASE WriteMisc(p)
  <2>1. Fits(misc, since)'
    BY <1>13, <1>17 DEF WriteMisc
  <2>2. CASE Pending(p) = "none"
    BY <1>7, <1>13, <2>1, <2>2 DEF WriteMisc, Done
  <2>3. CASE Pending(p) # "none"
    <3>1. proc' = [proc EXCEPT ![p] = [proc[p] EXCEPT !.pc = "conf", !.old = misc,
                                         !.oldSince = since]]
      BY <1>13, <2>3 DEF WriteMisc, Step
    <3>2. proc'[p].pc = "conf" /\ proc'[p].old = misc /\ proc'[p].oldSince = since
      BY <1>0, <3>1 DEF Proc
    <3>3. Fits(proc[p].old, proc[p].oldSince)'
      BY <1>0, <1>4, <3>2 DEF BackInv, ChainInv, Fits, OneBoot
    <3> QED
      BY <2>1, <3>2, <3>3
  <2> QED
    BY <2>2, <2>3
<1>14. CASE SetConfFails(p)
  <2>1. /\ UNCHANGED <<misc, since, bootTries>> /\ proc'[p].pc = "undo" /\ proc[p].pc = "conf"
        /\ proc'[p].old = proc[p].old /\ proc'[p].oldSince = proc[p].oldSince
    BY <1>0, <1>14 DEF SetConfFails, GoOn, Step, durable, Proc
  <2>2. Fits(proc[p].old, proc[p].oldSince)'
    BY <2>1 DEF BackInv, Fits, OneBoot
  <2> QED
    BY <1>6, <2>1, <2>2
<1>15. CASE PutBack(p)
  <2>1. Fits(misc, since)'
    BY <1>15 DEF PutBack, BackInv, Fits, OneBoot
  <2> QED
    BY <1>7, <1>15, <2>1 DEF PutBack, Exit
<1>16. CASE PutBackFails(p)
  <2>1. CASE UNCHANGED <<misc, since>>
    BY <1>6, <1>7, <1>16, <2>1 DEF PutBackFails, Exit
  <2>2. CASE misc' = proc[p].old /\ since' = proc[p].oldSince
    <3>1. Fits(misc, since)'
      BY <1>16, <2>2 DEF PutBackFails, BackInv, Fits, OneBoot
    <3> QED
      BY <1>7, <1>16, <3>1 DEF PutBackFails, Exit
  <2> QED
    BY <1>16, <2>1, <2>2 DEF PutBackFails
<1>18. CASE VerifyFails(p)
  <2>1. Fits(misc, since)'
    BY Zenon, <1>17, <1>18 DEF VerifyFails
  <2> QED
    BY <1>7, <1>18, <2>1 DEF VerifyFails, Exit
<1> QED
  BY Zenon, <1>8, <1>9, <1>10, <1>11, <1>12, <1>13, <1>14, <1>15, <1>16, <1>18 DEF NextBoot

LEMMA BackNext == TypeOK /\ ProcInv /\ CountInv /\ BackInv /\ [Next]_vars => BackInv'
<1> SUFFICES ASSUME TypeOK, ProcInv, CountInv, BackInv, [Next]_vars PROVE BackInv'
  OBVIOUS
<1>1. CASE PowerCut
  BY <1>1 DEF PowerCut, BackInv, ChainInv, Fits, OneBoot, BackstopNotEarly, Idle, durable
<1>2. CASE Os \/ UNCHANGED vars
  <2>1. UNCHANGED <<misc, since, bootTries, attempts, phase, miscDev, proc>>
    BY <1>2 DEF Os, OsStart, OsCarry, OsChoose, vars, durable, boot
  <2> QED
    BY <2>1 DEF BackInv, ChainInv, Fits, OneBoot, BackstopNotEarly, Attempts
<1> QED
  BY <1>1, <1>2, BackChain, BackNextBoot DEF Next

\* The initramfs' backstop gives up only after more boots than this arm's
\* attempts: a count left from an earlier arm, an interrupted command or a
\* boot whose misc was not found never bounces an early boot to Android.
THEOREM BackstopPatient == Spec => []BackstopNotEarly
<1> DEFINE I == TypeOK /\ ProcInv /\ CountInv /\ BackInv
<1>1. Init => I
  BY TypeInit, ProcInit, CountInit, BackInit
<1>2. I /\ [Next]_vars => I'
  BY TypeNext, ProcNext, CountNext, BackNext
<1>3. I => BackstopNotEarly
  BY DEF BackInv, ChainInv
<1> QED
  BY <1>1, <1>2, <1>3, PTL DEF Spec

(***************************************************************************)
(* What the user chose.  mu300-os, which writes default-boot files without *)
(* the lock, is left out: OsTargets is empty.  Whoever holds the lock goes *)
(* by the default boot it read, and what it has written is still in misc   *)
(* when it writes the file.                                                *)
(***************************************************************************)
BootsAndroid(b) == b.slot = "android" \/ (~b.succ /\ b.tries <= 1)
Locked(b) == b.slot = "linux" /\ b.succ
Choosing == {"linux", "lock", "android"}

WriterOK(p) ==
    /\ proc[p].pc \in {"write", "conf"} /\ proc[p].cmd = "android" => proc[p].blk = AndroidBlock
    /\ proc[p].pc \in {"arm", "write"} /\ proc[p].cmd \notin Choosing => conf[system] = "linux"
    /\ proc[p].pc \in {"write", "conf"} /\ proc[p].blk.succ =>
         CanRebuild /\ bootLock /\ proc[p].blk.slot = "linux"
    /\ proc[p].pc = "conf" => misc = proc[p].blk
WriterInv == os.pc = "idle" /\ system = bootOs /\ \A p \in Procs : WriterOK(p)

\* Android was chosen: no run that could arm Linux is past its first steps, and
\* misc holds at most the one boot that mu300-linux gives.
Harmless(p) == proc[p].pc \in Critical =>
                   proc[p].pc \in {"begin", "decide"} /\ proc[p].cmd \notin Choosing
ChosenInv ==
    androidChosen =>
        /\ conf[system] = "android"
        /\ \A p \in Procs : Harmless(p)
        /\ misc.slot = "android" \/ (~misc.succ /\ misc.tries <= 2)
        /\ phase \notin {"off", "android"} => BootsAndroid(misc)

\* Linux was locked: the slot stays marked successful, and a boot that goes
\* towards Android has no misc to write.
KeepsLock(p) ==
    proc[p].pc \in Critical =>
        /\ proc[p].cmd \notin {"android", "unlock", "trial"}
        /\ proc[p].pc = "write" => Locked(proc[p].blk)
        /\ proc[p].pc \in {"conf", "undo"} => Locked(proc[p].old)
LockInv ==
    lockHeld =>
        /\ Locked(misc) /\ bootLock /\ CanRebuild /\ conf[system] = "linux"
        /\ phase # "android" /\ (phase \in {"exceeded", "giveup", "rescue"} => ~miscDev)
        /\ \A p \in Procs : KeepsLock(p)

\* Android is the default of the running system: misc says so, or the run that
\* changes both can still put back a block that does.
AgreeInv ==
    phase = "linux" /\ miscDev /\ ~torn /\ conf[system] = "android" =>
        /\ \A p \in Procs : proc[p].pc \in {"conf", "undo"} => BootsAndroid(proc[p].old)
        /\ (\A p \in Procs : proc[p].pc \notin {"conf", "undo"}) => BootsAndroid(misc)

LEMMA ChoiceInit == Init => WriterInv /\ ChosenInv /\ LockInv /\ AgreeInv
BY DEF Init, Idle, OsIdle, WriterInv, WriterOK, ChosenInv, LockInv, AgreeInv

\* The run that holds the lock is the only one past the lock.
LEMMA Alone ==
    ASSUME ProcInv, NEW p \in Procs, NEW q \in Procs, q # p, proc[p].pc \in Critical
    PROVE  proc[q].pc \notin Critical
BY DEF ProcInv

\* The boot chain leaves the files and the choices alone.
LEMMA ChainKeeps ==
    ASSUME TypeOK, ProcInv, WriterInv, LK \/ Initramfs \/ ArmFromAndroid \/ BreakDown \/ PowerCut
    PROVE  /\ UNCHANGED <<conf, bootOs, bootLock, androidChosen, system>>
           /\ os'.pc = "idle" /\ \A p \in Procs : proc'[p].pc = "idle"
<1>1. system = bootOs /\ os.pc = "idle"
  BY DEF WriterInv
<1>2. CASE PowerCut
  <2>1. proc' = [p \in Procs |-> Idle] /\ os' = OsIdle(os.to)
        /\ UNCHANGED <<conf, bootOs, bootLock, androidChosen, system>>
    BY Zenon, <1>2 DEF PowerCut, durable
  <2> QED
    BY <2>1 DEF Idle, OsIdle
<1>3. CASE LK \/ Initramfs \/ ArmFromAndroid \/ BreakDown
  <2>1. \A p \in Procs : proc'[p].pc = "idle"
    BY <1>3, ChainSteps DEF ProcInv
  <2>2. UNCHANGED <<conf, bootOs, bootLock, androidChosen, os>>
    <3>1. CASE LK
      BY Zenon, <3>1 DEF LK, LKAndroid, LKRollback, LKLinux, LKAborted, durable, history
    <3>2. CASE Initramfs
      BY Zenon, <3>2 DEF Initramfs, CountBoot, BackstopClear, BackstopRestore, EnterLinux,
                         NoRoot, RestoreFails, RescueTimer, ToAndroid, durable, history
    <3>3. CASE ArmFromAndroid \/ BreakDown
      BY Zenon, <3>3 DEF ArmFromAndroid, BreakDown, durable, history
    <3> QED
      BY <1>3, <3>1, <3>2, <3>3
  <2>3. system' = system
    <3>1. CASE LK
      BY Zenon, <3>1 DEF LK, LKAndroid, LKRollback, LKLinux, LKAborted, boot
    <3>2. CASE Initramfs
      BY Zenon, <3>2, <1>1 DEF Initramfs, CountBoot, BackstopClear, BackstopRestore, EnterLinux,
                         NoRoot, RestoreFails, RescueTimer, ToAndroid
    <3>3. CASE ArmFromAndroid \/ BreakDown
      BY Zenon, <3>3 DEF ArmFromAndroid, BreakDown
    <3> QED
      BY <1>3, <3>1, <3>2, <3>3
  <2> QED
    BY <1>1, <2>1, <2>2, <2>3
<1> QED
  BY <1>2, <1>3

\* Runs of mu300-next-boot do not change which boot this is.
LEMMA NextBootKeeps ==
    ASSUME NEW p \in Procs, NextBoot(p)
    PROVE  UNCHANGED <<bootOs, phase, system, miscDev, os>>
BY Zenon DEF NextBoot, Start, BootOk, TakeLock, LockTimeout, PairMismatch, Begin, Decide, Arm,
         WriteMisc, WriteFails, VerifyFails, SetConf, SetConfFails, PutBack, PutBackFails, Flash, durable, boot

\* A run that is not past the lock writes nothing that the others go by.
LEMMA OutsideKeeps ==
    ASSUME NEW p \in Procs, NextBoot(p), proc[p].pc \notin Critical
    PROVE  UNCHANGED <<misc, conf, bootLock>>
<1> USE DEF Critical
<1>1. CASE Start(p) \/ BootOk(p) \/ TakeLock(p) \/ LockTimeout(p) \/ PairMismatch(p) \/ Flash(p)
  BY Zenon, <1>1 DEF Start, BootOk, TakeLock, LockTimeout, PairMismatch, Flash, durable
<1>2. CASE Begin(p) \/ Decide(p) \/ Arm(p) \/ WriteMisc(p) \/ WriteFails(p) \/ VerifyFails(p)
  BY Zenon, <1>2 DEF Begin, Decide, Arm, WriteMisc, WriteFails, VerifyFails
<1>3. CASE SetConf(p) \/ SetConfFails(p) \/ PutBack(p) \/ PutBackFails(p)
  BY <1>3 DEF SetConf, SetConfFails, PutBack, PutBackFails
<1> QED
  BY <1>1, <1>2, <1>3 DEF NextBoot

LEMMA NoOs == ASSUME OsTargets = {}, WriterInv PROVE ~Os
BY DEF Os, OsStart, OsCarry, OsChoose, WriterInv

\* The end of a command is outside the lock.
LEMMA EndIs ==
    ASSUME TypeOK, NEW p \in Procs, NEW f \in {"flash", "flashAnyway"}, EndAs(p, f)
    PROVE  proc'[p].pc \in {"idle", "flash", "flashAnyway"}
<1>1. proc \in [Procs -> Proc]
  BY DEF TypeOK
<1> QED
  BY <1>1 DEF EndAs, Step, Idle

\* The steps before the lock is taken, and the flash after the command.
LEMMA OutsideIs ==
    ASSUME TypeOK, NEW p \in Procs
    PROVE  /\ Start(p) \/ BootOk(p) => proc'[p].pc = "wait"
           /\ TakeLock(p) => proc'[p].pc = "begin" /\ proc'[p].cmd = proc[p].cmd
           /\ Flash(p) => proc'[p].pc = "idle"
<1>0. proc \in [Procs -> Proc] /\ proc[p] \in Proc
  BY DEF TypeOK
<1>1. ASSUME Start(p) PROVE proc'[p].pc = "wait"
  BY <1>0, <1>1 DEF Start, Step, Idle
<1>2. ASSUME BootOk(p) PROVE proc'[p].pc = "wait"
  <2>1. proc' = [proc EXCEPT ![p] = [Idle EXCEPT !.pc = "wait", !.cmd = "rearm"]]
    BY <1>2, Zenon DEF BootOk, Step
  <2> QED
    BY <1>0, <2>1 DEF Idle
<1>3. ASSUME TakeLock(p) PROVE proc'[p].pc = "begin" /\ proc'[p].cmd = proc[p].cmd
  <2>1. proc' = [proc EXCEPT ![p] = [proc[p] EXCEPT !.pc = "begin"]]
    BY <1>3, Zenon DEF TakeLock, Step
  <2> QED
    BY <1>0, <2>1 DEF Proc
<1>4. ASSUME Flash(p) PROVE proc'[p].pc = "idle"
  <2>1. proc' = [proc EXCEPT ![p] = Idle]
    BY <1>4, Zenon DEF Flash, Step
  <2> QED
    BY <1>0, <2>1 DEF Idle
<1> QED
  BY <1>1, <1>2, <1>3, <1>4

LEMMA WriterNext ==
    ASSUME OsTargets = {}
    PROVE  TypeOK /\ ProcInv /\ WriterInv /\ [Next]_vars => WriterInv'
<1> SUFFICES ASSUME TypeOK, ProcInv, WriterInv, [Next]_vars PROVE WriterInv'
  OBVIOUS
<1>1. CASE LK \/ Initramfs \/ ArmFromAndroid \/ BreakDown \/ PowerCut
  <2>1. WriterInv' <=> os'.pc = "idle" /\ system' = bootOs' /\ \A p \in Procs : WriterOK(p)'
    BY DEF WriterInv
  <2>2. \A p \in Procs : WriterOK(p)'
    BY <1>1, ChainKeeps DEF WriterOK
  <2> QED
    BY <1>1, <2>1, <2>2, ChainKeeps DEF WriterInv
<1>2. ASSUME NEW p \in Procs, NextBoot(p) PROVE WriterInv'
  <2>0. proc \in [Procs -> Proc] /\ proc[p] \in Proc /\ WriterOK(p)
        /\ UNCHANGED <<bootOs, phase, system, miscDev, os>>
    BY <1>2, NextBootKeeps DEF TypeOK, WriterInv
  <2>1. ASSUME NEW q \in Procs \ {p} PROVE WriterOK(q)'
    <3>1. proc'[q] = proc[q] /\ WriterOK(q)
      BY <1>2, OthersStay DEF WriterInv
    <3>2. CASE proc[p].pc \in Critical
      <4>1. proc[q].pc \notin Critical
        BY <3>2, Alone
      <4> QED
        BY <3>1, <4>1 DEF WriterOK, Critical
    <3>3. CASE proc[p].pc \notin Critical
      <4>1. UNCHANGED <<misc, conf, bootLock>>
        BY <1>2, <3>3, OutsideKeeps
      <4> QED
        BY <2>0, <3>1, <4>1 DEF WriterOK, CanRebuild
    <3> QED
      BY <3>2, <3>3
  <2>2. SUFFICES WriterOK(p)'
    BY <2>0, <2>1 DEF WriterInv
  <2>3. ASSUME proc'[p].pc \notin {"arm", "write", "conf"} PROVE WriterOK(p)'
    BY <2>3 DEF WriterOK
  <2>4. ASSUME NEW f \in {"flash", "flashAnyway"}, EndAs(p, f) PROVE WriterOK(p)'
    BY <2>3, <2>4, EndIs
  <2> USE DEF Step
  <2>5. CASE Start(p) \/ BootOk(p) \/ TakeLock(p) \/ Flash(p)
    BY <2>3, <2>5, OutsideIs
  <2>6. CASE LockTimeout(p) \/ PairMismatch(p) \/ WriteFails(p) \/ VerifyFails(p)
    BY <2>4, <2>6 DEF LockTimeout, PairMismatch, WriteFails, VerifyFails, Exit
  <2>12. CASE SetConf(p) \/ PutBack(p) \/ PutBackFails(p)
    BY <2>4, <2>12 DEF SetConf, PutBack, PutBackFails, Exit, Done
  <2>7. CASE Begin(p)
    <3>1. /\ proc'[p].cmd = proc[p].cmd /\ proc'[p].blk = AndroidBlock
          /\ proc'[p].pc = IF proc[p].cmd = "android" THEN "write"
                           ELSE IF proc[p].cmd \in {"linux", "lock"} THEN "arm" ELSE "decide"
      BY <2>0, <2>7 DEF Begin, Proc
    <3> QED
      BY <3>1 DEF WriterOK, AndroidBlock, Choosing
  <2>8. CASE Decide(p)
    <3>1. CASE conf[system] = "linux"
      <4>1. proc'[p].pc = "arm" /\ conf'[system'] = "linux"
        BY <2>0, <2>8, <3>1 DEF Decide, GoOn, Proc, durable
      <4> QED
        BY <4>1 DEF WriterOK
    <3>2. CASE conf[system] # "linux"
      BY <2>4, <2>8, <3>2 DEF Decide, Exit
    <3> QED
      BY <3>1, <3>2
  <2>9. CASE Arm(p)
    <3>1. /\ proc'[p].cmd = proc[p].cmd /\ proc'[p].pc = "write"
          /\ proc'[p].blk = IF CanRebuild
                            THEN LinuxBlock(Attempts, bootLock /\ proc[p].cmd # "trial")
                            ELSE OneShot
      BY <2>0, <2>9 DEF Arm, Proc
    <3>2. proc[p].pc = "arm" /\ conf' = conf /\ bootLock' = bootLock /\ CanRebuild' = CanRebuild
      BY <2>0, <2>9 DEF Arm, CanRebuild
    <3>3. proc[p].cmd # "android" /\ (proc[p].cmd \notin Choosing => conf'[system'] = "linux")
      BY <2>0, <3>2 DEF ProcInv, WriterOK
    <3>4. proc'[p].blk.succ => CanRebuild' /\ bootLock' /\ proc'[p].blk.slot = "linux"
      <4>1. CASE CanRebuild
        <5>1. proc'[p].blk = LinuxBlock(Attempts, bootLock /\ proc[p].cmd # "trial")
          BY <3>1, <4>1
        <5>2. /\ proc'[p].blk.slot = "linux"
              /\ proc'[p].blk.succ = (bootLock /\ proc[p].cmd # "trial")
          BY <5>1 DEF LinuxBlock
        <5> QED
          BY Zenon, <3>2, <4>1, <5>2
      <4>2. CASE ~CanRebuild
        BY <3>1, <4>2 DEF OneShot
      <4> QED
        BY <4>1, <4>2
    <3> QED
      BY <3>1, <3>3, <3>4 DEF WriterOK
  <2>10. CASE WriteMisc(p)
    <3>1. CASE Pending(p) = "none"
      BY <2>4, <2>10, <3>1 DEF WriteMisc, Done
    <3>2. CASE Pending(p) # "none"
      <4>1. /\ proc' = [proc EXCEPT ![p] = [proc[p] EXCEPT !.pc = "conf", !.old = misc,
                                              !.oldSince = since]]
            /\ misc' = proc[p].blk /\ bootLock' = bootLock /\ proc[p].pc = "write"
        BY <2>10, <3>2 DEF WriteMisc, PutBlock
      <4>2. /\ proc'[p].pc = "conf" /\ proc'[p].blk = proc[p].blk /\ proc'[p].cmd = proc[p].cmd
        BY <2>0, <4>1 DEF Proc
      <4> QED
        BY <2>0, <4>1, <4>2 DEF WriterOK, CanRebuild
    <3> QED
      BY <3>1, <3>2
  <2>11. CASE SetConfFails(p)
    <3>1. proc'[p].pc = "undo"
      BY <2>0, <2>11 DEF SetConfFails, GoOn, Proc
    <3> QED
      BY <2>3, <3>1
  <2> QED
    BY Zenon, <1>2, <2>5, <2>6, <2>7, <2>8, <2>9, <2>10, <2>11, <2>12 DEF NextBoot
<1>3. CASE UNCHANGED vars
  BY <1>3 DEF vars, durable, boot, WriterInv, WriterOK, CanRebuild
<1> QED
  BY <1>1, <1>2, <1>3, NoOs DEF Next

\* The slot the boot chain leaves, once Android was chosen.
LEMMA ChosenChain ==
    ASSUME TypeOK, ProcInv, WriterInv, ChosenInv, androidChosen,
           LK \/ Initramfs \/ ArmFromAndroid \/ BreakDown \/ PowerCut
    PROVE  /\ misc'.slot = "android" \/ (~misc'.succ /\ misc'.tries <= 2)
           /\ phase' \notin {"off", "android"} => BootsAndroid(misc')
<1>0. /\ misc.slot = "android" \/ (~misc.succ /\ misc.tries <= 2)
      /\ phase \notin {"off", "android"} => BootsAndroid(misc)
      /\ misc \in Block
  BY DEF ChosenInv, TypeOK
<1>1. ASSUME misc' = misc, phase' \in {"off", "android"} \/ phase \notin {"off", "android"}
      PROVE  /\ misc'.slot = "android" \/ (~misc'.succ /\ misc'.tries <= 2)
             /\ phase' \notin {"off", "android"} => BootsAndroid(misc')
  BY <1>0, <1>1
<1>2. ASSUME misc' = AndroidBlock
      PROVE  /\ misc'.slot = "android" \/ (~misc'.succ /\ misc'.tries <= 2)
             /\ phase' \notin {"off", "android"} => BootsAndroid(misc')
  BY <1>2 DEF AndroidBlock, BootsAndroid
<1>3. CASE LKCountDown
  <2>1. misc' = [misc EXCEPT !.tries = @ - 1] /\ ~misc.succ /\ misc.tries <= 2
    BY <1>0, <1>3 DEF LKCountDown
  <2>2. ~misc'.succ /\ misc'.tries <= 1 /\ misc'.tries <= 2
    BY <1>0, <2>1 DEF Block
  <2> QED
    BY <2>2 DEF BootsAndroid
<1>4. CASE LKAndroid \/ LKRollback
  BY <1>1, <1>2, <1>4 DEF LKAndroid, LKRollback, durable
<1>5. CASE CountBoot \/ BackstopClear \/ RestoreFails \/ RescueTimer
  <2>1. misc' = misc
    BY <1>5, Zenon DEF CountBoot, BackstopClear, RestoreFails, RescueTimer, durable
  <2>2. phase \notin {"off", "android"}
    BY Zenon, <1>5 DEF CountBoot, BackstopClear, RestoreFails, RescueTimer
  <2> QED
    BY <1>1, <2>1, <2>2
<1>6. CASE BackstopRestore \/ EnterLinux \/ NoRoot
  <2>1. misc' = misc \/ misc' = AndroidBlock
    BY <1>6, Zenon DEF BackstopRestore, EnterLinux, NoRoot, RestoreAndroid
  <2>2. phase \notin {"off", "android"}
    BY Zenon, <1>6 DEF BackstopRestore, EnterLinux, NoRoot
  <2> QED
    BY <1>1, <1>2, <2>1, <2>2
<1>7. CASE ToAndroid
  BY <1>2, <1>7 DEF ToAndroid
<1>8. CASE ArmFromAndroid
  BY <1>8 DEF ArmFromAndroid, OneShot
<1>9. CASE BreakDown \/ PowerCut
  BY Zenon, <1>1, <1>9 DEF BreakDown, PowerCut, durable
<1> QED
  BY Zenon, <1>3, <1>4, <1>5, <1>6, <1>7, <1>8, <1>9 DEF LK, LKLinux, LKAborted, Initramfs

LEMMA ChosenNext ==
    ASSUME OsTargets = {}
    PROVE  TypeOK /\ ProcInv /\ WriterInv /\ ChosenInv /\ [Next]_vars => ChosenInv'
<1> SUFFICES ASSUME TypeOK, ProcInv, WriterInv, ChosenInv, [Next]_vars, androidChosen'
             PROVE  /\ conf'[system'] = "android"
                    /\ \A p \in Procs : Harmless(p)'
                    /\ misc'.slot = "android" \/ (~misc'.succ /\ misc'.tries <= 2)
                    /\ phase' \notin {"off", "android"} => BootsAndroid(misc')
  BY DEF ChosenInv
<1>1. CASE LK \/ Initramfs \/ ArmFromAndroid \/ BreakDown \/ PowerCut
  <2>1. androidChosen /\ conf'[system'] = "android" /\ \A p \in Procs : proc'[p].pc = "idle"
    BY Zenon, <1>1, ChainKeeps DEF ChosenInv
  <2> QED
    BY <1>1, <2>1, ChosenChain DEF Harmless, Critical
<1>2. ASSUME NEW p \in Procs, NextBoot(p)
      PROVE  /\ conf'[system'] = "android" /\ \A q \in Procs : Harmless(q)'
             /\ misc'.slot = "android" \/ (~misc'.succ /\ misc'.tries <= 2)
             /\ phase' \notin {"off", "android"} => BootsAndroid(misc')
  <2>0. proc \in [Procs -> Proc] /\ proc[p] \in Proc /\ conf \in [Systems -> Word]
        /\ system \in Systems /\ UNCHANGED <<bootOs, phase, system, miscDev, os>>
    BY <1>2, NextBootKeeps DEF TypeOK
  \* Android is chosen now: its block is in misc.
  <2>1. CASE SetConf(p) /\ proc[p].cmd = "android"
    <3>1. proc[p].pc = "conf" /\ misc' = misc /\ conf' = [conf EXCEPT ![system] = "android"]
      BY <2>1 DEF SetConf, Pending
    <3>2. misc' = AndroidBlock
      BY <2>1, <3>1 DEF WriterInv, WriterOK
    <3>3. conf'[system'] = "android"
      BY <2>0, <3>1
    <3>4. \A q \in Procs : proc'[q].pc \notin Critical
      <4>1. proc'[p].pc \in {"idle", "flash", "flashAnyway"}
        BY <2>1, EndIs DEF SetConf, Done
      <4>2. \A q \in Procs \ {p} : proc[q].pc \notin Critical /\ proc'[q] = proc[q]
        BY <1>2, <3>1, Alone, OthersStay DEF Critical
      <4> QED
        BY <4>1, <4>2 DEF Critical
    <3> QED
      BY <3>2, <3>3, <3>4 DEF Harmless, AndroidBlock, BootsAndroid
  \* It was chosen before, and nothing that arms Linux is running.
  <2>2. CASE ~(SetConf(p) /\ proc[p].cmd = "android")
    <3>1. androidChosen
      <4>1. CASE SetConf(p)
        BY Zenon, <2>2, <4>1 DEF SetConf
      <4>2. CASE TakeLock(p)
        BY Zenon, <4>2 DEF TakeLock
      <4>3. CASE ~SetConf(p) /\ ~TakeLock(p)
        BY Zenon, <1>2, <4>3 DEF NextBoot, Start, BootOk, LockTimeout, PairMismatch, Begin, Decide, Arm,
             WriteMisc, WriteFails, VerifyFails, SetConfFails, PutBack, PutBackFails, Flash, history
      <4> QED
        BY <4>1, <4>2, <4>3
    <3>2. /\ conf[system] = "android" /\ \A q \in Procs : Harmless(q)
          /\ misc.slot = "android" \/ (~misc.succ /\ misc.tries <= 2)
          /\ phase \notin {"off", "android"} => BootsAndroid(misc)
      BY <3>1 DEF ChosenInv
    <3>3. \A q \in Procs \ {p} : Harmless(q)'
      BY <1>2, <3>2, OthersStay DEF Harmless
    <3>4. proc[p].pc \notin {"arm", "write", "conf", "undo"}
      BY <3>2 DEF Harmless, Critical
    <3>5. SUFFICES misc' = misc /\ conf' = conf /\ Harmless(p)'
      BY <2>0, <3>2, <3>3
    <3>6. CASE Start(p) \/ BootOk(p) \/ Flash(p)
      <4>1. misc' = misc /\ conf' = conf
        BY <3>6, Zenon DEF Start, BootOk, Flash, durable
      <4> QED
        BY <3>6, <4>1, OutsideIs DEF Harmless, Critical
    <3>7. CASE LockTimeout(p) \/ PairMismatch(p)
      <4>1. proc'[p].pc \in {"idle", "flash", "flashAnyway"}
        BY <3>7, EndIs DEF LockTimeout, PairMismatch, Exit
      <4> QED
        BY <3>7, <4>1 DEF Harmless, Critical, LockTimeout, PairMismatch, durable
    <3>8. CASE TakeLock(p)
      <4>1. Pending(p) = "none" /\ misc' = misc /\ conf' = conf
        BY <3>8, Zenon DEF TakeLock, durable
      <4>2. proc[p].cmd \notin Choosing
        BY <4>1 DEF Pending, Choosing
      <4> QED
        BY <3>8, <4>1, <4>2, OutsideIs DEF Harmless
    <3>9. CASE Begin(p)
      <4>1. proc[p].cmd \notin Choosing
        BY <3>2, <3>9 DEF Begin, Harmless, Critical
      <4>2. proc'[p].pc = "decide" /\ proc'[p].cmd = proc[p].cmd
        BY <2>0, <3>9, <4>1 DEF Begin, Step, Proc, Choosing
      <4>3. misc' = misc /\ conf' = conf
        BY <3>9, Zenon DEF Begin
      <4> QED
        BY <4>1, <4>2, <4>3 DEF Harmless
    <3>10. CASE Decide(p)
      <4>1. EndAs(p, "flashAnyway") /\ misc' = misc /\ conf' = conf
        BY Zenon, <3>2, <3>10 DEF Decide, Exit, durable
      <4>2. proc'[p].pc \in {"idle", "flash", "flashAnyway"}
        BY <4>1, EndIs
      <4> QED
        BY <4>1, <4>2 DEF Harmless, Critical
    <3>11. ~Arm(p) /\ ~WriteMisc(p) /\ ~WriteFails(p) /\ ~VerifyFails(p) /\ ~SetConf(p)
           /\ ~SetConfFails(p) /\ ~PutBack(p) /\ ~PutBackFails(p)
      BY Zenon, <3>4 DEF Arm, WriteMisc, WriteFails, VerifyFails, SetConf, SetConfFails, PutBack, PutBackFails
    <3> QED
      BY Zenon, <1>2, <3>6, <3>7, <3>8, <3>9, <3>10, <3>11 DEF NextBoot
  <2> QED
    BY <2>1, <2>2
<1>3. CASE UNCHANGED vars
  BY <1>3 DEF vars, durable, boot, history, ChosenInv, Harmless
<1> QED
  BY <1>1, <1>2, <1>3, NoOs DEF Next

\* The boot chain does not take a locked slot back to Android.
LEMMA LockChain ==
    ASSUME TypeOK, ProcInv, WriterInv, LockInv, lockHeld',
           LK \/ Initramfs \/ ArmFromAndroid \/ BreakDown \/ PowerCut
    PROVE  /\ lockHeld /\ Locked(misc')
           /\ phase' # "android" /\ (phase' \in {"exceeded", "giveup", "rescue"} => ~miscDev')
<1>1. ~ToAndroid
  BY Zenon DEF ToAndroid
<1>2. lockHeld
  BY Zenon, <1>1 DEF LK, LKAndroid, LKRollback, LKLinux, LKAborted, Initramfs, CountBoot,
       BackstopClear, BackstopRestore, EnterLinux, NoRoot, RestoreFails, RescueTimer, ArmFromAndroid,
       BreakDown, PowerCut, history
<1>3. /\ Locked(misc) /\ bootLock /\ conf[system] = "linux" /\ system = bootOs
      /\ phase # "android" /\ (phase \in {"exceeded", "giveup", "rescue"} => ~miscDev)
  BY <1>2 DEF LockInv, WriterInv
<1> SUFFICES /\ Locked(misc') /\ phase' # "android"
             /\ phase' \in {"exceeded", "giveup", "rescue"} => ~miscDev'
  BY <1>2
<1>4. CASE LKLinux \/ LKAborted
  BY <1>3, <1>4 DEF LKLinux, LKAborted, LKCountDown, Locked, boot
<1>5. ~LKAndroid /\ ~LKRollback /\ ~ArmFromAndroid
  BY Zenon, <1>3 DEF LKAndroid, LKRollback, ArmFromAndroid, Locked
<1>6. CASE CountBoot
  <2>1. misc' = misc /\ miscDev' = miscDev /\ phase' \in {"exceeded", "handover"}
        /\ (phase' = "exceeded" => Counts)
    BY <1>6 DEF CountBoot
  <2>2. Counts => ~miscDev
    BY <1>3, Zenon DEF Counts, lk_locked, Locked
  <2> QED
    BY <1>3, <2>1, <2>2
<1>7. CASE BackstopClear
  BY <1>3, <1>7 DEF BackstopClear
<1>8. CASE BackstopRestore
  BY <1>3, <1>8 DEF BackstopRestore, RestoreAndroid
<1>9. CASE EnterLinux
  BY <1>3, <1>9 DEF EnterLinux
<1>10. CASE NoRoot
  <2>1. CASE miscDev
    BY <1>3, <1>10, <2>1 DEF NoRoot, lk_locked, Locked
  <2>2. CASE ~miscDev
    BY <1>3, <1>10, <2>2 DEF NoRoot, lk_locked, RestoreAndroid
  <2> QED
    BY <2>1, <2>2
<1>11. CASE RescueTimer
  BY <1>3, <1>11 DEF RescueTimer, durable
<1>12. CASE BreakDown \/ PowerCut
  BY Zenon, <1>3, <1>12 DEF BreakDown, PowerCut, durable
<1>13. ~RestoreFails
  BY <1>3 DEF RestoreFails, lk_locked, Locked
<1> QED
  BY Zenon, <1>1, <1>2, <1>4, <1>5, <1>6, <1>7, <1>8, <1>9, <1>10, <1>11, <1>12, <1>13 DEF LK, Initramfs

LEMMA LockNext ==
    ASSUME OsTargets = {}
    PROVE  TypeOK /\ ProcInv /\ WriterInv /\ LockInv /\ [Next]_vars => LockInv'
<1> SUFFICES ASSUME TypeOK, ProcInv, WriterInv, LockInv, [Next]_vars, lockHeld'
             PROVE  /\ Locked(misc') /\ bootLock' /\ CanRebuild' /\ conf'[system'] = "linux"
                    /\ phase' # "android"
                    /\ phase' \in {"exceeded", "giveup", "rescue"} => ~miscDev'
                    /\ \A p \in Procs : KeepsLock(p)'
  BY DEF LockInv
<1>1. CASE LK \/ Initramfs \/ ArmFromAndroid \/ BreakDown \/ PowerCut
  <2>1. lockHeld /\ Locked(misc') /\ phase' # "android"
        /\ (phase' \in {"exceeded", "giveup", "rescue"} => ~miscDev')
    BY <1>1, LockChain
  <2>2. bootLock' /\ CanRebuild' /\ conf'[system'] = "linux" /\ \A p \in Procs : proc'[p].pc = "idle"
    BY Zenon, <1>1, <2>1, ChainKeeps DEF LockInv, CanRebuild
  <2> QED
    BY <2>1, <2>2 DEF KeepsLock, Critical
<1>2. ASSUME NEW p \in Procs, NextBoot(p)
      PROVE  /\ Locked(misc') /\ bootLock' /\ CanRebuild' /\ conf'[system'] = "linux"
             /\ phase' # "android" /\ (phase' \in {"exceeded", "giveup", "rescue"} => ~miscDev')
             /\ \A q \in Procs : KeepsLock(q)'
  <2>0. /\ proc \in [Procs -> Proc] /\ proc[p] \in Proc /\ conf \in [Systems -> Word]
        /\ system \in Systems /\ UNCHANGED <<bootOs, phase, system, miscDev, os>>
        /\ proc[p].pc # "idle" => phase = "linux"
    BY <1>2, NextBootKeeps DEF TypeOK, ProcInv
  \* The lock is set now: its block is in misc.
  <2>1. CASE SetConf(p) /\ proc[p].cmd = "lock" /\ proc[p].blk.succ
    <3>1. /\ proc[p].pc = "conf" /\ UNCHANGED <<misc, bootLock>>
          /\ conf' = [conf EXCEPT ![system] = "linux"]
      BY <2>1 DEF SetConf, Pending
    <3>2. Locked(misc') /\ bootLock' /\ CanRebuild'
      BY <2>0, <2>1, <3>1 DEF WriterInv, WriterOK, Locked, CanRebuild
    <3>3. conf'[system'] = "linux" /\ phase' = "linux"
      BY <2>0, <3>1
    <3>4. \A q \in Procs : proc'[q].pc \notin Critical
      <4>1. proc'[p].pc \in {"idle", "flash", "flashAnyway"}
        BY <2>1, EndIs DEF SetConf, Done
      <4>2. \A q \in Procs \ {p} : proc[q].pc \notin Critical /\ proc'[q] = proc[q]
        BY <1>2, <3>1, Alone, OthersStay DEF Critical
      <4> QED
        BY <4>1, <4>2 DEF Critical
    <3> QED
      BY <3>2, <3>3, <3>4 DEF KeepsLock
  \* It was set before.
  <2>2. CASE ~(SetConf(p) /\ proc[p].cmd = "lock" /\ proc[p].blk.succ)
    <3>1. lockHeld
      <4>1. CASE SetConf(p)
        BY Zenon, <2>2, <4>1 DEF SetConf
      <4>2. CASE TakeLock(p)
        BY Zenon, <4>2 DEF TakeLock
      <4>3. CASE ~SetConf(p) /\ ~TakeLock(p)
        BY Zenon, <1>2, <4>3 DEF NextBoot, Start, BootOk, LockTimeout, PairMismatch, Begin, Decide, Arm,
             WriteMisc, WriteFails, VerifyFails, SetConfFails, PutBack, PutBackFails, Flash, history
      <4> QED
        BY <4>1, <4>2, <4>3
    <3>2. /\ Locked(misc) /\ bootLock /\ CanRebuild /\ conf[system] = "linux"
          /\ phase # "android" /\ (phase \in {"exceeded", "giveup", "rescue"} => ~miscDev)
          /\ \A q \in Procs : KeepsLock(q)
      BY <3>1 DEF LockInv
    <3>3. \A q \in Procs \ {p} : KeepsLock(q)'
      BY <1>2, <3>2, OthersStay DEF KeepsLock
    <3>4. SUFFICES Locked(misc') /\ bootLock' /\ conf'[system] = "linux" /\ KeepsLock(p)'
      BY <2>0, <3>2, <3>3 DEF CanRebuild
    <3>5. ASSUME proc'[p].pc \notin Critical PROVE KeepsLock(p)'
      BY <3>5 DEF KeepsLock
    <3>6. ASSUME UNCHANGED <<misc, bootLock, conf>>
          PROVE  Locked(misc') /\ bootLock' /\ conf'[system] = "linux"
      BY <3>2, <3>6
    <3>7. ASSUME NEW f \in {"flash", "flashAnyway"}, EndAs(p, f) PROVE KeepsLock(p)'
      BY <3>5, <3>7, EndIs DEF Critical
    <3>8. CASE Start(p) \/ BootOk(p) \/ Flash(p)
      <4>1. UNCHANGED <<misc, bootLock, conf>>
        BY <3>8, Zenon DEF Start, BootOk, Flash, durable
      <4> QED
        BY <3>5, <3>6, <3>8, <4>1, OutsideIs DEF Critical
    <3>9. CASE TakeLock(p)
      <4>1. proc[p].cmd \notin {"android", "unlock", "trial"} /\ UNCHANGED <<misc, bootLock, conf>>
        BY <3>9, Zenon DEF TakeLock, durable
      <4>2. KeepsLock(p)'
        BY <3>9, <4>1, OutsideIs DEF KeepsLock
      <4> QED
        BY <3>6, <4>1, <4>2
    <3>10. CASE LockTimeout(p) \/ PairMismatch(p) \/ WriteFails(p)
      <4>1. UNCHANGED <<misc, bootLock, conf>>
        BY <3>10, Zenon DEF LockTimeout, PairMismatch, WriteFails, durable
      <4> QED
        BY Zenon, <3>6, <3>7, <3>10, <4>1 DEF LockTimeout, PairMismatch, WriteFails, Exit
    <3>11. proc[p].pc \in Critical => proc[p].cmd \notin {"android", "unlock", "trial"}
      BY <3>2 DEF KeepsLock
    <3>12. CASE Begin(p)
      <4>1. proc[p].pc = "begin" /\ proc[p].cmd \notin {"android", "unlock", "trial"}
        BY <3>11, <3>12 DEF Begin, Critical
      <4>2. proc'[p].pc \in {"arm", "decide"} /\ proc'[p].cmd = proc[p].cmd
        BY <2>0, <3>12, <4>1 DEF Begin, Step, Proc
      <4>3. misc' = misc /\ conf' = conf /\ (bootLock' = TRUE \/ bootLock' = bootLock)
        BY <3>12, <4>1, Zenon DEF Begin
      <4>4. bootLock'
        BY <3>2, <4>3, Zenon
      <4> QED
        BY <3>2, <4>1, <4>2, <4>3, <4>4 DEF KeepsLock
    <3>13. CASE Decide(p)
      <4>1. proc'[p].pc = "arm" /\ proc'[p].cmd = proc[p].cmd /\ proc[p].pc = "decide"
        BY <2>0, <3>2, <3>13 DEF Decide, GoOn, Step, Proc
      <4>2. UNCHANGED <<misc, bootLock, conf>>
        BY <3>13, Zenon DEF Decide, durable
      <4> QED
        BY <3>6, <3>11, <4>1, <4>2 DEF KeepsLock, Critical
    <3>14. CASE Arm(p)
      <4>1. UNCHANGED <<misc, bootLock, conf>> /\ proc[p].pc = "arm"
        BY <3>14, Zenon DEF Arm
      <4>2. /\ proc'[p].cmd = proc[p].cmd /\ proc'[p].pc = "write"
            /\ proc'[p].blk = LinuxBlock(Attempts, bootLock /\ proc[p].cmd # "trial")
        BY <2>0, <3>2, <3>14 DEF Arm, Proc, Step
      <4>3. proc[p].cmd \notin {"android", "unlock", "trial"}
        BY <3>11, <4>1 DEF Critical
      <4>4. /\ proc'[p].blk.slot = "linux"
            /\ proc'[p].blk.succ = (bootLock /\ proc[p].cmd # "trial")
        BY <4>2 DEF LinuxBlock
      <4>5. proc'[p].blk.succ
        BY <3>2, <4>3, <4>4, Zenon
      <4> QED
        BY <3>6, <4>1, <4>2, <4>3, <4>4, <4>5 DEF KeepsLock, Locked
    <3>15. CASE WriteMisc(p)
      <4>1. UNCHANGED <<bootLock, conf>> /\ misc' = proc[p].blk /\ proc[p].pc = "write"
        BY <3>15, Zenon DEF WriteMisc, PutBlock
      <4>2. Locked(misc')
        BY <3>2, <4>1 DEF KeepsLock, Critical
      <4>3. KeepsLock(p)'
        <5>1. CASE Pending(p) = "none"
          BY <3>7, <3>15, <5>1 DEF WriteMisc, Done
        <5>2. CASE Pending(p) # "none"
          <6>1. proc' = [proc EXCEPT ![p] = [proc[p] EXCEPT !.pc = "conf", !.old = misc,
                                                !.oldSince = since]]
            BY <3>15, <5>2 DEF WriteMisc, Step
          <6>2. /\ proc'[p].pc = "conf" /\ proc'[p].old = misc /\ proc'[p].cmd = proc[p].cmd
            BY <2>0, <6>1 DEF Proc
          <6> QED
            BY <3>2, <3>11, <4>1, <6>2 DEF KeepsLock, Critical
        <5> QED
          BY <5>1, <5>2
      <4> QED
        BY <3>2, <4>1, <4>2, <4>3
    <3>16. CASE SetConf(p)
      <4>1. /\ proc[p].pc = "conf" /\ UNCHANGED <<misc, bootLock>>
            /\ conf' = [conf EXCEPT ![system] = Pending(p)]
        BY <3>16 DEF SetConf
      <4>2. proc[p].cmd \in {"linux", "lock"}
        BY <3>11, <4>1 DEF ProcInv, Critical
      <4>3. conf'[system] = "linux"
        BY <2>0, <4>1, <4>2 DEF Pending
      <4>4. KeepsLock(p)'
        BY <3>7, <3>16 DEF SetConf, Done
      <4>5. Locked(misc') /\ bootLock'
        BY Zenon, <3>2, <4>1
      <4> QED
        BY Zenon, <4>3, <4>4, <4>5
    <3>17. CASE SetConfFails(p)
      <4>1. /\ proc'[p].pc = "undo" /\ proc'[p].old = proc[p].old /\ proc'[p].cmd = proc[p].cmd
            /\ proc[p].pc = "conf"
        BY <2>0, <3>17 DEF SetConfFails, GoOn, Step, Proc
      <4>2. UNCHANGED <<misc, bootLock, conf>>
        BY <3>17, Zenon DEF SetConfFails, durable
      <4> QED
        BY <3>2, <3>6, <4>1, <4>2 DEF KeepsLock, Critical
    <3>18. CASE PutBack(p)
      <4>1. UNCHANGED <<bootLock, conf>> /\ misc' = proc[p].old /\ proc[p].pc = "undo"
        BY <3>18, Zenon DEF PutBack
      <4>2. Locked(misc')
        BY <3>2, <4>1 DEF KeepsLock, Critical
      <4>3. KeepsLock(p)'
        BY Zenon, <3>7, <3>18 DEF PutBack, Exit
      <4>4. bootLock' /\ conf'[system] = "linux"
        BY Zenon, <3>2, <4>1
      <4> QED
        BY Zenon, <4>2, <4>3, <4>4
    <3>19. CASE VerifyFails(p)
      <4>1. /\ UNCHANGED <<bootLock, conf>> /\ misc' = proc[p].blk /\ proc[p].pc = "write"
            /\ EndAs(p, "flashAnyway")
        BY <3>19, Zenon DEF VerifyFails, PutBlock, Exit
      <4>2. Locked(misc')
        BY <3>2, <4>1 DEF KeepsLock, Critical
      <4>3. KeepsLock(p)'
        BY Zenon, <3>7, <4>1
      <4>4. bootLock' /\ conf'[system] = "linux"
        BY Zenon, <3>2, <4>1
      <4> QED
        BY Zenon, <4>2, <4>3, <4>4
    <3>20. CASE PutBackFails(p)
      <4>1. /\ UNCHANGED <<bootLock, conf>> /\ misc' \in {misc, proc[p].old} /\ proc[p].pc = "undo"
            /\ EndAs(p, "flashAnyway")
        BY <3>20, Zenon DEF PutBackFails, Exit
      <4>2. Locked(misc')
        BY <3>2, <4>1 DEF KeepsLock, Critical
      <4>3. KeepsLock(p)'
        BY Zenon, <3>7, <4>1
      <4>4. bootLock' /\ conf'[system] = "linux"
        BY Zenon, <3>2, <4>1
      <4> QED
        BY Zenon, <4>2, <4>3, <4>4
    <3> QED
      BY Zenon, <1>2, <3>8, <3>9, <3>10, <3>12, <3>13, <3>14, <3>15, <3>16, <3>17, <3>18,
         <3>19, <3>20 DEF NextBoot
  <2> QED
    BY <2>1, <2>2
<1>3. CASE UNCHANGED vars
  BY Zenon, <1>3 DEF vars, durable, boot, history, LockInv, KeepsLock, CanRebuild
<1> QED
  BY <1>1, <1>2, <1>3, NoOs DEF Next

LEMMA AgreeNext ==
    ASSUME OsTargets = {}
    PROVE  TypeOK /\ ProcInv /\ WriterInv /\ AgreeInv /\ [Next]_vars => AgreeInv'
<1> SUFFICES ASSUME TypeOK, ProcInv, WriterInv, AgreeInv, [Next]_vars,
                    phase' = "linux", miscDev', ~torn', conf'[system'] = "android"
             PROVE  /\ \A p \in Procs : proc'[p].pc \in {"conf", "undo"} => BootsAndroid(proc'[p].old)
                    /\ (\A p \in Procs : proc'[p].pc \notin {"conf", "undo"}) => BootsAndroid(misc')
  BY DEF AgreeInv
<1>1. CASE LK \/ Initramfs \/ ArmFromAndroid \/ BreakDown \/ PowerCut
  \* Only the initramfs' handover starts Linux, and it restores Android's block.
  <2>1. EnterLinux
    <3>1. ~LK /\ ~ArmFromAndroid /\ ~BreakDown /\ ~PowerCut
      BY Zenon DEF LK, LKAndroid, LKRollback, LKLinux, LKAborted, LKCountDown, boot, ArmFromAndroid,
             BreakDown, PowerCut
    <3>2. ~CountBoot /\ ~BackstopClear /\ ~BackstopRestore /\ ~NoRoot /\ ~RescueTimer /\ ~ToAndroid
      BY DEF CountBoot, BackstopClear, BackstopRestore, NoRoot, RescueTimer, ToAndroid
    <3>3. ~RestoreFails
      BY Zenon DEF RestoreFails
    <3> QED
      BY <1>1, <3>1, <3>2, <3>3, Zenon DEF Initramfs
  <2>2. miscDev /\ conf[system] = "android"
    BY <2>1, Zenon DEF EnterLinux
  <2>3. misc' = AndroidBlock
    BY <2>1, <2>2 DEF EnterLinux, RestoreAndroid
  <2>4. \A p \in Procs : proc'[p].pc = "idle"
    BY <1>1, ChainKeeps
  <2> QED
    BY <2>3, <2>4 DEF BootsAndroid, AndroidBlock
<1>2. ASSUME NEW p \in Procs, NextBoot(p)
      PROVE  /\ \A q \in Procs : proc'[q].pc \in {"conf", "undo"} => BootsAndroid(proc'[q].old)
             /\ (\A q \in Procs : proc'[q].pc \notin {"conf", "undo"}) => BootsAndroid(misc')
  <2>0. /\ proc \in [Procs -> Proc] /\ proc[p] \in Proc /\ conf \in [Systems -> Word]
        /\ system \in Systems /\ WriterOK(p)
        /\ UNCHANGED <<bootOs, phase, system, miscDev, os>>
        /\ \A q \in Procs \ {p} : proc'[q] = proc[q]
        /\ proc[p].pc \in Critical => \A q \in Procs \ {p} : proc[q].pc \notin Critical
    BY Zenon, <1>2, NextBootKeeps, OthersStay, Alone DEF TypeOK, WriterInv
  <2>1. phase = "linux" /\ miscDev /\ conf'[system] = "android"
    BY <2>0, Zenon
  <2>2. CASE SetConf(p)
    <3>1. /\ proc[p].pc = "conf" /\ misc' = misc /\ conf' = [conf EXCEPT ![system] = Pending(p)]
      BY Zenon, <2>2 DEF SetConf
    <3>2. proc[p].cmd = "android"
      BY <2>0, <2>1, <3>1 DEF Pending
    <3>3. misc' = AndroidBlock
      BY <2>0, <3>1, <3>2 DEF WriterOK
    <3>4. proc'[p].pc \in {"idle", "flash", "flashAnyway"}
      BY Zenon, <2>2, EndIs DEF SetConf, Done
    <3> QED
      BY <2>0, <3>1, <3>3, <3>4 DEF Critical, BootsAndroid, AndroidBlock
  <2>3. CASE ~SetConf(p)
    <3>1. conf' = conf /\ ~torn
      <4>1. conf' = conf
        BY Zenon, <1>2, <2>3 DEF NextBoot, Start, BootOk, TakeLock, LockTimeout, PairMismatch, Begin, Decide, Arm,
           WriteMisc, WriteFails, VerifyFails, SetConfFails, PutBack, PutBackFails, Flash, durable
      <4>2. CASE torn' = torn
        BY Zenon, <4>1, <4>2
      <4>3. CASE PutBackFails(p)
        BY Zenon, <4>2, <4>3 DEF PutBackFails
      <4>4. CASE VerifyFails(p)
        <5>1. torn' = (torn \/ Pending(p) = "linux")
          BY Zenon, <4>4 DEF VerifyFails
        <5> QED
          BY Zenon, <4>1, <5>1
      <4>5. CASE ~PutBackFails(p) /\ ~VerifyFails(p)
        <5>1. torn' = torn
          BY Zenon, <1>2, <2>3, <4>5 DEF NextBoot, Start, BootOk, TakeLock, LockTimeout, PairMismatch,
             Begin, Decide, Arm, WriteMisc, WriteFails, SetConfFails, PutBack, Flash, history
        <5> QED
          BY <4>2, <5>1
      <4> QED
        BY Zenon, <4>3, <4>4, <4>5
    <3>2. /\ \A q \in Procs : proc[q].pc \in {"conf", "undo"} => BootsAndroid(proc[q].old)
          /\ (\A q \in Procs : proc[q].pc \notin {"conf", "undo"}) => BootsAndroid(misc)
      BY Zenon, <2>1, <3>1 DEF AgreeInv
    <3>3. ASSUME misc' = misc, proc[p].pc \notin {"conf", "undo"}, proc'[p].pc \notin {"conf", "undo"}
          PROVE  /\ \A q \in Procs : proc'[q].pc \in {"conf", "undo"} => BootsAndroid(proc'[q].old)
                 /\ (\A q \in Procs : proc'[q].pc \notin {"conf", "undo"}) => BootsAndroid(misc')
      BY Zenon, <2>0, <3>2, <3>3
    <3>4. CASE Start(p) \/ BootOk(p) \/ TakeLock(p) \/ Flash(p)
      <4>1. misc' = misc
        BY <3>4, Zenon DEF Start, BootOk, TakeLock, Flash, durable
      <4>2. proc[p].pc \in {"idle", "wait", "flash", "flashAnyway"}
        BY Zenon, <3>4 DEF Start, BootOk, TakeLock, Flash
      <4>3. proc'[p].pc \in {"idle", "wait", "begin"}
        BY <3>4, OutsideIs
      <4> QED
        BY <3>3, <4>1, <4>2, <4>3
    <3>5. CASE LockTimeout(p) \/ PairMismatch(p) \/ WriteFails(p)
      <4>1. misc' = misc /\ EndAs(p, "flashAnyway") /\ proc[p].pc \in {"wait", "write"}
        BY Zenon, <3>5 DEF LockTimeout, PairMismatch, WriteFails, Exit, durable
      <4>2. proc'[p].pc \in {"idle", "flash", "flashAnyway"}
        BY Zenon, <4>1, EndIs
      <4> QED
        BY <3>3, <4>1, <4>2
    <3>6. CASE Begin(p)
      <4>1. proc'[p].pc \in {"write", "arm", "decide"} /\ proc[p].pc = "begin"
        BY <2>0, <3>6 DEF Begin, Step, Proc
      <4>2. misc' = misc
        BY <3>6, Zenon DEF Begin
      <4> QED
        BY <3>3, <4>1, <4>2
    <3>7. CASE Decide(p)
      <4>1. misc' = misc /\ EndAs(p, "flashAnyway") /\ proc[p].pc = "decide"
        BY <2>1, <3>1, <3>7 DEF Decide, Exit, durable
      <4>2. proc'[p].pc \in {"idle", "flash", "flashAnyway"}
        BY <4>1, EndIs
      <4> QED
        BY <3>3, <4>1, <4>2
    <3>8. CASE Arm(p)
      <4>1. proc'[p].pc = "write" /\ proc[p].pc = "arm"
        BY <2>0, <3>8 DEF Arm, Step, Proc
      <4>2. misc' = misc
        BY <3>8, Zenon DEF Arm
      <4> QED
        BY <3>3, <4>1, <4>2
    <3>9. CASE WriteMisc(p)
      <4>1. proc[p].pc = "write" /\ proc[p].cmd \in Choosing
        BY <2>0, <2>1, <3>1, <3>9 DEF WriteMisc, WriterOK
      <4>2. BootsAndroid(misc)
        BY <2>0, <3>2, <4>1 DEF Critical
      <4>3. proc' = [proc EXCEPT ![p] = [proc[p] EXCEPT !.pc = "conf", !.old = misc,
                                            !.oldSince = since]]
        BY <3>9, <4>1 DEF WriteMisc, Step, Pending, Choosing
      <4>4. proc'[p].pc = "conf" /\ proc'[p].old = misc
        BY <2>0, <4>3 DEF Proc
      <4> QED
        BY <2>0, <4>1, <4>2, <4>4 DEF Critical
    <3>10. CASE SetConfFails(p)
      <4>1. proc'[p].pc = "undo" /\ proc'[p].old = proc[p].old /\ proc[p].pc = "conf"
        BY <2>0, <3>10 DEF SetConfFails, GoOn, Step, Proc
      <4> QED
        BY <2>0, <3>2, <4>1 DEF Critical
    <3>11. CASE PutBack(p)
      <4>1. misc' = proc[p].old /\ EndAs(p, "flashAnyway") /\ proc[p].pc = "undo"
        BY <3>11 DEF PutBack, Exit
      <4>2. proc'[p].pc \in {"idle", "flash", "flashAnyway"}
        BY <4>1, EndIs
      <4> QED
        BY <2>0, <3>2, <4>1, <4>2 DEF Critical
    <3>12. CASE PutBackFails(p)
      <4>1. misc' = proc[p].old /\ EndAs(p, "flashAnyway") /\ proc[p].pc = "undo"
        BY Zenon, <3>12 DEF PutBackFails, Exit
      <4>2. proc'[p].pc \in {"idle", "flash", "flashAnyway"}
        BY <4>1, EndIs
      <4> QED
        BY <2>0, <3>2, <4>1, <4>2 DEF Critical
    <3>13. CASE VerifyFails(p)
      <4>1. /\ misc' = proc[p].blk /\ EndAs(p, "flashAnyway") /\ proc[p].pc = "write"
            /\ Pending(p) # "linux"
        BY Zenon, <3>13 DEF VerifyFails, PutBlock, Exit
      <4>2. proc[p].cmd = "android"
        BY <2>0, <2>1, <3>1, <4>1 DEF WriterOK, Pending, Choosing
      <4>3. misc' = AndroidBlock
        BY <2>0, <4>1, <4>2 DEF WriterOK
      <4>4. proc'[p].pc \in {"idle", "flash", "flashAnyway"}
        BY <4>1, EndIs
      <4>5. BootsAndroid(misc')
        BY <4>3 DEF BootsAndroid, AndroidBlock
      <4> QED
        BY <2>0, <3>2, <4>1, <4>4, <4>5 DEF Critical
    <3> QED
      BY Zenon, <1>2, <2>3, <3>4, <3>5, <3>6, <3>7, <3>8, <3>9, <3>10, <3>11, <3>12, <3>13
         DEF NextBoot
  <2> QED
    BY <2>2, <2>3
<1>3. CASE UNCHANGED vars
  <2>1. UNCHANGED <<misc, conf, phase, system, miscDev, proc, torn>>
    BY <1>3, Zenon DEF vars, durable, boot, history
  <2>2. phase = "linux" /\ miscDev /\ ~torn /\ conf[system] = "android"
    BY <2>1, Zenon
  <2> QED
    BY <2>1, <2>2 DEF AgreeInv
<1> QED
  BY <1>1, <1>2, <1>3, NoOs DEF Next

LEMMA AgreeImplies == TypeOK /\ ProcInv /\ AgreeInv => DefaultAgrees
<1> SUFFICES ASSUME TypeOK, ProcInv, AgreeInv, phase = "linux", miscDev, holder = NoProc, ~torn,
                    conf[system] = "android"
             PROVE  NextIsAndroid
  BY DEF DefaultAgrees
<1>1. \A p \in Procs : proc[p].pc \notin {"conf", "undo"}
  BY DEF ProcInv, Critical
<1>2. BootsAndroid(misc)
  BY <1>1 DEF AgreeInv
<1> QED
  BY <1>2 DEF BootsAndroid, NextIsAndroid

\* After "mu300-next-boot android" has ended, every reboot of a running Linux is
\* Android's until the user chooses Linux again, whichever other runs of
\* mu300-next-boot (mu300-boot-ok's --rearm, --trial, attempts, unlock) are under
\* way or cut off, for any number of runs, systems and attempts, where no
\* mu300-os carries a default boot over meanwhile (mu300-next-boot:185-225).
THEOREM ChosenAndroidStays ==
    ASSUME OsTargets = {}
    PROVE  Spec => []AndroidStays
<1>1. Init => TypeOK /\ ProcInv /\ WriterInv /\ ChosenInv
  BY TypeInit, ProcInit, ChoiceInit
<1>2. (TypeOK /\ ProcInv /\ WriterInv /\ ChosenInv) /\ [Next]_vars
        => (TypeOK /\ ProcInv /\ WriterInv /\ ChosenInv)'
  BY TypeNext, ProcNext, WriterNext, ChosenNext
<1>3. ChosenInv => AndroidStays
  BY DEF ChosenInv, AndroidStays, NextIsAndroid, BootsAndroid
<1> QED
  BY <1>1, <1>2, <1>3, PTL DEF Spec

\* After "mu300-next-boot lock" no failed boot, missing root file system,
\* initramfs without misc or interrupted command takes the device to Android,
\* until the user unlocks it, chooses Android or flashes a new image
\* (boot/init:927-943, 1110), under the same premise.
THEOREM LockedStays ==
    ASSUME OsTargets = {}
    PROVE  Spec => []LockHolds
<1>1. Init => TypeOK /\ ProcInv /\ WriterInv /\ LockInv
  BY TypeInit, ProcInit, ChoiceInit
<1>2. (TypeOK /\ ProcInv /\ WriterInv /\ LockInv) /\ [Next]_vars
        => (TypeOK /\ ProcInv /\ WriterInv /\ LockInv)'
  BY TypeNext, ProcNext, WriterNext, LockNext
<1>3. LockInv => LockHolds
  BY DEF LockInv, LockHolds
<1> QED
  BY <1>1, <1>2, <1>3, PTL DEF Spec

\* Between commands misc and the default-boot file agree: where the running
\* system's file says Android, the next boot is Android's, also after a command
\* whose file could not be written and whose block went back
\* (mu300-next-boot:105-133), under the same premise; the exception is a misc
\* that did not read back (121) or could not be put back (128), until the next
\* command that sets the default boot, or the reboot.
THEOREM MiscAndFileAgree ==
    ASSUME OsTargets = {}
    PROVE  Spec => []DefaultAgrees
<1>1. Init => TypeOK /\ ProcInv /\ WriterInv /\ AgreeInv
  BY TypeInit, ProcInit, ChoiceInit
<1>2. (TypeOK /\ ProcInv /\ WriterInv /\ AgreeInv) /\ [Next]_vars
        => (TypeOK /\ ProcInv /\ WriterInv /\ AgreeInv)'
  BY TypeNext, ProcNext, WriterNext, AgreeNext
<1> QED
  BY <1>1, <1>2, AgreeImplies, PTL DEF Spec
=============================================================================
