--------------------------- MODULE BootControlTypes ---------------------------
(***************************************************************************)
(* Type correctness of BootControl for any number of systems, processes    *)
(* and attempts.                                                           *)
(***************************************************************************)
EXTENDS BootControl, TLAPS

USE SystemsAssumption, ProcsAssumption, CommandsAssumption, AttemptsAssumption,
    OutcomesAssumption

LEMMA BlockTypes ==
    /\ AndroidBlock \in Block /\ OneShot \in Block
    /\ \A n \in 1..MaxAttempts, b \in BOOLEAN : LinuxBlock(n, b) \in Block
BY DEF AndroidBlock, OneShot, LinuxBlock, Block, Word

LEMMA SinceTypes == \A n \in 0..MaxAttempts : Promised(n) \in Since
BY DEF Promised, Since

LEMMA IncType == \A n \in 0..MaxBoots : Inc(n) \in 0..MaxBoots
BY DEF Inc

LEMMA IdleType == Idle \in Proc
BY BlockTypes, SinceTypes DEF Idle, Proc, Pcs, Commanding, UserCommands

LEMMA AttemptsType ==
    ASSUME attempts \in 0..MaxAttempts
    PROVE  Attempts \in 1..MaxAttempts
BY DEF Attempts

LEMMA StepType ==
    ASSUME proc \in [Procs -> Proc], NEW p \in Procs, NEW r \in Proc, Step(p, r)
    PROVE  proc' \in [Procs -> Proc]
BY DEF Step

LEMMA EndType ==
    ASSUME proc \in [Procs -> Proc], holder \in Procs \cup {NoProc},
           NEW p \in Procs, NEW f \in {"flash", "flashAnyway"}, EndAs(p, f)
    PROVE  proc' \in [Procs -> Proc] /\ holder' \in Procs \cup {NoProc}
<1>1. [Idle EXCEPT !.pc = f, !.cmd = "trial"] \in Proc
  BY Zenon, IdleType DEF Proc, Pcs, Commanding, UserCommands
<1> QED
  BY <1>1, IdleType, StepType DEF EndAs

(***************************************************************************)
(* The processes: mu300-next-boot runs only in a running Linux, whoever is *)
(* between taking and leaving the lock holds it, and only a command with a *)
(* default boot to write gets to that write, and "android" arms nothing.   *)
(***************************************************************************)
ProcInv ==
    /\ phase # "linux" => \A p \in Procs : proc[p].pc = "idle"
    /\ \A p \in Procs : holder = p <=> proc[p].pc \in Critical
    /\ \A p \in Procs : proc[p].pc \in {"conf", "undo"} =>
                            proc[p].cmd \in {"linux", "lock", "android"}
    /\ \A p \in Procs : proc[p].pc \in {"decide", "arm"} => proc[p].cmd # "android"

LEMMA ProcInit == Init => ProcInv
BY DEF Init, ProcInv, Idle, Critical

\* A step of the boot chain finds no run of mu300-next-boot and starts none.
LEMMA ChainSteps ==
    ASSUME TypeOK, LK \/ Initramfs \/ ArmFromAndroid \/ BreakDown
    PROVE  phase # "linux" /\ UNCHANGED <<proc, holder>>
<1>1. CASE LK
  BY Zenon, <1>1 DEF LK, LKAndroid, LKRollback, LKLinux, LKAborted, LKCountDown
<1>2. CASE Initramfs
  BY Zenon, <1>2 DEF Initramfs, CountBoot, BackstopClear, BackstopRestore, EnterLinux,
                     NoRoot, RestoreFails, RescueTimer, ToAndroid
<1>3. CASE ArmFromAndroid \/ BreakDown
  BY Zenon, <1>3 DEF ArmFromAndroid, BreakDown
<1> QED
  BY <1>1, <1>2, <1>3

LEMMA ProcNext == TypeOK /\ ProcInv /\ [Next]_vars => ProcInv'
<1> SUFFICES ASSUME TypeOK, ProcInv, [Next]_vars PROVE ProcInv'
  OBVIOUS
<1>1. CASE LK \/ Initramfs \/ ArmFromAndroid \/ BreakDown
  BY <1>1, ChainSteps DEF ProcInv
<1>2. CASE PowerCut
  BY <1>2 DEF PowerCut, ProcInv, Idle, Critical
<1>3. ASSUME NEW p \in Procs, NextBoot(p) PROVE ProcInv'
  <2> USE DEF ProcInv, Critical, Step
  <2>0. proc \in [Procs -> Proc] /\ proc[p] \in Proc
    BY DEF TypeOK
  <2>1. CASE Start(p)
    BY <2>0, <2>1 DEF Start, Idle, boot
  <2>2. CASE BootOk(p)
    BY <2>0, <2>2 DEF BootOk, Idle
  <2>3. CASE TakeLock(p)
    BY <2>0, <2>3 DEF TakeLock, boot, Proc
  <2>4. ASSUME NEW f \in {"flash", "flashAnyway"}, EndAs(p, f), phase' = phase, phase = "linux"
        PROVE  ProcInv'
    BY <2>0, <2>4 DEF EndAs, Idle
  <2>5. ASSUME NEW pc \in Critical, GoOn(p, pc), phase' = phase, proc[p].pc \in Critical,
               pc \in {"conf", "undo"} => proc[p].pc \in {"conf", "undo"},
               pc \in {"decide", "arm"} => proc[p].pc \in {"decide", "arm"}
        PROVE  ProcInv'
    BY <2>0, <2>5 DEF GoOn, Proc
  <2>6. CASE LockTimeout(p) \/ PairMismatch(p)
    BY <2>0, <2>4, <2>6 DEF LockTimeout, PairMismatch, Exit, boot
  <2>7. CASE Begin(p)
    BY <2>0, <2>7 DEF Begin, boot, Proc
  <2>8. CASE Decide(p)
    BY <2>0, <2>4, <2>5, <2>8 DEF Decide, Exit, boot
  <2>9. CASE Arm(p)
    BY <2>0, <2>9 DEF Arm, boot, Proc
  <2>10. CASE WriteMisc(p)
    <3>1. CASE Pending(p) = "none"
      BY <2>0, <2>4, <2>10, <3>1 DEF WriteMisc, Done, boot
    <3>2. CASE Pending(p) # "none"
      <4>1. proc[p].cmd \in {"linux", "lock", "android"}
        BY <3>2 DEF Pending
      <4>2. /\ proc' = [proc EXCEPT ![p] = [proc[p] EXCEPT !.pc = "conf", !.old = misc,
                                              !.oldSince = since]]
            /\ UNCHANGED <<holder, phase>> /\ proc[p].pc = "write"
        BY <2>10, <3>2 DEF WriteMisc, boot
      <4>3. proc'[p].pc = "conf" /\ proc'[p].cmd = proc[p].cmd
        BY <2>0, <4>2 DEF Proc
      <4>4. \A q \in Procs \ {p} : proc'[q] = proc[q]
        BY <2>0, <4>2
      <4> QED
        BY <4>1, <4>2, <4>3, <4>4
    <3> QED
      BY <3>1, <3>2
  <2>11. CASE WriteFails(p) \/ VerifyFails(p)
    BY <2>0, <2>4, <2>11 DEF WriteFails, VerifyFails, Exit, boot
  <2>12. CASE SetConf(p)
    BY <2>0, <2>4, <2>12 DEF SetConf, Done, boot
  <2>13. CASE SetConfFails(p)
    BY <2>0, <2>5, <2>13 DEF SetConfFails, boot
  <2>14. CASE PutBack(p) \/ PutBackFails(p)
    BY <2>0, <2>4, <2>14 DEF PutBack, PutBackFails, Exit, boot
  <2>15. CASE Flash(p)
    BY <2>0, <2>15 DEF Flash, Idle
  <2> QED
    BY Zenon, <1>3, <2>1, <2>2, <2>3, <2>6, <2>7, <2>8, <2>9, <2>10, <2>11, <2>12, <2>13,
       <2>14, <2>15 DEF NextBoot
<1>4. CASE Os
  BY <1>4 DEF Os, OsStart, OsCarry, OsChoose, boot, ProcInv
<1>5. CASE UNCHANGED vars
  BY <1>5 DEF vars, boot, ProcInv
<1> QED
  BY <1>1, <1>2, <1>3, <1>4, <1>5 DEF Next

(***************************************************************************)
(* Type correctness.                                                       *)
(***************************************************************************)
LEMMA TypeInit == Init => TypeOK
<1> SUFFICES ASSUME Init PROVE TypeOK
  OBVIOUS
<1>1. misc \in Block /\ since \in Since
  BY BlockTypes, SinceTypes DEF Init
<1>2. proc \in [Procs -> Proc] /\ holder \in Procs \cup {NoProc}
  BY IdleType DEF Init
<1>3. os \in [pc : {"idle", "carry", "choose"}, to : Systems, want : Word]
  BY DEF Init, OsIdle, Word
<1>4. conf \in [Systems -> Word]
  BY DEF Init
<1>5. /\ bootLock \in BOOLEAN /\ bootOk \in BOOLEAN /\ healthy \in BOOLEAN
      /\ androidChosen \in BOOLEAN /\ lockHeld \in BOOLEAN /\ torn \in BOOLEAN
  BY Zenon DEF Init
<1>6. miscDev \in BOOLEAN
  BY Zenon DEF Init
<1> QED
  BY <1>1, <1>2, <1>3, <1>4, <1>5, <1>6 DEF Init, TypeOK, LinuxPhases

LEMMA TypeNext == TypeOK /\ ProcInv /\ [Next]_vars => TypeOK'
<1> SUFFICES ASSUME TypeOK, ProcInv, [Next]_vars PROVE TypeOK'
  OBVIOUS
<1> USE DEF TypeOK
<1>1. CASE LKAndroid
  BY <1>1 DEF LKAndroid, durable, history
<1>2. CASE LKRollback
  BY <1>2, BlockTypes, SinceTypes DEF LKRollback, history
<1>3. ASSUME LKCountDown PROVE misc' \in Block /\ since' \in Since
  <2>1. misc' \in Block
    BY <1>3 DEF LKCountDown, Block
  <2>2. since' \in Since
    BY <1>3, IncType DEF LKCountDown, Since
  <2> QED
    BY <2>1, <2>2
<1>4. CASE LKLinux
  BY <1>4, <1>3 DEF LKLinux, history, LinuxPhases
<1>5. CASE LKAborted
  BY <1>5, <1>3 DEF LKAborted, boot, history
<1>6. ASSUME RestoreAndroid PROVE misc' \in Block /\ since' \in Since
  BY <1>6, BlockTypes, SinceTypes DEF RestoreAndroid
<1>7. CASE CountBoot
  <2>1. CountedTries \in 0..MaxBoots
    BY IncType DEF CountedTries
  <2> QED
    BY <1>7, <2>1 DEF CountBoot, history, LinuxPhases
<1>8. CASE BackstopClear
  BY <1>8 DEF BackstopClear, history, LinuxPhases
<1>9. CASE BackstopRestore
  BY <1>9, <1>6 DEF BackstopRestore, history
<1>10. CASE EnterLinux
  <2>1. bootOk' \in BOOLEAN
    BY <1>10, Zenon DEF EnterLinux
  <2> QED
    BY <1>10, <1>6, <2>1 DEF EnterLinux, history, LinuxPhases
<1>11. CASE NoRoot
  BY <1>11, <1>6 DEF NoRoot, history, LinuxPhases
<1>22. CASE RestoreFails
  <2>1. bootOk' \in BOOLEAN /\ torn' \in BOOLEAN
    BY <1>22, Zenon DEF RestoreFails
  <2>2. phase' \in {"off", "linux", "rescue"}
    BY <1>22, Zenon DEF RestoreFails
  <2>3. UNCHANGED <<durable, system, miscDev, ran, healthy, proc, holder, os, androidChosen,
                    lockHeld>>
    BY <1>22, Zenon DEF RestoreFails
  <2> QED
    BY <2>1, <2>2, <2>3 DEF durable, LinuxPhases
<1>12. CASE RescueTimer
  BY <1>12 DEF RescueTimer, durable, history
<1>13. CASE ToAndroid
  <2>1. lockHeld' \in BOOLEAN
    BY <1>13, Zenon DEF ToAndroid
  <2> QED
    BY <1>13, <2>1, BlockTypes, SinceTypes DEF ToAndroid
<1>14. CASE ArmFromAndroid
  BY <1>14, BlockTypes, SinceTypes DEF ArmFromAndroid, history
<1>15. CASE PowerCut
  BY <1>15, IdleType, ZenonT(30) DEF PowerCut, durable, OsIdle, Word
<1>16. CASE BreakDown
  <2>1. healthy' \in BOOLEAN
    BY <1>16, Zenon DEF BreakDown
  <2> QED
    BY <1>16, <2>1 DEF BreakDown, durable, history
<1>17. ASSUME NEW p \in Procs, NextBoot(p) PROVE TypeOK'
  <2>0. proc[p] \in Proc
    OBVIOUS
  <2>1. CASE Start(p)
    <3>1. PICK c \in Commands, n \in 1..MaxAttempts :
             Step(p, [Idle EXCEPT !.pc = "wait", !.cmd = c, !.arg = n])
      BY Zenon, <2>1 DEF Start
    <3>2. [Idle EXCEPT !.pc = "wait", !.cmd = c, !.arg = n] \in Proc
      BY Zenon, IdleType DEF Proc, Pcs, Commanding
    <3>3. proc' \in [Procs -> Proc]
      BY <3>1, <3>2, StepType
    <3> QED
      BY <2>1, <3>3 DEF Start, durable, boot, history
  <2>2. CASE BootOk(p)
    <3>1. [Idle EXCEPT !.pc = "wait", !.cmd = "rearm"] \in Proc
      BY Zenon, IdleType DEF Proc, Pcs, Commanding
    <3>2. proc' \in [Procs -> Proc]
      BY <2>2, <3>1, StepType DEF BootOk
    <3> QED
      BY <2>2, <3>2 DEF BootOk, history
  <2>3. CASE TakeLock(p)
    <3>1. [proc[p] EXCEPT !.pc = "begin"] \in Proc
      BY <2>0 DEF Proc, Pcs
    <3>2. proc' \in [Procs -> Proc]
      BY <2>3, <3>1, StepType DEF TakeLock
    <3> QED
      BY <2>3, <3>2 DEF TakeLock, durable, boot
  <2>4. CASE LockTimeout(p) \/ PairMismatch(p)
    BY <2>4, EndType DEF LockTimeout, PairMismatch, Exit, durable, boot, history
  <2>5. CASE Begin(p)
    <3> DEFINE c == proc[p].cmd
               r == [proc[p] EXCEPT
                       !.pc = IF c = "android" THEN "write"
                              ELSE IF c \in {"linux", "lock"} THEN "arm" ELSE "decide",
                       !.blk = AndroidBlock]
    <3>1. r \in Proc
      BY Zenon, <2>0, BlockTypes DEF Proc, Pcs
    <3>2. Step(p, r)
      BY <2>5 DEF Begin
    <3>3. proc' \in [Procs -> Proc]
      BY <3>1, <3>2, StepType
    <3>4. attempts' \in 0..MaxAttempts
      BY <2>0, <2>5 DEF Begin, Proc
    <3>5. bootLock' \in BOOLEAN
      <4>1. bootLock' = TRUE \/ bootLock' = FALSE \/ bootLock' = bootLock
        BY <2>5, Zenon DEF Begin
      <4> QED
        BY <4>1, Zenon
    <3>6. bootTries' \in 0..MaxBoots
      BY <2>5 DEF Begin
    <3> QED
      <4>1. UNCHANGED <<misc, since, conf, bootOs, image, boot, holder, os, history>>
        BY <2>5 DEF Begin
      <4> QED
        BY <4>1, <3>3, <3>4, <3>5, <3>6 DEF boot, history
  <2>6. CASE Decide(p)
    <3>1. [proc[p] EXCEPT !.pc = "arm"] \in Proc
      BY <2>0 DEF Proc, Pcs
    <3>2. proc' \in [Procs -> Proc] /\ holder' \in Procs \cup {NoProc}
      BY <2>6, <3>1, StepType, EndType DEF Decide, GoOn, Exit
    <3> QED
      BY <2>6, <3>2 DEF Decide, durable, boot, history
  <2>7. CASE Arm(p)
    <3> DEFINE r == [proc[p] EXCEPT !.pc = "write", !.arg = IF CanRebuild THEN Attempts ELSE 1,
                       !.blk = IF CanRebuild
                               THEN LinuxBlock(Attempts, bootLock /\ proc[p].cmd # "trial")
                               ELSE OneShot]
    <3>0. /\ r.blk \in Block
          /\ (IF CanRebuild THEN Attempts ELSE 1) \in 1..MaxAttempts
      <4>1. (bootLock /\ proc[p].cmd # "trial") \in BOOLEAN
        BY Zenon
      <4>2. /\ LinuxBlock(Attempts, bootLock /\ proc[p].cmd # "trial") \in Block
            /\ Attempts \in 1..MaxAttempts
        BY Zenon, <4>1, BlockTypes, AttemptsType
      <4>3. r.blk = IF CanRebuild
                    THEN LinuxBlock(Attempts, bootLock /\ proc[p].cmd # "trial")
                    ELSE OneShot
        BY <2>0 DEF Proc
      <4>4. CASE CanRebuild
        BY <4>2, <4>3, <4>4
      <4>5. CASE ~CanRebuild
        BY <4>3, <4>5, BlockTypes
      <4> QED
        BY <4>4, <4>5
    <3>1. r \in Proc
      BY Zenon, <2>0, <3>0 DEF Proc, Pcs
    <3>2. Step(p, r)
      BY <2>7 DEF Arm
    <3>3. proc' \in [Procs -> Proc]
      BY <3>1, <3>2, StepType
    <3> QED
      BY <2>7, <3>3 DEF Arm, boot, history
  <2>8. CASE WriteMisc(p)
    <3>1. misc' \in Block /\ since' \in Since
      BY <2>0, <2>8, SinceTypes DEF WriteMisc, PutBlock, Proc
    <3>2. [proc[p] EXCEPT !.pc = "conf", !.old = misc, !.oldSince = since] \in Proc
      BY Zenon, <2>0 DEF Proc, Pcs
    <3>3. proc' \in [Procs -> Proc] /\ holder' \in Procs \cup {NoProc}
      BY <2>8, <3>2, StepType, EndType DEF WriteMisc, Done
    <3> QED
      BY <2>8, <3>1, <3>3 DEF WriteMisc, boot, history
  <2>9. CASE WriteFails(p)
    BY <2>9, EndType DEF WriteFails, Exit, durable, boot, history
  <2>15. CASE VerifyFails(p)
    <3>1. misc' \in Block /\ since' \in Since
      BY <2>0, <2>15, SinceTypes DEF VerifyFails, PutBlock, Proc
    <3>2. proc' \in [Procs -> Proc] /\ holder' \in Procs \cup {NoProc}
      BY <2>15, EndType DEF VerifyFails, Exit
    <3>3. torn' \in BOOLEAN
      BY Zenon, <2>15 DEF VerifyFails
    <3> QED
      BY <2>15, <3>1, <3>2, <3>3 DEF VerifyFails, boot
  <2>10. CASE SetConf(p)
    <3>1. proc' \in [Procs -> Proc] /\ holder' \in Procs \cup {NoProc}
      BY <2>10, EndType DEF SetConf, Done
    <3>2. androidChosen' \in BOOLEAN /\ lockHeld' \in BOOLEAN /\ torn' \in BOOLEAN
      BY <2>10, Zenon DEF SetConf
    <3>3. conf' \in [Systems -> Word]
      <4>1. Pending(p) \in Word
        BY <2>10 DEF SetConf, Pending, Word, ProcInv
      <4> QED
        BY <2>10, <4>1 DEF SetConf
    <3> QED
      BY <2>10, <3>1, <3>2, <3>3 DEF SetConf, boot
  <2>11. CASE SetConfFails(p)
    <3>1. [proc[p] EXCEPT !.pc = "undo"] \in Proc
      BY <2>0 DEF Proc, Pcs
    <3>2. proc' \in [Procs -> Proc] /\ holder' \in Procs \cup {NoProc}
      BY <2>11, <3>1, StepType DEF SetConfFails, GoOn
    <3> QED
      BY <2>11, <3>2 DEF SetConfFails, durable, boot, history
  <2>12. CASE PutBack(p)
    <3>1. misc' \in Block /\ since' \in Since
      BY <2>0, <2>12 DEF PutBack, Proc
    <3>2. proc' \in [Procs -> Proc] /\ holder' \in Procs \cup {NoProc}
      BY <2>12, EndType DEF PutBack, Exit
    <3> QED
      BY <2>12, <3>1, <3>2 DEF PutBack, boot, history
  <2>13. CASE PutBackFails(p)
    <3>1. misc' \in Block /\ since' \in Since
      BY <2>0, <2>13 DEF PutBackFails, Proc
    <3>2. proc' \in [Procs -> Proc] /\ holder' \in Procs \cup {NoProc}
      BY <2>13, EndType DEF PutBackFails, Exit
    <3>3. torn' \in BOOLEAN
      BY Zenon, <2>13 DEF PutBackFails
    <3> QED
      BY <2>13, <3>1, <3>2, <3>3 DEF PutBackFails, boot
  <2>14. CASE Flash(p)
    <3>1. proc' \in [Procs -> Proc]
      BY <2>14, IdleType, StepType DEF Flash
    <3> QED
      BY <2>14, <3>1 DEF Flash, history
  <2> QED
    BY Zenon, <1>17, <2>1, <2>2, <2>3, <2>4, <2>5, <2>6, <2>7, <2>8, <2>9, <2>10,
       <2>11, <2>12, <2>13, <2>14, <2>15 DEF NextBoot
<1>18. CASE OsStart
  BY <1>18 DEF OsStart, durable, boot, history
<1>19. CASE OsCarry
  BY <1>19 DEF OsCarry, boot, history
<1>20. CASE OsChoose
  BY <1>20 DEF OsChoose, OsIdle, Word, boot, history
<1>21. CASE UNCHANGED vars
  BY <1>21 DEF vars, durable, boot, history
<1> QED
  BY Zenon, <1>1, <1>2, <1>4, <1>5, <1>7, <1>8, <1>9, <1>10, <1>11, <1>12, <1>13, <1>14,
     <1>15, <1>16, <1>17, <1>18, <1>19, <1>20, <1>21, <1>22
     DEF Next, LK, Initramfs, Os

\* Every variable of the boot control keeps its type, in every interleaving
\* of LK, the initramfs, mu300-next-boot, mu300-os and power cuts.
THEOREM BootTypeCorrect == Spec => []TypeOK
<1>1. Init => TypeOK /\ ProcInv
  BY TypeInit, ProcInit
<1>2. (TypeOK /\ ProcInv) /\ [Next]_vars => (TypeOK /\ ProcInv)'
  BY TypeNext, ProcNext
<1> QED
  BY <1>1, <1>2, PTL DEF Spec
=============================================================================
