--------------------------- MODULE CpuVoltageProofs ---------------------------
(***************************************************************************)
(* Theorems about CpuVoltage, for every set of offsets.                    *)
(*                                                                         *)
(* None of the properties is inductive.  What a crash finds on the disk    *)
(* depends on what the driver holds in each phase of the boot (DriverInv), *)
(* on which files the guard has written so far (ArmInv), on what the       *)
(* services may still write (RunInv) and on what the user may have asked   *)
(* for meanwhile (SeenInv); IInv is the four with TypeOK.  EarnInv and     *)
(* BadInv add what the trial and the crash rule need.                      *)
(***************************************************************************)
EXTENDS CpuVoltage, TLAPS

USE ValuesAssumption, DriverAssumption, ChoiceAssumption
    DEF Values, DriverStates, disk, driver, history

(***************************************************************************)
(* The inductive invariants.  DriverInv: what the driver holds, by phase.   *)
(***************************************************************************)
Before == {"look", "choose", "arm", "write", "stock"}
Rejecting == {"clear", "marks", "disarm"}
Alive == {"up", "stopping"}

DriverInv ==
    /\ phase = "off" => dstate = "absent" /\ dreq = Stock /\ late = "no"
    /\ phase \in Before => dreq = Stock /\ dstate # "queued" /\ late = "no"
    /\ phase = "rescue" => dreq = Stock
    /\ phase = "wait" => dreq = want /\ dstate \in {"queued", "applied", "failed"} /\ late
       = "no"
    /\ phase = "look" => dstate \in DriverAt \cup {"waiting", "disabled"}
    /\ dapplied \in {Stock, dreq}
    /\ dstate \notin {"applied", "failed"} => late = "no"
    /\ dstate = "queued" => dapplied = Stock
    /\ dreq # Stock => dstate \in {"queued", "applied", "failed"}

(* ArmInv: the armed mark of the value under way, until a cut or a reject.  *)
ArmInv ==
    /\ armed.val = None => armed = NotArmed
    /\ phase = "arm" => want \in Offsets /\ request = want /\ armed = NotArmed
    /\ phase \in {"write", "wait"} => /\ want \in Offsets /\ request = want
                                      /\ armed.val = want /\ ~armed.up
    /\ phase \in Rejecting /\ dreq # Stock => armed.val = dreq /\ ~armed.up
    /\ phase \in {"marks", "disarm"} => request = Stock

(* RunInv: the commands and services of the running system.                 *)
RunInv ==
    /\ ten => phase \in Alive
    /\ cmd = "marks" => phase \in Alive /\ runs = 0
    /\ mark.pc # "idle" => /\ phase \in Alive /\ ten /\ dstate = "applied"
                         /\ mark.val = dapplied /\ dapplied # Stock

(* SeenInv: what a crash of the running system would find.                  *)
SeenInv ==
    /\ phase \in Rejecting => late # "asked"
    /\ phase \in Rejecting /\ dapplied # Stock /\ dstate = "applied" => late = "yes"
    /\ phase = "up" /\ dapplied # Stock /\ dstate = "applied" /\ late = "no" => armed.val
       = dapplied
    /\ phase = "up" /\ dapplied # Stock => armed.val = dapplied \/ request # dapplied \/
       late = "asked"
    /\ phase \in Alive /\ dreq # Stock /\ dstate = "queued" => armed = NotArmed
    /\ phase = "up" /\ dapplied # Stock /\ armed.up => ten
    /\ phase \in Alive /\ dapplied # Stock /\ dstate = "failed" => armed = NotArmed

(* EarnInv: a good mark was earned, and a second boot needs one.            *)
EarnInv ==
    /\ good \in earned \cup {None}
    /\ ten /\ dapplied # Stock /\ armed.val = dapplied => dapplied \in earned
    /\ mark.pc # "idle" => mark.val \in earned
    /\ runs >= 1 => request \notin Offsets \/ request \in earned \/ trial = request
    /\ phase \in {"arm", "write"} => trial = want \/ want \in earned
    /\ phase \in {"arm", "write"} /\ runs >= 1 => want \in earned
    /\ phase \in Alive /\ runs >= 1 /\ dreq # Stock /\ request \in Offsets => request = dreq
    /\ runs = 2 /\ dreq # Stock => dreq \in earned

(* BadInv: a crashed value is no longer asked for, or is about to be taken  *)
(* back because its armed mark is still there.                              *)
BadInv ==
    /\ dreq \notin bad
    /\ \A v \in bad : \/ request # v
                      \/ /\ phase \in {"off", "look", "choose", "clear", "rescue"}
                         /\ armed.val = v /\ ~(armed.up /\ keep)


(* The initial files and registers are of their types.                     *)
LEMMA TypeInit == Init => TypeOK
<1> SUFFICES ASSUME Init PROVE TypeOK
  OBVIOUS
<1>1. keep \in BOOLEAN /\ ten \in BOOLEAN /\ skipped \in BOOLEAN
  BY Zenon DEF Init
<1>2. armed \in [val : Offsets \cup {None}, up : BOOLEAN]
  BY DEF Init, NotArmed
<1>3. mark \in [pc : {"idle", "good", "trial", "up"}, val : Offsets \cup {None}]
  BY DEF Init, NoMark
<1> QED
  BY <1>1, <1>2, <1>3 DEF Init, TypeOK, Guarding

(* Every step keeps the types (the value Arm arms is an offset).           *)
LEMMA TypeNext ==
    ASSUME TypeOK, ArmInv, [Next]_vars
    PROVE  TypeOK'
<1>1. CASE PowerOn
  <2>1. ten' \in BOOLEAN
    BY <1>1, Zenon DEF PowerOn
  <2> QED
    BY <1>1, <2>1 DEF PowerOn, TypeOK, Guarding
<1>2. CASE Probe
  BY <1>2 DEF Probe, TypeOK, Guarding
<1>3. CASE StartWork
  BY <1>3 DEF StartWork, TypeOK, Guarding
<1>4. CASE StartTimeout
  BY <1>4 DEF StartTimeout, TypeOK, Guarding
<1>5. CASE Skip
  <2>1. skipped' \in BOOLEAN
    BY <1>5, Zenon DEF Skip, TypeOK
  <2>2. /\ phase' = "up"
        /\ UNCHANGED <<disk, driver, want, ten, cmd, mark, bad, runs, earned, late>>
    BY <1>5 DEF Skip
  <2> QED
    BY <2>1, <2>2 DEF TypeOK, Guarding
<1>6. CASE RescueStock
  BY <1>6 DEF RescueStock, VoltageWritten, TypeOK, Guarding
<1>7. CASE Look
  BY <1>7 DEF Look, Kept, NotArmed, TypeOK, Guarding
<1>8. CASE ChooseOff
  BY <1>8 DEF ChooseOff, TypeOK, Guarding
<1>9. CASE ChooseRun
  BY <1>9 DEF ChooseRun, MayRun, TypeOK, Guarding
<1>10. CASE ChooseReject
  BY <1>10 DEF ChooseReject, TypeOK, Guarding
<1>11. CASE RejectRequest
  BY <1>11 DEF RejectRequest, TypeOK, Guarding
<1>12. CASE RejectMarks
  BY <1>12 DEF RejectMarks, TypeOK, Guarding
<1>13. CASE RejectArmed
  BY <1>13 DEF RejectArmed, NotArmed, TypeOK, Guarding
<1>14. CASE Arm
  <2>1. want \in Offsets
    BY <1>14 DEF Arm, ArmInv
  <2>2. armed' \in [val : Offsets \cup {None}, up : BOOLEAN]
    <3>1. [val |-> want, up |-> FALSE] \in [val : Offsets \cup {None}, up : BOOLEAN]
      BY <2>1
    <3>2. NotArmed \in [val : Offsets \cup {None}, up : BOOLEAN]
      BY DEF NotArmed
    <3>3. armed' \in {[val |-> want, up |-> FALSE], NotArmed}
      BY <1>14, Zenon DEF Arm
    <3> QED
      BY <3>1, <3>2, <3>3, Zenon
  <2>3. phase' \in {"write", "stock"}
        /\ UNCHANGED <<request, trial, good, keep, driver, want, ten, cmd, mark, history>>
    BY <1>14 DEF Arm
  <2> QED
    BY <2>2, <2>3 DEF TypeOK, Guarding
<1>15. CASE Write
  BY <1>15 DEF Write, VoltageWritten, TypeOK, Guarding
<1>16. CASE Wait
  BY <1>16 DEF Wait, TypeOK, Guarding
<1>17. CASE StockCall
  BY <1>17 DEF StockCall, VoltageWritten, TypeOK, Guarding
<1>18. CASE TenMinutes
  BY <1>18 DEF TenMinutes, TypeOK, Guarding
<1>19. CASE VoltageWrite
  <2>1. request' \in Values /\ bad' \subseteq Offsets
    BY <1>19 DEF VoltageWrite, TypeOK
  <2>2. late' \in {"no", "yes", "asked"}
    BY <1>19 DEF VoltageWrite, TypeOK
  <2>3. cmd' = "marks" /\ runs' = 0
        /\ UNCHANGED <<trial, good, armed, keep, driver, phase, want, ten, mark, earned,
                       skipped>>
    BY <1>19 DEF VoltageWrite
  <2> QED
    BY <2>1, <2>2, <2>3 DEF TypeOK
<1>20. CASE VoltageMarks
  BY <1>20 DEF VoltageMarks, TypeOK, Guarding
<1>21. CASE VoltageKeepGood
  BY <1>21 DEF VoltageKeepGood, TypeOK, Guarding
<1>22. CASE MarkGood
  BY <1>22 DEF MarkGood, TypeOK, Guarding
<1>23. CASE MarkGoodMark
  BY <1>23 DEF MarkGoodMark, TypeOK, Guarding
<1>24. CASE MarkGoodTrial
  BY <1>24 DEF MarkGoodTrial, TypeOK, Guarding
<1>25. CASE MarkGoodUp
  BY <1>25 DEF MarkGoodUp, NoMark, TypeOK, Guarding
<1>26. CASE VoltageShutdown
  BY <1>26 DEF VoltageShutdown, NotArmed, TypeOK, Guarding
<1>27. CASE End
  BY <1>27, ZenonT(30) DEF End, NoMark, TypeOK, Guarding
<1>28. CASE UNCHANGED vars
  BY <1>28 DEF TypeOK, Guarding, vars
<1> QED
  BY <1>1, <1>2, <1>3, <1>4, <1>5, <1>6, <1>7, <1>8, <1>9, <1>10, <1>11, <1>12, <1>13,
     <1>14, <1>15, <1>16, <1>17, <1>18, <1>19, <1>20, <1>21, <1>22, <1>23, <1>24, <1>25,
     <1>26, <1>27, <1>28 DEF Next, Guard, Running

(* Every step keeps what the driver may hold in each phase.                *)
LEMMA DriverNext ==
    ASSUME TypeOK, ArmInv, DriverInv, [Next]_vars
    PROVE  DriverInv'
<1>1. CASE PowerOn
  BY <1>1 DEF PowerOn, TypeOK, ArmInv, DriverInv, Before
<1>2. CASE Probe
  <2>1. CASE dstate' = "waiting"
    BY <1>2, <2>1 DEF Probe, TypeOK, ArmInv, DriverInv, Before
  <2>2. CASE dstate' = "disabled"
    BY <1>2, <2>2 DEF Probe, TypeOK, ArmInv, DriverInv, Before
  <2> QED
    BY <1>2, <2>1, <2>2 DEF Probe
<1>3. CASE StartWork
  BY <1>3 DEF StartWork, TypeOK, ArmInv, DriverInv, Before
<1>4. CASE StartTimeout
  BY <1>4 DEF StartTimeout, TypeOK, ArmInv, DriverInv, Before
<1>5. CASE Skip
  BY <1>5 DEF Skip, TypeOK, ArmInv, DriverInv, Before
<1>6. CASE RescueStock
  BY <1>6 DEF RescueStock, VoltageWritten, TypeOK, ArmInv, DriverInv, Before
<1>7. CASE Look
  BY <1>7 DEF Look, Kept, NotArmed, TypeOK, ArmInv, DriverInv, Before
<1>8. CASE ChooseOff
  BY <1>8 DEF ChooseOff, TypeOK, ArmInv, DriverInv, Before
<1>9. CASE ChooseRun
  BY <1>9 DEF ChooseRun, MayRun, TypeOK, ArmInv, DriverInv, Before
<1>10. CASE ChooseReject
  BY <1>10 DEF ChooseReject, TypeOK, ArmInv, DriverInv, Before
<1>11. CASE RejectRequest
  BY <1>11 DEF RejectRequest, TypeOK, ArmInv, DriverInv, Before
<1>12. CASE RejectMarks
  BY <1>12 DEF RejectMarks, TypeOK, ArmInv, DriverInv, Before
<1>13. CASE RejectArmed
  BY <1>13 DEF RejectArmed, NotArmed, TypeOK, ArmInv, DriverInv, Before
<1>14. CASE Arm
  BY <1>14 DEF Arm, NotArmed, TypeOK, ArmInv, DriverInv, Before
<1>15. CASE Write
  BY <1>15 DEF Write, VoltageWritten, TypeOK, ArmInv, DriverInv, Before
<1>16. CASE Wait
  BY <1>16 DEF Wait, TypeOK, ArmInv, DriverInv, Before
<1>17. CASE StockCall
  BY <1>17 DEF StockCall, VoltageWritten, TypeOK, ArmInv, DriverInv, Before
<1>18. CASE TenMinutes
  BY <1>18 DEF TenMinutes, TypeOK, ArmInv, DriverInv, Before
<1>19. CASE VoltageWrite
  BY <1>19 DEF VoltageWrite, TypeOK, ArmInv, DriverInv, Before
<1>20. CASE VoltageMarks
  BY <1>20 DEF VoltageMarks, TypeOK, ArmInv, DriverInv, Before
<1>21. CASE VoltageKeepGood
  BY <1>21 DEF VoltageKeepGood, TypeOK, ArmInv, DriverInv, Before
<1>22. CASE MarkGood
  BY <1>22 DEF MarkGood, TypeOK, ArmInv, DriverInv, Before
<1>23. CASE MarkGoodMark
  BY <1>23 DEF MarkGoodMark, TypeOK, ArmInv, DriverInv, Before
<1>24. CASE MarkGoodTrial
  BY <1>24 DEF MarkGoodTrial, TypeOK, ArmInv, DriverInv, Before
<1>25. CASE MarkGoodUp
  BY <1>25 DEF MarkGoodUp, NoMark, TypeOK, ArmInv, DriverInv, Before
<1>26. CASE VoltageShutdown
  BY <1>26 DEF VoltageShutdown, NotArmed, TypeOK, ArmInv, DriverInv, Before
<1>27. CASE End
  BY <1>27 DEF End, NoMark, TypeOK, ArmInv, DriverInv, Before
<1>28. CASE UNCHANGED vars
  BY <1>28 DEF TypeOK, ArmInv, DriverInv, Before, vars
<1> QED
  BY <1>1, <1>2, <1>3, <1>4, <1>5, <1>6, <1>7, <1>8, <1>9, <1>10, <1>11, <1>12, <1>13,
     <1>14, <1>15, <1>16, <1>17, <1>18, <1>19, <1>20, <1>21, <1>22, <1>23, <1>24, <1>25,
     <1>26, <1>27, <1>28 DEF Next, Guard, Running

(* Every step keeps the armed mark of the value under way.                 *)
LEMMA ArmNext ==
    ASSUME TypeOK, DriverInv, ArmInv, RunInv, [Next]_vars
    PROVE  ArmInv'
<1>1. CASE PowerOn
  BY <1>1 DEF PowerOn, TypeOK, DriverInv, ArmInv, RunInv, Alive, NotArmed, Before, Rejecting
<1>2. CASE Probe
  BY <1>2 DEF Probe, TypeOK, DriverInv, ArmInv, RunInv, Alive, NotArmed, Before, Rejecting
<1>3. CASE StartWork
  BY <1>3 DEF StartWork, TypeOK, DriverInv, ArmInv, RunInv, Alive, NotArmed, Before, Rejecting
<1>4. CASE StartTimeout
  BY <1>4 DEF StartTimeout, TypeOK, DriverInv, ArmInv, RunInv, Alive, NotArmed, Before,
     Rejecting
<1>5. CASE Skip
  BY <1>5 DEF Skip, TypeOK, DriverInv, ArmInv, RunInv, Alive, NotArmed, Before, Rejecting
<1>6. CASE RescueStock
  BY <1>6 DEF RescueStock, VoltageWritten, TypeOK, DriverInv, ArmInv, RunInv, Alive,
     NotArmed, Before, Rejecting
<1>7. CASE Look
  BY Zenon, <1>7 DEF Look, Kept, NotArmed, TypeOK, DriverInv, ArmInv, RunInv, Alive, Before, Rejecting
<1>8. CASE ChooseOff
  BY <1>8 DEF ChooseOff, TypeOK, DriverInv, ArmInv, RunInv, Alive, NotArmed, Before, Rejecting
<1>9. CASE ChooseRun
  BY <1>9 DEF ChooseRun, MayRun, TypeOK, DriverInv, ArmInv, RunInv, Alive, NotArmed,
     Before, Rejecting
<1>10. CASE ChooseReject
  BY <1>10 DEF ChooseReject, TypeOK, DriverInv, ArmInv, RunInv, Alive, NotArmed, Before,
     Rejecting
<1>11. CASE RejectRequest
  BY <1>11 DEF RejectRequest, TypeOK, DriverInv, ArmInv, RunInv, Alive, NotArmed, Before,
     Rejecting
<1>12. CASE RejectMarks
  BY <1>12 DEF RejectMarks, TypeOK, DriverInv, ArmInv, RunInv, Alive, NotArmed, Before,
     Rejecting
<1>13. CASE RejectArmed
  BY <1>13 DEF RejectArmed, NotArmed, TypeOK, DriverInv, ArmInv, RunInv, Alive, Before,
     Rejecting
<1>14. CASE Arm
  BY <1>14 DEF Arm, NotArmed, TypeOK, DriverInv, ArmInv, RunInv, Alive, Before, Rejecting
<1>15. CASE Write
  BY <1>15 DEF Write, VoltageWritten, TypeOK, DriverInv, ArmInv, RunInv, Alive, NotArmed,
     Before, Rejecting
<1>16. CASE Wait
  BY <1>16 DEF Wait, TypeOK, DriverInv, ArmInv, RunInv, Alive, NotArmed, Before, Rejecting
<1>17. CASE StockCall
  BY <1>17 DEF StockCall, VoltageWritten, TypeOK, DriverInv, ArmInv, RunInv, Alive,
     NotArmed, Before, Rejecting
<1>18. CASE TenMinutes
  BY <1>18 DEF TenMinutes, TypeOK, DriverInv, ArmInv, RunInv, Alive, NotArmed, Before, Rejecting
<1>19. CASE VoltageWrite
  BY <1>19 DEF VoltageWrite, TypeOK, DriverInv, ArmInv, RunInv, Alive, NotArmed, Before,
     Rejecting
<1>20. CASE VoltageMarks
  BY <1>20 DEF VoltageMarks, TypeOK, DriverInv, ArmInv, RunInv, Alive, NotArmed, Before,
     Rejecting
<1>21. CASE VoltageKeepGood
  BY <1>21 DEF VoltageKeepGood, TypeOK, DriverInv, ArmInv, RunInv, Alive, NotArmed,
     Before, Rejecting
<1>22. CASE MarkGood
  BY <1>22 DEF MarkGood, TypeOK, DriverInv, ArmInv, RunInv, Alive, NotArmed, Before, Rejecting
<1>23. CASE MarkGoodMark
  BY <1>23 DEF MarkGoodMark, TypeOK, DriverInv, ArmInv, RunInv, Alive, NotArmed, Before,
     Rejecting
<1>24. CASE MarkGoodTrial
  BY <1>24 DEF MarkGoodTrial, TypeOK, DriverInv, ArmInv, RunInv, Alive, NotArmed, Before,
     Rejecting
<1>25. CASE MarkGoodUp
  BY <1>25 DEF MarkGoodUp, NoMark, TypeOK, DriverInv, ArmInv, RunInv, Alive, NotArmed,
     Before, Rejecting
<1>26. CASE VoltageShutdown
  BY <1>26 DEF VoltageShutdown, NotArmed, TypeOK, DriverInv, ArmInv, RunInv, Alive,
     Before, Rejecting
<1>27. CASE End
  BY <1>27 DEF End, NoMark, TypeOK, DriverInv, ArmInv, RunInv, Alive, NotArmed, Before,
     Rejecting
<1>28. CASE UNCHANGED vars
  BY SMTT(20), <1>28 DEF TypeOK, DriverInv, ArmInv, RunInv, Alive, NotArmed, Before, Rejecting, vars
<1> QED
  BY <1>1, <1>2, <1>3, <1>4, <1>5, <1>6, <1>7, <1>8, <1>9, <1>10, <1>11, <1>12, <1>13,
     <1>14, <1>15, <1>16, <1>17, <1>18, <1>19, <1>20, <1>21, <1>22, <1>23, <1>24, <1>25,
     <1>26, <1>27, <1>28 DEF Next, Guard, Running

(* Every step keeps what the commands and mark-good rely on.               *)
LEMMA RunNext ==
    ASSUME TypeOK, DriverInv, RunInv, SeenInv, [Next]_vars
    PROVE  RunInv'
<1>1. CASE PowerOn
  BY <1>1 DEF PowerOn, TypeOK, DriverInv, RunInv, SeenInv, NotArmed, Alive
<1>2. CASE Probe
  BY <1>2 DEF Probe, TypeOK, DriverInv, RunInv, SeenInv, NotArmed, Alive
<1>3. CASE StartWork
  BY <1>3 DEF StartWork, TypeOK, DriverInv, RunInv, SeenInv, NotArmed, Alive
<1>4. CASE StartTimeout
  BY <1>4 DEF StartTimeout, TypeOK, DriverInv, RunInv, SeenInv, NotArmed, Alive
<1>5. CASE Skip
  BY <1>5 DEF Skip, TypeOK, DriverInv, RunInv, SeenInv, NotArmed, Alive
<1>6. CASE RescueStock
  BY <1>6 DEF RescueStock, VoltageWritten, TypeOK, DriverInv, RunInv, SeenInv, NotArmed, Alive
<1>7. CASE Look
  BY <1>7 DEF Look, Kept, NotArmed, TypeOK, DriverInv, RunInv, SeenInv, Alive
<1>8. CASE ChooseOff
  BY <1>8 DEF ChooseOff, TypeOK, DriverInv, RunInv, SeenInv, NotArmed, Alive
<1>9. CASE ChooseRun
  BY <1>9 DEF ChooseRun, MayRun, TypeOK, DriverInv, RunInv, SeenInv, NotArmed, Alive
<1>10. CASE ChooseReject
  BY <1>10 DEF ChooseReject, TypeOK, DriverInv, RunInv, SeenInv, NotArmed, Alive
<1>11. CASE RejectRequest
  BY <1>11 DEF RejectRequest, TypeOK, DriverInv, RunInv, SeenInv, NotArmed, Alive
<1>12. CASE RejectMarks
  BY <1>12 DEF RejectMarks, TypeOK, DriverInv, RunInv, SeenInv, NotArmed, Alive
<1>13. CASE RejectArmed
  BY <1>13 DEF RejectArmed, NotArmed, TypeOK, DriverInv, RunInv, SeenInv, Alive
<1>14. CASE Arm
  BY <1>14 DEF Arm, NotArmed, TypeOK, DriverInv, RunInv, SeenInv, Alive
<1>15. CASE Write
  BY <1>15 DEF Write, VoltageWritten, TypeOK, DriverInv, RunInv, SeenInv, NotArmed, Alive
<1>16. CASE Wait
  BY <1>16 DEF Wait, TypeOK, DriverInv, RunInv, SeenInv, NotArmed, Alive
<1>17. CASE StockCall
  BY <1>17 DEF StockCall, VoltageWritten, TypeOK, DriverInv, RunInv, SeenInv, NotArmed, Alive
<1>18. CASE TenMinutes
  BY <1>18 DEF TenMinutes, TypeOK, DriverInv, RunInv, SeenInv, NotArmed, Alive
<1>19. CASE VoltageWrite
  BY <1>19 DEF VoltageWrite, TypeOK, DriverInv, RunInv, SeenInv, NotArmed, Alive
<1>20. CASE VoltageMarks
  BY <1>20 DEF VoltageMarks, TypeOK, DriverInv, RunInv, SeenInv, NotArmed, Alive
<1>21. CASE VoltageKeepGood
  BY <1>21 DEF VoltageKeepGood, TypeOK, DriverInv, RunInv, SeenInv, NotArmed, Alive
<1>22. CASE MarkGood
  BY <1>22 DEF MarkGood, TypeOK, DriverInv, RunInv, SeenInv, NotArmed, Alive
<1>23. CASE MarkGoodMark
  BY <1>23 DEF MarkGoodMark, TypeOK, DriverInv, RunInv, SeenInv, NotArmed, Alive
<1>24. CASE MarkGoodTrial
  BY <1>24 DEF MarkGoodTrial, TypeOK, DriverInv, RunInv, SeenInv, NotArmed, Alive
<1>25. CASE MarkGoodUp
  BY <1>25 DEF MarkGoodUp, NoMark, TypeOK, DriverInv, RunInv, SeenInv, NotArmed, Alive
<1>26. CASE VoltageShutdown
  BY <1>26 DEF VoltageShutdown, NotArmed, TypeOK, DriverInv, RunInv, SeenInv, Alive
<1>27. CASE End
  BY <1>27 DEF End, NoMark, TypeOK, DriverInv, RunInv, SeenInv, NotArmed, Alive
<1>28. CASE UNCHANGED vars
  BY <1>28 DEF TypeOK, DriverInv, RunInv, SeenInv, NotArmed, Alive, vars
<1> QED
  BY <1>1, <1>2, <1>3, <1>4, <1>5, <1>6, <1>7, <1>8, <1>9, <1>10, <1>11, <1>12, <1>13,
     <1>14, <1>15, <1>16, <1>17, <1>18, <1>19, <1>20, <1>21, <1>22, <1>23, <1>24, <1>25,
     <1>26, <1>27, <1>28 DEF Next, Guard, Running

(* Every step keeps what a crash of the running system would find.         *)
LEMMA SeenNext ==
    ASSUME TypeOK, DriverInv, ArmInv, RunInv, SeenInv, [Next]_vars
    PROVE  SeenInv'
<1>1. CASE PowerOn
  BY <1>1 DEF PowerOn, TypeOK, DriverInv, ArmInv, RunInv, SeenInv, Before, Rejecting,
     Alive, NotArmed
<1>2. CASE Probe
  BY <1>2 DEF Probe, TypeOK, DriverInv, ArmInv, RunInv, SeenInv, Before, Rejecting, Alive,
     NotArmed
<1>3. CASE StartWork
  BY <1>3 DEF StartWork, TypeOK, DriverInv, ArmInv, RunInv, SeenInv, Before, Rejecting,
     Alive, NotArmed
<1>4. CASE StartTimeout
  BY <1>4 DEF StartTimeout, TypeOK, DriverInv, ArmInv, RunInv, SeenInv, Before, Rejecting,
     Alive, NotArmed
<1>5. CASE Skip
  BY <1>5 DEF Skip, TypeOK, DriverInv, ArmInv, RunInv, SeenInv, Before, Rejecting, Alive,
     NotArmed
<1>6. CASE RescueStock
  BY <1>6 DEF RescueStock, VoltageWritten, TypeOK, DriverInv, ArmInv, RunInv, SeenInv,
     Before, Rejecting, Alive, NotArmed
<1>7. CASE Look
  BY <1>7 DEF Look, Kept, NotArmed, TypeOK, DriverInv, ArmInv, RunInv, SeenInv, Before,
     Rejecting, Alive
<1>8. CASE ChooseOff
  BY <1>8 DEF ChooseOff, TypeOK, DriverInv, ArmInv, RunInv, SeenInv, Before, Rejecting,
     Alive, NotArmed
<1>9. CASE ChooseRun
  BY <1>9 DEF ChooseRun, MayRun, TypeOK, DriverInv, ArmInv, RunInv, SeenInv, Before,
     Rejecting, Alive, NotArmed
<1>10. CASE ChooseReject
  BY <1>10 DEF ChooseReject, TypeOK, DriverInv, ArmInv, RunInv, SeenInv, Before,
     Rejecting, Alive, NotArmed
<1>11. CASE RejectRequest
  BY <1>11 DEF RejectRequest, TypeOK, DriverInv, ArmInv, RunInv, SeenInv, Before,
     Rejecting, Alive, NotArmed
<1>12. CASE RejectMarks
  BY <1>12 DEF RejectMarks, TypeOK, DriverInv, ArmInv, RunInv, SeenInv, Before, Rejecting,
     Alive, NotArmed
<1>13. CASE RejectArmed
  BY <1>13 DEF RejectArmed, NotArmed, TypeOK, DriverInv, ArmInv, RunInv, SeenInv, Before,
     Rejecting, Alive
<1>14. CASE Arm
  BY <1>14 DEF Arm, NotArmed, TypeOK, DriverInv, ArmInv, RunInv, SeenInv, Before,
     Rejecting, Alive
<1>15. CASE Write
  BY <1>15 DEF Write, VoltageWritten, TypeOK, DriverInv, ArmInv, RunInv, SeenInv, Before,
     Rejecting, Alive, NotArmed
<1>16. CASE Wait
  BY <1>16 DEF Wait, TypeOK, DriverInv, ArmInv, RunInv, SeenInv, Before, Rejecting, Alive,
     NotArmed
<1>17. CASE StockCall
  BY <1>17 DEF StockCall, VoltageWritten, TypeOK, DriverInv, ArmInv, RunInv, SeenInv,
     Before, Rejecting, Alive, NotArmed
<1>18. CASE TenMinutes
  BY <1>18 DEF TenMinutes, TypeOK, DriverInv, ArmInv, RunInv, SeenInv, Before, Rejecting,
     Alive, NotArmed
<1>19. CASE VoltageWrite
  BY <1>19 DEF VoltageWrite, TypeOK, DriverInv, ArmInv, RunInv, SeenInv, Before,
     Rejecting, Alive, NotArmed
<1>20. CASE VoltageMarks
  BY <1>20 DEF VoltageMarks, TypeOK, DriverInv, ArmInv, RunInv, SeenInv, Before,
     Rejecting, Alive, NotArmed
<1>21. CASE VoltageKeepGood
  BY <1>21 DEF VoltageKeepGood, TypeOK, DriverInv, ArmInv, RunInv, SeenInv, Before,
     Rejecting, Alive, NotArmed
<1>22. CASE MarkGood
  BY <1>22 DEF MarkGood, TypeOK, DriverInv, ArmInv, RunInv, SeenInv, Before, Rejecting,
     Alive, NotArmed
<1>23. CASE MarkGoodMark
  BY <1>23 DEF MarkGoodMark, TypeOK, DriverInv, ArmInv, RunInv, SeenInv, Before,
     Rejecting, Alive, NotArmed
<1>24. CASE MarkGoodTrial
  BY <1>24 DEF MarkGoodTrial, TypeOK, DriverInv, ArmInv, RunInv, SeenInv, Before,
     Rejecting, Alive, NotArmed
<1>25. CASE MarkGoodUp
  BY <1>25 DEF MarkGoodUp, NoMark, TypeOK, DriverInv, ArmInv, RunInv, SeenInv, Before,
     Rejecting, Alive, NotArmed
<1>26. CASE VoltageShutdown
  BY <1>26 DEF VoltageShutdown, NotArmed, TypeOK, DriverInv, ArmInv, RunInv, SeenInv,
     Before, Rejecting, Alive
<1>27. CASE End
  BY <1>27 DEF End, NoMark, TypeOK, DriverInv, ArmInv, RunInv, SeenInv, Before, Rejecting,
     Alive, NotArmed
<1>28. CASE UNCHANGED vars
  BY <1>28 DEF TypeOK, DriverInv, ArmInv, RunInv, SeenInv, Before, Rejecting, Alive,
     NotArmed, vars
<1> QED
  BY <1>1, <1>2, <1>3, <1>4, <1>5, <1>6, <1>7, <1>8, <1>9, <1>10, <1>11, <1>12, <1>13,
     <1>14, <1>15, <1>16, <1>17, <1>18, <1>19, <1>20, <1>21, <1>22, <1>23, <1>24, <1>25,
     <1>26, <1>27, <1>28 DEF Next, Guard, Running

(* Every step keeps the good mark earned, and a second boot behind one.    *)
LEMMA EarnNext ==
    ASSUME TypeOK, DriverInv, ArmInv, RunInv, SeenInv, EarnInv, [Next]_vars
    PROVE  EarnInv'
<1>1. CASE PowerOn
  BY <1>1 DEF PowerOn, TypeOK, DriverInv, ArmInv, RunInv, SeenInv, EarnInv, Before,
     Rejecting, Alive, NotArmed
<1>2. CASE Probe
  BY <1>2 DEF Probe, TypeOK, DriverInv, ArmInv, RunInv, SeenInv, EarnInv, Before,
     Rejecting, Alive, NotArmed
<1>3. CASE StartWork
  BY <1>3 DEF StartWork, TypeOK, DriverInv, ArmInv, RunInv, SeenInv, EarnInv, Before,
     Rejecting, Alive, NotArmed
<1>4. CASE StartTimeout
  BY <1>4 DEF StartTimeout, TypeOK, DriverInv, ArmInv, RunInv, SeenInv, EarnInv, Before,
     Rejecting, Alive, NotArmed
<1>5. CASE Skip
  BY <1>5 DEF Skip, TypeOK, DriverInv, ArmInv, RunInv, SeenInv, EarnInv, Before,
     Rejecting, Alive, NotArmed
<1>6. CASE RescueStock
  BY <1>6 DEF RescueStock, VoltageWritten, TypeOK, DriverInv, ArmInv, RunInv, SeenInv,
     EarnInv, Before, Rejecting, Alive, NotArmed
<1>7. CASE Look
  BY <1>7 DEF Look, Kept, NotArmed, TypeOK, DriverInv, ArmInv, RunInv, SeenInv, EarnInv,
     Before, Rejecting, Alive
<1>8. CASE ChooseOff
  BY <1>8 DEF ChooseOff, TypeOK, DriverInv, ArmInv, RunInv, SeenInv, EarnInv, Before,
     Rejecting, Alive, NotArmed
<1>9. CASE ChooseRun
  BY <1>9, SMTT(30) DEF ChooseRun, MayRun, TypeOK, DriverInv, ArmInv, RunInv, SeenInv, EarnInv,
     Before, Rejecting, Alive, NotArmed
<1>10. CASE ChooseReject
  BY <1>10 DEF ChooseReject, TypeOK, DriverInv, ArmInv, RunInv, SeenInv, EarnInv, Before,
     Rejecting, Alive, NotArmed
<1>11. CASE RejectRequest
  BY <1>11 DEF RejectRequest, TypeOK, DriverInv, ArmInv, RunInv, SeenInv, EarnInv, Before,
     Rejecting, Alive, NotArmed
<1>12. CASE RejectMarks
  BY <1>12 DEF RejectMarks, TypeOK, DriverInv, ArmInv, RunInv, SeenInv, EarnInv, Before,
     Rejecting, Alive, NotArmed
<1>13. CASE RejectArmed
  BY <1>13 DEF RejectArmed, NotArmed, TypeOK, DriverInv, ArmInv, RunInv, SeenInv, EarnInv,
     Before, Rejecting, Alive
<1>14. CASE Arm
  BY <1>14 DEF Arm, NotArmed, TypeOK, DriverInv, ArmInv, RunInv, SeenInv, EarnInv, Before,
     Rejecting, Alive
<1>15. CASE Write
  BY <1>15, SMTT(30) DEF Write, VoltageWritten, TypeOK, DriverInv, ArmInv, RunInv, SeenInv,
     EarnInv, Before, Rejecting, Alive, NotArmed
<1>16. CASE Wait
  BY <1>16 DEF Wait, TypeOK, DriverInv, ArmInv, RunInv, SeenInv, EarnInv, Before,
     Rejecting, Alive, NotArmed
<1>17. CASE StockCall
  BY <1>17 DEF StockCall, VoltageWritten, TypeOK, DriverInv, ArmInv, RunInv, SeenInv,
     EarnInv, Before, Rejecting, Alive, NotArmed
<1>18. CASE TenMinutes
  BY <1>18, SMTT(30) DEF TenMinutes, TypeOK, DriverInv, ArmInv, RunInv, SeenInv, EarnInv,
     Before, Rejecting, Alive, NotArmed
<1>19. CASE VoltageWrite
  BY <1>19, SMTT(30) DEF VoltageWrite, TypeOK, DriverInv, ArmInv, RunInv, SeenInv, EarnInv,
     Before, Rejecting, Alive, NotArmed
<1>20. CASE VoltageMarks
  BY <1>20, SMTT(30) DEF VoltageMarks, TypeOK, DriverInv, ArmInv, RunInv, SeenInv, EarnInv,
     Before, Rejecting, Alive, NotArmed
<1>21. CASE VoltageKeepGood
  BY <1>21 DEF VoltageKeepGood, TypeOK, DriverInv, ArmInv, RunInv, SeenInv, EarnInv,
     Before, Rejecting, Alive, NotArmed
<1>22. CASE MarkGood
  BY <1>22 DEF MarkGood, TypeOK, DriverInv, ArmInv, RunInv, SeenInv, EarnInv, Before,
     Rejecting, Alive, NotArmed
<1>23. CASE MarkGoodMark
  BY <1>23 DEF MarkGoodMark, TypeOK, DriverInv, ArmInv, RunInv, SeenInv, EarnInv, Before,
     Rejecting, Alive, NotArmed
<1>24. CASE MarkGoodTrial
  BY <1>24 DEF MarkGoodTrial, TypeOK, DriverInv, ArmInv, RunInv, SeenInv, EarnInv, Before,
     Rejecting, Alive, NotArmed
<1>25. CASE MarkGoodUp
  BY <1>25, SMTT(30) DEF MarkGoodUp, NoMark, TypeOK, DriverInv, ArmInv, RunInv, SeenInv,
     EarnInv, Before, Rejecting, Alive, NotArmed
<1>26. CASE VoltageShutdown
  BY <1>26, SMTT(30) DEF VoltageShutdown, NotArmed, TypeOK, DriverInv, ArmInv, RunInv, SeenInv,
     EarnInv, Before, Rejecting, Alive
<1>27. CASE End
  BY <1>27 DEF End, NoMark, TypeOK, DriverInv, ArmInv, RunInv, SeenInv, EarnInv, Before,
     Rejecting, Alive, NotArmed
<1>28. CASE UNCHANGED vars
  BY <1>28, SMTT(30) DEF TypeOK, DriverInv, ArmInv, RunInv, SeenInv, EarnInv, Before, Rejecting,
     Alive, NotArmed, vars
<1> QED
  BY <1>1, <1>2, <1>3, <1>4, <1>5, <1>6, <1>7, <1>8, <1>9, <1>10, <1>11, <1>12, <1>13,
     <1>14, <1>15, <1>16, <1>17, <1>18, <1>19, <1>20, <1>21, <1>22, <1>23, <1>24, <1>25,
     <1>26, <1>27, <1>28 DEF Next, Guard, Running

(* Once a boot has passed over an armed mark, that is remembered.          *)
LEMMA SkippedStays == [Next]_vars /\ ~skipped' => ~skipped
BY Zenon DEF Next, Guard, Running, PowerOn, Probe, StartWork, StartTimeout, Skip,
   RescueStock, Look, ChooseOff, ChooseRun, ChooseReject, RejectRequest, RejectMarks,
   RejectArmed, Arm, Write, Wait, StockCall, TenMinutes, VoltageWrite, VoltageMarks,
   VoltageKeepGood, MarkGood, MarkGoodMark, MarkGoodTrial, MarkGoodUp,
   VoltageShutdown, End, vars

(* A crashed value stays dropped, unless the guard passes over its mark.   *)
LEMMA BadNext ==
    ASSUME ~skipped', TypeOK, DriverInv, ArmInv, RunInv, SeenInv, BadInv,
       [Next]_vars
    PROVE  BadInv'
<1>1. CASE PowerOn
  BY <1>1 DEF PowerOn, TypeOK, DriverInv, ArmInv, RunInv, SeenInv, BadInv, Before,
     Rejecting, Alive
<1>2. CASE Probe
  BY <1>2 DEF Probe, TypeOK, DriverInv, ArmInv, RunInv, SeenInv, BadInv, Before,
     Rejecting, Alive
<1>3. CASE StartWork
  BY <1>3 DEF StartWork, TypeOK, DriverInv, ArmInv, RunInv, SeenInv, BadInv, Before,
     Rejecting, Alive
<1>4. CASE StartTimeout
  BY <1>4 DEF StartTimeout, TypeOK, DriverInv, ArmInv, RunInv, SeenInv, BadInv, Before,
     Rejecting, Alive
<1>5. CASE Skip
  BY <1>5 DEF Skip, TypeOK, DriverInv, ArmInv, RunInv, SeenInv, BadInv, Before, Rejecting, Alive
<1>6. CASE RescueStock
  BY <1>6 DEF RescueStock, VoltageWritten, TypeOK, DriverInv, ArmInv, RunInv, SeenInv,
     BadInv, Before, Rejecting, Alive
<1>7. CASE Look
  BY <1>7 DEF Look, Kept, NotArmed, TypeOK, DriverInv, ArmInv, RunInv, SeenInv, BadInv,
     Before, Rejecting, Alive
<1>8. CASE ChooseOff
  BY <1>8 DEF ChooseOff, TypeOK, DriverInv, ArmInv, RunInv, SeenInv, BadInv, Before,
     Rejecting, Alive
<1>9. CASE ChooseRun
  BY <1>9 DEF ChooseRun, MayRun, TypeOK, DriverInv, ArmInv, RunInv, SeenInv, BadInv,
     Before, Rejecting, Alive
<1>10. CASE ChooseReject
  BY <1>10 DEF ChooseReject, TypeOK, DriverInv, ArmInv, RunInv, SeenInv, BadInv, Before,
     Rejecting, Alive
<1>11. CASE RejectRequest
  BY <1>11 DEF RejectRequest, TypeOK, DriverInv, ArmInv, RunInv, SeenInv, BadInv, Before,
     Rejecting, Alive
<1>12. CASE RejectMarks
  BY <1>12 DEF RejectMarks, TypeOK, DriverInv, ArmInv, RunInv, SeenInv, BadInv, Before,
     Rejecting, Alive
<1>13. CASE RejectArmed
  BY <1>13 DEF RejectArmed, NotArmed, TypeOK, DriverInv, ArmInv, RunInv, SeenInv, BadInv,
     Before, Rejecting, Alive
<1>14. CASE Arm
  BY <1>14 DEF Arm, NotArmed, TypeOK, DriverInv, ArmInv, RunInv, SeenInv, BadInv, Before,
     Rejecting, Alive
<1>15. CASE Write
  BY <1>15 DEF Write, VoltageWritten, TypeOK, DriverInv, ArmInv, RunInv, SeenInv, BadInv,
     Before, Rejecting, Alive
<1>16. CASE Wait
  BY <1>16 DEF Wait, TypeOK, DriverInv, ArmInv, RunInv, SeenInv, BadInv, Before,
     Rejecting, Alive
<1>17. CASE StockCall
  BY <1>17, SMTT(30) DEF StockCall, VoltageWritten, TypeOK, DriverInv, ArmInv, RunInv, SeenInv,
     BadInv, Before, Rejecting, Alive
<1>18. CASE TenMinutes
  BY <1>18 DEF TenMinutes, TypeOK, DriverInv, ArmInv, RunInv, SeenInv, BadInv, Before,
     Rejecting, Alive
<1>19. CASE VoltageWrite
  BY <1>19 DEF VoltageWrite, TypeOK, DriverInv, ArmInv, RunInv, SeenInv, BadInv, Before,
     Rejecting, Alive
<1>20. CASE VoltageMarks
  BY <1>20 DEF VoltageMarks, TypeOK, DriverInv, ArmInv, RunInv, SeenInv, BadInv, Before,
     Rejecting, Alive
<1>21. CASE VoltageKeepGood
  BY <1>21 DEF VoltageKeepGood, TypeOK, DriverInv, ArmInv, RunInv, SeenInv, BadInv,
     Before, Rejecting, Alive
<1>22. CASE MarkGood
  BY <1>22 DEF MarkGood, TypeOK, DriverInv, ArmInv, RunInv, SeenInv, BadInv, Before,
     Rejecting, Alive
<1>23. CASE MarkGoodMark
  BY <1>23 DEF MarkGoodMark, TypeOK, DriverInv, ArmInv, RunInv, SeenInv, BadInv, Before,
     Rejecting, Alive
<1>24. CASE MarkGoodTrial
  BY <1>24 DEF MarkGoodTrial, TypeOK, DriverInv, ArmInv, RunInv, SeenInv, BadInv, Before,
     Rejecting, Alive
<1>25. CASE MarkGoodUp
  BY <1>25 DEF MarkGoodUp, NoMark, TypeOK, DriverInv, ArmInv, RunInv, SeenInv, BadInv,
     Before, Rejecting, Alive
<1>26. CASE VoltageShutdown
  BY <1>26 DEF VoltageShutdown, NotArmed, TypeOK, DriverInv, ArmInv, RunInv, SeenInv,
     BadInv, Before, Rejecting, Alive
<1>27. CASE End
  <2>1. phase' = "off" /\ dreq' = Stock /\ UNCHANGED disk
    BY <1>27 DEF End
  <2>2. CASE bad' = bad
    BY <2>1, <2>2 DEF BadInv, TypeOK
  <2>3. CASE bad' # bad
    <3>1. /\ bad' = bad \cup {dapplied} /\ phase # "stopping"
          /\ dapplied # Stock /\ ~(keep /\ ten) /\ late # "asked"
      BY <1>27, <2>3 DEF End
    <3>2. dapplied = dreq /\ phase \in Rejecting \cup {"wait", "up"}
      BY <3>1 DEF DriverInv, TypeOK, Guarding, Before, Rejecting
    <3>3. request # dapplied \/ (armed.val = dapplied /\ ~(armed.up /\ keep))
      <4>1. CASE phase = "up"
        BY <3>1, <4>1 DEF SeenInv
      <4>2. CASE phase \in Rejecting \cup {"wait"}
        BY <3>1, <3>2, <4>2 DEF ArmInv, DriverInv, Rejecting
      <4> QED
        BY <3>2, <4>1, <4>2
    <3> QED
      BY <2>1, <3>1, <3>3 DEF BadInv, TypeOK
  <2> QED
    BY <2>2, <2>3
<1>28. CASE UNCHANGED vars
  BY <1>28 DEF TypeOK, DriverInv, ArmInv, RunInv, SeenInv, BadInv, Before, Rejecting,
     Alive, vars
<1> QED
  BY <1>1, <1>2, <1>3, <1>4, <1>5, <1>6, <1>7, <1>8, <1>9, <1>10, <1>11, <1>12, <1>13,
     <1>14, <1>15, <1>16, <1>17, <1>18, <1>19, <1>20, <1>21, <1>22, <1>23, <1>24, <1>25,
     <1>26, <1>27, <1>28 DEF Next, Guard, Running

-----------------------------------------------------------------------------
IInv == TypeOK /\ DriverInv /\ ArmInv /\ RunInv /\ SeenInv

(* The inductive invariant holds initially,                                *)
LEMMA IInvInit == Init => IInv
  BY TypeInit DEF Init, IInv, DriverInv, ArmInv, RunInv, SeenInv, NotArmed, NoMark,
     Before, Rejecting, Alive

(* is kept by every step,                                                  *)
LEMMA IInvNext == IInv /\ [Next]_vars => IInv'
  BY TypeNext, DriverNext, ArmNext, RunNext, SeenNext DEF IInv

(* and so holds always.                                                    *)
LEMMA IInvHolds == Spec => []IInv
  BY IInvInit, IInvNext, PTL DEF Spec

(* The files, the driver's registers and the guard's state keep their types *)
(* for every set of offsets and every state the initramfs finds the driver  *)
(* in (boot/init:721-776, mu300-cpu:486-599).                               *)
THEOREM VoltageTypeCorrect == Spec => []TypeOK
<1>1. IInv => TypeOK
  BY DEF IInv
<1> QED
  BY <1>1, IInvHolds, PTL

(* At every moment a value the firmware runs with is on the disk as armed   *)
(* or no longer asked for, so that the next boot sees a crash               *)
(* (boot/init:752-756, cpuv_reject, mu300-cpu voltage shutdown).            *)
THEOREM CrashSeen == Spec => []CrashIsSeen
<1>1. IInv => CrashIsSeen
  <2> SUFFICES ASSUME IInv, dapplied # Stock, phase # "stopping", late # "asked"
               PROVE  armed.val = dapplied \/ request # dapplied
    BY DEF CrashIsSeen
  <2>1. dapplied = dreq /\ phase \in Rejecting \cup {"wait", "up"}
    BY DEF IInv, DriverInv, TypeOK, Guarding, Before, Rejecting
  <2>2. CASE phase = "up"
    BY <2>2 DEF IInv, SeenInv
  <2>3. CASE phase \in Rejecting \cup {"wait"}
    BY <2>1, <2>3 DEF IInv, ArmInv, DriverInv, Rejecting
  <2> QED
    BY <2>1, <2>2, <2>3
<1> QED
  BY <1>1, IInvHolds, PTL

(* A value runs only as the one trial boot of its request or once a boot    *)
(* has been up 10 minutes with it, whatever is cut off where                *)
(* (boot/init:745-751, mu300-cpu voltage mark-good).                        *)
THEOREM OneTrial == Spec => []TrialOrEarned
<1>1. Init => EarnInv
  BY DEF Init, EarnInv, NoMark, Alive
<1>2. IInv /\ EarnInv /\ [Next]_vars => EarnInv'
  BY EarnNext DEF IInv
<1>3. IInv /\ EarnInv => TrialOrEarned
  BY DEF IInv, TypeOK, DriverInv, EarnInv, TrialOrEarned
<1> QED
  BY <1>1, <1>2, <1>3, IInvHolds, PTL DEF Spec

(* As long as no boot goes on without the guard over an armed mark, an      *)
(* offset whose boot ended without a clean shutdown never runs again until  *)
(* it is asked for again: cpuv_reject clears the request before the armed   *)
(* mark, and the guard looks at the mark first (boot/init:709-715, 737-738).*)
THEOREM CrashDrops == Spec => []SeenCrashNotRunAgain
<1>1. Init => (~skipped => BadInv)
  BY DEF Init, BadInv
<1>2. IInv /\ (~skipped => BadInv) /\ [Next]_vars => (~skipped => BadInv)'
  BY BadNext, SkippedStays DEF IInv
<1>3. IInv /\ (~skipped => BadInv) => SeenCrashNotRunAgain
  BY DEF IInv, DriverInv, BadInv, SeenCrashNotRunAgain, CrashedNotRunAgain
<1> QED
  BY <1>1, <1>2, <1>3, IInvHolds, PTL DEF Spec
=============================================================================
