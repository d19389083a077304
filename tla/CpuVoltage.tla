------------------------------ MODULE CpuVoltage ------------------------------
(***************************************************************************)
(* The experimental CPU voltage offset: the request and its marks on the   *)
(* Linux disk (.mu300/cpu-voltage-...), the guard in the initramfs that     *)
(* decides at every boot whether the offset may run, the cpufreq driver    *)
(* that takes one value per boot, and mu300-cpu with its services.  A      *)
(* power cut or crash may come between any two steps.                      *)
(***************************************************************************)
EXTENDS Integers

CONSTANTS
    Offsets,     \* the valid offsets other than 0,0,0
    Stock,       \* 0,0,0
    Odd,         \* a request that is no valid offset (edited by hand)
    None,        \* no such file
    DriverAt,    \* the driver's possible states when the initramfs gets to it:
                 \* "waiting" is in time, the others are too late or too early
    KeepGood     \* what users choose for keep-good

Values == Offsets \cup {Stock}
DriverStates ==
    {"absent", "probing", "waiting", "queued", "applied", "timeout", "failed", "disabled"}

ASSUME ValuesAssumption ==
    /\ Stock \notin Offsets /\ None \notin Offsets /\ Odd \notin Offsets
    /\ Stock # None /\ Stock # Odd /\ None # Odd
ASSUME DriverAssumption == DriverAt \subseteq DriverStates \ {"queued", "applied"}
ASSUME ChoiceAssumption == KeepGood \subseteq BOOLEAN

VARIABLES
    request, trial, good,  \* cpu-voltage, cpu-voltage-trial, cpu-voltage-good
    armed,                 \* cpu-voltage-armed: the value, and its line "up"
    keep,                  \* cpu-voltage-keep-good says 1
    dstate, dreq, dapplied, \* the driver: voltage_state, the value queued, the value in use
    phase,                 \* where the device is
    want,                  \* _want of cpu_voltage_boot
    ten,                   \* this boot has been up 10 minutes
    cmd,                   \* mu300-cpu voltage set or off: the marks are still to go
    mark,                  \* mu300-cpu voltage mark-good: its next write and its value
    \* history: values whose boot ended uncleanly since they were asked for;
    \* boots that handed over the value asked for; values a boot had for 10 minutes;
    \* DVFS_INIT came after the guard's 5 s, and the value was asked for again after that;
    \* some boot went on without the guard although a value was armed
    bad, runs, earned, late, skipped

disk == <<request, trial, good, armed, keep>>
driver == <<dstate, dreq, dapplied>>
history == <<bad, runs, earned, late, skipped>>
vars == <<disk, driver, phase, want, ten, cmd, mark, history>>

NotArmed == [val |-> None, up |-> FALSE]
NoMark == [pc |-> "idle", val |-> None]
Guarding == {"look", "choose", "clear", "marks", "disarm", "arm", "write", "wait", "stock"}

Init ==
    /\ request \in {Stock, Odd} /\ trial = None /\ good = None
    /\ armed = NotArmed /\ keep = FALSE
    /\ dstate = "absent" /\ dreq = Stock /\ dapplied = Stock
    /\ phase = "off" /\ want = Stock /\ ten = FALSE /\ cmd = "idle" /\ mark = NoMark
    /\ bad = {} /\ runs = 0 /\ earned = {} /\ late = "no" /\ skipped = FALSE

-----------------------------------------------------------------------------
(* The driver: one value per boot, taken while it waits.                    *)
VoltageWritten(v) == /\ dstate = "waiting"
                     /\ dstate' = "queued" /\ dreq' = v
                     /\ UNCHANGED dapplied

\* sprd_volt_start_work for a queued value: DVFS_INIT, which may fail.
StartWork ==
    /\ dstate = "queued"
    /\ dapplied' = dreq /\ dstate' \in {"applied", "failed"}
    /\ late' = CASE phase = "wait" -> "no"
                [] phase = "up" /\ request = dreq -> "asked"
                [] OTHER -> "yes"
    /\ UNCHANGED <<disk, dreq, phase, want, ten, cmd, mark, bad, runs, earned, skipped>>

\* The probe ends: DVFS waits for a value from now on, or is switched off for good
\* by the command line's debug magic.
Probe ==
    /\ dstate = "probing" /\ dstate' \in {"waiting", "disabled"}
    /\ UNCHANGED <<disk, dreq, dapplied, phase, want, ten, cmd, mark, history>>

\* Nothing was written for 45 s: the stock voltages.
StartTimeout ==
    /\ dstate = "waiting" /\ phase # "look"
    /\ dapplied' = Stock /\ dreq' = Stock /\ dstate' \in {"timeout", "failed"}
    /\ UNCHANGED <<disk, phase, want, ten, cmd, mark, history>>

-----------------------------------------------------------------------------
(* boot/init, cpu_voltage_boot.                                             *)
PowerOn ==
    /\ phase = "off"
    /\ dstate' \in DriverAt /\ dreq' = Stock /\ dapplied' = Stock
    /\ phase' = "look" /\ want' = Stock /\ ten' = FALSE
    /\ UNCHANGED <<disk, cmd, mark, history>>

\* No Linux disk: DVFS at the stock voltages, and the rescue shell.
RescueStock ==
    /\ phase = "look" /\ phase' = "rescue"
    /\ IF dstate = "waiting" THEN VoltageWritten(Stock) ELSE UNCHANGED driver
    /\ UNCHANGED <<disk, want, ten, cmd, mark, history>>

\* A kernel without the offset, or a driver that does not wait (any more).
Skip ==
    /\ phase = "look" /\ dstate # "waiting"
    /\ phase' = "up"
    /\ skipped' = IF armed.val # None THEN TRUE ELSE skipped
    /\ UNCHANGED <<disk, driver, want, ten, cmd, mark, bad, runs, earned, late>>

\* keep-good: the good value of a boot that had its 10 minutes.
Kept == armed.up /\ keep /\ armed.val = request /\ good = request /\ request \in Offsets
Look ==
    /\ phase = "look" /\ dstate = "waiting"
    /\ armed' = IF Kept THEN NotArmed ELSE armed
    /\ phase' = "choose"
    /\ UNCHANGED <<request, trial, good, keep, driver, want, ten, cmd, mark, history>>

MayRun == armed.val = None /\ request \in Offsets /\ (good = request \/ trial # request)

\* The request is off: stale marks go.
MutChooseOff ==
    /\ phase = "choose" /\ armed.val = None /\ request = Stock
    /\ trial' = None /\ good' = None
    /\ phase' = "arm"
    /\ UNCHANGED <<request, armed, keep, driver, want, ten, cmd, mark, history>>
ChooseOff ==
    /\ phase = "choose" /\ armed.val = None /\ request = Stock
    /\ trial' = None /\ good' = None
    /\ phase' = "stock"
    /\ UNCHANGED <<request, armed, keep, driver, want, ten, cmd, mark, history>>

\* A known firmware, and a good value or the one trial of a new one, whose
\* mark is written first.
ChooseRun ==
    /\ phase = "choose" /\ MayRun
    /\ \/ /\ trial' = IF good = request THEN trial ELSE request
          /\ want' = request /\ phase' = "arm"
       \/ \* the trial mark cannot be written
          /\ good # request /\ trial' \in {trial, None}
          /\ phase' = "stock" /\ UNCHANGED want
    /\ UNCHANGED <<request, good, armed, keep, driver, ten, cmd, mark, history>>

\* Anything else is taken back (cpuv_reject, file by file); so is any value
\* when the firmware is not a known build.
ChooseReject ==
    /\ phase = "choose" /\ (armed.val # None \/ request # Stock)
    /\ phase' = "clear"
    /\ UNCHANGED <<disk, driver, want, ten, cmd, mark, history>>

\* armed is removed first and the request cleared last: a cut in between
\* forgets the crash.
MutRejectRequest ==
    /\ phase = "clear"
    /\ armed' = NotArmed /\ phase' = "marks"
    /\ UNCHANGED <<request, trial, good, keep, driver, want, ten, cmd, mark, history>>
RejectRequest ==
    /\ phase = "clear"
    /\ request' = Stock /\ phase' = "marks"
    /\ UNCHANGED <<trial, good, armed, keep, driver, want, ten, cmd, mark, history>>

RejectMarks ==
    /\ phase = "marks"
    /\ \/ trial # None /\ trial' = None /\ UNCHANGED <<good, phase>>
       \/ trial = None /\ good' = None /\ phase' = "disarm" /\ UNCHANGED trial
    /\ UNCHANGED <<request, armed, keep, driver, want, ten, cmd, mark, history>>

\* A driver that refused the value still gets the stock call.
RejectArmed ==
    /\ phase = "disarm"
    /\ armed' = NotArmed
    /\ phase' = IF dstate = "waiting" THEN "stock" ELSE "up"
    /\ UNCHANGED <<request, trial, good, keep, driver, want, ten, cmd, mark, history>>

\* armed is on the disk, read back, before the driver sees the value.
Arm ==
    /\ phase = "arm"
    /\ \/ armed' = [val |-> want, up |-> FALSE] /\ phase' = "write"
       \/ armed' = NotArmed /\ phase' = "stock"
    /\ UNCHANGED <<request, trial, good, keep, driver, want, ten, cmd, mark, history>>

\* cpuv_write: refused (no raise, or no longer waiting), or queued.
Write ==
    /\ phase = "write"
    /\ \/ VoltageWritten(want) /\ phase' = "wait" /\ runs' = IF runs = 0 THEN 1 ELSE 2
       \/ phase' = "clear" /\ UNCHANGED <<driver, runs>>
    /\ UNCHANGED <<disk, want, ten, cmd, mark, bad, earned, late, skipped>>

\* cpuv_write, up to 5 s for the outcome: anything but "applied" is taken back.
Wait ==
    /\ phase = "wait"
    /\ phase' = IF dstate = "applied" THEN "up" ELSE "clear"
    /\ UNCHANGED <<disk, driver, want, ten, cmd, mark, history>>

\* cpuv_stock: handed over without waiting; the driver may not take it.
StockCall ==
    /\ phase = "stock" /\ phase' = "up"
    /\ VoltageWritten(Stock) \/ UNCHANGED driver
    /\ UNCHANGED <<disk, want, ten, cmd, mark, history>>

-----------------------------------------------------------------------------
(* The running system: mu300-cpu voltage and its services.                  *)
TenMinutes ==
    /\ phase = "up" /\ ~ten
    /\ ten' = TRUE
    /\ earned' = IF dstate = "applied" /\ dapplied # Stock THEN earned \cup {dapplied} ELSE earned
    /\ UNCHANGED <<disk, driver, phase, want, cmd, mark, bad, runs, late, skipped>>

\* voltage_set, voltage_off: the request is renamed into place ...
VoltageWrite ==
    /\ phase = "up" /\ cmd = "idle"
    /\ \E v \in Values :
         /\ v # Stock => dstate \notin {"absent", "probing", "failed", "disabled"}
         /\ request' = v /\ bad' = bad \ {v}
         /\ late' = IF late = "yes" /\ v = dapplied THEN "asked" ELSE late
    /\ cmd' = "marks" /\ runs' = 0
    /\ UNCHANGED <<trial, good, armed, keep, driver, phase, want, ten, mark, earned, skipped>>

\* ... then its marks go.
VoltageMarks ==
    /\ cmd = "marks"
    /\ trial' = None /\ good' = None /\ cmd' = "idle"
    /\ UNCHANGED <<request, armed, keep, driver, phase, want, ten, mark, history>>

VoltageKeepGood ==
    /\ phase = "up" /\ \E b \in KeepGood : keep' = b
    /\ UNCHANGED <<request, trial, good, armed, driver, phase, want, ten, cmd, mark, history>>

\* voltage_mark_good: the armed value is the driver's, and 10 minutes are over.
MutMarkGood ==
    /\ phase \in {"up", "stopping"} /\ mark.pc = "idle"
    /\ armed.val # None /\ armed.val = dapplied
    /\ mark' = [pc |-> IF good # armed.val THEN "good" ELSE "up", val |-> armed.val]
    /\ UNCHANGED <<disk, driver, phase, want, ten, cmd, history>>
MarkGood ==
    /\ phase \in {"up", "stopping"} /\ mark.pc = "idle" /\ ten
    /\ armed.val # None /\ armed.val = dapplied
    /\ mark' = [pc |-> IF good # armed.val THEN "good" ELSE "up", val |-> armed.val]
    /\ UNCHANGED <<disk, driver, phase, want, ten, cmd, history>>

MarkGoodMark ==
    /\ mark.pc = "good"
    /\ good' = mark.val /\ mark' = [mark EXCEPT !.pc = "trial"]
    /\ UNCHANGED <<request, trial, armed, keep, driver, phase, want, ten, cmd, history>>

MarkGoodTrial ==
    /\ mark.pc = "trial"
    /\ trial' = None /\ mark' = [mark EXCEPT !.pc = "up"]
    /\ UNCHANGED <<request, good, armed, keep, driver, phase, want, ten, cmd, history>>

\* "up" under the armed value, once per boot (a removed file has no such line).
MarkGoodUp ==
    /\ mark.pc = "up"
    /\ armed' = IF armed.up THEN armed ELSE [val |-> mark.val, up |-> TRUE]
    /\ mark' = NoMark
    /\ UNCHANGED <<request, trial, good, keep, driver, phase, want, ten, cmd, history>>

\* voltage_shutdown: only while the system is stopping.
MutVoltageShutdown ==
    /\ phase = "up" /\ phase' \in {"up", "stopping"}
    /\ armed' = NotArmed
    /\ UNCHANGED <<request, trial, good, keep, driver, want, ten, cmd, mark, history>>
VoltageShutdown ==
    /\ phase = "up" /\ phase' = "stopping"
    /\ armed' = NotArmed
    /\ UNCHANGED <<request, trial, good, keep, driver, want, ten, cmd, mark, history>>

\* The end of a boot: clean once the shutdown service has run.
End ==
    /\ phase # "off" /\ phase' = "off"
    /\ dstate' = "absent" /\ dreq' = Stock /\ dapplied' = Stock
    /\ cmd' = "idle" /\ mark' = NoMark /\ ten' = FALSE /\ want' = Stock /\ late' = "no"
    /\ bad' = IF phase = "stopping" \/ dapplied = Stock \/ (keep /\ ten) \/ late = "asked"
              THEN bad ELSE bad \cup {dapplied}
    /\ UNCHANGED <<disk, runs, earned, skipped>>

Guard == Skip \/ RescueStock \/ Look \/ ChooseOff \/ ChooseRun \/ ChooseReject
         \/ RejectRequest \/ RejectMarks \/ RejectArmed \/ Arm \/ Write \/ Wait \/ StockCall
Running == TenMinutes \/ VoltageWrite \/ VoltageMarks \/ VoltageKeepGood \/ MarkGood
           \/ MarkGoodMark \/ MarkGoodTrial \/ MarkGoodUp \/ VoltageShutdown
Next == PowerOn \/ Probe \/ StartWork \/ StartTimeout \/ Guard \/ Running \/ End

Spec == Init /\ [][Next]_vars

-----------------------------------------------------------------------------
TypeOK ==
    /\ request \in Values \cup {Odd}
    /\ trial \in Offsets \cup {None} /\ good \in Offsets \cup {None}
    /\ armed \in [val : Offsets \cup {None}, up : BOOLEAN] /\ keep \in BOOLEAN
    /\ dstate \in DriverStates /\ dreq \in Values /\ dapplied \in Values
    /\ phase \in Guarding \cup {"off", "rescue", "up", "stopping"}
    /\ want \in Values /\ ten \in BOOLEAN /\ cmd \in {"idle", "marks"}
    /\ mark \in [pc : {"idle", "good", "trial", "up"}, val : Offsets \cup {None}]
    /\ bad \subseteq Offsets /\ runs \in 0..2 /\ earned \subseteq Offsets
    /\ late \in {"no", "yes", "asked"} /\ skipped \in BOOLEAN

(* An offset whose boot ended without a clean shutdown (and was not kept by *)
(* keep-good after its 10 minutes) never runs again until it is asked for   *)
(* again, also when the next boots are cut off in the middle of dropping it *)
(* (boot/init:670-672, mu300-cpu:350-353).                                  *)
CrashedNotRunAgain == dapplied # Stock => dapplied \notin bad

(* It never does as long as the guard gets to see every armed mark: no boot *)
(* passed over one because its kernel has no offset or its driver was not   *)
(* waiting (boot/init:721-723).                                             *)
SeenCrashNotRunAgain == ~skipped => CrashedNotRunAgain

(* A value runs only as its one trial boot or once a boot has been up 10    *)
(* minutes with it (boot/init:670).                                         *)
TrialOrEarned == dapplied # Stock => runs <= 1 \/ dapplied \in earned

(* A value the firmware got is on the disk as armed, or no longer asked     *)
(* for: a crash right after DVFS_INIT still finds the mark (boot/init:753). *)
CrashIsSeen ==
    dapplied # Stock /\ phase # "stopping" /\ late # "asked" =>
        armed.val = dapplied \/ request # dapplied
=============================================================================
