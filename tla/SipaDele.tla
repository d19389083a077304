------------------------------ MODULE SipaDele ------------------------------
(***************************************************************************)
(* The two producers' real drivers under the resource manager, and the     *)
(* modem they talk to:                                                     *)
(*                                                                         *)
(*   - the IPA's power work (sipa_v3/sipa_core.c), which resumes and       *)
(*     suspends the IPA behind the manager's back;                         *)
(*   - the delegate (sipa_delegate/), which asks the modem for PROD_CP     *)
(*     over an smsg channel and takes CONS_WWAN_DL when the modem asks.    *)
(*                                                                         *)
(* The modem is modelled from how the delegate uses it: it answers a       *)
(* REQUEST with DONE, asks for the IPA and waits for the DONE before it    *)
(* asks again.  It may restart, closing its channel or not.                *)
(*                                                                         *)
(* The delegate's thread takes one step per message, and several where     *)
(* somebody comes between: the uplink within OPEN and CLOSE, and the       *)
(* restart handler, which user space runs with no lock against the thread, *)
(* within ENABLE, DISABLE and RELEASE.  A callback into the delegate is    *)
(* part of the manager's step that makes it, as it is in the code.         *)
(* SIPA_DELE_POWER_OFF is never set in the tree, and its notify_work never *)
(* queued: both are left out.                                              *)
(***************************************************************************)
EXTENDS SipaRm

CONSTANTS UL, DL,       \* SIPA_RM_RES_CONS_WWAN_UL, _DL
          IPA, CP,      \* SIPA_RM_RES_PROD_IPA, _CP
          MaxRef,       \* bound on the uplink's ref_count
          MaxQueued,    \* bound on a consumer's undelivered events at its request
          MaxMishaps,   \* bound on mishaps
          UintMax,      \* the largest u32 (2^32 - 1 in the code)
          Settings      \* the settings of a run

\* A send fails; the modem answers with a failure; runtime PM refuses an ENABLE; a
\* request overtakes an OPEN; the delegate starts while the uplink is releasing; the
\* modem restarts.
AllMishaps == {"send", "answer", "refuse", "overtake", "late", "restart"}

\* What the modem asks for, whether the uplink has traffic, what may go wrong.
AllSettings == [wants : SUBSET {"REQUEST", "ENABLE"}, uplink : BOOLEAN,
                mishaps : SUBSET AllMishaps]

ASSUME DeleAssumption ==
  /\ Settings \subseteq AllSettings
  /\ Cons = {UL, DL} /\ Prods = {IPA, CP} /\ UL # DL /\ IPA # CP
  /\ MaxMishaps \in Nat /\ UintMax \in Nat \ {0} /\ MaxRef \in Nat /\ MaxQueued \in Nat

VARIABLES heard,
          faults,       \* promises to the manager the delegate broke
          mishaps,      \* so far
          setting,      \* the setting, which never changes
          \* The IPA.
          power_flag,
          power_work,   \* the delayed work is queued
          doing,        \* what the running power work is about to do, or "idle"
          asleep,       \* suspend_stage has SIPA_EB_SUSPEND and SIPA_FORCE_SUSPEND
          rpm_active,   \* the device is not runtime-suspended
          enable_cnt,
          \* The delegate.
          stat, connected, requesting_cons, cons_ref_cnt, pd_eb_flag, pd_get_flag,
          thrd,         \* what the thread is about to do for its message, or "idle"
          seen,         \* the cons_ref_cnt its RELEASE has read
          report,       \* what the restart handler is about to do, or "idle"
          raced,        \* history: the thread and the handler were at it together
          smsg_wq,      \* works queued, in order: the messages they will send
          \* The modem.
          to_cp, from_cp,
          cp_on,        \* it holds PROD_CP for us
          cp_has,       \* "no", "asked" or "yes": what it has of CONS_WWAN_DL
          cp_eb,        \* the same of the power domain (ENABLE, DISABLE)
          crashed       \* it restarted, and user space has not reported that yet

ipaVars == <<power_flag, power_work, doing, asleep, rpm_active>>
resetVars == <<cons_ref_cnt, pd_eb_flag, pd_get_flag, seen, report, raced>>
deleVars == <<stat, connected, requesting_cons, resetVars, thrd, smsg_wq>>
cpVars == <<to_cp, from_cp, cp_on, cp_has, cp_eb, crashed, setting>>
deleAll == <<rmVars, heard, faults, mishaps, ipaVars, enable_cnt, deleVars, cpVars>>

Has == {"no", "asked", "yes"}
Commands == {"REQUEST", "RELEASE", "ENABLE", "DISABLE"}
Dones == {"DONE", "DONE_FAIL", "ENABLE_DONE", "ENABLE_FAIL"}

DeleTypeOK ==
  /\ RmTypeOK /\ heard \in [Cons -> Events \cup {"NONE"}] /\ faults \in Nat
  /\ mishaps \in 0 .. MaxMishaps /\ setting \in Settings
  /\ power_flag \in BOOLEAN /\ power_work \in BOOLEAN
  /\ doing \in {"idle", "resume", "complete", "suspend", "sleep"}
  /\ asleep \in BOOLEAN /\ rpm_active \in BOOLEAN /\ enable_cnt \in Nat
  /\ stat \in {"ACTIVE", "REQUESTING", "RELEASING", "RELEASED"}
  /\ connected \in BOOLEAN /\ requesting_cons \in BOOLEAN
  /\ cons_ref_cnt \in 0 .. UintMax /\ seen \in 0 .. UintMax
  /\ ~raced => cons_ref_cnt <= 1 + MaxMishaps
  /\ pd_eb_flag \in BOOLEAN /\ pd_get_flag \in BOOLEAN /\ raced \in BOOLEAN
  /\ thrd \in {"idle", "open", "close", "enable", "enabling", "off", "clear", "drop", "release"}
  /\ report \in {"idle", "off", "clear", "ref", "drop", "release"}
  /\ smsg_wq \in Seq(Commands \cup Dones) /\ to_cp \in Seq(Commands \cup Dones)
  /\ from_cp \in Seq(Commands \cup Dones \cup {"OPEN", "CLOSE"})
  /\ cp_on \in BOOLEAN /\ cp_has \in Has /\ cp_eb \in Has /\ crashed \in BOOLEAN

\* What the IPA's probe adds; the delegate adds <<UL, CP>> when it starts.
IpaDeps == {<<UL, IPA>>, <<DL, IPA>>}
Started == <<UL, CP>> \in dep

DeleInit ==
  /\ RmInit(IpaDeps) /\ heard = [c \in Cons |-> "NONE"] /\ faults = 0 /\ mishaps = 0
  /\ setting \in Settings
  /\ power_flag = FALSE /\ power_work = FALSE /\ doing = "idle"
  /\ asleep = TRUE /\ rpm_active = FALSE /\ enable_cnt = 0
  /\ stat = "RELEASED" /\ connected = FALSE /\ requesting_cons = FALSE
  /\ cons_ref_cnt = 0 /\ pd_eb_flag = FALSE /\ pd_get_flag = FALSE /\ smsg_wq = <<>>
  /\ thrd = "idle" /\ seen = 0 /\ report = "idle" /\ raced = FALSE
  /\ to_cp = <<>> /\ from_cp = <<>>
  /\ cp_on = FALSE /\ cp_has = "no" /\ cp_eb = "no" /\ crashed = FALSE

-----------------------------------------------------------------------------
(* The drivers' callbacks, called with sipa_rm_lock held.                  *)

\* sipa_rm_prepare_resume and sipa_rm_prepare_release: set the flag, queue the work.
IpaTold(on) ==
  /\ power_flag' = on /\ power_work' = TRUE
  /\ UNCHANGED <<doing, asleep, rpm_active>>

Mishap(m) == m \in setting.mishaps /\ mishaps < MaxMishaps /\ mishaps' = mishaps + 1

\* sipa_dele_local_req_r_prod and what it answers.
DeleRequested ==
  /\ stat' = IF stat = "ACTIVE" THEN stat ELSE "REQUESTING"
  /\ smsg_wq' = IF stat = "RELEASED" /\ connected THEN Append(smsg_wq, "REQUEST") ELSE smsg_wq
  /\ \/ ~(thrd = "open" /\ stat = "RELEASED") /\ UNCHANGED mishaps
     \/ thrd = "open" /\ stat = "RELEASED" /\ Mishap("overtake")      \* on_open will send it again

\* sipa_dele_local_rls_r_prod
DeleReleased ==
  /\ stat' = CASE stat = "ACTIVE"     -> "RELEASED"
               [] stat = "REQUESTING" -> "RELEASING"
               [] OTHER               -> stat
  /\ smsg_wq' = IF stat = "ACTIVE" THEN Append(smsg_wq, "RELEASE") ELSE smsg_wq

\* Mutants of DriverAnswer: a request that is sent is answered 0; the IPA answers 0
\* when it is awake.
MutDriverAnswerCp == [p \in Prods |-> IF p = CP THEN "0" ELSE "-EINPROGRESS"]
MutDriverAnswer ==
  [p \in Prods |-> IF (IF p = CP THEN stat = "ACTIVE" ELSE ~asleep) THEN "0" ELSE "-EINPROGRESS"]
DriverAnswer == [p \in Prods |-> IF p = CP /\ stat = "ACTIVE" THEN "0" ELSE "-EINPROGRESS"]

\* The request (release) callbacks of the producers S.
CallRequest(S) ==
  /\ IF IPA \in S THEN IpaTold(TRUE) ELSE UNCHANGED ipaVars
  /\ IF CP \in S THEN DeleRequested ELSE UNCHANGED <<stat, smsg_wq, mishaps>>

CallRelease(S) ==
  /\ IF IPA \in S THEN IpaTold(FALSE) ELSE UNCHANGED ipaVars
  /\ IF CP \in S THEN DeleReleased ELSE UNCHANGED <<stat, smsg_wq>>
  /\ UNCHANGED mishaps

\* What a call of the manager leaves alone.
Same == UNCHANGED <<heard, faults, connected, requesting_cons, resetVars, thrd, enable_cnt>>
SameCp == UNCHANGED <<to_cp, cp_on, cp_has, cp_eb, crashed, setting>>

-----------------------------------------------------------------------------
(* The uplink's clients and the manager's work.                            *)

\* sipa_delegator_start; the thread's smsg_ch_open ends as a first OPEN.
Start ==
  /\ AddDependency(UL, CP, DriverAnswer)
  /\ \/ cstate[UL] # "RELEASE_IN_PROGRESS" /\ CallRequest(AddCalls(UL, CP))
     \/ /\ cstate[UL] = "RELEASE_IN_PROGRESS" /\ Mishap("late")
        /\ UNCHANGED <<ipaVars, stat, smsg_wq>>
  /\ from_cp' = <<"OPEN">>
  /\ Same /\ SameCp

Request ==
  /\ setting.uplink /\ cref[UL] < MaxRef /\ Len(fifo[UL]) < MaxQueued
  /\ RequestResource(UL, DriverAnswer) /\ CallRequest(RequestCalls(UL))
  /\ Same /\ UNCHANGED cpVars

Release ==
  /\ cref[UL] > 0
  /\ ReleaseResource(UL) /\ CallRelease(ReleaseCalls(UL))
  /\ Same /\ UNCHANGED cpVars

WorkProducer(p) ==
  /\ HandleProducer(p) /\ CallRelease(HandleCalls(p))
  /\ Same /\ UNCHANGED cpVars

TellConsumer(c) ==
  /\ HandleConsumer(c) /\ CallRelease(ConsumerCalls(c))
  /\ Same /\ UNCHANGED cpVars

\* Mutant of WorkConsumer: the delegate answers every GRANTED.
MutWorkConsumer(c) ==
  /\ NotifyClients(c)
  /\ heard' = [heard EXCEPT ![c] = Head(fifo[c])]
  /\ IF c = DL /\ Head(fifo[c]) = "GRANTED"
     THEN requesting_cons' = FALSE /\ smsg_wq' = Append(smsg_wq, "DONE")
     ELSE UNCHANGED <<requesting_cons, smsg_wq>>
  /\ UNCHANGED <<faults, mishaps, ipaVars, enable_cnt, stat, connected, resetVars, thrd, cpVars>>

\* The listeners' callbacks; the delegate's is sipa_dele_cons_notify_cb.
WorkConsumer(c) ==
  /\ NotifyClients(c)
  /\ heard' = [heard EXCEPT ![c] = Head(fifo[c])]
  /\ IF c = DL /\ Head(fifo[c]) = "GRANTED" /\ requesting_cons
     THEN requesting_cons' = FALSE /\ smsg_wq' = Append(smsg_wq, "DONE")
     ELSE UNCHANGED <<requesting_cons, smsg_wq>>
  /\ UNCHANGED <<faults, mishaps, ipaVars, enable_cnt, stat, connected, resetVars, thrd, cpVars>>

-----------------------------------------------------------------------------
(* The IPA's power work; it never runs twice at a time.                    *)

\* sipa_set_enabled(false), which refuses to go below 0.
Disabled(n) == IF n = 0 THEN 0 ELSE n - 1

\* sipa_power_work reads power_flag and chooses.
PowerWork ==
  /\ power_work /\ doing = "idle"
  /\ power_work' = FALSE
  /\ doing' = IF power_flag THEN "resume" ELSE "suspend"
  /\ UNCHANGED <<rmVars, heard, faults, mishaps, power_flag, asleep, rpm_active, enable_cnt,
                 deleVars, cpVars>>

\* Mutant of Resume: every answer of pm_runtime_get_sync is an error.
MutResume ==
  /\ doing = "resume"
  /\ doing' = IF asleep THEN "idle" ELSE "complete"
  /\ power_work' = (power_work \/ (asleep /\ power_flag))
  /\ UNCHANGED <<rmVars, heard, faults, mishaps, power_flag, asleep, rpm_active, enable_cnt,
                 deleVars, cpVars>>

\* sipa_resume_work up to the completion.  pm_runtime_get_sync answers 1, taken
\* for an error, while the device is not runtime-suspended yet: try again later.
Resume ==
  /\ doing = "resume"
  /\ \/ /\ asleep /\ rpm_active
        /\ doing' = "idle"
        /\ power_work' = (power_work \/ power_flag)
        /\ UNCHANGED <<asleep, rpm_active, enable_cnt>>
     \/ /\ ~(asleep /\ rpm_active)
        /\ doing' = "complete"
        /\ asleep' = FALSE /\ rpm_active' = TRUE
        /\ enable_cnt' = IF asleep THEN enable_cnt + 1 ELSE enable_cnt
        /\ UNCHANGED power_work
  /\ UNCHANGED <<rmVars, heard, faults, mishaps, power_flag, deleVars, cpVars>>

\* Its sipa_rm_notify_completion.
ResumeDone ==
  /\ doing = "complete"
  /\ NotifyCompletion(IPA, "GRANTED")
  /\ doing' = "idle"
  /\ UNCHANGED <<heard, faults, mishaps, power_flag, power_work, asleep, rpm_active, enable_cnt,
                 deleVars, cpVars>>

\* sipa_prepare_suspend reads the flag again; something that is not idle yet is
\* tried again later.
Suspend ==
  /\ doing = "suspend"
  /\ \/ /\ ~power_flag
        /\ doing' \in {"sleep", "idle"}
        /\ power_work' = (power_work \/ doing' = "idle")
     \/ power_flag /\ doing' = "idle" /\ UNCHANGED power_work
  /\ UNCHANGED <<rmVars, heard, faults, mishaps, power_flag, asleep, rpm_active, enable_cnt,
                 deleVars, cpVars>>

\* The rest of it, whatever became of the flag.
Sleep ==
  /\ doing = "sleep" /\ doing' = "idle"
  /\ asleep' = TRUE
  /\ enable_cnt' = IF asleep THEN enable_cnt ELSE Disabled(enable_cnt)
  /\ UNCHANGED <<rmVars, heard, faults, mishaps, power_flag, power_work, rpm_active,
                 deleVars, cpVars>>

\* Runtime PM suspends the device some time after pm_runtime_put.
RpmSuspend ==
  /\ asleep /\ rpm_active
  /\ rpm_active' = FALSE
  /\ UNCHANGED <<rmVars, heard, faults, mishaps, power_flag, power_work, doing, asleep, enable_cnt,
                 deleVars, cpVars>>

-----------------------------------------------------------------------------
(* The delegate's thread and work queue.                                   *)

\* The thread receives m, done with what it received before.
Took(m) == thrd = "idle" /\ from_cp # <<>> /\ Head(from_cp) = m /\ from_cp' = Tail(from_cp)

\* OPEN, up to connected = true.
OnOpen ==
  /\ Took("OPEN") /\ SameCp
  /\ connected' = TRUE /\ thrd' = "open"
  /\ UNCHANGED <<rmVars, heard, faults, mishaps, ipaVars, enable_cnt, stat, requesting_cons,
                 resetVars, smsg_wq>>

\* Mutant of Flush: nothing is sent.
MutFlush ==
  /\ thrd = "open" /\ thrd' = "idle"
  /\ UNCHANGED <<rmVars, heard, faults, mishaps, ipaVars, enable_cnt, stat, connected,
                 requesting_cons, resetVars, smsg_wq, cpVars>>

\* sipa_dele_on_open: send a request that waited for the channel.
Flush ==
  /\ thrd = "open" /\ thrd' = "idle"
  /\ smsg_wq' = IF stat = "REQUESTING" THEN Append(smsg_wq, "REQUEST") ELSE smsg_wq
  /\ UNCHANGED <<rmVars, heard, faults, mishaps, ipaVars, enable_cnt, stat, connected,
                 requesting_cons, resetVars, cpVars>>

\* CLOSE, up to connected = false.
OnClose ==
  /\ Took("CLOSE") /\ SameCp
  /\ connected' = FALSE /\ thrd' = "close"
  /\ UNCHANGED <<rmVars, heard, faults, mishaps, ipaVars, enable_cnt, stat, requesting_cons,
                 resetVars, smsg_wq>>

\* sipa_dele_on_close forgets what the manager asked for.
Forget ==
  /\ thrd = "close" /\ thrd' = "idle"
  /\ stat' = "RELEASED"
  /\ faults' = IF stat \in {"ACTIVE", "REQUESTING"} THEN faults + 1 ELSE faults
  /\ UNCHANGED <<rmVars, heard, mishaps, ipaVars, enable_cnt, connected, requesting_cons,
                 resetVars, smsg_wq, cpVars>>

\* Mutant of OnDone: any DONE completes the request.
MutOnDone ==
  /\ Took("DONE") /\ SameCp /\ Same /\ UNCHANGED <<mishaps, ipaVars, smsg_wq>>
  /\ stat' = "ACTIVE" /\ NotifyCompletion(CP, "GRANTED")

\* DONE: sipa_dele_on_done, which calls the manager with the delegate's lock held.
OnDone ==
  /\ Took("DONE") /\ SameCp /\ Same /\ UNCHANGED <<mishaps, ipaVars>>
  /\ \/ /\ stat = "REQUESTING" /\ stat' = "ACTIVE"
        /\ NotifyCompletion(CP, "GRANTED") /\ UNCHANGED smsg_wq
     \/ /\ stat = "RELEASING" /\ stat' = "RELEASED"
        /\ smsg_wq' = Append(smsg_wq, "RELEASE") /\ UNCHANGED rmVars
     \/ stat \in {"ACTIVE", "RELEASED"} /\ UNCHANGED <<rmVars, stat, smsg_wq>>

\* A DONE that reports a failure: ask again.
OnDoneFail ==
  /\ Took("DONE_FAIL") /\ SameCp /\ Same /\ UNCHANGED <<rmVars, mishaps, ipaVars>>
  /\ smsg_wq' = CASE stat = "REQUESTING" -> Append(smsg_wq, "REQUEST")
                  [] stat = "RELEASING"  -> Append(smsg_wq, "RELEASE")
                  [] OTHER               -> smsg_wq
  /\ stat' = IF stat = "RELEASING" THEN "RELEASED" ELSE stat

\* cons_ref_cnt is a u32.
Plus(n) == IF n = UintMax THEN 0 ELSE n + 1
Minus(n) == IF n = 0 THEN UintMax ELSE n - 1

\* The thread begins something that the restart handler undoes.
Begins == /\ raced' = (raced \/ report # "idle")
          /\ SameCp /\ UNCHANGED <<heard, faults, enable_cnt, stat, connected, report>>

\* Mutant of OnRequest: -EINPROGRESS is answered like 0.
MutOnRequest ==
  /\ Took("REQUEST") /\ Begins
  /\ Len(fifo[DL]) < MaxQueued
  /\ RequestResource(DL, DriverAnswer)
  /\ IF IPA \in RequestCalls(DL) THEN IpaTold(TRUE) ELSE UNCHANGED ipaVars
  /\ cons_ref_cnt' = Plus(cons_ref_cnt)
  /\ requesting_cons' = FALSE /\ smsg_wq' = Append(smsg_wq, "DONE")
  /\ UNCHANGED <<mishaps, pd_eb_flag, pd_get_flag, seen, thrd>>

\* CMD REQUEST: sipa_dele_r_user_req_cons.  The exchange of requesting_cons lets
\* only one of this function and the callback answer, so it is one step;
\* a restart handler between the request and the count sees what it would have
\* seen before the request.
OnRequest ==
  /\ Took("REQUEST") /\ Begins
  /\ Len(fifo[DL]) < MaxQueued
  /\ RequestResource(DL, DriverAnswer)
  /\ IF IPA \in RequestCalls(DL) THEN IpaTold(TRUE) ELSE UNCHANGED ipaVars
  /\ cons_ref_cnt' = Plus(cons_ref_cnt)
  /\ requesting_cons' = (RequestAnswer(DL, DriverAnswer) # "0")
  /\ smsg_wq' = IF requesting_cons' THEN smsg_wq ELSE Append(smsg_wq, "DONE")
  /\ UNCHANGED <<mishaps, pd_eb_flag, pd_get_flag, seen, thrd>>

\* Mutant of OnRelease: the count is not looked at.
MutOnRelease ==
  /\ Took("RELEASE") /\ Begins
  /\ thrd' = "drop" /\ seen' = cons_ref_cnt
  /\ UNCHANGED <<rmVars, mishaps, ipaVars, requesting_cons, smsg_wq, cons_ref_cnt, pd_eb_flag,
                 pd_get_flag>>

\* CMD RELEASE: sipa_dele_r_user_rls_cons reads the count once, stores it and
\* releases.
OnRelease ==
  /\ Took("RELEASE") /\ Begins
  /\ thrd' = IF cons_ref_cnt = 0 THEN "idle" ELSE "drop"
  /\ seen' = cons_ref_cnt
  /\ UNCHANGED <<rmVars, mishaps, ipaVars, requesting_cons, smsg_wq, cons_ref_cnt, pd_eb_flag,
                 pd_get_flag>>

Drop ==
  /\ thrd = "drop" /\ thrd' = "release"
  /\ cons_ref_cnt' = Minus(seen) /\ seen' = 0
  /\ UNCHANGED <<rmVars, heard, faults, mishaps, ipaVars, enable_cnt, stat, connected,
                 requesting_cons, pd_eb_flag, pd_get_flag, report, raced, smsg_wq, cpVars>>

\* sipa_rm_release_resource(CONS_WWAN_DL)
GiveBack ==
  /\ ReleaseResource(DL)
  /\ IF IPA \in ReleaseCalls(DL) THEN IpaTold(FALSE) ELSE UNCHANGED ipaVars

Released ==
  /\ thrd = "release" /\ thrd' = "idle" /\ GiveBack
  /\ UNCHANGED <<heard, faults, mishaps, enable_cnt, stat, connected, requesting_cons, resetVars,
                 smsg_wq, cpVars>>

\* Mutant of OnEnable: a repeated ENABLE counts again.
MutOnEnable ==
  /\ Took("ENABLE") /\ Begins
  /\ pd_eb_flag' = TRUE /\ thrd' = "enable" /\ UNCHANGED smsg_wq
  /\ UNCHANGED <<rmVars, mishaps, ipaVars, requesting_cons, cons_ref_cnt, pd_get_flag, seen>>

\* CMD ENABLE: cp_dele_on_commad.
OnEnable ==
  /\ Took("ENABLE") /\ Begins
  /\ pd_eb_flag' = TRUE
  /\ \/ pd_get_flag /\ smsg_wq' = Append(smsg_wq, "ENABLE_DONE") /\ UNCHANGED thrd
     \/ ~pd_get_flag /\ thrd' = "enable" /\ UNCHANGED smsg_wq
  /\ UNCHANGED <<rmVars, mishaps, ipaVars, requesting_cons, cons_ref_cnt, pd_get_flag, seen>>

\* pm_runtime_resume_and_get, which may refuse, then the flag, then the count.
PowerGet ==
  /\ thrd = "enable"
  /\ \/ /\ pd_get_flag' = TRUE /\ thrd' = "enabling"
        /\ UNCHANGED <<mishaps, pd_eb_flag, smsg_wq>>
     \/ /\ Mishap("refuse") /\ pd_eb_flag' = FALSE /\ thrd' = "idle"
        /\ smsg_wq' = Append(smsg_wq, "ENABLE_FAIL") /\ UNCHANGED pd_get_flag
  /\ UNCHANGED <<rmVars, heard, faults, ipaVars, enable_cnt, stat, connected, requesting_cons,
                 cons_ref_cnt, seen, report, raced, cpVars>>

Enabled ==
  /\ thrd = "enabling" /\ thrd' = "idle"
  /\ enable_cnt' = enable_cnt + 1
  /\ smsg_wq' = Append(smsg_wq, "ENABLE_DONE")
  /\ UNCHANGED <<rmVars, heard, faults, mishaps, ipaVars, stat, connected, requesting_cons,
                 resetVars, cpVars>>

\* CMD DISABLE: the flag is looked at, the count taken back, the flag cleared.
OnDisable ==
  /\ Took("DISABLE") /\ Begins
  /\ pd_eb_flag' = FALSE
  /\ thrd' = IF pd_get_flag THEN "off" ELSE "idle"
  /\ UNCHANGED <<rmVars, mishaps, ipaVars, requesting_cons, smsg_wq, cons_ref_cnt, pd_get_flag,
                 seen>>

PowerOff ==
  /\ thrd = "off" /\ thrd' = "clear"
  /\ enable_cnt' = Disabled(enable_cnt)
  /\ UNCHANGED <<rmVars, heard, faults, mishaps, ipaVars, stat, connected, requesting_cons,
                 resetVars, smsg_wq, cpVars>>

Cleared ==
  /\ thrd = "clear" /\ thrd' = "idle"
  /\ pd_get_flag' = FALSE
  /\ UNCHANGED <<rmVars, heard, faults, mishaps, ipaVars, enable_cnt, stat, connected,
                 requesting_cons, cons_ref_cnt, pd_eb_flag, seen, report, raced, smsg_wq, cpVars>>

\* sipa_dele_wq_handler: a send that fails is reported to the manager when the
\* message's flag is DELE_REQUEST, which the DONE of a REQUEST carries too.
Send ==
  /\ smsg_wq # <<>> /\ smsg_wq' = Tail(smsg_wq)
  /\ to_cp' = Append(to_cp, Head(smsg_wq))
  /\ UNCHANGED <<rmVars, heard, faults, mishaps, ipaVars, enable_cnt, stat, connected,
                 requesting_cons, resetVars, thrd, from_cp, cp_on, cp_has,
                 cp_eb, crashed, setting>>

SendFails ==
  /\ Mishap("send")
  /\ smsg_wq # <<>> /\ smsg_wq' = Tail(smsg_wq)
  /\ \/ /\ Head(smsg_wq) \in {"REQUEST", "DONE"}
        /\ NotifyCompletion(CP, "FAIL") /\ faults' = faults + 1
     \/ /\ Head(smsg_wq) \notin {"REQUEST", "DONE"}
        /\ UNCHANGED <<rmVars, faults>>
  /\ UNCHANGED <<heard, ipaVars, enable_cnt, stat, connected, requesting_cons, resetVars, thrd, cpVars>>

-----------------------------------------------------------------------------
(* cp_dele_restart_handler, when user space reports that the modem         *)
(* restarted; it may report the same restart again.                        *)

ReportSame == UNCHANGED <<heard, faults, mishaps, stat, connected, requesting_cons, thrd, smsg_wq,
                          to_cp, from_cp, cp_on, cp_has, cp_eb, setting>>
Reported == report' = "idle" /\ crashed' \in BOOLEAN

Report ==
  /\ crashed /\ report = "idle"
  /\ report' = IF pd_eb_flag /\ pd_get_flag THEN "off" ELSE "ref"
  /\ raced' = (raced \/ thrd \notin {"idle", "open", "close"})
  /\ ReportSame
  /\ UNCHANGED <<rmVars, ipaVars, enable_cnt, cons_ref_cnt, pd_eb_flag, pd_get_flag, seen, crashed>>

ReportOff ==
  /\ report = "off" /\ report' = "clear"
  /\ enable_cnt' = Disabled(enable_cnt)
  /\ ReportSame
  /\ UNCHANGED <<rmVars, ipaVars, cons_ref_cnt, pd_eb_flag, pd_get_flag, seen, raced, crashed>>

ReportClear ==
  /\ report = "clear" /\ report' = "ref"
  /\ pd_eb_flag' = FALSE /\ pd_get_flag' = FALSE
  /\ ReportSame
  /\ UNCHANGED <<rmVars, ipaVars, enable_cnt, cons_ref_cnt, seen, raced, crashed>>

\* The count is looked at, and read again for the decrement.
ReportRef ==
  /\ report = "ref"
  /\ \/ cons_ref_cnt = 0 /\ Reported
     \/ cons_ref_cnt # 0 /\ report' = "drop" /\ UNCHANGED crashed
  /\ ReportSame
  /\ UNCHANGED <<rmVars, ipaVars, enable_cnt, cons_ref_cnt, pd_eb_flag, pd_get_flag, seen, raced>>

ReportDrop ==
  /\ report = "drop" /\ report' = "release"
  /\ cons_ref_cnt' = Minus(cons_ref_cnt)
  /\ ReportSame
  /\ UNCHANGED <<rmVars, ipaVars, enable_cnt, pd_eb_flag, pd_get_flag, seen, raced, crashed>>

ReportRelease ==
  /\ report = "release" /\ GiveBack /\ Reported
  /\ ReportSame
  /\ UNCHANGED <<enable_cnt, cons_ref_cnt, pd_eb_flag, pd_get_flag, seen, raced>>

-----------------------------------------------------------------------------
(* The modem (external).                                                   *)

CpSame == UNCHANGED <<rmVars, heard, faults, ipaVars, enable_cnt, deleVars, setting>>

\* It answers our REQUEST, perhaps with a failure, and takes our RELEASE.
CpAnswer ==
  /\ to_cp # <<>> /\ to_cp' = Tail(to_cp) /\ CpSame /\ UNCHANGED crashed
  /\ \/ /\ Head(to_cp) = "REQUEST"
        /\ \/ from_cp' = Append(from_cp, "DONE") /\ cp_on' = TRUE /\ UNCHANGED mishaps
           \/ /\ Mishap("answer")
              /\ from_cp' = Append(from_cp, "DONE_FAIL") /\ UNCHANGED cp_on
        /\ UNCHANGED <<cp_has, cp_eb>>
     \/ /\ Head(to_cp) = "RELEASE"
        /\ cp_on' = FALSE /\ UNCHANGED <<from_cp, cp_has, cp_eb, mishaps>>
     \/ /\ Head(to_cp) = "DONE"
        /\ cp_has' = IF cp_has = "asked" THEN "yes" ELSE cp_has
        /\ UNCHANGED <<from_cp, cp_on, cp_eb, mishaps>>
     \/ /\ Head(to_cp) \in {"ENABLE_DONE", "ENABLE_FAIL"}
        /\ cp_eb' = IF cp_eb # "asked" THEN cp_eb
                    ELSE IF Head(to_cp) = "ENABLE_DONE" THEN "yes" ELSE "no"
        /\ UNCHANGED <<from_cp, cp_on, cp_has, mishaps>>

\* It asks for one thing at a time, once its restart was reported, and gives back
\* what it has.
Asks(has, on, off) ==
  \/ has = "no" /\ has' = "asked" /\ from_cp' = Append(from_cp, on)
  \/ has = "yes" /\ has' = "no" /\ from_cp' = Append(from_cp, off)

CpAsk ==
  /\ Started /\ ~crashed /\ cp_has # "asked" /\ cp_eb # "asked"
  /\ \/ "REQUEST" \in setting.wants /\ Asks(cp_has, "REQUEST", "RELEASE") /\ UNCHANGED cp_eb
     \/ "ENABLE" \in setting.wants /\ Asks(cp_eb, "ENABLE", "DISABLE") /\ UNCHANGED cp_has
  /\ CpSame /\ UNCHANGED <<mishaps, to_cp, cp_on, crashed>>

\* It restarts: what it held and what was on the way to it is gone.
CpRestart ==
  /\ Started /\ Mishap("restart")
  /\ to_cp' = <<>> /\ cp_on' = FALSE /\ cp_has' = "no" /\ cp_eb' = "no"
  /\ crashed' = TRUE
  /\ \E m \in {<<"CLOSE", "OPEN">>, <<"OPEN">>} : from_cp' = from_cp \o m
  /\ CpSame

-----------------------------------------------------------------------------

Thread == \/ OnOpen \/ Flush \/ OnClose \/ Forget \/ OnDone \/ OnDoneFail \/ OnRequest
          \/ OnRelease \/ Drop \/ Released \/ OnEnable \/ PowerGet \/ Enabled
          \/ OnDisable \/ PowerOff \/ Cleared
Reset == Report \/ ReportOff \/ ReportClear \/ ReportRef \/ ReportDrop \/ ReportRelease
Power == PowerWork \/ Resume \/ ResumeDone \/ Suspend \/ Sleep
RmWork == \/ \E p \in Prods : WorkProducer(p)
          \/ \E c \in Cons : TellConsumer(c) \/ WorkConsumer(c)

DeleNext ==
  \/ Start \/ Request \/ Release \/ RmWork
  \/ Power \/ RpmSuspend
  \/ Thread \/ Send \/ SendFails \/ Reset
  \/ CpAnswer \/ CpAsk \/ CpRestart

DeleSpec == DeleInit /\ [][DeleNext]_deleAll

Kept == mishaps = 0

\* The kernel runs queued work, in turn, and the thread; runtime PM suspends an idle
\* device; the modem answers.  Nothing is assumed after a mishap.
DeleFairness ==
  /\ \A p \in Prods : SF_deleAll(Kept /\ WorkProducer(p))
  /\ \A c \in Cons : /\ WF_deleAll(Kept /\ TellConsumer(c))
                     /\ SF_deleAll(Kept /\ WorkConsumer(c))
  /\ WF_deleAll(Kept /\ Power) /\ WF_deleAll(Kept /\ RpmSuspend)
  /\ WF_deleAll(Kept /\ Thread) /\ WF_deleAll(Kept /\ Send) /\ WF_deleAll(Kept /\ CpAnswer)

FairDeleSpec == DeleSpec /\ DeleFairness

-----------------------------------------------------------------------------

\* A granted consumer finds the IPA awake, whatever the power work was doing when
\* it was requested; the modem holds PROD_CP for a granted uplink.
GrantedIsAwake ==
  \A c \in Cons : cstate[c] = "GRANTED" =>
    /\ faults = 0 => ~asleep
    /\ Kept /\ c = UL /\ Started => cp_on

\* What the modem holds is counted once: the IPA's enable count is one for the
\* manager and one for the modem's ENABLE, and the manager's count of CONS_WWAN_DL
\* is the delegate's, whatever repeated ENABLE, DISABLE out of turn, restart or
\* second report of it comes, unless the report and the thread were at it together.
EnableBalanced ==
  ~raced =>
    /\ enable_cnt = (IF asleep THEN 0 ELSE 1)
                    + (IF pd_get_flag /\ thrd \notin {"enabling", "clear"} /\ report # "clear"
                       THEN 1 ELSE 0)
    /\ cref[DL] = cons_ref_cnt + (IF "release" \in {thrd, report} THEN 1 ELSE 0)

\* The modem is told it may use the IPA only while the downlink is granted.
DoneIsGranted ==
  Kept /\ (cp_has = "yes" \/ "DONE" \in {to_cp[i] : i \in DOMAIN to_cp}) =>
    cstate[DL] = "GRANTED" /\ ~asleep

\* With no message under way, the modem holds PROD_CP exactly when the delegate
\* believes it does, and the delegate waits only for a channel to open.
ModemAgrees ==
  Kept /\ Started /\ thrd = "idle" /\ smsg_wq = <<>> /\ to_cp = <<>> /\ from_cp = <<>> =>
    (cp_on <=> stat = "ACTIVE") /\ stat # "REQUESTING"

\* Entering sipa_dele_on_done's call of the manager, which takes sipa_rm_lock with
\* the delegate's lock held, nobody can be about to take the two the other way
\* round: the manager has no call of the delegate to make.
NoLockCycle ==
  Kept /\ from_cp # <<>> /\ Head(from_cp) = "DONE" /\ stat = "REQUESTING" =>
    /\ pstate[CP] \in {"REQUEST_IN_PROGRESS", "RELEASE_IN_PROGRESS"}
    /\ fifo[CP] = <<>>

\* A work is initialised each time it is queued: never one that still is.
Work(m) == IF m \in {"REQUEST", "RELEASE"} THEN m ELSE "DONE"
WorksOnce ==
  Kept => \A i, j \in DOMAIN smsg_wq : Work(smsg_wq[i]) = Work(smsg_wq[j]) => i = j

\* The drivers keep the promise SipaDriver states.
IpaDrv == CASE ~power_flag -> "off"
            [] power_flag /\ (power_work \/ doing \in {"resume", "complete"}) -> "starting"
            [] OTHER -> "on"
DeleDrv == CASE stat = "ACTIVE" -> "on" [] stat = "REQUESTING" -> "starting" [] OTHER -> "off"

D == INSTANCE SipaDriver WITH
       Deps <- IpaDeps, Optional <- {<<UL, CP>>}, AddWhile <- States,
       Faults <- {"FAIL", "LOST"}, MaxFaults <- MaxMishaps, MaxRef <- MaxRef + MaxMishaps + 1,
       MaxChanges <- 1, changes <- IF Started THEN 1 ELSE 0,
       drv <- [p \in Prods |-> IF p = IPA THEN IpaDrv ELSE DeleDrv]

KeepsPromise == D!Spec

\* Who asks is answered, the uplink by the manager and the modem by the delegate:
\* as often as one looks ahead, neither is waiting.
Answered ==
  /\ []<>(cstate[UL] # "REQUEST_IN_PROGRESS" \/ ~Kept)
  /\ []<>(cp_has # "asked" \/ ~Kept)
=============================================================================
