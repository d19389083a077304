----------------------------- MODULE SipaDriver -----------------------------
(***************************************************************************)
(* The resource manager between clients that may request, release and      *)
(* change dependencies at any time and drivers that keep this promise:     *)
(*                                                                         *)
(*   - asked for its producer, a driver answers 0 and has it powered, or   *)
(*     -EINPROGRESS and later GRANTED, once;                               *)
(*   - told to release it, the driver gives it up.                         *)
(*                                                                         *)
(* The promise is all the manager may rely on.  A driver breaks it in the  *)
(* ways Faults allows: "FAIL", it reports a failure, asked or not (and     *)
(* goes on: GRANTED may still follow); "LOST", it forgets what it was      *)
(* asked for.  SipaDele shows that the IPA's power work and the modem's    *)
(* delegate keep it but for these two.                                     *)
(***************************************************************************)
EXTENDS SipaRm

CONSTANTS Deps,         \* the dependencies added when the drivers are probed
          Optional,     \* the dependencies that come and go (USB, Wi-Fi rules)
          AddWhile,     \* consumer states in which one is added
          Faults,       \* a subset of {"FAIL", "LOST"}
          MaxFaults,    \* bound on the faults
          MaxRef,       \* bound on a consumer's ref_count
          MaxQueued,    \* bound on a consumer's undelivered events
          MaxChanges    \* bound on the changes of the dependency graph

ASSUME DriverAssumption ==
  /\ Deps \subseteq Cons \X Prods
  /\ Optional \subseteq Cons \X Prods
  /\ AddWhile \subseteq States
  /\ Faults \subseteq {"FAIL", "LOST"} /\ MaxFaults \in Nat
  /\ MaxRef \in Nat /\ MaxQueued \in Nat /\ MaxChanges \in Nat

VARIABLES drv,          \* producer -> "off", "starting" or "on"
          heard,        \* consumer -> the last event its listeners were given
          changes,      \* dependency changes so far
          faults        \* broken promises so far

vars == <<rmVars, drv, heard, changes, faults>>

TypeOK ==
  /\ RmTypeOK
  /\ drv \in [Prods -> {"off", "starting", "on"}]
  /\ heard \in [Cons -> Events \cup {"NONE"}]
  /\ changes \in Nat /\ faults \in Nat

Init ==
  /\ RmInit(Deps)
  /\ drv = [p \in Prods |-> "off"]
  /\ heard = [c \in Cons |-> "NONE"]
  /\ changes = 0 /\ faults = 0

\* The request callbacks of the producers S, answering ans.
Asked(S, ans) == drv' = [p \in Prods |-> IF p \notin S THEN drv[p]
                                         ELSE IF ans[p] = "0" THEN "on" ELSE "starting"]

\* The release callbacks of the producers S.
Dropped(S) == drv' = [p \in Prods |-> IF p \in S THEN "off" ELSE drv[p]]

Request(c) ==
  /\ cref[c] < MaxRef /\ Len(fifo[c]) < MaxQueued
  /\ \E ans \in [Prods -> Answers] :
       RequestResource(c, ans) /\ Asked(RequestCalls(c), ans)
  /\ UNCHANGED <<heard, changes, faults>>

\* A client releases what it holds.
Release(c) ==
  /\ cref[c] > 0
  /\ ReleaseResource(c) /\ Dropped(ReleaseCalls(c))
  /\ UNCHANGED <<heard, changes, faults>>

Add(c, p) ==
  /\ <<c, p>> \in Optional /\ cstate[c] \in AddWhile
  /\ changes < MaxChanges /\ changes' = changes + 1
  /\ \E ans \in [Prods -> Answers] :
       AddDependency(c, p, ans) /\ Asked(AddCalls(c, p), ans)
  /\ UNCHANGED <<heard, faults>>

Delete(c, p) ==
  /\ <<c, p>> \in Optional
  /\ changes < MaxChanges /\ changes' = changes + 1
  /\ DeleteDependency(c, p) /\ Dropped(DeleteCalls(c, p))
  /\ UNCHANGED <<heard, faults>>

\* The driver's producer is up and it says so.
Complete(p) ==
  /\ drv[p] = "starting"
  /\ NotifyCompletion(p, "GRANTED")
  /\ drv' = [drv EXCEPT ![p] = "on"]
  /\ UNCHANGED <<heard, changes, faults>>

Fail(p) ==
  /\ "FAIL" \in Faults /\ faults < MaxFaults
  /\ NotifyCompletion(p, "FAIL")
  /\ faults' = faults + 1
  /\ UNCHANGED <<drv, heard, changes>>

Lose(p) ==
  /\ "LOST" \in Faults /\ faults < MaxFaults
  /\ drv' = [drv EXCEPT ![p] = "off"]
  /\ faults' = faults + 1
  /\ UNCHANGED <<rmVars, heard, changes>>

WorkProducer(p) ==
  HandleProducer(p) /\ Dropped(HandleCalls(p)) /\ UNCHANGED <<heard, changes, faults>>

TellConsumer(c) ==
  HandleConsumer(c) /\ Dropped(ConsumerCalls(c)) /\ UNCHANGED <<heard, changes, faults>>

WorkConsumer(c) ==
  /\ NotifyClients(c)
  /\ heard' = [heard EXCEPT ![c] = Head(fifo[c])]
  /\ UNCHANGED <<drv, changes, faults>>

Next ==
  \/ \E c \in Cons : Request(c) \/ Release(c) \/ TellConsumer(c) \/ WorkConsumer(c)
  \/ \E p \in Prods : Complete(p) \/ Fail(p) \/ Lose(p) \/ WorkProducer(p)
  \/ \E c \in Cons, p \in Prods : Add(c, p) \/ Delete(c, p)

Spec == Init /\ [][Next]_vars

\* The kernel runs queued work, and a driver that answered -EINPROGRESS ends.
Fairness ==
  /\ \A c \in Cons : WF_vars(TellConsumer(c)) /\ WF_vars(WorkConsumer(c))
  /\ \A p \in Prods : WF_vars(WorkProducer(p)) /\ WF_vars(Complete(p))

FairSpec == Spec /\ Fairness

-----------------------------------------------------------------------------

\* The consumers that hold producer p: they depend on it and are not released.
Holders(p) == {c \in Users(p) : cstate[c] # "RELEASED"}

\* The drivers kept their promise so far.
Kept == faults = 0

\* A producer's ref_count is the number of consumers that hold it, whatever was
\* requested, released, added or deleted meanwhile.
RefsMatch == Kept => \A p \in Prods : pref[p] = Cardinality(Holders(p))

\* A granted consumer has every producer it depends on powered: no release, late
\* completion or change of the graph by another client takes one away.
GrantedIsPowered ==
  Kept => \A c \in Cons : cstate[c] = "GRANTED" =>
            \A p \in Peers(c) : pstate[p] = "GRANTED" /\ drv[p] = "on"

\* A producer the manager shows as released is off, and one nobody holds is
\* released or will be as soon as its driver completes: no power is leaked.
NoPowerLeaked ==
  Kept => \A p \in Prods :
            /\ pstate[p] = "RELEASED" => drv[p] = "off"
            /\ pref[p] = 0 => pstate[p] \in {"RELEASED", "RELEASE_IN_PROGRESS"}

\* A consumer waits only for a producer that will answer: its driver is starting
\* or the answer is queued or being told.
WaitsForSomeone ==
  Kept => \A c \in Cons : cstate[c] \in {"REQUEST_IN_PROGRESS", "RELEASE_IN_PROGRESS"} =>
            \/ c \in left
            \/ \E p \in Peers(c) : /\ pstate[p] # "GRANTED"
                                   /\ drv[p] = "starting" \/ fifo[p] # <<>>

\* Listeners are never left believing in a grant that was withdrawn, not even by
\* a failure: once the queue is empty, what they heard last is the state (a
\* dependency added to a granted consumer is the one change they are not told).
ListenersKnow ==
  \A c \in Cons : fifo[c] = <<>> /\ Unlocked =>
    /\ cstate[c] = "GRANTED" => heard[c] = "GRANTED"
    /\ cstate[c] = "RELEASED" => heard[c] # "GRANTED"

\* Whatever a client asked for, the consumer settles, unless a driver broke its
\* promise.
Settles ==
  \A c \in Cons : cstate[c] \in {"REQUEST_IN_PROGRESS", "RELEASE_IN_PROGRESS"} ~>
                    cstate[c] \in {"GRANTED", "RELEASED"} \/ ~Kept
=============================================================================
