------------------------------- MODULE SipaRm -------------------------------
(***************************************************************************)
(* The resource manager of the data path (sipa_v3/sipa_rm.c, sipa_rm_res.c,*)
(* sipa_rm_dep_graph.c, sipa_rm_peers_list.c).  A client (a network        *)
(* interface, the USB function, the modem through its delegate) requests a *)
(* consumer; a consumer needs producers (the IPA, the modem processor); a  *)
(* producer is powered by a driver that may answer later.                  *)
(*                                                                         *)
(* This module has the manager's own state and one operator per entry      *)
(* point.  What the clients ask and what the drivers do is left to the     *)
(* modules that extend it: an entry point takes the answer `ans' of the    *)
(* drivers it calls, and DriverRequested and DriverReleased say which      *)
(* drivers those are.                                                      *)
(*                                                                         *)
(* Every entry point runs under sipa_rm_lock and is one step.  The one     *)
(* loop whose rounds depend on each other, the one that tells a producer's *)
(* event to its consumers, is one step per consumer: while `left' is not   *)
(* empty the lock is held and nothing else of the manager runs.            *)
(*                                                                         *)
(* Left out: the bandwidth fields (max_bw is 0 for every resource of the   *)
(* tree), pending_request (written, never read), userspace_dep (always     *)
(* false), the drivers' error answers (both request callbacks of the tree  *)
(* answer 0 or -EINPROGRESS) and resource deletion (used only when a probe *)
(* fails).                                                                 *)
(***************************************************************************)
EXTENDS Integers, Sequences, FiniteSets

CONSTANTS Cons,         \* consumer resources (SIPA_RM_RES_CONS_*)
          Prods,        \* producer resources (SIPA_RM_RES_PROD_*)
          FifoLen       \* entries of a resource's work_type_fifo (16 in the code)

ASSUME ResourcesAssumption ==
  /\ IsFiniteSet(Cons)
  /\ Cons \cap Prods = {}
  /\ FifoLen \in Nat \ {0}

VARIABLES cstate,       \* consumer -> enum sipa_rm_res_state
          cref,         \* consumer -> ref_count
          pstate,       \* producer -> enum sipa_rm_res_state
          pref,         \* producer -> ref_count
          dep,          \* the peers lists, which are symmetric: <<consumer, producer>>
          fifo,         \* resource -> work_type_fifo, the events not handled yet
          event,        \* the event producer_handle_cb is telling ("NONE" outside it)
          left          \* the consumers it has still to tell

rmVars == <<cstate, cref, pstate, pref, dep, fifo, event, left>>

States == {"RELEASED", "REQUEST_IN_PROGRESS", "GRANTED", "RELEASE_IN_PROGRESS"}
Events == {"GRANTED", "RELEASED", "FAIL"}
Answers == {"0", "-EINPROGRESS"}

RmTypeOK ==
  /\ cstate \in [Cons -> States] /\ cref \in [Cons -> Nat]
  /\ pstate \in [Prods -> States] /\ pref \in [Prods -> Nat]
  /\ dep \subseteq Cons \X Prods
  /\ fifo \in [Cons \cup Prods -> Seq(Events)]
  /\ event \in Events \cup {"NONE"} /\ left \subseteq Cons

RmInit(d) ==
  /\ cstate = [c \in Cons |-> "RELEASED"] /\ cref = [c \in Cons |-> 0]
  /\ pstate = [p \in Prods |-> "RELEASED"] /\ pref = [p \in Prods |-> 0]
  /\ dep = d
  /\ fifo = [x \in Cons \cup Prods |-> <<>>]
  /\ event = "NONE" /\ left = {}

Unlocked == left = {}

-----------------------------------------------------------------------------
(* Producers.                                                              *)

Peers(c) == {p \in Prods : <<c, p>> \in dep}
Users(p) == {c \in Cons : <<c, p>> \in dep}

\* Mutant of AfterRequest: a request does not take back a release that waits.
MutAfterRequest(p, a) ==
  CASE pstate[p] = "RELEASED" /\ a = "0" -> "GRANTED"
    [] pstate[p] = "RELEASED" /\ a # "0" -> "REQUEST_IN_PROGRESS"
    [] OTHER                             -> pstate[p]

AfterRequest(p, a) ==
  CASE pstate[p] = "RELEASED" /\ a = "0"   -> "GRANTED"
    [] pstate[p] = "RELEASED" /\ a # "0"   -> "REQUEST_IN_PROGRESS"
    [] pstate[p] = "RELEASE_IN_PROGRESS"   -> "REQUEST_IN_PROGRESS"
    [] OTHER                               -> pstate[p]

\* sipa_rm_resource_producer_request on each producer of S.
RequestProducers(S, ans) ==
  /\ pref' = [p \in Prods |-> IF p \in S THEN pref[p] + 1 ELSE pref[p]]
  /\ pstate' = [p \in Prods |-> IF p \in S THEN AfterRequest(p, ans[p]) ELSE pstate[p]]

\* The drivers that makes it call; the others are granted or on their way.
DriverRequested(S) == {p \in S : pstate[p] = "RELEASED"}

AfterRelease(p) ==
  CASE pstate[p] = "GRANTED" /\ pref[p] <= 1             -> "RELEASED"
    [] pstate[p] = "REQUEST_IN_PROGRESS" /\ pref[p] <= 1 -> "RELEASE_IN_PROGRESS"
    [] OTHER                                             -> pstate[p]

\* Mutant of ReleaseProducers: a count of zero is not looked for.
MutReleaseProducers(S) ==
  /\ pref' = [p \in Prods |-> IF p \in S THEN pref[p] - 1 ELSE pref[p]]
  /\ pstate' = [p \in Prods |-> IF p \in S THEN AfterRelease(p) ELSE pstate[p]]

\* sipa_rm_resource_producer_release on each producer of S.
ReleaseProducers(S) ==
  /\ pref' = [p \in Prods |-> IF p \in S /\ pref[p] > 0 THEN pref[p] - 1 ELSE pref[p]]
  /\ pstate' = [p \in Prods |-> IF p \in S THEN AfterRelease(p) ELSE pstate[p]]

DriverReleased(S) == {p \in S : pstate[p] = "GRANTED" /\ pref[p] <= 1}

-----------------------------------------------------------------------------
(* Consumers.                                                              *)

\* sipa_rm_wq_send_cmd: a full fifo loses the event.
Queued(q, x, e) == [q EXCEPT ![x] = IF Len(@) < FifoLen THEN Append(@, e) ELSE @]

\* Mutant of AllGranted: one granted producer is enough.
MutAllGranted(c) == \E p \in Peers(c) : pstate[p] = "GRANTED"
AllGranted(c) == \A p \in Peers(c) : pstate[p] = "GRANTED"

EnterGranted(c) ==
  /\ cstate' = [cstate EXCEPT ![c] = "GRANTED"]
  /\ fifo' = Queued(fifo, c, "GRANTED")

\* Mutant of DoRelease: the listeners are not told.
MutDoRelease(c) ==
  /\ ReleaseProducers(Peers(c))
  /\ cstate' = [cstate EXCEPT ![c] = "RELEASED"]
  /\ UNCHANGED fifo

DoRelease(c) ==
  /\ ReleaseProducers(Peers(c))
  /\ cstate' = [cstate EXCEPT ![c] = "RELEASED"]
  /\ fifo' = Queued(fifo, c, "RELEASED")

RequestAnswer(c, ans) ==
  IF \/ cstate[c] = "GRANTED"
     \/ cstate[c] = "RELEASED" /\ \A p \in Peers(c) : AfterRequest(p, ans[p]) = "GRANTED"
  THEN "0" ELSE "-EINPROGRESS"

\* sipa_rm_request_resource -> sipa_rm_resource_consumer_request.
RequestResource(c, ans) ==
  /\ Unlocked
  /\ cref' = [cref EXCEPT ![c] = @ + 1]
  /\ \/ /\ cstate[c] = "RELEASED"
        /\ RequestProducers(Peers(c), ans)
        /\ \/ RequestAnswer(c, ans) = "0" /\ EnterGranted(c)
           \/ /\ RequestAnswer(c, ans) # "0"
              /\ cstate' = [cstate EXCEPT ![c] = "REQUEST_IN_PROGRESS"]
              /\ UNCHANGED fifo
     \/ /\ cstate[c] = "RELEASE_IN_PROGRESS"
        /\ cstate' = [cstate EXCEPT ![c] = "REQUEST_IN_PROGRESS"]
        /\ UNCHANGED <<pstate, pref, fifo>>
     \/ /\ cstate[c] \in {"GRANTED", "REQUEST_IN_PROGRESS"}
        /\ UNCHANGED <<cstate, pstate, pref, fifo>>
  /\ UNCHANGED <<dep, event, left>>

RequestCalls(c) == IF cstate[c] = "RELEASED" THEN DriverRequested(Peers(c)) ELSE {}

\* sipa_rm_release_resource -> sipa_rm_resource_consumer_release.
ReleaseResource(c) ==
  /\ Unlocked
  /\ cref' = [cref EXCEPT ![c] = IF @ > 0 THEN @ - 1 ELSE @]
  /\ \/ /\ cstate[c] = "GRANTED" /\ cref'[c] = 0
        /\ DoRelease(c)
     \/ /\ cstate[c] = "REQUEST_IN_PROGRESS" /\ cref'[c] = 0
        /\ cstate' = [cstate EXCEPT ![c] = "RELEASE_IN_PROGRESS"]
        /\ UNCHANGED <<pstate, pref, fifo>>
     \/ /\ cstate[c] \in {"RELEASED", "RELEASE_IN_PROGRESS"} \/ cref'[c] # 0
        /\ UNCHANGED <<cstate, pstate, pref, fifo>>
  /\ UNCHANGED <<dep, event, left>>

ReleaseCalls(c) ==
  IF cstate[c] = "GRANTED" /\ cref[c] <= 1 THEN DriverReleased(Peers(c)) ELSE {}

-----------------------------------------------------------------------------
(* The dependency graph.                                                   *)

\* Mutant of AddDependency: a granted consumer does not request its new producer.
MutAddDependency(c, p, ans) ==
  /\ Unlocked
  /\ <<c, p>> \notin dep
  /\ dep' = dep \cup {<<c, p>>}
  /\ UNCHANGED <<cstate, cref, pstate, pref, fifo, event, left>>

\* sipa_rm_resource_add_dependency; -EEXIST changes nothing.
AddDependency(c, p, ans) ==
  /\ Unlocked
  /\ <<c, p>> \notin dep
  /\ dep' = dep \cup {<<c, p>>}
  /\ \/ /\ cstate[c] \in {"RELEASED", "RELEASE_IN_PROGRESS"}
        /\ UNCHANGED <<cstate, pstate, pref>>
     \/ /\ cstate[c] \in {"GRANTED", "REQUEST_IN_PROGRESS"}
        /\ RequestProducers({p}, ans)
        /\ cstate' = IF AfterRequest(p, ans[p]) = "GRANTED" THEN cstate
                     ELSE [cstate EXCEPT ![c] = "REQUEST_IN_PROGRESS"]
  /\ UNCHANGED <<cref, fifo, event, left>>

AddCalls(c, p) ==
  IF cstate[c] \in {"GRANTED", "REQUEST_IN_PROGRESS"} THEN DriverRequested({p}) ELSE {}

\* Mutant of RestGranted: p is still counted.
MutRestGranted(c, p) == \A q \in Peers(c) : pstate[q] = "GRANTED"

\* consumer_check_all_pord_granted, once p is out of the peers list.
RestGranted(c, p) == \A q \in Peers(c) \ {p} : pstate[q] = "GRANTED"

\* sipa_rm_resource_delete_dependency.
DeleteDependency(c, p) ==
  /\ Unlocked
  /\ <<c, p>> \in dep
  /\ dep' = dep \ {<<c, p>>}
  /\ \/ cstate[c] = "RELEASED" /\ UNCHANGED <<cstate, pstate, pref, fifo>>
     \/ /\ \/ cstate[c] = "GRANTED"
           \/ cstate[c] \in {"REQUEST_IN_PROGRESS", "RELEASE_IN_PROGRESS"} /\ ~RestGranted(c, p)
        /\ ReleaseProducers({p})
        /\ UNCHANGED <<cstate, fifo>>
     \/ /\ cstate[c] = "REQUEST_IN_PROGRESS" /\ RestGranted(c, p)
        /\ EnterGranted(c)
        /\ ReleaseProducers({p})
     \/ cstate[c] = "RELEASE_IN_PROGRESS" /\ RestGranted(c, p) /\ DoRelease(c)
  /\ UNCHANGED <<cref, event, left>>

DeleteCalls(c, p) ==
  CASE cstate[c] = "RELEASED" -> {}
    [] cstate[c] = "RELEASE_IN_PROGRESS" /\ RestGranted(c, p) -> DriverReleased(Peers(c))
    [] OTHER -> DriverReleased({p})

-----------------------------------------------------------------------------
(* The manager's work queue.                                               *)

\* sipa_rm_wq_handler, RESOURCE_CB -> sipa_rm_resource_producer_handle_cb, up
\* to its loop over the consumers.
HandleProducer(p) ==
  /\ Unlocked
  /\ fifo[p] # <<>>
  /\ fifo' = [fifo EXCEPT ![p] = Tail(@)]
  /\ \/ /\ Head(fifo[p]) = "FAIL"
        /\ pstate' = [pstate EXCEPT ![p] = "RELEASED"]
        /\ left' = Users(p)
     \/ /\ Head(fifo[p]) = "GRANTED"
        /\ \/ pstate[p] = "REQUEST_IN_PROGRESS"
           \/ pstate[p] = "RELEASED" /\ pref[p] > 0
        /\ pstate' = [pstate EXCEPT ![p] = "GRANTED"]
        /\ left' = Users(p)
     \/ /\ Head(fifo[p]) = "GRANTED" /\ pstate[p] = "RELEASE_IN_PROGRESS"
        /\ pstate' = [pstate EXCEPT ![p] = "RELEASED"]
        /\ UNCHANGED left
     \/ /\ \/ Head(fifo[p]) = "RELEASED"
           \/ pstate[p] = "GRANTED" /\ Head(fifo[p]) = "GRANTED"
           \/ pstate[p] = "RELEASED" /\ pref[p] = 0 /\ Head(fifo[p]) = "GRANTED"
        /\ UNCHANGED <<pstate, left>>
  /\ event' = IF left' = {} THEN "NONE" ELSE Head(fifo[p])
  /\ UNCHANGED <<cstate, cref, pref, dep>>

\* Mutant of HandleCalls: a release that waited is not passed on to the driver.
MutHandleCalls(p) == {}

HandleCalls(p) ==
  IF Head(fifo[p]) = "GRANTED" /\ pstate[p] = "RELEASE_IN_PROGRESS" THEN {p} ELSE {}

\* One round of that loop: sipa_rm_resource_consumer_handle_cb.
HandleConsumer(c) ==
  /\ c \in left
  /\ \/ /\ \/ event = "FAIL"
           \/ cstate[c] = "RELEASE_IN_PROGRESS" /\ AllGranted(c)
        /\ DoRelease(c)
     \/ /\ event = "GRANTED"
        /\ cstate[c] = "REQUEST_IN_PROGRESS" /\ AllGranted(c)
        /\ EnterGranted(c)
        /\ UNCHANGED <<pstate, pref>>
     \/ /\ event = "GRANTED"
        /\ cstate[c] \in {"GRANTED", "RELEASED"} \/ ~AllGranted(c)
        /\ UNCHANGED <<cstate, pstate, pref, fifo>>
  /\ left' = left \ {c}
  /\ event' = IF left' = {} THEN "NONE" ELSE event
  /\ UNCHANGED <<cref, dep>>

ConsumerCalls(c) ==
  IF event = "FAIL" \/ (cstate[c] = "RELEASE_IN_PROGRESS" /\ AllGranted(c))
  THEN DriverReleased(Peers(c)) ELSE {}

\* sipa_rm_wq_handler, NOTIFY_CONS -> sipa_rm_resource_consumer_notify_clients:
\* the listeners get Head(fifo[c]).
NotifyClients(c) ==
  /\ Unlocked
  /\ fifo[c] # <<>>
  /\ fifo' = [fifo EXCEPT ![c] = Tail(@)]
  /\ UNCHANGED <<cstate, cref, pstate, pref, dep, event, left>>

\* sipa_rm_notify_completion, called by the producer's driver.
NotifyCompletion(p, e) ==
  /\ Unlocked
  /\ fifo' = Queued(fifo, p, e)
  /\ UNCHANGED <<cstate, cref, pstate, pref, dep, event, left>>
=============================================================================
