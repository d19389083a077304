-------------------------- MODULE SipaDriverProofs --------------------------
(***************************************************************************)
(* What the resource manager promises for any number of consumers and      *)
(* producers, as long as the drivers keep their promise (Kept) and no      *)
(* dependency is added to a consumer that is releasing; and what the       *)
(* listeners know whatever the drivers do.                                 *)
(***************************************************************************)
EXTENDS SipaDriver, FiniteSetTheorems, SequenceTheorems, TLAPS

(* Type correctness.                                                       *)

\* An event put on a work_type_fifo, or dropped because it is full, leaves the
\* fifos well typed (sipa_rm_wq_send_cmd).
LEMMA QueuedType ==
  ASSUME NEW q \in [Cons \cup Prods -> Seq(Events)],
         NEW x \in Cons \cup Prods, NEW e \in Events
  PROVE  Queued(q, x, e) \in [Cons \cup Prods -> Seq(Events)]
BY DEF Queued

\* An event taken from a work_type_fifo is an event (sipa_rm_wq_handler).
LEMMA TailType ==
  ASSUME NEW q \in [Cons \cup Prods -> Seq(Events)],
         NEW x \in Cons \cup Prods, q[x] # <<>>
  PROVE  /\ [q EXCEPT ![x] = Tail(@)] \in [Cons \cup Prods -> Seq(Events)]
         /\ Head(q[x]) \in Events
<1>1. q[x] \in Seq(Events)
  OBVIOUS
<1>2. Tail(q[x]) \in Seq(Events) /\ Head(q[x]) \in Events
  BY <1>1
<1> QED
  BY <1>2

\* The same for the events the manager and the drivers queue.
LEMMA FifoType ==
  ASSUME RmTypeOK, NEW x \in Cons \cup Prods
  PROVE  /\ Queued(fifo, x, "GRANTED") \in [Cons \cup Prods -> Seq(Events)]
         /\ Queued(fifo, x, "RELEASED") \in [Cons \cup Prods -> Seq(Events)]
         /\ Queued(fifo, x, "FAIL") \in [Cons \cup Prods -> Seq(Events)]
<1>1. /\ fifo \in [Cons \cup Prods -> Seq(Events)]
      /\ "GRANTED" \in Events /\ "RELEASED" \in Events /\ "FAIL" \in Events
  BY DEF RmTypeOK, Events
<1> QED
  BY Zenon, <1>1, QueuedType

\* Requesting producers keeps their states and counts well typed
\* (sipa_rm_resource_producer_request).
LEMMA RequestProducersType ==
  ASSUME RmTypeOK, NEW S, NEW ans, RequestProducers(S, ans)
  PROVE  pstate' \in [Prods -> States] /\ pref' \in [Prods -> Nat]
BY DEF RmTypeOK, RequestProducers, AfterRequest, States

\* Releasing producers keeps their states and counts well typed: a count never
\* passes below zero (sipa_rm_resource_producer_release).
LEMMA ReleaseProducersType ==
  ASSUME RmTypeOK, NEW S, ReleaseProducers(S)
  PROVE  pstate' \in [Prods -> States] /\ pref' \in [Prods -> Nat]
BY DEF RmTypeOK, ReleaseProducers, AfterRelease, States

\* The manager's state stays well typed under every step.
LEMMA RmTypeStep ==
  ASSUME RmTypeOK, [Next]_vars
  PROVE  RmTypeOK'
<1>1. ASSUME NEW c \in Cons, Request(c)
      PROVE  RmTypeOK'
  <2>1. PICK ans \in [Prods -> Answers] : RequestResource(c, ans)
    BY <1>1 DEF Request
  <2>2. CASE cstate[c] = "RELEASED"
    <3>1. pstate' \in [Prods -> States] /\ pref' \in [Prods -> Nat]
      BY <2>1, <2>2, RequestProducersType DEF RequestResource
    <3>2. cstate' \in [Cons -> States]
      BY Zenon, <2>1, <2>2 DEF RequestResource, EnterGranted, RmTypeOK, States
    <3>4. fifo' \in [Cons \cup Prods -> Seq(Events)]
      <4>1. fifo' = fifo \/ fifo' = Queued(fifo, c, "GRANTED")
        BY <2>1, <2>2 DEF RequestResource, EnterGranted
      <4> QED
        BY ZenonT(30), <4>1, FifoType DEF RmTypeOK
    <3>3. cref' \in [Cons -> Nat] /\ UNCHANGED <<dep, event, left>>
      BY <2>1 DEF RequestResource, RmTypeOK
    <3> QED
      BY <3>1, <3>2, <3>3, <3>4 DEF RmTypeOK
  <2>3. CASE cstate[c] # "RELEASED"
    <3>1. cstate' \in [Cons -> States] /\ cref' \in [Cons -> Nat]
      BY <2>1, <2>3 DEF RequestResource, RmTypeOK, States
    <3> QED
      BY <2>1, <2>3, <3>1 DEF RequestResource, RmTypeOK
  <2> QED
    BY <2>2, <2>3
<1>2. ASSUME NEW c \in Cons, Release(c)
      PROVE  RmTypeOK'
  <2>1. ReleaseResource(c)
    BY <1>2 DEF Release
  <2>2. CASE DoRelease(c)
    <3>1. pstate' \in [Prods -> States] /\ pref' \in [Prods -> Nat]
      BY <2>2, ReleaseProducersType DEF DoRelease
    <3>2. cstate' \in [Cons -> States]
      BY <2>2 DEF DoRelease, RmTypeOK, States
    <3>4. fifo' \in [Cons \cup Prods -> Seq(Events)]
      BY Zenon, <2>2, FifoType DEF DoRelease, RmTypeOK
    <3>3. cref' \in [Cons -> Nat] /\ UNCHANGED <<dep, event, left>>
      BY <2>1 DEF ReleaseResource, RmTypeOK
    <3> QED
      BY <3>1, <3>2, <3>3, <3>4 DEF RmTypeOK
  <2>3. CASE ~DoRelease(c)
    <3>1. cstate' \in [Cons -> States] /\ cref' \in [Cons -> Nat]
      BY <2>1, <2>3 DEF ReleaseResource, RmTypeOK, States
    <3> QED
      BY <2>1, <2>3, <3>1 DEF ReleaseResource, RmTypeOK
  <2> QED
    BY <2>2, <2>3
<1>3. ASSUME NEW c \in Cons, NEW p \in Prods, Add(c, p)
      PROVE  RmTypeOK'
  <2>1. PICK ans \in [Prods -> Answers] : AddDependency(c, p, ans)
    BY <1>3 DEF Add
  <2>2. pstate' \in [Prods -> States] /\ pref' \in [Prods -> Nat]
    <3>1. UNCHANGED <<pstate, pref>> \/ RequestProducers({p}, ans)
      BY <2>1 DEF AddDependency
    <3> QED
      BY Zenon, <3>1, RequestProducersType DEF RmTypeOK
  <2>3. cstate' \in [Cons -> States]
    BY Zenon, <2>1 DEF AddDependency, RmTypeOK, States
  <2> QED
    BY <2>1, <2>2, <2>3 DEF AddDependency, RmTypeOK
<1>4. ASSUME NEW c \in Cons, NEW p \in Prods, Delete(c, p)
      PROVE  RmTypeOK'
  <2>1. DeleteDependency(c, p)
    BY <1>4 DEF Delete
  <2>2. pstate' \in [Prods -> States] /\ pref' \in [Prods -> Nat]
    <3>1. \/ UNCHANGED <<pstate, pref>>
          \/ ReleaseProducers({p}) \/ ReleaseProducers(Peers(c))
      BY <2>1 DEF DeleteDependency, DoRelease
    <3> QED
      BY <3>1, ReleaseProducersType DEF RmTypeOK
  <2>3. cstate' \in [Cons -> States]
    BY Zenon, <2>1 DEF DeleteDependency, DoRelease, EnterGranted, RmTypeOK, States
  <2>4. fifo' \in [Cons \cup Prods -> Seq(Events)]
    <3>1. \/ fifo' = fifo
          \/ fifo' = Queued(fifo, c, "GRANTED") \/ fifo' = Queued(fifo, c, "RELEASED")
      BY <2>1 DEF DeleteDependency, DoRelease, EnterGranted
    <3> QED
      BY Zenon, <3>1, FifoType DEF RmTypeOK
  <2> QED
    BY <2>1, <2>2, <2>3, <2>4 DEF DeleteDependency, RmTypeOK
<1>5. ASSUME NEW p \in Prods, Complete(p) \/ Fail(p)
      PROVE  RmTypeOK'
  <2>1. /\ fifo' = Queued(fifo, p, "GRANTED") \/ fifo' = Queued(fifo, p, "FAIL")
        /\ UNCHANGED <<cstate, cref, pstate, pref, dep, event, left>>
    BY <1>5 DEF Complete, Fail, NotifyCompletion
  <2>2. fifo' \in [Cons \cup Prods -> Seq(Events)]
    BY Zenon, <2>1, FifoType
  <2> QED
    BY <2>1, <2>2 DEF RmTypeOK
<1>6. ASSUME NEW p \in Prods, WorkProducer(p)
      PROVE  RmTypeOK'
  <2>1. HandleProducer(p) /\ fifo[p] # <<>>
    BY <1>6 DEF WorkProducer, HandleProducer
  <2>2. fifo' \in [Cons \cup Prods -> Seq(Events)] /\ Head(fifo[p]) \in Events
    BY <2>1, TailType DEF HandleProducer, RmTypeOK
  <2>3. pstate' \in [Prods -> States] /\ left' \subseteq Cons
    BY Zenon, <2>1 DEF HandleProducer, RmTypeOK, States, Users
  <2>4. event' \in Events \cup {"NONE"}
    BY <2>1, <2>2 DEF HandleProducer
  <2> QED
    BY <2>1, <2>2, <2>3, <2>4 DEF HandleProducer, RmTypeOK
<1>7. ASSUME NEW c \in Cons, TellConsumer(c)
      PROVE  RmTypeOK'
  <2>1. HandleConsumer(c)
    BY <1>7 DEF TellConsumer
  <2>2. pstate' \in [Prods -> States] /\ pref' \in [Prods -> Nat]
    <3>1. UNCHANGED <<pstate, pref>> \/ ReleaseProducers(Peers(c))
      BY <2>1 DEF HandleConsumer, DoRelease
    <3> QED
      BY <3>1, ReleaseProducersType DEF RmTypeOK
  <2>3. cstate' \in [Cons -> States]
    BY Zenon, <2>1 DEF HandleConsumer, DoRelease, EnterGranted, RmTypeOK, States
  <2>4. fifo' \in [Cons \cup Prods -> Seq(Events)]
    <3>1. \/ fifo' = fifo
          \/ fifo' = Queued(fifo, c, "GRANTED") \/ fifo' = Queued(fifo, c, "RELEASED")
      BY <2>1 DEF HandleConsumer, DoRelease, EnterGranted
    <3>2. fifo \in [Cons \cup Prods -> Seq(Events)] /\ c \in Cons \cup Prods
      BY DEF RmTypeOK
    <3> QED
      BY Zenon, <3>1, <3>2, FifoType
  <2>5. /\ left' \subseteq Cons /\ event' \in Events \cup {"NONE"}
        /\ UNCHANGED <<cref, dep>>
    BY <2>1 DEF HandleConsumer, RmTypeOK
  <2> QED
    BY <2>2, <2>3, <2>4, <2>5 DEF RmTypeOK
<1>8. ASSUME NEW c \in Cons, WorkConsumer(c)
      PROVE  RmTypeOK'
  BY <1>8, TailType DEF WorkConsumer, NotifyClients, RmTypeOK
<1>9. ASSUME NEW p \in Prods, Lose(p)
      PROVE  RmTypeOK'
  BY <1>9 DEF Lose, rmVars, RmTypeOK
<1>10. CASE UNCHANGED vars
  BY <1>10 DEF vars, rmVars, RmTypeOK
<1> QED
  BY <1>1, <1>2, <1>3, <1>4, <1>5, <1>6, <1>7, <1>8, <1>9, <1>10 DEF Next

\* So does the rest of the state.
LEMMA TypeStep ==
  ASSUME TypeOK, [Next]_vars
  PROVE  TypeOK'
<1>1. RmTypeOK'
  BY RmTypeStep DEF TypeOK
<1>2. drv' \in [Prods -> {"off", "starting", "on"}]
  BY Zenon DEF TypeOK, Next, vars, Request, Release, Add, Delete, Complete, Fail, Lose,
         WorkProducer, TellConsumer, WorkConsumer, Asked, Dropped
<1>3. changes' \in Nat /\ faults' \in Nat
  <2>1. changes' \in {changes, changes + 1} /\ faults' \in {faults, faults + 1}
    BY Zenon DEF Next, vars, Request, Release, Add, Delete, Complete, Fail, Lose,
           WorkProducer, TellConsumer, WorkConsumer
  <2> QED
    BY <2>1 DEF TypeOK
<1>4. heard' \in [Cons -> Events \cup {"NONE"}]
  <2>1. CASE \E c \in Cons : WorkConsumer(c)
    <3>1. PICK c \in Cons : WorkConsumer(c)
      BY <2>1
    <3>2. Head(fifo[c]) \in Events
      BY <3>1, TailType DEF WorkConsumer, NotifyClients, TypeOK, RmTypeOK
    <3> QED
      BY <3>1, <3>2 DEF WorkConsumer, TypeOK
  <2>2. CASE ~\E c \in Cons : WorkConsumer(c)
    <3>1. heard' = heard
      BY Zenon, <2>2 DEF Next, vars, Request, Release, Add, Delete, Complete, Fail, Lose,
                  WorkProducer, TellConsumer
    <3> QED
      BY <3>1 DEF TypeOK
  <2> QED
    BY <2>1, <2>2
<1> QED
  BY <1>1, <1>2, <1>3, <1>4 DEF TypeOK

\* The state is well typed in every run: in particular no ref_count of a consumer
\* or producer passes below zero, also after a driver's failure.
THEOREM TypeCorrect == Spec => []TypeOK
<1>1. Init => TypeOK
  BY DriverAssumption DEF Init, RmInit, TypeOK, RmTypeOK, States, Events
<1>2. TypeOK /\ [Next]_vars => TypeOK'
  BY TypeStep
<1> QED
  BY <1>1, <1>2, PTL DEF Spec

-----------------------------------------------------------------------------
(* The inductive invariant, what taking and giving up producers does to    *)
(* it, and that sipa_rm_request_resource and sipa_rm_release_resource keep *)
(* it.                                                                     *)

\* A producer's state, its count, its driver and the completion under way agree.
ProducerInv(p) ==
  /\ pstate[p] = "RELEASED" => drv[p] = "off" /\ fifo[p] = <<>> /\ pref[p] = 0
  /\ pstate[p] = "GRANTED" => drv[p] = "on" /\ fifo[p] = <<>> /\ pref[p] > 0
  /\ pstate[p] = "REQUEST_IN_PROGRESS" => pref[p] > 0
  /\ pstate[p] = "RELEASE_IN_PROGRESS" => pref[p] = 0
  /\ pstate[p] \in {"REQUEST_IN_PROGRESS", "RELEASE_IN_PROGRESS"} =>
       \/ drv[p] = "starting" /\ fifo[p] = <<>>
       \/ drv[p] = "on" /\ fifo[p] = <<"GRANTED">>

\* A granted consumer's producers are granted.
ConsumerInv(c) ==
  cstate[c] = "GRANTED" => \A p \in Prods : <<c, p>> \in dep => pstate[p] = "GRANTED"

\* A consumer on its way, and told of all there is to tell, has a producer that
\* is not granted.
WaitInv(c) ==
  cstate[c] \in {"REQUEST_IN_PROGRESS", "RELEASE_IN_PROGRESS"} /\ c \notin left =>
    \E p \in Prods : <<c, p>> \in dep /\ pstate[p] # "GRANTED"

\* The inductive invariant: what holds while no promise was broken.
KeptInv ==
  /\ RefsMatch
  /\ \A p \in Prods : ProducerInv(p)
  /\ \A c \in Cons : ConsumerInv(c) /\ WaitInv(c)
  /\ event # "FAIL"

DriverInv == TypeOK /\ (Kept => KeptInv)

-----------------------------------------------------------------------------
(* The holders of a producer.                                              *)

\* A producer has finitely many holders.
LEMMA HoldersFinite ==
  ASSUME NEW p
  PROVE  IsFiniteSet(Holders(p)) /\ Holders(p) \subseteq Cons
<1>1. Holders(p) \in SUBSET Cons
  BY DEF Holders, Users
<1> QED
  BY <1>1, FS_Subset, ResourcesAssumption

\* A producer that a consumer holds has a reference, and one that two hold has two.
LEMMA HeldTwice ==
  ASSUME TypeOK, Kept, KeptInv, NEW p \in Prods, NEW c \in Holders(p)
  PROVE  /\ pref[p] > 0
         /\ \A d \in Holders(p) : d # c => pref[p] > 1
<1>1. /\ IsFiniteSet(Holders(p)) /\ pref[p] = Cardinality(Holders(p)) /\ pref[p] \in Nat
  BY HoldersFinite DEF KeptInv, RefsMatch, TypeOK, RmTypeOK
<1>2. /\ IsFiniteSet(Holders(p) \ {c})
      /\ Cardinality(Holders(p) \ {c}) = pref[p] - 1
      /\ Cardinality(Holders(p) \ {c}) \in Nat
  BY <1>1, FS_RemoveElement, FS_CardinalityType
<1>3. ASSUME NEW d \in Holders(p), d # c
      PROVE  pref[p] > 1
  <2>1. Cardinality(Holders(p) \ {c}) # 0
    BY <1>2, <1>3, FS_EmptySet
  <2> QED
    BY <1>1, <1>2, <2>1
<1> QED
  BY <1>1, <1>2, <1>3

\* Consumer c takes the producers S (sipa_rm_resource_producer_request on each):
\* the counts match again, each producer agrees with its driver, and one that was
\* not released is granted after it exactly if it was before.
LEMMA TakesAll ==
  ASSUME TypeOK, Kept, KeptInv, NEW c \in Cons, NEW S \in SUBSET Prods,
         NEW ans \in [Prods -> Answers],
         RequestProducers(S, ans), Asked(DriverRequested(S), ans),
         \A p \in Prods : fifo'[p] = fifo[p],
         \A p \in S : c \notin Holders(p) /\ Holders(p)' = Holders(p) \cup {c},
         \A p \in Prods \ S : Holders(p)' = Holders(p)
  PROVE  /\ RefsMatch'
         /\ \A p \in Prods : ProducerInv(p)'
         /\ \A p \in Prods : pstate[p] # "RELEASED" =>
              (pstate'[p] = "GRANTED" <=> pstate[p] = "GRANTED")
<1>1. ASSUME NEW p \in Prods
      PROVE  pref'[p] = Cardinality(Holders(p)')
  <2>1. pref[p] = Cardinality(Holders(p)) /\ IsFiniteSet(Holders(p))
    BY HoldersFinite DEF KeptInv, RefsMatch
  <2>2. CASE p \in S
    BY <2>1, <2>2, FS_AddElement DEF RequestProducers
  <2>3. CASE p \notin S
    BY <2>1, <2>3 DEF RequestProducers
  <2> QED
    BY <2>2, <2>3
<1>2. RefsMatch'
  BY <1>1 DEF RefsMatch
<1>3. ASSUME NEW p \in Prods
      PROVE  /\ ProducerInv(p)'
             /\ pstate[p] # "RELEASED" => (pstate'[p] = "GRANTED" <=> pstate[p] = "GRANTED")
  <2>1. /\ pstate[p] \in States /\ pref[p] \in Nat /\ ProducerInv(p)
        /\ ans[p] \in Answers /\ fifo'[p] = fifo[p]
    BY DEF TypeOK, RmTypeOK, KeptInv
  <2>2. CASE p \in S
    <3>1. /\ pref'[p] = pref[p] + 1 /\ pstate'[p] = AfterRequest(p, ans[p])
          /\ drv'[p] = IF pstate[p] # "RELEASED" THEN drv[p]
                       ELSE IF ans[p] = "0" THEN "on" ELSE "starting"
      BY <2>2 DEF RequestProducers, Asked, DriverRequested
    <3> QED
      BY <2>1, <3>1 DEF ProducerInv, AfterRequest, States, Answers
  <2>3. CASE p \notin S
    <3>1. pref'[p] = pref[p] /\ pstate'[p] = pstate[p] /\ drv'[p] = drv[p]
      BY <2>3 DEF RequestProducers, Asked, DriverRequested
    <3> QED
      BY <2>1, <3>1 DEF ProducerInv
  <2> QED
    BY <2>2, <2>3
<1> QED
  BY <1>2, <1>3

\* Consumer c gives up the producers S (sipa_rm_resource_producer_release on each):
\* the counts match again, each producer agrees with its driver, and the ones
\* somebody else holds stay granted.
LEMMA GivesAll ==
  ASSUME TypeOK, Kept, KeptInv, NEW c \in Cons, NEW S \in SUBSET Prods,
         ReleaseProducers(S), Dropped(DriverReleased(S)),
         \A p \in Prods : fifo'[p] = fifo[p],
         \A p \in S : c \in Holders(p) /\ Holders(p)' = Holders(p) \ {c},
         \A p \in Prods \ S : Holders(p)' = Holders(p)
  PROVE  /\ RefsMatch'
         /\ \A p \in Prods : ProducerInv(p)'
         /\ \A p \in Prods : pstate'[p] = "GRANTED" => pstate[p] = "GRANTED"
         /\ \A p \in Prods : pstate[p] = "GRANTED" /\ (\E d \in Holders(p) : d # c) =>
              pstate'[p] = "GRANTED"
<1>1. ASSUME NEW p \in S
      PROVE  pref[p] > 0 /\ \A d \in Holders(p) : d # c => pref[p] > 1
  BY HeldTwice
<1>2. ASSUME NEW p \in Prods
      PROVE  pref'[p] = Cardinality(Holders(p)')
  <2>1. /\ pref[p] = Cardinality(Holders(p)) /\ IsFiniteSet(Holders(p))
        /\ pref[p] \in Nat
    BY HoldersFinite DEF KeptInv, RefsMatch, TypeOK, RmTypeOK
  <2>2. CASE p \in S
    BY <2>1, <2>2, <1>1, FS_RemoveElement DEF ReleaseProducers
  <2>3. CASE p \notin S
    BY <2>1, <2>3 DEF ReleaseProducers
  <2> QED
    BY <2>2, <2>3
<1>3. RefsMatch'
  BY <1>2 DEF RefsMatch
<1>4. ASSUME NEW p \in Prods
      PROVE  /\ ProducerInv(p)'
             /\ pstate'[p] = "GRANTED" => pstate[p] = "GRANTED"
             /\ pstate[p] = "GRANTED" /\ (\E d \in Holders(p) : d # c) => pstate'[p] = "GRANTED"
  <2>1. /\ pstate[p] \in States /\ pref[p] \in Nat /\ ProducerInv(p)
        /\ fifo'[p] = fifo[p]
    BY DEF TypeOK, RmTypeOK, KeptInv
  <2>2. CASE p \in S
    <3>1. /\ pref'[p] = pref[p] - 1 /\ pstate'[p] = AfterRelease(p)
          /\ drv'[p] = IF pstate[p] = "GRANTED" /\ pref[p] <= 1 THEN "off" ELSE drv[p]
      BY <2>2, <1>1 DEF ReleaseProducers, Dropped, DriverReleased
    <3> QED
      BY <2>1, <2>2, <3>1, <1>1 DEF ProducerInv, AfterRelease, States
  <2>3. CASE p \notin S
    <3>1. pref'[p] = pref[p] /\ pstate'[p] = pstate[p] /\ drv'[p] = drv[p]
      BY <2>3 DEF ReleaseProducers, Dropped, DriverReleased
    <3> QED
      BY <2>1, <3>1 DEF ProducerInv
  <2> QED
    BY <2>2, <2>3
<1> QED
  BY <1>3, <1>4

\* An event queued for a consumer is not in a producer's work_type_fifo.
LEMMA QueuedOther ==
  ASSUME TypeOK, NEW c \in Cons, NEW p \in Prods, NEW e
  PROVE  Queued(fifo, c, e)[p] = fifo[p]
BY ResourcesAssumption DEF Queued, TypeOK, RmTypeOK

\* A producer somebody holds is granted or on its way.
LEMMA HeldIsOn ==
  ASSUME TypeOK, Kept, KeptInv, NEW p \in Prods, NEW d \in Cons,
         <<d, p>> \in dep, cstate[d] # "RELEASED"
  PROVE  /\ d \in Holders(p)
         /\ pstate[p] \in {"GRANTED", "REQUEST_IN_PROGRESS"}
<1>1. d \in Holders(p)
  BY DEF Holders, Users
<1>2. pref[p] > 0
  BY <1>1, HeldTwice
<1>3. pstate[p] \in States /\ ProducerInv(p)
  BY DEF TypeOK, RmTypeOK, KeptInv
<1> QED
  BY <1>1, <1>2, <1>3 DEF ProducerInv, States

-----------------------------------------------------------------------------
(* Each step keeps the invariant.                                          *)

\* Requesting a consumer (sipa_rm_request_resource).
LEMMA RequestKeeps ==
  ASSUME TypeOK, Kept, KeptInv, NEW c \in Cons, Request(c)
  PROVE  KeptInv'
<1>1. PICK ans \in [Prods -> Answers] :
        RequestResource(c, ans) /\ Asked(RequestCalls(c), ans)
  BY DEF Request
<1>2. left = {} /\ UNCHANGED <<dep, event, left>> /\ event # "FAIL"
  BY <1>1 DEF RequestResource, Unlocked, KeptInv
<1>3. cstate \in [Cons -> States] /\ pstate \in [Prods -> States]
  BY DEF TypeOK, RmTypeOK
<1>4. CASE cstate[c] = "RELEASED"
  <2>1. /\ RequestProducers(Peers(c), ans) /\ Asked(DriverRequested(Peers(c)), ans)
        /\ \A d \in Cons : d # c => cstate'[d] = cstate[d]
        /\ \/ /\ cstate'[c] = "GRANTED"
              /\ \A p \in Peers(c) : AfterRequest(p, ans[p]) = "GRANTED"
           \/ /\ cstate'[c] = "REQUEST_IN_PROGRESS"
              /\ \E p \in Peers(c) : AfterRequest(p, ans[p]) # "GRANTED"
    BY <1>1, <1>3, <1>4 DEF RequestResource, RequestCalls, RequestAnswer, EnterGranted
  <2>2. \A p \in Prods : fifo'[p] = fifo[p]
    <3>1. fifo' = fifo \/ fifo' = Queued(fifo, c, "GRANTED")
      BY <1>1, <1>4 DEF RequestResource, EnterGranted
    <3> QED
      BY <3>1, QueuedOther
  <2>3. /\ Peers(c) \in SUBSET Prods
        /\ \A p \in Peers(c) : c \notin Holders(p) /\ Holders(p)' = Holders(p) \cup {c}
        /\ \A p \in Prods \ Peers(c) : Holders(p)' = Holders(p)
    BY SMTT(20), <1>2, <1>4, <2>1 DEF Holders, Users, Peers
  <2>4. /\ RefsMatch'
        /\ \A p \in Prods : ProducerInv(p)'
        /\ \A p \in Prods : pstate[p] # "RELEASED" =>
             (pstate'[p] = "GRANTED" <=> pstate[p] = "GRANTED")
    BY <2>1, <2>2, <2>3, TakesAll
  <2>5. \A p \in Peers(c) : pstate'[p] = AfterRequest(p, ans[p])
    BY <2>1, <2>3 DEF RequestProducers
  <2>6. ASSUME NEW d \in Cons
        PROVE  ConsumerInv(d)' /\ WaitInv(d)'
    <3>1. CASE d = c
      BY Zenon, <1>2, <2>1, <2>3, <2>5, <3>1 DEF ConsumerInv, WaitInv, Peers
    <3>2. CASE d # c
      <4>1. cstate'[d] = cstate[d] /\ ConsumerInv(d) /\ WaitInv(d)
        BY <2>1, <3>2 DEF KeptInv
      <4>2. \A p \in Prods : <<d, p>> \in dep /\ cstate[d] # "RELEASED" =>
              pstate[p] # "RELEASED"
        BY HeldIsOn
      <4> QED
        BY <1>2, <2>4, <4>1, <4>2 DEF ConsumerInv, WaitInv
    <3> QED
      BY <3>1, <3>2
  <2> QED
    BY <1>2, <2>4, <2>6 DEF KeptInv
<1>5. CASE cstate[c] # "RELEASED"
  <2>1. /\ UNCHANGED <<pstate, pref, fifo>>
        /\ cstate' = cstate \/ /\ cstate[c] = "RELEASE_IN_PROGRESS"
                               /\ cstate' = [cstate EXCEPT ![c] = "REQUEST_IN_PROGRESS"]
    BY <1>1, <1>5 DEF RequestResource
  <2>2. \A p \in Prods : drv'[p] = drv[p]
    BY <1>1, <1>5 DEF RequestCalls, Asked
  <2>3. \A p \in Prods : Holders(p)' = Holders(p)
    BY <1>2, <1>3, <2>1 DEF Holders, Users
  <2>4. RefsMatch' /\ \A p \in Prods : ProducerInv(p)'
    BY <2>1, <2>2, <2>3 DEF KeptInv, RefsMatch, ProducerInv
  <2>5. \A d \in Cons : ConsumerInv(d)' /\ WaitInv(d)'
    BY Zenon, <1>2, <1>3, <2>1 DEF KeptInv, ConsumerInv, WaitInv
  <2> QED
    BY <1>2, <2>4, <2>5 DEF KeptInv
<1> QED
  BY <1>4, <1>5

\* A consumer gives up all it holds and is released (consumer_do_release), and one
\* of its dependencies may have been deleted before it.
LEMMA GivesUpKeeps ==
  ASSUME TypeOK, Kept, KeptInv, NEW c \in Cons, NEW S \in SUBSET Prods,
         \A p \in S : c \in Holders(p),
         \A p \in Prods : c \in Holders(p) => p \in S,
         ReleaseProducers(S), Dropped(DriverReleased(S)),
         cstate' = [cstate EXCEPT ![c] = "RELEASED"],
         fifo' = Queued(fifo, c, "RELEASED"),
         dep' = dep \/ \E p \in Prods : dep' = dep \ {<<c, p>>},
         left' = left \/ left' = left \ {c},
         event' # "FAIL"
  PROVE  KeptInv'
<1>1. cstate \in [Cons -> States] /\ pstate \in [Prods -> States]
  BY DEF TypeOK, RmTypeOK
<1>2. cstate'[c] = "RELEASED" /\ \A d \in Cons : d # c => cstate'[d] = cstate[d]
  BY <1>1
<1>3. \A d \in Cons, p \in Prods : d # c => (<<d, p>> \in dep' <=> <<d, p>> \in dep)
  OBVIOUS
<1>4. \A p \in Prods : fifo'[p] = fifo[p]
  BY QueuedOther
<1>5. /\ \A p \in S : Holders(p)' = Holders(p) \ {c}
      /\ \A p \in Prods \ S : Holders(p)' = Holders(p)
  BY <1>2, <1>3 DEF Holders, Users
<1>6. /\ RefsMatch'
      /\ \A p \in Prods : ProducerInv(p)'
      /\ \A p \in Prods : pstate'[p] = "GRANTED" => pstate[p] = "GRANTED"
      /\ \A p \in Prods : pstate[p] = "GRANTED" /\ (\E d \in Holders(p) : d # c) =>
           pstate'[p] = "GRANTED"
  BY <1>4, <1>5, GivesAll
<1>7. ASSUME NEW d \in Cons
      PROVE  ConsumerInv(d)' /\ WaitInv(d)'
  <2>1. CASE d = c
    BY <1>2, <2>1 DEF ConsumerInv, WaitInv
  <2>2. CASE d # c
    <3>1. cstate'[d] = cstate[d] /\ ConsumerInv(d) /\ WaitInv(d)
      BY <1>2, <2>2 DEF KeptInv
    <3>2. \A p \in Prods : <<d, p>> \in dep /\ cstate[d] # "RELEASED" => d \in Holders(p)
      BY HeldIsOn
    <3>3. ConsumerInv(d)'
      BY SMTT(20), <1>3, <1>6, <2>2, <3>1, <3>2 DEF ConsumerInv
    <3>4. WaitInv(d)'
      BY Zenon, <1>3, <1>6, <2>2, <3>1 DEF WaitInv
    <3> QED
      BY <3>3, <3>4
  <2> QED
    BY <2>1, <2>2
<1> QED
  BY <1>6, <1>7 DEF KeptInv

\* Releasing a consumer (sipa_rm_release_resource).
LEMMA ReleaseKeeps ==
  ASSUME TypeOK, Kept, KeptInv, NEW c \in Cons, Release(c)
  PROVE  KeptInv'
<1>1. ReleaseResource(c) /\ Dropped(ReleaseCalls(c))
  BY DEF Release
<1>2. left = {} /\ UNCHANGED <<dep, event, left>> /\ event # "FAIL"
  BY <1>1 DEF ReleaseResource, Unlocked, KeptInv
<1>3. /\ cstate \in [Cons -> States] /\ pstate \in [Prods -> States]
      /\ cref \in [Cons -> Nat]
  BY DEF TypeOK, RmTypeOK
<1>4. CASE cstate[c] = "GRANTED" /\ cref'[c] = 0
  <2>1. DoRelease(c) /\ cref[c] <= 1
    BY <1>1, <1>3, <1>4 DEF ReleaseResource
  <2>2. Dropped(DriverReleased(Peers(c)))
    BY <1>1, <1>4, <2>1 DEF ReleaseCalls
  <2>3. /\ Peers(c) \in SUBSET Prods
        /\ \A p \in Peers(c) : c \in Holders(p)
        /\ \A p \in Prods : c \in Holders(p) => p \in Peers(c)
    BY <1>4 DEF Peers, Holders, Users
  <2> QED
    BY Zenon, <1>2, <2>1, <2>2, <2>3, GivesUpKeeps DEF DoRelease
<1>5. CASE ~(cstate[c] = "GRANTED" /\ cref'[c] = 0)
  <2>1. /\ UNCHANGED <<pstate, pref, fifo>>
        /\ cstate' = cstate \/ /\ cstate[c] = "REQUEST_IN_PROGRESS"
                               /\ cstate' = [cstate EXCEPT ![c] = "RELEASE_IN_PROGRESS"]
    BY <1>1, <1>5 DEF ReleaseResource
  <2>2. \A p \in Prods : drv'[p] = drv[p]
    <3>1. ReleaseCalls(c) = {}
      BY <1>1, <1>3, <1>5 DEF ReleaseCalls, ReleaseResource
    <3> QED
      BY <1>1, <3>1 DEF Dropped
  <2>3. \A p \in Prods : Holders(p)' = Holders(p)
    BY <1>2, <1>3, <2>1 DEF Holders, Users
  <2>4. RefsMatch' /\ \A p \in Prods : ProducerInv(p)'
    BY <2>1, <2>2, <2>3 DEF KeptInv, RefsMatch, ProducerInv
  <2>5. \A d \in Cons : ConsumerInv(d)' /\ WaitInv(d)'
    BY Zenon, <1>2, <1>3, <2>1 DEF KeptInv, ConsumerInv, WaitInv
  <2> QED
    BY <1>2, <2>4, <2>5 DEF KeptInv
<1> QED
  BY <1>4, <1>5

-----------------------------------------------------------------------------
(* The other steps keep the invariant.                                     *)

\* Adding a dependency, not to a consumer that is releasing
\* (sipa_rm_resource_add_dependency).
LEMMA AddKeeps ==
  ASSUME TypeOK, Kept, KeptInv, NEW c \in Cons, NEW p \in Prods, Add(c, p),
         "RELEASE_IN_PROGRESS" \notin AddWhile
  PROVE  KeptInv'
<1>1. PICK ans \in [Prods -> Answers] :
        AddDependency(c, p, ans) /\ Asked(AddCalls(c, p), ans)
  BY DEF Add
<1>2. /\ left = {} /\ UNCHANGED <<fifo, event, left>> /\ event # "FAIL"
      /\ <<c, p>> \notin dep /\ dep' = dep \cup {<<c, p>>}
      /\ cstate[c] # "RELEASE_IN_PROGRESS"
  BY <1>1 DEF Add, AddDependency, Unlocked, KeptInv
<1>3. cstate \in [Cons -> States] /\ pstate \in [Prods -> States]
  BY DEF TypeOK, RmTypeOK
<1>4. CASE cstate[c] = "RELEASED"
  <2>1. UNCHANGED <<cstate, pstate, pref>>
    BY <1>1, <1>4 DEF AddDependency
  <2>2. \A q \in Prods : drv'[q] = drv[q]
    BY <1>1, <1>4 DEF AddCalls, Asked
  <2>3. \A q \in Prods : Holders(q)' = Holders(q)
    BY <1>2, <1>4, <2>1 DEF Holders, Users
  <2>4. RefsMatch' /\ \A q \in Prods : ProducerInv(q)'
    BY <1>2, <2>1, <2>2, <2>3 DEF KeptInv, RefsMatch, ProducerInv
  <2>5. \A d \in Cons : ConsumerInv(d)' /\ WaitInv(d)'
    BY Zenon, <1>2, <1>4, <2>1 DEF KeptInv, ConsumerInv, WaitInv
  <2> QED
    BY <1>2, <2>4, <2>5 DEF KeptInv
<1>5. CASE cstate[c] \in {"GRANTED", "REQUEST_IN_PROGRESS"}
  <2>1. /\ RequestProducers({p}, ans) /\ Asked(DriverRequested({p}), ans)
        /\ cstate' = IF AfterRequest(p, ans[p]) = "GRANTED" THEN cstate
                     ELSE [cstate EXCEPT ![c] = "REQUEST_IN_PROGRESS"]
    BY <1>1, <1>5 DEF AddDependency, AddCalls
  <2>2. /\ \A d \in Cons : d # c => cstate'[d] = cstate[d]
        /\ cstate'[c] = IF AfterRequest(p, ans[p]) = "GRANTED" THEN cstate[c]
                        ELSE "REQUEST_IN_PROGRESS"
    BY <1>3, <2>1
  <2>3. /\ {p} \in SUBSET Prods
        /\ \A q \in {p} : c \notin Holders(q) /\ Holders(q)' = Holders(q) \cup {c}
        /\ \A q \in Prods \ {p} : Holders(q)' = Holders(q)
    BY <1>2, <1>5, <2>2 DEF Holders, Users
  <2>4. /\ RefsMatch'
        /\ \A q \in Prods : ProducerInv(q)'
        /\ \A q \in Prods : pstate[q] # "RELEASED" =>
             (pstate'[q] = "GRANTED" <=> pstate[q] = "GRANTED")
    BY <1>2, <2>1, <2>3, TakesAll
  <2>5. pstate'[p] = AfterRequest(p, ans[p])
    BY <2>1 DEF RequestProducers
  <2>6. ASSUME NEW d \in Cons
        PROVE  ConsumerInv(d)' /\ WaitInv(d)'
    <3>1. \A q \in Prods : <<d, q>> \in dep /\ cstate[d] # "RELEASED" =>
            pstate[q] # "RELEASED"
      BY HeldIsOn
    <3>2. ConsumerInv(d) /\ WaitInv(d)
      BY DEF KeptInv
    <3>3. CASE d = c
      <4>1. \A q \in Prods : <<c, q>> \in dep' <=> (<<c, q>> \in dep \/ q = p)
        BY <1>2
      <4>2. ConsumerInv(c)'
        BY <1>5, <2>2, <2>4, <2>5, <3>1, <3>2, <3>3, <4>1 DEF ConsumerInv
      <4>3. WaitInv(c)'
        BY Zenon, <1>2, <1>5, <2>2, <2>4, <2>5, <3>1, <3>2, <3>3, <4>1 DEF WaitInv
      <4> QED
        BY <3>3, <4>2, <4>3
    <3>4. CASE d # c
      BY Zenon, <1>2, <2>2, <2>4, <3>1, <3>2, <3>4 DEF ConsumerInv, WaitInv
    <3> QED
      BY <3>3, <3>4
  <2> QED
    BY <1>2, <2>4, <2>6 DEF KeptInv
<1> QED
  BY <1>2, <1>3, <1>4, <1>5 DEF States

\* Deleting a dependency (sipa_rm_resource_delete_dependency).
LEMMA DeleteKeeps ==
  ASSUME TypeOK, Kept, KeptInv, NEW c \in Cons, NEW p \in Prods, Delete(c, p)
  PROVE  KeptInv'
<1>1. DeleteDependency(c, p) /\ Dropped(DeleteCalls(c, p))
  BY DEF Delete
<1>2. /\ left = {} /\ UNCHANGED <<event, left>> /\ event # "FAIL"
      /\ <<c, p>> \in dep /\ dep' = dep \ {<<c, p>>}
  BY <1>1 DEF DeleteDependency, Unlocked, KeptInv
<1>3. cstate \in [Cons -> States] /\ pstate \in [Prods -> States]
  BY DEF TypeOK, RmTypeOK
<1>4. CASE cstate[c] = "RELEASED"
  <2>1. UNCHANGED <<cstate, pstate, pref, fifo>>
    BY <1>1, <1>4 DEF DeleteDependency
  <2>2. \A q \in Prods : drv'[q] = drv[q]
    BY <1>1, <1>4 DEF DeleteCalls, Dropped
  <2>3. \A q \in Prods : Holders(q)' = Holders(q)
    BY <1>2, <1>4, <2>1 DEF Holders, Users
  <2>4. RefsMatch' /\ \A q \in Prods : ProducerInv(q)'
    BY <1>2, <2>1, <2>2, <2>3 DEF KeptInv, RefsMatch, ProducerInv
  <2>5. \A d \in Cons : ConsumerInv(d)' /\ WaitInv(d)'
    BY Zenon, <1>2, <1>4, <2>1 DEF KeptInv, ConsumerInv, WaitInv
  <2> QED
    BY <1>2, <2>4, <2>5 DEF KeptInv
<1>5. CASE cstate[c] = "RELEASE_IN_PROGRESS" /\ RestGranted(c, p)
  <2>1. DoRelease(c) /\ Dropped(DriverReleased(Peers(c)))
    BY <1>1, <1>5 DEF DeleteDependency, DeleteCalls
  <2>2. /\ Peers(c) \in SUBSET Prods
        /\ \A q \in Peers(c) : c \in Holders(q)
        /\ \A q \in Prods : c \in Holders(q) => q \in Peers(c)
    BY <1>5 DEF Peers, Holders, Users
  <2> QED
    BY Zenon, <1>2, <2>1, <2>2, GivesUpKeeps DEF DoRelease
<1>6. CASE /\ cstate[c] # "RELEASED"
           /\ ~(cstate[c] = "RELEASE_IN_PROGRESS" /\ RestGranted(c, p))
  <2>1. ReleaseProducers({p}) /\ Dropped(DriverReleased({p}))
    <3>1. ReleaseProducers({p})
      BY <1>1, <1>6 DEF DeleteDependency
    <3>2. DeleteCalls(c, p) = DriverReleased({p})
      BY <1>6 DEF DeleteCalls
    <3> QED
      BY <1>1, <3>1, <3>2
  <2>2. /\ \A d \in Cons : d # c => cstate'[d] = cstate[d]
        /\ cstate'[c] = IF cstate[c] = "REQUEST_IN_PROGRESS" /\ RestGranted(c, p)
                        THEN "GRANTED" ELSE cstate[c]
    BY <1>1, <1>3, <1>6 DEF DeleteDependency, EnterGranted
  <2>3. \A q \in Prods : fifo'[q] = fifo[q]
    <3>1. fifo' = fifo \/ fifo' = Queued(fifo, c, "GRANTED")
      BY <1>1, <1>6 DEF DeleteDependency, EnterGranted
    <3> QED
      BY <3>1, QueuedOther
  <2>4. /\ {p} \in SUBSET Prods
        /\ \A q \in {p} : c \in Holders(q) /\ Holders(q)' = Holders(q) \ {c}
        /\ \A q \in Prods \ {p} : Holders(q)' = Holders(q)
    BY <1>2, <1>6, <2>2 DEF Holders, Users
  <2>5. /\ RefsMatch'
        /\ \A q \in Prods : ProducerInv(q)'
        /\ \A q \in Prods : pstate'[q] = "GRANTED" => pstate[q] = "GRANTED"
        /\ \A q \in Prods : pstate[q] = "GRANTED" /\ (\E d \in Holders(q) : d # c) =>
             pstate'[q] = "GRANTED"
    BY <2>1, <2>3, <2>4, GivesAll
  <2>6. \A q \in Prods : q # p => pstate'[q] = pstate[q]
    BY <2>1 DEF ReleaseProducers
  <2>7. ASSUME NEW d \in Cons
        PROVE  ConsumerInv(d)' /\ WaitInv(d)'
    <3>1. ConsumerInv(d) /\ WaitInv(d)
      BY DEF KeptInv
    <3>2. CASE d = c
      <4>1. \A q \in Prods : <<c, q>> \in dep' <=> (<<c, q>> \in dep /\ q # p)
        BY <1>2
      <4>2. RestGranted(c, p) <=>
              \A q \in Prods : <<c, q>> \in dep /\ q # p => pstate[q] = "GRANTED"
        BY DEF RestGranted, Peers
      <4>3. ConsumerInv(c)'
        BY <2>2, <2>6, <3>1, <3>2, <4>1, <4>2 DEF ConsumerInv
      <4>4. WaitInv(c)'
        BY <1>6, <2>2, <2>6, <3>1, <3>2, <4>1, <4>2 DEF WaitInv
      <4> QED
        BY <3>2, <4>3, <4>4
    <3>3. CASE d # c
      <4>1. \A q \in Prods : <<d, q>> \in dep' <=> <<d, q>> \in dep
        BY <1>2, <3>3
      <4>2. \A q \in Prods : <<d, q>> \in dep /\ cstate[d] # "RELEASED" => d \in Holders(q)
        BY HeldIsOn
      <4>3. ConsumerInv(d)'
        BY SMTT(20), <2>2, <2>5, <3>1, <3>3, <4>1, <4>2 DEF ConsumerInv
      <4>4. WaitInv(d)'
        BY <1>2, <2>2, <2>5, <3>1, <3>3, <4>1 DEF WaitInv
      <4> QED
        BY <4>3, <4>4
    <3> QED
      BY <3>2, <3>3
  <2> QED
    BY <1>2, <2>5, <2>7 DEF KeptInv
<1> QED
  BY <1>4, <1>5, <1>6

\* A driver reports its producer up (sipa_rm_notify_completion).
LEMMA CompleteKeeps ==
  ASSUME TypeOK, Kept, KeptInv, NEW p \in Prods, Complete(p)
  PROVE  KeptInv'
<1>1. /\ drv[p] = "starting" /\ drv' = [drv EXCEPT ![p] = "on"]
      /\ fifo' = Queued(fifo, p, "GRANTED")
      /\ UNCHANGED <<cstate, cref, pstate, pref, dep, event, left>>
  BY DEF Complete, NotifyCompletion
<1>2. /\ pstate[p] \in States /\ ProducerInv(p) /\ fifo[p] \in Seq(Events)
      /\ fifo \in [Cons \cup Prods -> Seq(Events)]
      /\ drv \in [Prods -> {"off", "starting", "on"}]
  BY DEF TypeOK, RmTypeOK, KeptInv
<1>3. fifo[p] = <<>>
  BY <1>1, <1>2 DEF ProducerInv, States
<1>4. fifo'[p] = <<"GRANTED">> /\ \A q \in Prods : q # p => fifo'[q] = fifo[q]
  BY <1>1, <1>2, <1>3, ResourcesAssumption DEF Queued
<1>5. drv'[p] = "on" /\ \A q \in Prods : q # p => drv'[q] = drv[q]
  BY <1>1, <1>2
<1>6. ASSUME NEW q \in Prods
      PROVE  ProducerInv(q)'
  <2>1. CASE q = p
    BY SMTT(20), <1>1, <1>2, <1>4, <1>5, <2>1 DEF ProducerInv, States
  <2>2. CASE q # p
    BY SMTT(20), <1>1, <1>4, <1>5, <2>2 DEF ProducerInv, KeptInv
  <2> QED
    BY <2>1, <2>2
<1>7. RefsMatch' /\ \A d \in Cons : ConsumerInv(d)' /\ WaitInv(d)'
  BY <1>1 DEF KeptInv, RefsMatch, Kept, Complete, Holders, Users, ConsumerInv, WaitInv
<1> QED
  BY <1>1, <1>6, <1>7 DEF KeptInv

\* The manager takes a producer's event (sipa_rm_resource_producer_handle_cb).
LEMMA WorkProducerKeeps ==
  ASSUME TypeOK, Kept, KeptInv, NEW p \in Prods, WorkProducer(p)
  PROVE  KeptInv'
<1>1. HandleProducer(p) /\ Dropped(HandleCalls(p))
  BY DEF WorkProducer
<1>2. /\ left = {} /\ fifo[p] # <<>> /\ fifo' = [fifo EXCEPT ![p] = Tail(@)]
      /\ UNCHANGED <<cstate, cref, pref, dep, faults>>
  BY <1>1 DEF HandleProducer, Unlocked, WorkProducer
<1>3. /\ pstate[p] \in States /\ ProducerInv(p) /\ pstate \in [Prods -> States]
      /\ fifo \in [Cons \cup Prods -> Seq(Events)]
  BY DEF TypeOK, RmTypeOK, KeptInv
<1>4. /\ pstate[p] \in {"REQUEST_IN_PROGRESS", "RELEASE_IN_PROGRESS"}
      /\ drv[p] = "on" /\ fifo[p] = <<"GRANTED">>
  BY <1>2, <1>3 DEF ProducerInv, States
<1>5. Head(fifo[p]) = "GRANTED" /\ Tail(fifo[p]) = <<>>
  BY <1>4
<1>6. fifo'[p] = <<>> /\ \A q \in Prods : q # p => fifo'[q] = fifo[q]
  BY <1>2, <1>3, <1>5
<1>7. event' # "FAIL"
  BY <1>1, <1>5 DEF HandleProducer
<1>8. RefsMatch'
  BY <1>2 DEF KeptInv, RefsMatch, Kept, Holders, Users
<1>9. CASE pstate[p] = "REQUEST_IN_PROGRESS"
  <2>1. pstate' = [pstate EXCEPT ![p] = "GRANTED"] /\ left' = Users(p)
    BY <1>1, <1>5, <1>9 DEF HandleProducer
  <2>2. \A q \in Prods : drv'[q] = drv[q]
    BY <1>1, <1>9 DEF HandleCalls, Dropped
  <2>3. pstate'[p] = "GRANTED" /\ \A q \in Prods : q # p => pstate'[q] = pstate[q]
    BY <1>3, <2>1
  <2>4. \A q \in Prods : ProducerInv(q)'
    BY Zenon, <1>2, <1>3, <1>4, <1>6, <1>9, <2>2, <2>3 DEF ProducerInv, KeptInv
  <2>5. \A d \in Cons : ConsumerInv(d)' /\ WaitInv(d)'
    BY Zenon, <1>2, <2>1, <2>3 DEF KeptInv, ConsumerInv, WaitInv, Users
  <2> QED
    BY <1>7, <1>8, <2>4, <2>5 DEF KeptInv
<1>10. CASE pstate[p] = "RELEASE_IN_PROGRESS"
  <2>1. pstate' = [pstate EXCEPT ![p] = "RELEASED"] /\ left' = left
    BY <1>1, <1>5, <1>10 DEF HandleProducer
  <2>2. drv'[p] = "off" /\ \A q \in Prods : q # p => drv'[q] = drv[q]
    BY <1>1, <1>5, <1>10 DEF HandleCalls, Dropped
  <2>3. pstate'[p] = "RELEASED" /\ \A q \in Prods : q # p => pstate'[q] = pstate[q]
    BY <1>3, <2>1
  <2>4. \A q \in Prods : ProducerInv(q)'
    BY Zenon, <1>2, <1>3, <1>6, <1>10, <2>2, <2>3 DEF ProducerInv, KeptInv
  <2>5. \A d \in Cons : ConsumerInv(d)' /\ WaitInv(d)'
    BY Zenon, <1>2, <1>10, <2>1, <2>3 DEF KeptInv, ConsumerInv, WaitInv
  <2> QED
    BY <1>7, <1>8, <2>4, <2>5 DEF KeptInv
<1> QED
  BY <1>4, <1>9, <1>10

\* It tells the event to one consumer (sipa_rm_resource_consumer_handle_cb).
LEMMA TellConsumerKeeps ==
  ASSUME TypeOK, Kept, KeptInv, NEW c \in Cons, TellConsumer(c)
  PROVE  KeptInv'
<1>1. HandleConsumer(c) /\ Dropped(ConsumerCalls(c))
  BY DEF TellConsumer
<1>2. /\ left' = left \ {c} /\ event # "FAIL" /\ event' # "FAIL"
      /\ UNCHANGED <<dep, faults>>
  BY <1>1 DEF HandleConsumer, KeptInv, TellConsumer
<1>3. cstate \in [Cons -> States] /\ pstate \in [Prods -> States]
  BY DEF TypeOK, RmTypeOK
<1>4. CASE cstate[c] = "RELEASE_IN_PROGRESS" /\ AllGranted(c)
  <2>1. DoRelease(c) /\ Dropped(DriverReleased(Peers(c)))
    BY <1>1, <1>2, <1>4 DEF HandleConsumer, ConsumerCalls
  <2>2. /\ Peers(c) \in SUBSET Prods
        /\ \A q \in Peers(c) : c \in Holders(q)
        /\ \A q \in Prods : c \in Holders(q) => q \in Peers(c)
    BY <1>4 DEF Peers, Holders, Users
  <2> QED
    BY Zenon, <1>2, <2>1, <2>2, GivesUpKeeps DEF DoRelease
<1>5. CASE ~(cstate[c] = "RELEASE_IN_PROGRESS" /\ AllGranted(c))
  <2>1. /\ UNCHANGED <<pstate, pref>>
        /\ \/ /\ cstate[c] = "REQUEST_IN_PROGRESS" /\ AllGranted(c)
              /\ cstate' = [cstate EXCEPT ![c] = "GRANTED"]
           \/ /\ cstate[c] \in {"GRANTED", "RELEASED"} \/ ~AllGranted(c)
              /\ cstate' = cstate
    BY <1>1, <1>2, <1>5 DEF HandleConsumer, EnterGranted
  <2>2. \A q \in Prods : drv'[q] = drv[q]
    BY <1>1, <1>2, <1>5 DEF ConsumerCalls, Dropped
  <2>3. \A q \in Prods : fifo'[q] = fifo[q]
    <3>1. fifo' = fifo \/ fifo' = Queued(fifo, c, "GRANTED")
      BY <1>1, <1>2, <1>5 DEF HandleConsumer, EnterGranted
    <3> QED
      BY <3>1, QueuedOther
  <2>4. \A q \in Prods : Holders(q)' = Holders(q)
    BY <1>2, <1>3, <2>1 DEF Holders, Users
  <2>5. RefsMatch' /\ \A q \in Prods : ProducerInv(q)'
    BY <1>2, <2>1, <2>2, <2>3, <2>4 DEF KeptInv, RefsMatch, Kept, ProducerInv
  <2>6. ASSUME NEW d \in Cons
        PROVE  ConsumerInv(d)' /\ WaitInv(d)'
    BY Zenon, <1>2, <1>3, <2>1 DEF KeptInv, ConsumerInv, WaitInv, AllGranted, Peers
  <2> QED
    BY <1>2, <2>5, <2>6 DEF KeptInv
<1> QED
  BY <1>4, <1>5

\* It tells a consumer's event to the listeners
\* (sipa_rm_resource_consumer_notify_clients).
LEMMA WorkConsumerKeeps ==
  ASSUME TypeOK, Kept, KeptInv, NEW c \in Cons, WorkConsumer(c)
  PROVE  KeptInv'
<1>1. /\ UNCHANGED <<cstate, cref, pstate, pref, dep, event, left, drv, faults>>
      /\ fifo' = [fifo EXCEPT ![c] = Tail(@)]
  BY DEF WorkConsumer, NotifyClients
<1>2. \A q \in Prods : fifo'[q] = fifo[q]
  BY <1>1, ResourcesAssumption DEF TypeOK, RmTypeOK
<1>3. RefsMatch'
  BY <1>1 DEF KeptInv, RefsMatch, Kept, Holders, Users
<1>4. \A q \in Prods : ProducerInv(q)'
  BY Zenon, <1>1, <1>2 DEF KeptInv, ProducerInv
<1>5. \A d \in Cons : ConsumerInv(d)' /\ WaitInv(d)'
  BY <1>1 DEF KeptInv, ConsumerInv, WaitInv
<1> QED
  BY <1>1, <1>3, <1>4, <1>5 DEF KeptInv

-----------------------------------------------------------------------------
(* The theorems.                                                           *)

\* The invariant is inductive.
LEMMA DriverInvStep ==
  ASSUME DriverInv, [Next]_vars, "RELEASE_IN_PROGRESS" \notin AddWhile
  PROVE  DriverInv'
<1>1. TypeOK /\ TypeOK'
  BY TypeStep DEF DriverInv
<1>2. SUFFICES ASSUME Kept'
               PROVE  KeptInv'
  BY <1>1 DEF DriverInv
<1>3. Kept /\ ~(\E p \in Prods : Fail(p) \/ Lose(p))
  <2>1. faults \in Nat /\ faults' = 0
    BY <1>1, <1>2 DEF TypeOK, Kept
  <2>2. faults' \in {faults, faults + 1}
    BY Zenon DEF Next, vars, Request, Release, Add, Delete, Complete, Fail, Lose,
           WorkProducer, TellConsumer, WorkConsumer
  <2>3. ASSUME NEW p \in Prods, Fail(p) \/ Lose(p)
        PROVE  faults' = faults + 1
    BY <2>3 DEF Fail, Lose
  <2> QED
    BY <2>1, <2>2, <2>3 DEF Kept
<1>4. KeptInv
  BY <1>3 DEF DriverInv
<1>5. CASE UNCHANGED vars
  BY Zenon, <1>4, <1>5 DEF vars, rmVars, KeptInv, RefsMatch, Kept, Holders, Users, ProducerInv,
                    ConsumerInv, WaitInv
<1> QED
  BY <1>1, <1>3, <1>4, <1>5, RequestKeeps, ReleaseKeeps, AddKeeps, DeleteKeeps, CompleteKeeps,
     WorkProducerKeeps, TellConsumerKeeps, WorkConsumerKeeps DEF Next

\* The invariant holds in every run.
LEMMA DriverInvariant ==
  ASSUME "RELEASE_IN_PROGRESS" \notin AddWhile
  PROVE  Spec => []DriverInv
<1>1. Init => DriverInv
  <2> SUFFICES ASSUME Init
               PROVE  DriverInv
    OBVIOUS
  <2>1. TypeOK
    BY DriverAssumption DEF Init, RmInit, TypeOK, RmTypeOK, States, Events
  <2>2. \A p \in Prods : Holders(p) = {} /\ pref[p] = 0 /\ pstate[p] = "RELEASED"
                         /\ drv[p] = "off" /\ fifo[p] = <<>>
    BY DEF Init, RmInit, Holders, Users
  <2>3. RefsMatch /\ \A p \in Prods : ProducerInv(p)
    BY Zenon, <2>2, FS_EmptySet DEF RefsMatch, ProducerInv
  <2>4. event # "FAIL" /\ \A c \in Cons : ConsumerInv(c) /\ WaitInv(c)
    BY DEF Init, RmInit, ConsumerInv, WaitInv
  <2> QED
    BY <2>1, <2>3, <2>4 DEF DriverInv, KeptInv
<1>2. DriverInv /\ [Next]_vars => DriverInv'
  BY DriverInvStep
<1> QED
  BY <1>1, <1>2, PTL DEF Spec

\* For any clients, producers and dependency graph, a producer's ref_count is the
\* number of consumers that hold it, as long as the drivers keep their promise.
THEOREM RefsMatchHolds ==
  ASSUME "RELEASE_IN_PROGRESS" \notin AddWhile
  PROVE  Spec => []RefsMatch
<1>1. DriverInv => RefsMatch
  BY DEF DriverInv, KeptInv, RefsMatch
<1> QED
  BY <1>1, DriverInvariant, PTL

\* A granted consumer has every producer it depends on granted and powered.
THEOREM GrantedIsPoweredHolds ==
  ASSUME "RELEASE_IN_PROGRESS" \notin AddWhile
  PROVE  Spec => []GrantedIsPowered
<1>1. DriverInv => GrantedIsPowered
  BY DEF DriverInv, KeptInv, GrantedIsPowered, ConsumerInv, ProducerInv, Peers
<1> QED
  BY <1>1, DriverInvariant, PTL

\* A producer shown as released is off, and one nobody holds is on its way off.
THEOREM NoPowerLeakedHolds ==
  ASSUME "RELEASE_IN_PROGRESS" \notin AddWhile
  PROVE  Spec => []NoPowerLeaked
<1>1. DriverInv => NoPowerLeaked
  <2> SUFFICES ASSUME DriverInv, Kept, NEW p \in Prods
               PROVE  /\ pstate[p] = "RELEASED" => drv[p] = "off"
                      /\ pref[p] = 0 => pstate[p] \in {"RELEASED", "RELEASE_IN_PROGRESS"}
    BY DEF NoPowerLeaked
  <2>1. pstate[p] \in States /\ pref[p] \in Nat /\ ProducerInv(p)
    BY DEF DriverInv, KeptInv, TypeOK, RmTypeOK
  <2> QED
    BY <2>1 DEF ProducerInv, States
<1> QED
  BY <1>1, DriverInvariant, PTL

\* A consumer that waits has a producer whose driver is starting or whose answer is
\* queued, or is being told: nobody waits for an answer that will not come.
THEOREM WaitsForSomeoneHolds ==
  ASSUME "RELEASE_IN_PROGRESS" \notin AddWhile
  PROVE  Spec => []WaitsForSomeone
<1>1. DriverInv => WaitsForSomeone
  <2> SUFFICES ASSUME DriverInv, Kept, NEW c \in Cons, c \notin left,
                      cstate[c] \in {"REQUEST_IN_PROGRESS", "RELEASE_IN_PROGRESS"}
               PROVE  \E p \in Peers(c) : /\ pstate[p] # "GRANTED"
                                          /\ drv[p] = "starting" \/ fifo[p] # <<>>
    BY DEF WaitsForSomeone
  <2>1. TypeOK /\ KeptInv /\ WaitInv(c)
    BY DEF DriverInv, KeptInv
  <2>2. PICK p \in Prods : <<c, p>> \in dep /\ pstate[p] # "GRANTED"
    BY <2>1 DEF WaitInv
  <2>3. pstate[p] = "REQUEST_IN_PROGRESS" /\ ProducerInv(p)
    BY <2>1, <2>2, HeldIsOn DEF KeptInv
  <2>4. drv[p] = "starting" \/ fifo[p] = <<"GRANTED">>
    BY <2>3 DEF ProducerInv
  <2>5. drv[p] = "starting" \/ fifo[p] # <<>>
    BY <2>4
  <2> QED
    BY <2>2, <2>5 DEF Peers
<1> QED
  BY <1>1, DriverInvariant, PTL

-----------------------------------------------------------------------------
(* What the listeners know, whatever the drivers do.                       *)

\* No work_type_fifo of a consumer is full: the next event is not lost.
NoneFull == \A c \in Cons : Len(fifo[c]) < FifoLen

\* What the listeners of c will have been told last.
Told(c) == IF fifo[c] = <<>> THEN heard[c] ELSE fifo[c][Len(fifo[c])]

\* It is the state, at every moment and not only once the queue is empty.
ToldInv ==
  \A c \in Cons : /\ cstate[c] = "GRANTED" => Told(c) = "GRANTED"
                  /\ cstate[c] = "RELEASED" => Told(c) # "GRANTED"

\* An event put on a fifo that is not full is the last to be told, and the other
\* consumers' stay (sipa_rm_wq_send_cmd).
LEMMA QueuedTold ==
  ASSUME TypeOK, NoneFull, NEW c \in Cons, NEW e \in Events,
         fifo' = Queued(fifo, c, e), heard' = heard
  PROVE  Told(c)' = e /\ \A d \in Cons : d # c => Told(d)' = Told(d)
<1>1. fifo[c] \in Seq(Events) /\ Len(fifo[c]) < FifoLen
  BY DEF TypeOK, RmTypeOK, NoneFull
<1>2. fifo'[c] = Append(fifo[c], e) /\ \A d \in Cons : d # c => fifo'[d] = fifo[d]
  BY <1>1 DEF TypeOK, RmTypeOK, Queued
<1>3. fifo'[c] # <<>> /\ fifo'[c][Len(fifo'[c])] = e
  BY <1>1, <1>2
<1> QED
  BY <1>2, <1>3 DEF Told

\* A producer's event leaves what the consumers are told.
LEMMA ProducerTold ==
  ASSUME TypeOK, NEW p \in Prods, NEW q, fifo' = [fifo EXCEPT ![p] = q], heard' = heard
  PROVE  \A d \in Cons : Told(d)' = Told(d)
<1>1. \A d \in Cons : fifo'[d] = fifo[d]
  BY ResourcesAssumption DEF TypeOK, RmTypeOK
<1> QED
  BY <1>1 DEF Told

\* A consumer enters a state and its listeners are told the same.
LEMMA EntersTold ==
  ASSUME TypeOK, NoneFull, ToldInv, NEW c \in Cons, NEW s \in {"GRANTED", "RELEASED"},
         cstate' = [cstate EXCEPT ![c] = s], fifo' = Queued(fifo, c, s), heard' = heard
  PROVE  ToldInv'
<1>1. Told(c)' = s /\ \A d \in Cons : d # c => Told(d)' = Told(d)
  BY QueuedTold DEF Events
<1>2. cstate'[c] = s /\ \A d \in Cons : d # c => cstate'[d] = cstate[d]
  BY DEF TypeOK, RmTypeOK
<1> QED
  BY <1>1, <1>2 DEF ToldInv

\* Nothing is told, and a consumer changes its state only to one in progress.
LEMMA SilentTold ==
  ASSUME TypeOK, ToldInv, \A d \in Cons : Told(d)' = Told(d),
         \A d \in Cons : cstate'[d] = cstate[d]
                         \/ cstate'[d] \in {"REQUEST_IN_PROGRESS", "RELEASE_IN_PROGRESS"}
  PROVE  ToldInv'
BY DEF ToldInv

\* Taking the first event leaves the last one last.
LEMMA TailLast ==
  ASSUME NEW q \in Seq(Events), q # <<>>
  PROVE  IF Tail(q) = <<>> THEN Head(q) = q[Len(q)] ELSE Tail(q)[Len(Tail(q))] = q[Len(q)]
<1>0. \A t \in Seq(Events) : t = <<>> <=> Len(t) = 0
  OBVIOUS
<1>1. Len(q) \in Nat /\ Len(q) > 0 /\ Tail(q) \in Seq(Events) /\ Len(Tail(q)) = Len(q) - 1
  BY EmptySeq, HeadTailProperties
<1>2. CASE Len(q) = 1
  <2>1. Tail(q) = <<>>
    <3>1. Len(Tail(q)) = 0
      BY <1>1, <1>2
    <3> QED
      BY Zenon, <1>0, <1>1, <3>1
  <2>2. Head(q) = q[1]
    OBVIOUS
  <2> QED
    BY <1>2, <2>1, <2>2
<1>3. CASE Len(q) > 1
  <2>1. Tail(q) # <<>>
    <3>1. Len(Tail(q)) # 0
      BY <1>1, <1>3
    <3> QED
      BY Zenon, <1>0, <1>1, <3>1
  <2>2. \A i \in 1 .. Len(Tail(q)) : Tail(q)[i] = q[i + 1]
    BY HeadTailProperties
  <2>3. Tail(q)[Len(Tail(q))] = q[Len(Tail(q)) + 1]
    BY <1>1, <1>3, <2>2
  <2> QED
    BY <1>1, <2>1, <2>3
<1> QED
  BY <1>1, <1>2, <1>3

\* Every step of the manager, its clients and drivers keeps what they are told right.
LEMMA ToldStep ==
  ASSUME TypeOK, NoneFull, ToldInv, [Next]_vars
  PROVE  ToldInv'
<1> DEFINE Same == \A d \in Cons : Told(d)' = Told(d)
           Waits(c, s) == s \in {"REQUEST_IN_PROGRESS", "RELEASE_IN_PROGRESS"}
                          /\ cstate' = [cstate EXCEPT ![c] = s]
<1>1. fifo' = fifo /\ heard' = heard => Same
  BY DEF Told
<1>2. ASSUME NEW c \in Cons, NEW s, Waits(c, s)
      PROVE  \A d \in Cons : cstate'[d] = cstate[d]
                         \/ cstate'[d] \in {"REQUEST_IN_PROGRESS", "RELEASE_IN_PROGRESS"}
  BY <1>2 DEF TypeOK, RmTypeOK
<1> HIDE DEF Same, Waits
<1>3. ASSUME NEW c \in Cons, Request(c) PROVE ToldInv'
  <2>1. PICK ans \in [Prods -> Answers] : RequestResource(c, ans)
    BY <1>3 DEF Request
  <2>2. heard' = heard
    BY <1>3 DEF Request
  <2>3. \/ EnterGranted(c)
        \/ fifo' = fifo /\ (Waits(c, "REQUEST_IN_PROGRESS") \/ cstate' = cstate)
    BY <2>1 DEF RequestResource, Waits
  <2> QED
    BY <1>1, <1>2, <2>2, <2>3, EntersTold, SilentTold DEF EnterGranted, Same
<1>4. ASSUME NEW c \in Cons, Release(c) PROVE ToldInv'
  <2>1. heard' = heard
    BY <1>4 DEF Release
  <2>2. \/ DoRelease(c)
        \/ fifo' = fifo /\ (Waits(c, "RELEASE_IN_PROGRESS") \/ cstate' = cstate)
    BY <1>4 DEF Release, ReleaseResource, Waits
  <2> QED
    BY <1>1, <1>2, <2>1, <2>2, EntersTold, SilentTold DEF DoRelease, Same
<1>5. ASSUME NEW c \in Cons, NEW p \in Prods, Add(c, p) PROVE ToldInv'
  <2>1. heard' = heard /\ fifo' = fifo
        /\ (Waits(c, "REQUEST_IN_PROGRESS") \/ cstate' = cstate)
    BY <1>5 DEF Add, AddDependency, Waits
  <2> QED
    BY <1>1, <1>2, <2>1, SilentTold DEF Same
<1>6. ASSUME NEW c \in Cons, NEW p \in Prods, Delete(c, p) PROVE ToldInv'
  <2>1. heard' = heard
    BY <1>6 DEF Delete
  <2>2. \/ EnterGranted(c)
        \/ DoRelease(c)
        \/ fifo' = fifo /\ cstate' = cstate
    BY <1>6 DEF Delete, DeleteDependency
  <2> QED
    BY <1>1, <2>1, <2>2, EntersTold, SilentTold DEF EnterGranted, DoRelease, Same
<1>7. ASSUME NEW p \in Prods, Complete(p) \/ Fail(p) \/ WorkProducer(p) PROVE ToldInv'
  <2>1. heard' = heard /\ cstate' = cstate /\ \E q : fifo' = [fifo EXCEPT ![p] = q]
    BY Zenon, <1>7 DEF Complete, Fail, WorkProducer, NotifyCompletion, HandleProducer, Queued
  <2> QED
    BY Zenon, <2>1, ProducerTold, SilentTold
<1>8. ASSUME NEW p \in Prods, Lose(p) PROVE ToldInv'
  BY <1>1, <1>8, SilentTold DEF Lose, rmVars, Same
<1>9. ASSUME NEW c \in Cons, TellConsumer(c) PROVE ToldInv'
  <2>1. heard' = heard
    BY <1>9 DEF TellConsumer
  <2>2. \/ EnterGranted(c)
        \/ DoRelease(c)
        \/ fifo' = fifo /\ cstate' = cstate
    BY <1>9 DEF TellConsumer, HandleConsumer
  <2> QED
    BY <1>1, <2>1, <2>2, EntersTold, SilentTold DEF EnterGranted, DoRelease, Same
<1>10. ASSUME NEW c \in Cons, WorkConsumer(c) PROVE ToldInv'
  <2>1. /\ fifo[c] # <<>> /\ fifo' = [fifo EXCEPT ![c] = Tail(@)] /\ cstate' = cstate
        /\ heard' = [heard EXCEPT ![c] = Head(fifo[c])]
    BY <1>10 DEF WorkConsumer, NotifyClients
  <2>2. fifo[c] \in Seq(Events) /\ fifo'[c] = Tail(fifo[c]) /\ heard'[c] = Head(fifo[c])
    BY <2>1 DEF TypeOK, RmTypeOK
  <2>3. Told(c)' = Told(c)
    BY <2>1, <2>2, TailLast DEF Told
  <2>4. \A d \in Cons : d # c => fifo'[d] = fifo[d] /\ heard'[d] = heard[d]
    BY <2>1 DEF TypeOK, RmTypeOK
  <2>5. \A d \in Cons : Told(d)' = Told(d)
    BY <2>3, <2>4 DEF Told
  <2> QED
    BY <2>1, <2>5, SilentTold
<1>11. CASE UNCHANGED vars
  BY <1>1, <1>11, SilentTold DEF vars, rmVars, Same
<1> QED
  BY <1>3, <1>4, <1>5, <1>6, <1>7, <1>8, <1>9, <1>10, <1>11 DEF Next

\* Listeners are never left believing in a grant that was withdrawn, not even by a
\* failure, as long as no event is lost on a full work_type_fifo: for any drivers,
\* faults, graph and number of consumers (sipa_rm_resource_consumer_notify_clients).
THEOREM ListenersKnowHolds == Spec /\ []NoneFull => []ListenersKnow
<1>1. Init => ToldInv
  BY DEF Init, RmInit, ToldInv, Told
<1>2. TypeOK /\ NoneFull /\ ToldInv /\ [Next]_vars => ToldInv'
  BY ToldStep
<1>3. ToldInv => ListenersKnow
  BY DEF ToldInv, Told, ListenersKnow
<1> QED
  BY <1>1, <1>2, <1>3, TypeCorrect, PTL DEF Spec
=============================================================================
