------------------------------- MODULE SipaTx -------------------------------
(***************************************************************************)
(* The uplink: sipa_eth's transmit function, sipa_nic's lazily taken       *)
(* resource, the sender's descriptor ring with its free thread, and the    *)
(* resource manager they all go through (SipaDriver, with drivers that     *)
(* keep their promise).  Every network interface of the modem shares the   *)
(* consumer UL (CONS_WWAN_UL).                                             *)
(*                                                                         *)
(* One step per critical section or unlocked store, so that the transmit   *)
(* path, the inactivity alarm, the manager's callbacks and the free thread *)
(* interleave as they do on several cores.  The callbacks run with         *)
(* sipa_rm_lock held: while `calling' is not empty the manager is locked.  *)
(* The stack runs one transmit of an interface at a time and none while it *)
(* is being closed.                                                        *)
(***************************************************************************)
EXTENDS SipaDriver

CONSTANTS Nics,         \* network interfaces of the modem
          UL,           \* SIPA_RM_RES_CONS_WWAN_UL
          IPA,          \* SIPA_RM_RES_PROD_IPA
          Depth,        \* descriptors of the send ring
          MapFails,     \* TRUE where a skb may fail to be mapped for DMA
          MaxOpens      \* bound on how often an interface is opened again

ASSUME TxAssumption ==
  /\ IsFiniteSet(Nics) /\ UL \in Cons /\ IPA \in Prods
  /\ Depth \in Nat \ {0} /\ MaxOpens \in Nat /\ MapFails \in BOOLEAN

VARIABLES nic,          \* interface -> its struct sipa_nic and its transmit queue
          pc,           \* interface -> where its transmit is
          ret,          \* interface -> the result its transmit carries
          letting,      \* interfaces whose alarm handler is about to release UL
          calling,      \* interfaces the manager has still to call back
          leaving,      \* the one it is about to take out of flow control, or {}
          sending,      \* descriptors the IPA has not processed
          sent,         \* descriptors it has processed and nobody freed
          free_notify_net,
          informing,    \* the free thread is about to inform the interfaces
          opens,
          stale         \* history: UL was requested with the GRANTED of an earlier
                        \* request still to be told, and no grant has settled it

ethVars == <<pc, ret>>
rsVars == <<letting, calling, leaving>>
ringVars == <<sending, sent, free_notify_net, informing>>
txVars == <<vars, nic, ethVars, rsVars, ringVars, opens, stale>>

Nic == [open : BOOLEAN,                 \* status = NIC_OPEN
        resource_requested : BOOLEAN, reschedule_work : BOOLEAN,
        release_in_progress : BOOLEAN,  \* the alarm is set
        need_request : BOOLEAN, request_in_progress : BOOLEAN,
        rm_flow_ctrl : BOOLEAN, flow_ctrl_status : BOOLEAN,
        stopped : BOOLEAN,              \* netif_queue_stopped
        requeued : BOOLEAN]             \* the qdisc holds a packet that came back BUSY

TxTypeOK ==
  /\ TypeOK
  /\ nic \in [Nics -> Nic]
  /\ pc \in [Nics -> {"idle", "call", "back", "send", "flag", "release", "check", "stop",
                      "trigger", "closing", "closed", "opening"}]
  /\ ret \in [Nics -> {"0", "-EINPROGRESS", "-EAGAIN", "-ENOMEM"}]
  /\ letting \subseteq Nics /\ calling \subseteq Nics /\ leaving \subseteq Nics
  /\ sending \in 0 .. Depth /\ sent \in 0 .. Depth
  /\ free_notify_net \in BOOLEAN /\ informing \in BOOLEAN /\ opens \in 0 .. MaxOpens
  /\ stale \in BOOLEAN

\* sipa_nic_rm_init and the first sipa_eth_open.
NewNic ==
  [open |-> TRUE, resource_requested |-> FALSE, reschedule_work |-> FALSE,
   release_in_progress |-> FALSE, need_request |-> TRUE, request_in_progress |-> FALSE,
   rm_flow_ctrl |-> FALSE, flow_ctrl_status |-> FALSE, stopped |-> FALSE, requeued |-> FALSE]

TxInit ==
  /\ Init
  /\ nic = [n \in Nics |-> NewNic]
  /\ pc = [n \in Nics |-> "idle"] /\ ret = [n \in Nics |-> "0"]
  /\ letting = {} /\ calling = {} /\ leaving = {}
  /\ sending = 0 /\ sent = 0 /\ free_notify_net = FALSE /\ informing = FALSE
  /\ opens = 0 /\ stale = FALSE

Goto(n, l) == pc' = [pc EXCEPT ![n] = l]
left_cnt == Depth - sending - sent

\* The interfaces that are registered with the manager, and on the sender's nic_list.
Registered == {n \in Nics : nic[n].open \/ pc[n] \in {"closing", "opening"}}
Listed == {n \in Nics : nic[n].open \/ pc[n] \in {"closing", "closed"}}

\* sipa_rm_lock, which a callback's caller holds.
RmFree == calling = {} /\ leaving = {}

-----------------------------------------------------------------------------
(* sipa_eth_start_xmit and sipa_nic_tx.                                    *)

\* sipa_nic_rm_res_request, its first critical section.
Xmit(n) ==
  /\ pc[n] = "idle" /\ nic[n].open /\ ~nic[n].stopped
  /\ LET r == nic[n]
         call == r.need_request /\ ~r.request_in_progress
     IN /\ nic' = [nic EXCEPT ![n] =
             [r EXCEPT !.resource_requested = TRUE,
                       !.need_request = @ /\ ~call,
                       !.request_in_progress = @ \/ call,
                       !.rm_flow_ctrl = @ \/ call \/ r.request_in_progress]]
        /\ ret' = [ret EXCEPT ![n] = IF r.request_in_progress THEN "-EINPROGRESS" ELSE "0"]
        /\ Goto(n, CASE call -> "call"
                     [] r.request_in_progress -> "release"
                     [] OTHER -> "send")
  /\ UNCHANGED <<vars, rsVars, ringVars, opens, stale>>

\* sipa_rm_request_resource, with no lock of the interface held.  MaxQueued, a bound
\* of the model, leaves room for a GRANTED and a RELEASED that nobody was told yet.
XmitCall(n) ==
  /\ pc[n] = "call" /\ RmFree /\ Len(fifo[UL]) < MaxQueued
  /\ \E ans \in [Prods -> Answers] :
       /\ RequestResource(UL, ans) /\ Asked(RequestCalls(UL), ans)
       /\ ret' = [ret EXCEPT ![n] = RequestAnswer(UL, ans)]
  /\ stale' = (stale \/ (/\ cstate'[UL] # "GRANTED"
                         /\ \E i \in DOMAIN fifo[UL] : fifo[UL][i] = "GRANTED"))
  /\ Goto(n, "back")
  /\ UNCHANGED <<heard, changes, faults, nic, rsVars, ringVars, opens>>

\* Mutant of XmitBack: the reference of an answer that is not 0 is forgotten.
MutXmitBack(n) ==
  /\ pc[n] = "back"
  /\ nic' = [nic EXCEPT ![n].need_request = ret[n] # "0", ![n].request_in_progress = FALSE]
  /\ Goto(n, IF ret[n] = "0" THEN "send" ELSE "release")
  /\ UNCHANGED <<vars, ret, rsVars, ringVars, opens, stale>>

\* Its second critical section stores the answer, whatever came meanwhile.
XmitBack(n) ==
  /\ pc[n] = "back"
  /\ nic' = [nic EXCEPT ![n].need_request = FALSE,
                        ![n].request_in_progress = ret[n] = "-EINPROGRESS"]
  /\ Goto(n, IF ret[n] = "0" THEN "send" ELSE "release")
  /\ UNCHANGED <<vars, ret, rsVars, ringVars, opens, stale>>

\* Mutant of XmitSend: the ring is never full.
MutXmitSend(n) ==
  /\ pc[n] = "send"
  /\ sending' = sending + 1
  /\ Goto(n, "release")
  /\ UNCHANGED <<vars, nic, ret, rsVars, sent, free_notify_net, informing, opens, stale>>

\* sipa_skb_sender_send_data; a full ring is -EAGAIN, a skb that cannot be mapped
\* -ENOMEM.
XmitSend(n) ==
  /\ pc[n] = "send"
  /\ \/ left_cnt > 0 /\ sending' = sending + 1 /\ Goto(n, "release") /\ UNCHANGED ret
     \/ /\ left_cnt = 0 /\ ret' = [ret EXCEPT ![n] = "-EAGAIN"] /\ Goto(n, "flag")
        /\ UNCHANGED sending
     \/ /\ MapFails /\ ret' = [ret EXCEPT ![n] = "-ENOMEM"] /\ Goto(n, "release")
        /\ UNCHANGED sending
  /\ UNCHANGED <<vars, nic, rsVars, sent, free_notify_net, informing, opens, stale>>

\* flow_ctrl_status is stored with no lock.
XmitFlag(n) ==
  /\ pc[n] = "flag"
  /\ nic' = [nic EXCEPT ![n].flow_ctrl_status = TRUE]
  /\ Goto(n, "release")
  /\ UNCHANGED <<vars, ret, rsVars, ringVars, opens, stale>>

\* sipa_nic_rm_res_release: start the alarm, or ask the one that is set for
\* another round.
XmitRelease(n) ==
  /\ pc[n] = "release"
  /\ nic' = [nic EXCEPT ![n] =
       [@ EXCEPT !.resource_requested = FALSE,
                 !.reschedule_work = nic[n].release_in_progress,
                 !.release_in_progress = TRUE,
                 !.requeued = ret[n] # "0"]]
  /\ Goto(n, IF ret[n] = "0" THEN "idle" ELSE "check")
  /\ UNCHANGED <<vars, ret, rsVars, ringVars, opens, stale>>

\* sipa_nic_check_flow_ctrl, then netif_stop_queue.  The queue_lock around the
\* two is not held where the callbacks read netif_queue_stopped.
XmitCheck(n) ==
  /\ pc[n] = "check"
  /\ Goto(n, IF nic[n].rm_flow_ctrl THEN "stop" ELSE "trigger")
  /\ UNCHANGED <<vars, nic, ret, rsVars, ringVars, opens, stale>>

XmitStop(n) ==
  /\ pc[n] = "stop"
  /\ nic' = [nic EXCEPT ![n].stopped = TRUE]
  /\ Goto(n, "trigger")
  /\ UNCHANGED <<vars, ret, rsVars, ringVars, opens, stale>>

\* sipa_nic_trigger_flow_ctrl_work; the packet goes back to the qdisc.
XmitTrigger(n) ==
  /\ pc[n] = "trigger"
  /\ free_notify_net' = (free_notify_net \/ ret[n] = "-EAGAIN")
  /\ Goto(n, "idle")
  /\ UNCHANGED <<vars, nic, ret, rsVars, sending, sent, informing, opens, stale>>

XmitStep(n) == \/ XmitCall(n) \/ XmitBack(n) \/ XmitSend(n) \/ XmitFlag(n) \/ XmitRelease(n)
               \/ XmitCheck(n) \/ XmitStop(n) \/ XmitTrigger(n)

-----------------------------------------------------------------------------
(* The inactivity alarm.                                                   *)

\* Mutant of SendComplete: what was sent and not freed does not count.
MutSendComplete == sending = 0

\* sipa_skb_sender_check_send_complete: true as well once power_flag is cleared.
SendComplete == sending + sent = 0 \/ drv[IPA] = "off"

\* SIPA_NIC_RM_INACTIVE_TIMER is three seconds: what is left of a transmit once it
\* set the alarm, or asked it for another round, ends before that round does, and
\* the qdisc tries a packet again before it unless the queue is stopped.
Expires(n) == /\ pc[n] \notin {"check", "stop", "trigger"}
              /\ nic[n].requeued => nic[n].stopped

\* Mutants of Alarm: another round asks for another; a transmit under way does not
\* keep the resource.
MutAlarmRound(n) ==
  /\ nic[n].release_in_progress /\ n \notin letting /\ Expires(n)
  /\ IF nic[n].reschedule_work \/ ~SendComplete \/ nic[n].resource_requested
     THEN UNCHANGED <<nic, letting>>
     ELSE /\ nic' = [nic EXCEPT ![n].need_request = TRUE, ![n].release_in_progress = FALSE,
                                ![n].request_in_progress = FALSE]
          /\ letting' = letting \cup {n}
  /\ UNCHANGED <<vars, ethVars, calling, leaving, ringVars, opens, stale>>

MutAlarm(n) ==
  /\ nic[n].release_in_progress /\ n \notin letting /\ Expires(n)
  /\ IF nic[n].reschedule_work \/ ~SendComplete
     THEN nic' = [nic EXCEPT ![n].reschedule_work = FALSE] /\ UNCHANGED letting
     ELSE /\ nic' = [nic EXCEPT ![n].need_request = TRUE, ![n].release_in_progress = FALSE,
                                ![n].request_in_progress = FALSE]
          /\ letting' = letting \cup {n}
  /\ UNCHANGED <<vars, ethVars, calling, leaving, ringVars, opens, stale>>

\* sipa_nic_alarm_to_release under the interface's lock: another round, or let go.
Alarm(n) ==
  /\ nic[n].release_in_progress /\ n \notin letting /\ Expires(n)
  /\ \/ /\ nic[n].reschedule_work \/ ~SendComplete \/ nic[n].resource_requested
        /\ nic' = [nic EXCEPT ![n].reschedule_work = FALSE]
        /\ UNCHANGED letting
     \/ /\ ~nic[n].reschedule_work /\ SendComplete /\ ~nic[n].resource_requested
        /\ nic' = [nic EXCEPT ![n].need_request = TRUE,
                              ![n].release_in_progress = FALSE,
                              ![n].request_in_progress = FALSE]
        /\ letting' = letting \cup {n}
  /\ UNCHANGED <<vars, ethVars, calling, leaving, ringVars, opens, stale>>

\* Its sipa_rm_release_resource, after the unlock.
AlarmRelease(n) ==
  /\ n \in letting /\ RmFree
  /\ ReleaseResource(UL) /\ Dropped(ReleaseCalls(UL))
  /\ letting' = letting \ {n}
  /\ UNCHANGED <<heard, changes, faults, nic, ethVars, calling, leaving, ringVars, opens, stale>>

-----------------------------------------------------------------------------
(* The manager: its steps, and the callbacks under its lock.               *)

RmStep ==
  /\ RmFree
  /\ \/ \E c \in Cons : TellConsumer(c)
     \/ \E p \in Prods : Complete(p) \/ WorkProducer(p)
  /\ UNCHANGED <<nic, ethVars, rsVars, ringVars, opens, stale>>

\* The event of UL goes to every registered interface.
Notify ==
  /\ RmFree /\ WorkConsumer(UL)
  /\ calling' = Registered
  /\ stale' = (stale /\ (cstate[UL] # "GRANTED" \/ fifo'[UL] # <<>>))
  /\ UNCHANGED <<nic, ethVars, letting, leaving, ringVars, opens>>

\* sipa_nic_rm_res_granted or sipa_nic_rm_res_reinit.
Callback(n) ==
  /\ n \in calling /\ leaving = {}
  /\ calling' = calling \ {n}
  /\ leaving' = IF nic[n].open /\ (heard[UL] = "RELEASED" \/ nic[n].rm_flow_ctrl)
                THEN {n} ELSE {}
  /\ nic' = [nic EXCEPT ![n].rm_flow_ctrl = @ /\ ~nic[n].open,
                        ![n].request_in_progress = @ /\ heard[UL] # "GRANTED"]
  /\ UNCHANGED <<vars, ethVars, letting, ringVars, opens, stale>>

\* SIPA_LEAVE_FLOWCTRL, sipa_eth_flowctrl_handler.
Leave(n) ==
  /\ n \in leaving
  /\ leaving' = {}
  /\ nic' = [nic EXCEPT ![n].stopped = FALSE]
  /\ UNCHANGED <<vars, ethVars, letting, calling, ringVars, opens, stale>>

-----------------------------------------------------------------------------
(* The ring.                                                               *)

\* The IPA takes a descriptor.
IpaSends ==
  /\ sending > 0 /\ drv[IPA] = "on"
  /\ sending' = sending - 1 /\ sent' = sent + 1
  /\ UNCHANGED <<vars, nic, ethVars, rsVars, free_notify_net, informing, opens, stale>>

\* A round of sipa_free_thread that finds something to free; one that does not
\* changes nothing, free_notify_net included.
FreeSent ==
  /\ sent > 0 /\ ~informing
  /\ sent' = 0
  /\ informing' = (free_notify_net /\ left_cnt + sent > Depth \div 4)
  /\ free_notify_net' = (free_notify_net /\ ~informing')
  /\ UNCHANGED <<vars, nic, ethVars, rsVars, sending, opens, stale>>

\* sipa_inform_evt_to_nics
Inform ==
  /\ informing
  /\ informing' = FALSE
  /\ nic' = [n \in Nics |->
       IF n \in Listed /\ nic[n].flow_ctrl_status
       THEN [nic[n] EXCEPT !.flow_ctrl_status = FALSE, !.stopped = FALSE]
       ELSE nic[n]]
  /\ UNCHANGED <<vars, ethVars, rsVars, sending, sent, free_notify_net, opens, stale>>

-----------------------------------------------------------------------------
(* sipa_eth_close and sipa_eth_open, the interface down and up again.  The *)
(* qdisc drops what it held before the close.                              *)

\* sipa_nic_close: status, then sipa_nic_deregister_rm under sipa_rm_lock.
Close(n) ==
  /\ nic[n].open /\ pc[n] = "idle" /\ opens < MaxOpens
  /\ nic' = [nic EXCEPT ![n].open = FALSE, ![n].requeued = FALSE]
  /\ Goto(n, "closing")
  /\ UNCHANGED <<vars, ret, rsVars, ringVars, opens, stale>>

Deregister(n) ==
  /\ pc[n] = "closing" /\ RmFree /\ Unlocked
  /\ Goto(n, "closed")
  /\ UNCHANGED <<vars, nic, ret, rsVars, ringVars, opens, stale>>

\* sipa_skb_sender_remove_nic and netif_stop_queue.
Closed(n) ==
  /\ pc[n] = "closed"
  /\ nic' = [nic EXCEPT ![n].stopped = TRUE]
  /\ Goto(n, "idle")
  /\ UNCHANGED <<vars, ret, rsVars, ringVars, opens, stale>>

\* sipa_nic_open: sipa_nic_register_rm under sipa_rm_lock, then the nic_list, the
\* status and netif_start_queue.
Open(n) ==
  /\ ~nic[n].open /\ pc[n] = "idle" /\ RmFree /\ Unlocked
  /\ opens' = opens + 1
  /\ Goto(n, "opening")
  /\ UNCHANGED <<vars, nic, ret, rsVars, ringVars, stale>>

Opened(n) ==
  /\ pc[n] = "opening"
  /\ nic' = [nic EXCEPT ![n].open = TRUE, ![n].stopped = FALSE]
  /\ Goto(n, "idle")
  /\ UNCHANGED <<vars, ret, rsVars, ringVars, opens, stale>>

-----------------------------------------------------------------------------

TxNext ==
  \/ \E n \in Nics : \/ Xmit(n) \/ XmitStep(n) \/ Alarm(n) \/ AlarmRelease(n)
                     \/ Callback(n) \/ Leave(n) \/ Close(n) \/ Deregister(n)
                     \/ Closed(n) \/ Open(n) \/ Opened(n)
  \/ RmStep \/ Notify \/ IpaSends \/ FreeSent \/ Inform

TxSpec == TxInit /\ [][TxNext]_txVars

\* A transmit that began ends, the qdisc tries a packet that came back again
\* while its queue is not stopped, alarms expire, the manager's work, the IPA and
\* the free thread run.
TxFairness ==
  /\ \A n \in Nics : /\ WF_txVars(XmitStep(n)) /\ WF_txVars(nic[n].requeued /\ Xmit(n))
                     /\ WF_txVars(Alarm(n)) /\ WF_txVars(AlarmRelease(n))
                     /\ WF_txVars(Callback(n)) /\ WF_txVars(Leave(n))
  /\ WF_txVars(RmStep) /\ WF_txVars(Notify)
  /\ WF_txVars(IpaSends) /\ WF_txVars(FreeSent) /\ WF_txVars(Inform)

FairTxSpec == TxSpec /\ TxFairness

-----------------------------------------------------------------------------

\* An interface holds at most one reference of UL, and the manager's count is the
\* references held plus the ones an alarm is about to return: no transmit, alarm,
\* close or reopen loses or doubles one.
OneReference ==
  cref[UL] = Cardinality({n \in Nics : ~nic[n].need_request /\ pc[n] # "call"})
             + Cardinality(letting)

\* A descriptor is written only into the ring of a powered IPA, unless the GRANTED
\* of an earlier request was still to be told when this one was made: the callback
\* takes it for the answer and clears request_in_progress (sipa_nic.c:163).
SendsPowered ==
  ~stale => \A n \in Nics : pc[n] = "send" => cstate[UL] = "GRANTED" /\ drv[IPA] = "on"

\* The IPA is not given up with descriptors in the ring, with the same exception.
RingDrained == ~stale /\ drv[IPA] = "off" => sending + sent = 0

\* A stopped queue is woken: the SIPA_LEAVE_FLOWCTRL that ends a resume, or the one
\* that follows the inactivity alarm's release, finds it.
QueueWakes ==
  \A n \in Nics : nic[n].open /\ nic[n].stopped ~> ~(nic[n].open /\ nic[n].stopped)
=============================================================================
