----------------------------- MODULE MCSipaDele -----------------------------
(* Small instances of SipaDele.                                            *)
EXTENDS SipaDele
MCCons == {UL, DL}
MCProds == {IPA, CP}

\* One kind of trouble at a time: with messages, with runtime PM, and with restarts
\* as the uplink and as the downlink see them.
MCSettings == {
  [wants |-> {"REQUEST"}, uplink |-> TRUE, mishaps |-> {"send", "answer", "overtake", "late"}],
  [wants |-> {"REQUEST", "ENABLE"}, uplink |-> TRUE, mishaps |-> {"refuse"}],
  [wants |-> {}, uplink |-> TRUE, mishaps |-> {"restart"}],
  [wants |-> {"REQUEST", "ENABLE"}, uplink |-> FALSE, mishaps |-> {"restart"}]}

\* What follows a report and the thread at it together is not explored; Answered
\* asks nothing once the modem restarted, so it loses nothing by this.
NotRaced == ~raced
=============================================================================
