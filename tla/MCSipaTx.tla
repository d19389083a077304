------------------------------ MODULE MCSipaTx ------------------------------
(* Small instances of SipaTx for TLC. *)
EXTENDS SipaTx

MCCons == {UL}
MCProds == {IPA}
MCDeps == {<<UL, IPA>>}
=============================================================================
