---------------------------- MODULE MCSipaDriver ----------------------------
(* A small instance of SipaDriver for TLC: the uplink with its two fixed    *)
(* dependencies and the USB function with two that come and go.             *)
EXTENDS SipaDriver

CONSTANTS UL, USB, IPA, CP

MCCons == {UL, USB}
MCProds == {IPA, CP}
MCDeps == {<<UL, IPA>>, <<UL, CP>>}
MCOptional == {<<USB, IPA>>, <<USB, CP>>}
NotReleasing == States \ {"RELEASE_IN_PROGRESS"}
=============================================================================
