--------------------------- MODULE MCSystemUpdate ---------------------------
(* The instance of SystemUpdate.                                           *)
EXTENDS SystemUpdate, TLC
CONSTANTS s1, s2
TwoSystems == {s1, s2}
AllFaults == {"unpack", "aside", "place"}
Both == {"switch", "remove"}
Symmetry == Permutations({s1, s2})
=============================================================================
