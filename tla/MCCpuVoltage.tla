---------------------------- MODULE MCCpuVoltage ----------------------------
(* Small instances of CpuVoltage.                                          *)
EXTENDS CpuVoltage, TLC
CONSTANTS v1, v2
OneOffset == {v1}
TwoOffsets == {v1, v2}
Late == {"waiting", "timeout", "failed", "probing", "absent", "disabled"}
Either == BOOLEAN
Symmetry == Permutations({v1, v2})
=============================================================================
