---------------------------- MODULE MCKernelStep ----------------------------
(* KernelStep with two builds of one release and the vendor kernel.         *)
EXTENDS KernelStep, TLC

OneRelease == [k \in {"a", "b"} |-> "6.18"]
WithVendor == [k \in {"a", "b", "v"} |-> IF k = "v" THEN "5.4" ELSE "6.18"]

\* No step tells the systems apart, and the properties are invariants.
SystemSymmetry == Permutations(Systems)

\* A state in which a set was lost is checked and not followed further: three of
\* the invariants say nothing from there on, and the proofs cover the other two.
NoneLost == ~lost

=============================================================================
