--------------------------- MODULE MCXdnaInflight ---------------------------
(* Instances of the deferred work for TLC. *)
EXTENDS XdnaInflight, TLC

CONSTANTS x, y, z, k1, k2

ThreeAddresses == {x, y, z}
TwoKernels == {k1, k2}
Symmetry == Permutations(ThreeAddresses) \cup Permutations(TwoKernels)
=============================================================================
