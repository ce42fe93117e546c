---------------------------- MODULE MCHostDriver ----------------------------
(* Registers of four bits, halves of two: values that share a half, that     *)
(* differ in both, that carry in the address adder, an id that does not fit. *)
EXTENDS HostDriver, TLC

CONSTANTS p1, p2, a, b
PortSymmetry == Permutations({p1, p2})
=============================================================================
