------------------------------- MODULE MCDriver -------------------------------
(* Instances of Driver for TLC. *)
EXTENDS Driver, TLC

CONSTANTS a, b, r1, r2, r3, k1, k2, k3

PidSymmetry == Permutations(Pids)
AllSymmetry == Permutations(Pids) \cup Permutations(Reqs)
=============================================================================
