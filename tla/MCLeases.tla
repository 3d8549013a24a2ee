------------------------------ MODULE MCLeases ------------------------------
(* An instance of Leases for TLC. *)
EXTENDS Leases

CONSTANTS c1, c2, a1, port1, port2

\* Two containers that get the same address one after the other.
MCSubnet == [c \in Conts |-> {a1}]
=============================================================================
