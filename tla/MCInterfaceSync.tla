--------------------------- MODULE MCInterfaceSync ---------------------------
(* An instance of InterfaceSync for TLC. *)
EXTENDS InterfaceSync

CONSTANTS c1, c2, c3, a1, a2

\* A container that watches two others, which get one address in turn.
MCSubnet == [c \in Conts |-> IF c = c1 THEN {a1} ELSE {a2}]
=============================================================================
