------------------------------ MODULE MCPanel -------------------------------
(* A small instance of the arbiter panel for TLC. *)
EXTENDS ArbiterPanel

CONSTANTS a1, a2, a3, c1, c2

\* The user and the solver of the second case are arbiters themselves.
TheParties == [c \in Cases |-> IF c = c2 THEN {a1, a2} ELSE {}]
=============================================================================
