---------------------------- MODULE LedgerClock ----------------------------
(* The ledger's time, for the contracts that read nothing else of it. *)
EXTENDS Integers

CONSTANT LastTime          \* bound: the clock stops there

ASSUME ClockAssumption == LastTime \in Nat

VARIABLE ledger_time

ClockInit == ledger_time = 0

Later == ledger_time < LastTime /\ ledger_time' = ledger_time + 1
=============================================================================
