-------------------------- MODULE SettlementClaims --------------------------
(***************************************************************************)
(* What documents of the repository say of the settlement contract and its *)
(* code does not do; for each a run of its own shows a behaviour that      *)
(* refutes it.                                                             *)
(***************************************************************************)
EXTENDS SettlementAccounts

\* "Every submitted intent eventually reaches a terminal state", LIVE-1 of the
\* formal specification.
EveryIntentEnds ==
  \A i \in Intents :
    intent[i].state # "Absent" ~> intent[i].state \in TerminalStates \cup {"Tombstone"}
=============================================================================
