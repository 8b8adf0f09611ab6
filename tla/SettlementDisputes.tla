------------------------- MODULE SettlementDisputes -------------------------
(* The settlement contract serves the disputes an arbiter panel sees.      *)
EXTENDS Settlement

PhaseOfCase(i) ==
  CASE intent[i].state = "Disputed"  -> "raised"
    [] intent[i].state = "Tombstone" -> "gone"
    [] intent[i].state = "Resolved"  ->
         CASE intent[i].resolution = "Upheld"    -> "upheld"
           [] intent[i].resolution = "Dismissed" -> "dismissed"
           [] OTHER                              -> "lapsed"
    [] OTHER -> "none"

RaisedAt(i) == IF intent[i].state = "Disputed" THEN intent[i].dispute_raised_at ELSE 0

CasePhase == [i \in Intents |-> PhaseOfCase(i)]
CaseRaised == [i \in Intents |-> RaisedAt(i)]

Board == INSTANCE Disputes WITH
  Cases <- Intents, phase <- CasePhase, raised_at <- CaseRaised

\* To an arbiter the contract is a board of disputes: each is raised once and
\* answered once, and no timeout answers one inside the arbiter's window.
ServesDisputes == Board!Spec
=============================================================================
