---------------------------- MODULE MCSettlement ----------------------------
(* Small instances of the settlement contract for TLC. *)
EXTENDS SettlementClaims, SettlementDisputes, SettlementViews, TLC

CONSTANTS u1, s1, s2, i1, i2, usdc, eurc

OneUnit == [t \in BondTokens |-> 2]
Signed == {-1, 2}

Symmetry == Permutations(Solvers) \cup Permutations(Intents)
=============================================================================
