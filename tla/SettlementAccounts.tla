------------------------- MODULE SettlementAccounts -------------------------
(***************************************************************************)
(* The sums the settlement contract never computes but relies on: what the *)
(* records say it owes against what it holds, and what a solver is exposed *)
(* for against the intents it holds.                                       *)
(***************************************************************************)
EXTENDS Settlement, Functions

InEscrow == {i \in Intents : intent[i].state \in EscrowStates}

Owed == SumFunctionOnSet([i \in Intents |-> intent[i].fill_amount], InEscrow)

\* What solver s would be exposed for if all it holds were accepted at this rate.
HeldNotional(s, weight) ==
  SumFunctionOnSet(
    [i \in Intents |-> ExposureNotional(intent[i].min_dst_amount, weight)], HeldBy(s))

\* Every fill in escrow is covered by tokens the contract holds, and nothing
\* else is: fees, rulings and timeouts pay out exactly what one fill put in.
\* Holds while the admin rescues none of the destination token.
EscrowConserved == escrow = Owed

\* SolverExposure, the left side of the coverage guard of accept_intent, never
\* undercounts: it is at least the notional of the intents the solver holds, so
\* no sequence of partial fills, slashes and rulings frees capacity still in use.
\* Holds while the oracle's cross rate does not move, and for minima whose
\* notional is not negative: the escrow path never gives exposure back, so a
\* negative one that goes through it stays.
ExposureCoversHeld ==
  \A weight \in Weights, s \in Solvers : HeldNotional(s, weight) <= exposure[s]
=============================================================================
