----------------------------- MODULE FeeRouter -----------------------------
(***************************************************************************)
(* The fee_router contract: revenue that is reported to it, distributed by *)
(* weight as claims of the sinks, and paid when a sink asks.  The books of *)
(* one token touch no other's: one is modelled.  The token is external: it *)
(* may reach the router at any time, and a transfer that the router cannot *)
(* pay reverts the claim.  A report is anyone's and moves nothing: it may  *)
(* come before its transfer, after it, or without one, and a transfer may  *)
(* never be reported.  Initialization is not guarded against a second      *)
(* call, so it is a step like the others.                                  *)
(***************************************************************************)
EXTENDS LedgerClock, Sequences, FiniteSets, Functions

CONSTANTS
  Accounts,
  SinkLists,           \* lists of sinks that callers may try, sound or not
  FirstSinks,          \* initialize's
  WeightDelay,
  TotalBps,            \* TOTAL_BPS
  MaxSinks,            \* MAX_SINKS
  Fees,                \* amounts that are reported
  MaxBooked            \* bound: reports stop when so much is booked, and transfers
                       \* when so much is held; neither is so far ahead of the other

Sink == [account: Accounts, weight_bps: Nat]

TotalWeight(list) ==
  SumFunctionOnSet([i \in DOMAIN list |-> list[i].weight_bps], DOMAIN list)

\* validate_sinks.
ValidSinks(list) ==
  /\ Len(list) \in 1..MaxSinks
  /\ \A i, j \in DOMAIN list : list[i].account = list[j].account => i = j
  /\ TotalWeight(list) = TotalBps

ASSUME RouterAssumption ==
  /\ IsFiniteSet(Accounts) /\ SinkLists \subseteq Seq(Sink)
  /\ FirstSinks \in SinkLists /\ ValidSinks(FirstSinks)
  /\ WeightDelay \in Nat /\ TotalBps \in Nat \ {0} /\ MaxSinks \in Nat
  /\ Fees \subseteq Int /\ MaxBooked \in Nat

VARIABLES
  sinks,               \* DataKey::Sinks
  pending_weights,     \* DataKey::Pending, no list or one: <<sinks, executable_at>>
  undistributed,       \* DataKey::Balance
  claimable,           \* DataKey::Claimable(sink)
  router_held,         \* external: the router's balance of the token
  unreported           \* history: what was transferred, less what was reported

weightVars == <<sinks, pending_weights>>
tokenVars == <<router_held, unreported>>
routerVars == <<weightVars, undistributed, claimable, tokenVars>>

Credits == SumFunctionOnSet(claimable, Accounts)

-----------------------------------------------------------------------------
Initialize(list) ==
  /\ ValidSinks(list)
  /\ sinks' = list
  /\ UNCHANGED <<ledger_time, pending_weights, undistributed, claimable, tokenVars>>

\* External: somebody transfers tokens to the router.
FeeTransferred(amount) ==
  /\ amount > 0 /\ router_held < MaxBooked /\ unreported < MaxBooked
  /\ router_held' = router_held + amount
  /\ unreported' = unreported + amount
  /\ UNCHANGED <<ledger_time, weightVars, undistributed, claimable>>

OnFeeReceived(amount) ==
  /\ amount > 0 /\ undistributed + Credits < MaxBooked /\ -MaxBooked < unreported
  /\ undistributed' = undistributed + amount
  /\ unreported' = unreported - amount
  /\ UNCHANGED <<ledger_time, weightVars, claimable, router_held>>

WeightedShare(i, total) == (total * sinks[i].weight_bps) \div TotalBps

\* Mutant: each sink gets its weight, and nobody the rest.
ShareByWeight(i, total) == WeightedShare(i, total)

\* The first sink gets what is not distributed yet, and it is the first of the loop:
\* nothing is.
Share(i, total) == IF i = 1 THEN total ELSE WeightedShare(i, total)

Credited(account, total) ==
  SumFunctionOnSet([i \in DOMAIN sinks |-> Share(i, total)],
                   {i \in DOMAIN sinks : sinks[i].account = account})

Distribute ==
  /\ undistributed # 0
  /\ claimable' = [a \in Accounts |-> claimable[a] + Credited(a, undistributed)]
  /\ undistributed' = 0
  /\ UNCHANGED <<ledger_time, weightVars, tokenVars>>

\* The sink may receive less than the router pays; the claim is settled either way.
Claim(account) ==
  /\ claimable[account] # 0 /\ claimable[account] <= router_held
  /\ router_held' = router_held - claimable[account]
  /\ claimable' = [claimable EXCEPT ![account] = 0]
  /\ UNCHANGED <<ledger_time, weightVars, undistributed, unreported>>

ProposeWeights(list) ==
  /\ ValidSinks(list)
  /\ pending_weights' = <<list, ledger_time + WeightDelay>>
  /\ UNCHANGED <<ledger_time, sinks, undistributed, claimable, tokenVars>>

ApplyWeights ==
  /\ pending_weights # << >> /\ ledger_time >= pending_weights[2]
  /\ sinks' = pending_weights[1]
  /\ pending_weights' = << >>
  /\ UNCHANGED <<ledger_time, undistributed, claimable, tokenVars>>

-----------------------------------------------------------------------------
RouterInit ==
  /\ ClockInit
  /\ sinks = FirstSinks /\ pending_weights = << >>
  /\ undistributed = 0 /\ claimable = [a \in Accounts |-> 0]
  /\ router_held = 0 /\ unreported = 0

RouterNext ==
  \/ Later /\ UNCHANGED routerVars
  \/ \E amount \in Fees : OnFeeReceived(amount) \/ FeeTransferred(amount)
  \/ Distribute
  \/ \E a \in Accounts : Claim(a)
  \/ \E list \in SinkLists : Initialize(list) \/ ProposeWeights(list)
  \/ ApplyWeights

RouterSpec == RouterInit /\ [][RouterNext]_<<ledger_time, routerVars>>

-----------------------------------------------------------------------------
(* Properties.                                                             *)

\* Every variable keeps its type, and no list of sinks is in use that was not validated.
RouterTypeOK ==
  /\ sinks \in SinkLists /\ ValidSinks(sinks)
  /\ pending_weights = << >> \/ pending_weights \in SinkLists \X Nat
  /\ undistributed \in Nat /\ router_held \in Nat /\ unreported \in Int
  /\ claimable \in [Accounts -> Nat]

\* Whatever the weights, their changes and the roundings, and in whatever order tokens come
\* and are reported, no token the router holds is left without somebody to claim it, except
\* as many as were transferred beyond what was reported.
NothingLost == undistributed + Credits + unreported >= router_held
=============================================================================
