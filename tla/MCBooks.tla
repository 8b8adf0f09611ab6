------------------------------ MODULE MCBooks ------------------------------
(***************************************************************************)
(* Small instances of the contracts that keep books of their own and call  *)
(* nothing but tokens, for TLC: the solver registry, the backstop vault,   *)
(* the treasury's streams, the fee router, the proof registry, and the     *)
(* settlement's bonds and its submissions under the policy.  A behaviour   *)
(* is one contract's, chosen at the start; the rest stand still.           *)
(***************************************************************************)
EXTENDS SolverRegistry, BackstopVault, TreasuryStreams, FeeRouter, ProofRegistry,
        SolverBonds, Submissions, TLC

CONSTANTS s1, s2, i1, i2, l1, l2, g1, g2, p1, p2, a1, a2, d1, d2, e1, e2, x1, b1, usdc, eurc,
          w1, doge, pol, aptos

VARIABLE contract

-----------------------------------------------------------------------------
(* The solver registry: three tiers.                                       *)

Row(bond, score) == [min_bond |-> bond, min_score_bps |-> score]

FirstThresholds == [t \in Tiers |-> CASE t = 0 -> Row(1, 0)
                                      [] t = 1 -> Row(3, 4)
                                      [] OTHER -> Row(5, 9)]

\* A row that fits as the second or the third, until it is the other.
SomeRows == {Row(4, 5)}

SlashRates == [t \in Tiers |-> 4 - t]

-----------------------------------------------------------------------------
(* The vault.                                                              *)

Config(min, secs) == [min_deposit |-> min, withdrawal_cooldown_secs |-> secs]

SomeConfigs == {Config(2, 1), Config(3, 2)}
TheConfig == Config(2, 1)

-----------------------------------------------------------------------------
(* Streams: with a cliff, begun late, and a schedule that is not sound.    *)

When(start, cliff, end) == [start |-> start, cliff |-> cliff, end |-> end]

SomeSchedules == {When(0, 1, 3), When(1, 1, 2), When(2, 2, 1)}

-----------------------------------------------------------------------------
(* Sinks: two in both orders, one, and lists that are not accepted.        *)

Weight(a, bps) == [account |-> a, weight_bps |-> bps]

TwoSinks == <<Weight(a1, 7), Weight(a2, 3)>>

SomeSinks ==
  {TwoSinks, <<Weight(a2, 4), Weight(a1, 6)>>, <<Weight(a2, 10)>>,
   <<Weight(a1, 5), Weight(a1, 5)>>, <<Weight(a1, 9)>>, << >>}

-----------------------------------------------------------------------------
(* Messages: the same twice under two sequences or for two intents, from   *)
(* another emitter, with another chain in the payload, and cut short.      *)

Deposited(sound, i, c, amount) ==
  [sound |-> sound, intent |-> i, src_chain |-> c, src_amount |-> amount]

Signed(c, e, sequence, payload) ==
  [chain |-> c, emitter |-> e, sequence |-> sequence, payload |-> payload]

SomeVaas ==
  {Signed(2, e1, 1, Deposited(TRUE, d1, 2, 5)),
   Signed(2, e1, 2, Deposited(TRUE, d1, 2, 3)),
   Signed(2, e1, 1, Deposited(TRUE, d2, 2, 5)),
   Signed(2, e2, 1, Deposited(TRUE, d2, 2, 5)),
   Signed(1, e1, 1, Deposited(TRUE, d2, 2, 5)),
   Signed(1, e1, 2, Deposited(FALSE, d2, 1, 5)),
   Signed(1, e1, 3, Deposited(TRUE, d2, 1, 5))}

Sent(e, payload) == [chain |-> x1, source |-> e, payload |-> payload]

SomeAxelar ==
  {Sent(e2, Deposited(TRUE, d1, 2, 4)), Sent(e1, Deposited(TRUE, d2, 1, 5)),
   Sent(e1, Deposited(FALSE, d2, 1, 5))}

SomeTerms ==
  (d1 :> [src_chain |-> "ethereum", src_amount |-> 4])
    @@ (d2 :> [src_chain |-> "solana", src_amount |-> 5])

-----------------------------------------------------------------------------
(* Submissions: one, two, and two of which one is not for a listed token;  *)
(* from a chain with a known format of addresses and from one without.     *)

Asked(chain, format, token, min) ==
  [src_chain |-> chain, format |-> format, dst_token |-> token, min_dst |-> min,
   life |-> Default]

Large == Asked(pol, "evm", usdc, 2)
Small == Asked(pol, "evm", usdc, 1)
Other == Asked(aptos, "solana", doge, 1)

SomeSingles == {Large}
SomeBatches == {<<Large, Other>>, <<Other, Small>>}

Families == (pol :> "evm") @@ (aptos :> "other")
Bounds == (usdc :> 2) @@ (doge :> 1)
Windows(fill, life) == [fill_window |-> fill, intent_expiry |-> life]

Setting == {Windows(1, 3), Windows(1, 1)}

-----------------------------------------------------------------------------
Symmetry ==
  Permutations({s1, s2}) \cup Permutations({i1, i2}) \cup Permutations({l1, l2})

moreVars == <<bondsVars, submissionVars>>

BooksInit ==
  /\ contract \in {"registry", "vault", "streams", "router", "proofs", "bonds", "desk"}
  /\ Init /\ VaultInit /\ StreamsInit /\ RouterInit /\ ProofInit
  /\ BondsInit /\ SubmissionsInit

Registry ==
  /\ contract = "registry"
  /\ Next
  /\ UNCHANGED <<ledger_time, vaultVars, streamsVars, routerVars, proofVars, moreVars>>

Vault ==
  /\ contract = "vault"
  /\ VaultNext
  /\ UNCHANGED <<vars, streamsVars, routerVars, proofVars, moreVars>>

Streams ==
  /\ contract = "streams"
  /\ StreamsNext
  /\ UNCHANGED <<vars, vaultVars, routerVars, proofVars, moreVars>>

Router ==
  /\ contract = "router"
  /\ RouterNext
  /\ UNCHANGED <<vars, vaultVars, streamsVars, proofVars,
                 moreVars>>

Proofs ==
  /\ contract = "proofs"
  /\ ProofNext
  /\ UNCHANGED <<vars, vaultVars, streamsVars, routerVars, moreVars>>

BondsKept ==
  /\ contract = "bonds"
  /\ BondsNext
  /\ UNCHANGED <<vars, ledger_time, vaultVars, streamsVars, routerVars, proofVars,
                 submissionVars>>

Desk ==
  /\ contract = "desk"
  /\ SubmissionsNext
  /\ UNCHANGED <<vars, vaultVars, streamsVars, routerVars, proofVars, bondsVars>>

BooksNext ==
  /\ UNCHANGED contract
  /\ Registry \/ Vault \/ Streams \/ Router \/ Proofs \/ BondsKept \/ Desk

BooksSpec ==
  BooksInit
    /\ [][BooksNext]_<<contract, ledger_time, vars, vaultVars, streamsVars, routerVars,
                       proofVars, moreVars>>
=============================================================================
