--------------------------- MODULE SolverRegistry ---------------------------
(***************************************************************************)
(* The solver_registry contract: staked bonds, the outcomes a settlement   *)
(* contract reports and the tier they earn, and the obligations it locks.  *)
(* The writer is external: it may report and lock in any order, twice, or  *)
(* late.  Who the admin and the writer are, and how their roles change     *)
(* hands, matters to no other handler and is left out; that a writer is    *)
(* configured at all does.                                                 *)
(***************************************************************************)
EXTENDS Integers, FiniteSets, FiniteSetsExt, Functions

CONSTANTS
  Solvers, Intents,
  TopTier,                 \* TIER_COUNT - 1
  DefaultThresholds,       \* DEFAULT_THRESHOLDS
  SlashBps,                \* SLASH_BPS, per tier
  Bps, VolumeScale,
  Word,                    \* 2^64: what a cast to u64 keeps
  MaxTunableBond, MaxTunableScore

CONSTANTS                  \* what callers may choose, and bounds
  Bonds, Amounts,          \* stakes at registration; later ones, and what is taken out
  Volumes,                 \* amounts of reported fills
  Rows,                    \* threshold rows the admin may try
  MaxBond                  \* bound: stakes stop there

Tiers == 0..TopTier

TierThreshold == [min_bond: Nat, min_score_bps: Nat]

ASSUME RegistryAssumption ==
  /\ IsFiniteSet(Solvers) /\ IsFiniteSet(Intents)
  /\ TopTier \in Nat
  /\ DefaultThresholds \in [Tiers -> TierThreshold]
  /\ \A t, u \in Tiers : t < u =>
       /\ DefaultThresholds[t].min_bond < DefaultThresholds[u].min_bond
       /\ DefaultThresholds[t].min_score_bps < DefaultThresholds[u].min_score_bps
  /\ Bps \in Nat \ {0} /\ SlashBps \in [Tiers -> 0..Bps]
  /\ VolumeScale \in Nat /\ Word \in Nat /\ VolumeScale + 1 < Word
  /\ {MaxTunableBond, MaxTunableScore} \subseteq Nat
  /\ Bonds \subseteq Nat \ {0} /\ Amounts \subseteq Nat \ {0} /\ Volumes \subseteq Nat
  /\ Rows \subseteq TierThreshold /\ MaxBond \in Nat

VARIABLES
  has_writer,              \* is there a DataKey::Writer?
  thresholds,              \* DataKey::Thresholds
  registered, total_solvers,
  record,                  \* DataKey::Solver(s)
  recorded,                \* DataKey::Recorded(action, i)
  obligations,             \* DataKey::Obligation(s, i)
  open_obligations,        \* DataKey::OpenObligations(s)
  balance                  \* the contract's balance of the bond token

lockVars == <<obligations, open_obligations>>
vars == <<has_writer, thresholds, registered, total_solvers, record, recorded,
          lockVars, balance>>

SolverRecord ==
  [bond_amount: Nat, fills_completed: Nat, fills_failed: Nat, total_volume: Nat]

NewRecord ==
  [bond_amount |-> 0, fills_completed |-> 0, fills_failed |-> 0, total_volume |-> 0]

Actions == {"fill", "failure", "slash"}

-----------------------------------------------------------------------------
(* Score and tier.                                                         *)

MaxOf(a, b) == IF a >= b THEN a ELSE b

\* Mutant: the share of the outcomes that failed.
FailureRate(r) == (r.fills_failed * Bps) \div (r.fills_completed + r.fills_failed)

SuccessRate(r) == (r.fills_completed * Bps) \div (r.fills_completed + r.fills_failed)

\* The cast to u64 of the scaled volume, by which the score divides.
VolumeWord(r) == (VolumeScale + r.total_volume + 1) % Word

Decay(r) == ((VolumeScale * Bps) \div VolumeWord(r)) \div 10

\* From 9/10 for a solver without volume up to 1, until the volume wraps.
VolumeFactor(r) == Bps - Decay(r)

\* score_of neither divides by zero nor subtracts below it: the calls that compute a
\* score would panic.
Scorable(r) == VolumeWord(r) # 0 /\ Decay(r) <= Bps

ScoreOf(r) ==
  IF r.fills_completed + r.fills_failed = 0 THEN 0
  ELSE (SuccessRate(r) * VolumeFactor(r)) \div Bps

Meets(r, t) ==
  /\ r.bond_amount >= thresholds[t].min_bond
  /\ ScoreOf(r) >= thresholds[t].min_score_bps

\* The last tier whose row is met.
TierOf(r) == Max({0} \cup {t \in Tiers : Meets(r, t)})

SlashAmount(r) ==
  IF r.bond_amount > 0 THEN MaxOf((r.bond_amount * SlashBps[TierOf(r)]) \div Bps, 1)
                       ELSE 0

\* A new row stays between its neighbours on both axes.
FitsBetween(t, row) ==
  /\ row.min_bond > thresholds[t-1].min_bond
  /\ row.min_score_bps > thresholds[t-1].min_score_bps
  /\ t < TopTier => /\ row.min_bond < thresholds[t+1].min_bond
                    /\ row.min_score_bps < thresholds[t+1].min_score_bps

\* Mutant: nothing is remembered.
NeverRecorded(action, i) == TRUE

\* mark_recorded.
NotRecorded(action, i) == <<action, i>> \notin recorded

\* Mutant: a lock is not looked up.
NeverLocked(s, i) == FALSE

Locked(s, i) == <<s, i>> \in obligations

\* Mutant: the bond is free at any time.
AlwaysFree(s) == TRUE

Unobliged(s) == open_obligations[s] = 0

-----------------------------------------------------------------------------
(* The admin.                                                              *)

SetWriter ==
  /\ ~has_writer
  /\ has_writer' = TRUE
  /\ UNCHANGED <<thresholds, registered, total_solvers, record, recorded, lockVars,
                 balance>>

SetTierThreshold(t, row) ==
  /\ t \in 1..TopTier
  /\ row.min_bond \in 1..MaxTunableBond /\ row.min_score_bps <= MaxTunableScore
  /\ FitsBetween(t, row)
  /\ thresholds' = [thresholds EXCEPT ![t] = row]
  /\ UNCHANGED <<has_writer, registered, total_solvers, record, recorded, lockVars,
                 balance>>

-----------------------------------------------------------------------------
(* Solvers.                                                                *)

RegisterSolver(s, amount) ==
  /\ s \notin registered
  /\ amount >= thresholds[0].min_bond
  /\ record' = [record EXCEPT ![s] = [NewRecord EXCEPT !.bond_amount = amount]]
  /\ registered' = registered \cup {s}
  /\ total_solvers' = total_solvers + 1
  /\ balance' = balance + amount
  /\ UNCHANGED <<has_writer, thresholds, recorded, lockVars>>

Stake(s, amount) ==
  /\ s \in registered
  /\ record[s].bond_amount + amount <= MaxBond
  /\ record' = [record EXCEPT ![s].bond_amount = @ + amount]
  /\ balance' = balance + amount
  /\ UNCHANGED <<has_writer, thresholds, registered, total_solvers, recorded,
                 lockVars>>

Unstake(s, amount) ==
  /\ Unobliged(s)
  /\ s \in registered
  /\ amount <= record[s].bond_amount
  /\ record[s].bond_amount - amount >= thresholds[0].min_bond
  /\ amount <= balance
  /\ record' = [record EXCEPT ![s].bond_amount = @ - amount]
  /\ balance' = balance - amount
  /\ UNCHANGED <<has_writer, thresholds, registered, total_solvers, recorded,
                 lockVars>>

DeregisterSolver(s) ==
  /\ Unobliged(s)
  /\ s \in registered
  /\ record[s].bond_amount <= balance
  /\ record' = [record EXCEPT ![s] = NewRecord]
  /\ registered' = registered \ {s}
  /\ total_solvers' = MaxOf(total_solvers - 1, 0)
  /\ balance' = balance - record[s].bond_amount
  /\ UNCHANGED <<has_writer, thresholds, recorded, lockVars>>

-----------------------------------------------------------------------------
(* The settlement contract's reports, by the writer or the admin: there is *)
(* always one that may make them.                                          *)

RecordFill(s, i, amount) ==
  LET filled == [record[s] EXCEPT !.fills_completed = @ + 1, !.total_volume = @ + amount]
  IN
  /\ s \in registered
  /\ NotRecorded("fill", i)
  /\ Scorable(filled)
  /\ recorded' = recorded \cup {<<"fill", i>>}
  /\ record' = [record EXCEPT ![s] = filled]
  /\ UNCHANGED <<has_writer, thresholds, registered, total_solvers, lockVars,
                 balance>>

RecordFailure(s, i) ==
  /\ s \in registered
  /\ NotRecorded("failure", i)
  /\ recorded' = recorded \cup {<<"failure", i>>}
  /\ record' = [record EXCEPT ![s].fills_failed = @ + 1]
  /\ UNCHANGED <<has_writer, thresholds, registered, total_solvers, lockVars,
                 balance>>

Slash(s, i) ==
  LET amount == SlashAmount(record[s]) IN
  /\ s \in registered
  /\ NotRecorded("slash", i)
  /\ amount <= balance
  /\ recorded' = recorded \cup {<<"slash", i>>}
  /\ record' = [record EXCEPT ![s].bond_amount = @ - amount, ![s].fills_failed = @ + 1]
  /\ balance' = balance - amount
  /\ UNCHANGED <<has_writer, thresholds, registered, total_solvers, lockVars>>

\* Obligations are the writer's alone.
LockObligation(s, i) ==
  /\ has_writer
  /\ s \in registered
  /\ ~Locked(s, i)
  /\ obligations' = obligations \cup {<<s, i>>}
  /\ open_obligations' = [open_obligations EXCEPT ![s] = @ + 1]
  /\ UNCHANGED <<has_writer, thresholds, registered, total_solvers, record, recorded,
                 balance>>

ReleaseObligation(s, i) ==
  /\ has_writer
  /\ Locked(s, i)
  /\ obligations' = obligations \ {<<s, i>>}
  /\ open_obligations' = [open_obligations EXCEPT ![s] = MaxOf(@ - 1, 0)]
  /\ UNCHANGED <<has_writer, thresholds, registered, total_solvers, record, recorded,
                 balance>>

-----------------------------------------------------------------------------
Init ==
  /\ has_writer = FALSE
  /\ thresholds = DefaultThresholds
  /\ registered = {} /\ total_solvers = 0
  /\ record = [s \in Solvers |-> NewRecord]
  /\ recorded = {}
  /\ obligations = {} /\ open_obligations = [s \in Solvers |-> 0]
  /\ balance = 0

AdminCall ==
  \/ SetWriter
  \/ \E t \in Tiers, row \in Rows : SetTierThreshold(t, row)

SolverCall(s) ==
  \/ \E amount \in Bonds : RegisterSolver(s, amount)
  \/ \E amount \in Amounts : Stake(s, amount) \/ Unstake(s, amount)
  \/ DeregisterSolver(s)

SettlementCall(s, i) ==
  \/ \E amount \in Volumes : RecordFill(s, i, amount)
  \/ RecordFailure(s, i) \/ Slash(s, i)
  \/ LockObligation(s, i) \/ ReleaseObligation(s, i)

Next ==
  \/ AdminCall
  \/ \E s \in Solvers : SolverCall(s)
  \/ \E s \in Solvers, i \in Intents : SettlementCall(s, i)

Spec == Init /\ [][Next]_vars

-----------------------------------------------------------------------------
(* Properties.                                                             *)

\* Every variable keeps its type; no bond goes negative, and no decrement saturates
\* into a number of solvers that is not there.
TypeOK ==
  /\ has_writer \in BOOLEAN
  /\ thresholds \in [Tiers -> TierThreshold]
  /\ registered \subseteq Solvers
  /\ total_solvers \in Nat
  /\ record \in [Solvers -> SolverRecord]
  /\ recorded \subseteq Actions \X Intents
  /\ obligations \subseteq Solvers \X Intents
  /\ open_obligations \in [Solvers -> Nat]
  /\ balance \in Nat

\* open_obligations, the count that alone keeps a bond in the contract, is the
\* number of locks: neither a repeated lock nor a repeated or late release moves it
\* away from them; and whoever holds a lock still has a record to be slashed.
ObligationsExact ==
  \A s \in Solvers :
    LET locks == {i \in Intents : <<s, i>> \in obligations} IN
    /\ open_obligations[s] = Cardinality(locks)
    /\ locks # {} => s \in registered

\* While a solver has an obligation its bond shrinks only by a slash, that of an
\* intent it was not slashed for before.
BondLockedWhileObliged ==
  [][\A s \in Solvers :
       record'[s].bond_amount < record[s].bond_amount =>
         \/ \A i \in Intents : <<s, i>> \notin obligations
         \/ \E i \in Intents : <<"slash", i>> \in recorded' \ recorded]_vars

\* However often an outcome is reported, and for whomever, it counts once: the
\* solvers' records together hold no more fills and failures than were recorded.
CountedOnce ==
  LET Of(action) == {i \in Intents : <<action, i>> \in recorded} IN
  /\ SumFunctionOnSet([s \in Solvers |-> record[s].fills_completed], Solvers)
       <= Cardinality(Of("fill"))
  /\ SumFunctionOnSet([s \in Solvers |-> record[s].fills_failed], Solvers)
       <= Cardinality(Of("failure")) + Cardinality(Of("slash"))

\* The tiers stay nested whatever the admin tunes: who is in a tier meets the rows of
\* all tiers from 1 up to it, so a higher tier is never easier to get than a lower.
TiersNested ==
  \A s \in registered : \A t \in 1..TierOf(record[s]) : Meets(record[s], t)

\* Outcomes move a solver's tier the right way, through two roundings: a failure or a
\* slash never raises it, and a fill never lowers it, unless the volume leaves its word.
TierFollowsOutcomes ==
  [][\A s \in registered \cap registered' :
       LET tier == TierOf(record[s])
           counted == VolumeScale + record'[s].total_volume + 1 < Word
       IN
       /\ record'[s].fills_completed > record[s].fills_completed /\ counted => tier' >= tier
       /\ record'[s].fills_failed > record[s].fills_failed => tier' <= tier]_vars
=============================================================================
