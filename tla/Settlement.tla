----------------------------- MODULE Settlement -----------------------------
(***************************************************************************)
(* The intent_settlement contract: solver bonds, the life of an intent     *)
(* from submission to pruning, the escrow and dispute path, slashing and   *)
(* the counters the contract keeps beside the records.                     *)
(*                                                                         *)
(* A contract call is one atomic step: the host runs it to its end or      *)
(* reverts all of it, and refuses re-entry.  A panic, and a token transfer *)
(* the payer cannot afford, revert the call, so every such condition is a  *)
(* guard here.  What is concurrent is the order in which solvers, users,   *)
(* the admin and permissionless keepers get their calls in, and the ledger *)
(* clock, which moves between any two of them.                             *)
(***************************************************************************)
EXTENDS Integers, FiniteSets

CONSTANTS
  Users, Solvers, Intents,     \* addresses and intent ids
  BondTokens, DefaultToken,    \* approved bond tokens, DataKey::BondToken
  NoSolver,                    \* IntentRecord.solver = None
  MinBond,                     \* min_bond_for_token, per bond token
  DstMultiplier,               \* MinBondMultiplier(dst_token), 10 = 1.0x
  MaxBondTokens, MaxActive,    \* MAX_BOND_TOKENS, max_active_intents_per_solver
  CoverageMultiplier,          \* exposure <= bond * coverage_multiplier
  FillWindows,                 \* tier_fill_window, over every registry tier
  IntentExpiry, SlashGrace, SlashCooldown, CancelCooldown, AmendmentCooldown,
  MaxExtension, DisputeWindow, ArbiterWindow, Retention,
  Bps, SlashBps, SlashDivisor, \* BPS_DENOMINATOR, SLASH_BPS, the 10 of exposure / 10
  FeeBps, VaultShareBps,       \* protocol_fee_bps, backstop_vault_share_bps
  MaxBatch                     \* MAX_BATCH_SIZE

CONSTANTS                      \* what callers and the environment may choose
  Deposits, Withdrawals,       \* bond amounts
  MinAmounts, AmendAmounts,    \* min_dst_amount at submission, at amendment
  FillAmounts, Lifetimes,      \* fill_amount, seconds from now to a deadline
  TransferFees,                \* what a fee-on-transfer token keeps
  Weights,                     \* cross rates the oracle may answer, in bps
  Switches,                    \* values the admin sets the pause flag to
  RescuedBonds, RescuedOutput, \* amounts the admin rescues, of a bond token and
                               \* of the destination token
  Horizon,                     \* bound: the last time of a call, save keepers' calls
  MaxTotalBonded               \* bound: deposits counted by TotalBonded

ASSUME SettlementAssumption ==
  /\ IsFiniteSet(Intents) /\ IsFiniteSet(BondTokens) /\ Users # {}
  /\ DefaultToken \in BondTokens
  /\ NoSolver \notin Solvers
  /\ MinBond \in [BondTokens -> Nat]
  /\ {DstMultiplier, MaxBondTokens, MaxActive, CoverageMultiplier} \subseteq Nat
  /\ FillWindows \subseteq Nat /\ Lifetimes \subseteq Nat \ {0}
  /\ {IntentExpiry, SlashGrace, SlashCooldown, CancelCooldown, AmendmentCooldown,
      MaxExtension, DisputeWindow, ArbiterWindow, Retention} \subseteq Nat
  /\ Bps \in Nat \ {0} /\ SlashDivisor \in Nat \ {0}
  /\ {SlashBps, FeeBps, VaultShareBps} \subseteq 0..Bps
  /\ Deposits \subseteq Nat \ {0} /\ Withdrawals \subseteq Nat \ {0}
  /\ MinAmounts \subseteq Nat \ {0} /\ FillAmounts \subseteq Nat \ {0}
  /\ AmendAmounts \subseteq Int /\ Weights \subseteq Nat \ {0}
  /\ TransferFees \subseteq Nat /\ Switches \subseteq BOOLEAN
  /\ RescuedBonds \subseteq Nat \ {0} /\ RescuedOutput \subseteq Nat \ {0}
  /\ {MaxBatch, Horizon, MaxTotalBonded} \subseteq Nat

VARIABLES
  now,             \* env.ledger().timestamp()
  paused,          \* DataKey::Paused
  registered,      \* the solvers that have a SolverRecord
  solver,          \* DataKey::Solver(s)
  bond,            \* SolverBond(s, t), and bond_amount for the default token
  intent,          \* DataKey::Intent(i)
  open_intents,    \* DataKey::OpenIntents
  solver_intents,  \* DataKey::SolverIntents(s), as a set
  exposure,        \* DataKey::SolverExposure(s)
  total_bonded,    \* DataKey::TotalBonded
  backstop_pool,   \* DataKey::BackstopPool
  extended,        \* intents with an ExtensionGranted flag
  last_cancel,     \* DataKey::CancelCooldown(u), 0 when absent
  last_amend,      \* DataKey::AmendmentCooldown(u), 0 when absent
  balance,         \* the contract's balance of each bond token
  escrow,          \* the contract's balance of the destination token
  received         \* destination tokens the user got for each intent

solverVars == <<registered, solver, bond>>
bookVars   == <<open_intents, solver_intents>>
moneyVars  == <<total_bonded, backstop_pool, balance>>
userVars   == <<last_cancel, last_amend>>
vars == <<now, paused, solverVars, intent, bookVars, exposure, moneyVars,
          extended, userVars, escrow, received>>

OpenStates     == {"Open", "PartiallyFilled"}
HeldStates     == {"Accepted", "Filling", "Disputed"}
EscrowStates   == {"Filling", "Disputed"}
TerminalStates == {"Filled", "Cancelled", "Expired", "Resolved"}
IntentStates   == {"Absent", "Tombstone"} \cup OpenStates \cup HeldStates
                    \cup TerminalStates

SolverRecord == [is_active: BOOLEAN, active_intents: Nat, last_slash_time: Nat]

IntentRecord ==
  [user: Users, solver: Solvers \cup {NoSolver}, state: IntentStates,
   min_dst_amount: Int, total_filled: Nat, fill_amount: Nat, deadline: Nat,
   bond_token: BondTokens, dispute_deadline: Nat, dispute_raised_at: Nat,
   resolution: {"None", "Upheld", "Dismissed"}, terminal_at: Nat]

NewSolver == [is_active |-> FALSE, active_intents |-> 0, last_slash_time |-> 0]
NoBond == [t \in BondTokens |-> 0]

Blank(u, state) ==
  [user |-> u, solver |-> NoSolver, state |-> state,
   min_dst_amount |-> 0, total_filled |-> 0, fill_amount |-> 0, deadline |-> 0,
   bond_token |-> DefaultToken, dispute_deadline |-> 0, dispute_raised_at |-> 0,
   resolution |-> "None", terminal_at |-> 0]

-----------------------------------------------------------------------------
(* Arithmetic the handlers share.                                          *)

MinOf(a, b) == IF a <= b THEN a ELSE b
MaxOf(a, b) == IF a >= b THEN a ELSE b

\* Saturating u32/u64 decrement.
Decrement(n, k) == IF n >= k THEN n - k ELSE 0

\* Rust's i128 division by a positive divisor truncates toward zero.
TruncDiv(a, d) == IF a >= 0 THEN a \div d ELSE -((-a) \div d)

\* The part of a destination amount a solver is exposed for, at cross rate w.
ExposureNotional(amount, w) == TruncDiv(amount * w, Bps)

\* compute_slash_amount: proportional to the unfilled output, capped at the
\* flat rate of the bond, at least 1 while there is a bond.
SlashAmount(bonded, unfilled) ==
  IF bonded <= 0 THEN 0
  ELSE LET proportional == MinOf(MaxOf(unfilled, 0), bonded) \div SlashDivisor
           cap == MaxOf(MinOf((bonded \div Bps) * SlashBps, bonded), 1)
       IN  MinOf(MaxOf(proportional, 1), cap)

Fee(amount) == (amount * FeeBps) \div Bps

VaultShare(slash) == (slash * VaultShareBps) \div Bps

RequiredBond(t) ==
  IF t = DefaultToken THEN (MinBond[t] * DstMultiplier) \div 10 ELSE MinBond[t]

FillWindowOpen(i) == now < intent[i].deadline

SlashEligible(i) == now >= intent[i].deadline + SlashGrace

\* Mutant: the re-opened intents forgotten.
IsFresh(i) == intent[i].state = "Open"

IsOpen(i) == intent[i].state \in OpenStates

HeldBy(s) ==
  {i \in Intents : intent[i].state \in HeldStates /\ intent[i].solver = s}

OpenNow == {i \in Intents : intent[i].state \in OpenStates}

-----------------------------------------------------------------------------
(* The ledger clock and the admin's calls.  Calls only a solver, a user,   *)
(* the admin or the arbiter can make are made up to the Horizon; the       *)
(* permissionless ones at any time.                                        *)

BeforeHorizon == now <= Horizon

\* The time at which the permissionless call that moves intent i on is valid.
Due(i) ==
  CASE intent[i].state \in OpenStates     -> intent[i].deadline
    [] intent[i].state = "Accepted"       -> intent[i].deadline + SlashGrace
    [] intent[i].state = "Filling"        -> intent[i].dispute_deadline
    [] intent[i].state = "Disputed"       -> intent[i].dispute_raised_at + ArbiterWindow
    [] intent[i].state \in TerminalStates -> intent[i].terminal_at + Retention
    [] OTHER                              -> 0

\* The clock runs as long as calls may come and keepers have something to wait for.
Tick ==
  /\ BeforeHorizon \/ \E i \in Intents : now < Due(i)
  /\ now' = now + 1
  /\ UNCHANGED <<paused, solverVars, intent, bookVars, exposure, moneyVars,
                 extended, userVars, escrow, received>>

SetPaused(p) ==
  /\ BeforeHorizon
  /\ paused # p
  /\ paused' = p
  /\ UNCHANGED <<now, solverVars, intent, bookVars, exposure, moneyVars,
                 extended, userVars, escrow, received>>

\* rescue_tokens refuses only the default bond token: other bond tokens and the
\* destination token leave the contract whatever it owes in them.
RescueBond(b, amount) ==
  /\ BeforeHorizon
  /\ b # DefaultToken
  /\ amount <= balance[b]
  /\ balance' = [balance EXCEPT ![b] = @ - amount]
  /\ UNCHANGED <<now, paused, solverVars, intent, bookVars, exposure, total_bonded,
                 backstop_pool, extended, userVars, escrow, received>>

RescueOutput(amount) ==
  /\ BeforeHorizon
  /\ amount <= escrow
  /\ escrow' = escrow - amount
  /\ UNCHANGED <<now, paused, solverVars, intent, bookVars, exposure, moneyVars,
                 extended, userVars, received>>

-----------------------------------------------------------------------------
(* What the handlers share: guards, and updates of one part of the state.  *)

\* Mutant: no check of the solver's obligations before it takes its bond out.
NoCheck(s) == TRUE

HasNoObligations(s) == solver[s].active_intents = 0

\* Mutant: the cap off by one.
HasRoomInclusive(s) == solver[s].active_intents <= MaxActive

HasRoom(s) == solver[s].active_intents < MaxActive

\* Mutant: what was asked for is recorded, not what arrived.
Requested(amount, fee) == amount

\* What pull_exact measures: the part of a transfer that reached the contract.
Landed(amount, fee) == amount - fee

\* Mutant: an accepted intent can be amended too.
AmendableWhenAccepted(i) == intent[i].state \in {"Open", "Accepted"}

Amendable(i) == intent[i].state = "Open"

Completes(i, amount) == intent[i].total_filled + amount >= intent[i].min_dst_amount

\* Mutant: a completing fill gives back all that was delivered.
ReleasedAsDelivered(i, amount) ==
  IF Completes(i, amount) THEN intent[i].total_filled + amount ELSE amount

\* The exposure a direct fill gives back: the whole minimum when it completes
\* the intent, only what it delivered when it does not.
ReleasedOnFill(i, amount) ==
  IF Completes(i, amount) THEN intent[i].min_dst_amount ELSE amount

\* Mutant: the obligation is not counted down.
NotFreed(s) == solver

\* The solver's records with one obligation less.
Freed(s) == [solver EXCEPT ![s].active_intents = Decrement(@, 1)]

\* solver_intents_remove.
Unlisted(s, i) == [solver_intents EXCEPT ![s] = @ \ {i}]

-----------------------------------------------------------------------------
(* Bonds.                                                                  *)

\* The token keeps fee of the amount asked for.  The minimum is checked on the
\* amount asked for; the bond records what arrived; TotalBonded what was asked.
RegisterSolver(s, b, amount, fee) ==
  /\ BeforeHorizon
  /\ ~paused
  /\ fee <= amount
  /\ bond[s][b] + amount >= MinBond[b]
  /\ bond[s][b] = 0 => Cardinality({t \in BondTokens : bond[s][t] > 0}) < MaxBondTokens
  /\ total_bonded + amount <= MaxTotalBonded
  /\ registered' = registered \cup {s}
  /\ solver' = [solver EXCEPT ![s].is_active = TRUE]
  /\ bond' = [bond EXCEPT ![s][b] = @ + Landed(amount, fee)]
  /\ total_bonded' = total_bonded + amount
  /\ balance' = [balance EXCEPT ![b] = @ + amount - fee]
  /\ UNCHANGED <<now, paused, intent, bookVars, exposure, backstop_pool, extended,
                 userVars, escrow, received>>

DeregisterSolver(s) ==
  /\ BeforeHorizon
  /\ ~paused
  /\ s \in registered
  /\ HasNoObligations(s)
  /\ \A t \in BondTokens : bond[s][t] <= balance[t]
  /\ registered' = registered \ {s}
  /\ solver' = [solver EXCEPT ![s] = NewSolver]
  /\ bond' = [bond EXCEPT ![s] = NoBond]
  /\ balance' = [t \in BondTokens |-> balance[t] - bond[s][t]]
  /\ UNCHANGED <<now, paused, intent, bookVars, exposure, total_bonded,
                 backstop_pool, extended, userVars, escrow, received>>

WithdrawBond(s, b, amount) ==
  /\ BeforeHorizon
  /\ ~paused
  /\ s \in registered
  /\ HasNoObligations(s)
  /\ amount <= bond[s][b] /\ bond[s][b] - amount >= MinBond[b]
  /\ amount <= balance[b]
  /\ bond' = [bond EXCEPT ![s][b] = @ - amount]
  /\ balance' = [balance EXCEPT ![b] = @ - amount]
  /\ UNCHANGED <<now, paused, registered, solver, intent, bookVars, exposure,
                 total_bonded, backstop_pool, extended, userVars, escrow, received>>

-----------------------------------------------------------------------------
(* The direct path: submit, accept, fill.                                  *)

SubmitIntent(u, i, min, life) ==
  /\ BeforeHorizon
  /\ ~paused
  /\ intent[i].state = "Absent"
  /\ intent' = [intent EXCEPT ![i] = [Blank(u, "Open") EXCEPT !.min_dst_amount = min,
                                                             !.deadline = now + life]]
  /\ open_intents' = open_intents + 1
  /\ UNCHANGED <<now, paused, solverVars, solver_intents, exposure, moneyVars,
                 extended, userVars, escrow, received>>

\* The cap on new work after a slash; 0 stands for "never slashed".
CoolingDown(s) ==
  solver[s].last_slash_time > 0 /\ now < solver[s].last_slash_time + SlashCooldown

AcceptIntent(s, i, b, window, weight) ==
  LET new_exposure == exposure[s] + ExposureNotional(intent[i].min_dst_amount, weight) IN
  /\ BeforeHorizon
  /\ ~paused
  /\ s \in registered /\ solver[s].is_active /\ ~CoolingDown(s)
  /\ bond[s][b] >= RequiredBond(b)
  /\ IsOpen(i)
  /\ FillWindowOpen(i)
  /\ HasRoom(s)
  /\ new_exposure <= bond[s][b] * CoverageMultiplier
  /\ intent' = [intent EXCEPT ![i].solver = s, ![i].state = "Accepted",
                              ![i].bond_token = b, ![i].deadline = now + window]
  /\ solver' = [solver EXCEPT ![s].active_intents = @ + 1]
  /\ exposure' = [exposure EXCEPT ![s] = new_exposure]
  /\ solver_intents' = [solver_intents EXCEPT ![s] = @ \cup {i}]
  /\ open_intents' = Decrement(open_intents, 1)
  /\ UNCHANGED <<now, paused, registered, bond, moneyVars, extended, userVars,
                 escrow, received>>

\* One fill pays the user directly.  It completes the intent, or re-opens it for
\* the remainder with a fresh deadline and no holder.
FillIntent(s, i, amount, weight) ==
  LET filled   == intent[i].total_filled + amount
      complete == Completes(i, amount)
      released == ExposureNotional(ReleasedOnFill(i, amount), weight)
  IN
  /\ BeforeHorizon
  /\ ~paused
  /\ FillWindowOpen(i)
  /\ intent[i].state = "Accepted" /\ intent[i].solver = s /\ s \in registered
  /\ intent' = [intent EXCEPT ![i] =
       IF complete
       THEN [@ EXCEPT !.total_filled = filled, !.fill_amount = filled,
                      !.state = "Filled", !.terminal_at = now]
       ELSE [@ EXCEPT !.total_filled = filled, !.fill_amount = filled,
                      !.state = "PartiallyFilled", !.solver = NoSolver,
                      !.deadline = now + IntentExpiry]]
  /\ solver' = Freed(s)
  /\ solver_intents' = Unlisted(s, i)
  /\ open_intents' = IF complete THEN open_intents ELSE open_intents + 1
  /\ exposure' = [exposure EXCEPT ![s] = @ - released]
  /\ received' = [received EXCEPT ![i] = @ + amount]
  /\ UNCHANGED <<now, paused, registered, bond, moneyVars, extended, userVars, escrow>>

\* The solver asks for more time, once per intent whoever holds it.
RequestExtension(s, i) ==
  /\ BeforeHorizon
  /\ intent[i].state = "Accepted" /\ intent[i].solver = s
  /\ i \notin extended
  /\ intent' = [intent EXCEPT ![i].deadline = @ + MaxExtension]
  /\ extended' = extended \cup {i}
  /\ UNCHANGED <<now, paused, solverVars, bookVars, exposure, moneyVars, userVars,
                 escrow, received>>

-----------------------------------------------------------------------------
(* The user's way out, and the keepers' calls on the direct path.          *)

Rested(last, cooldown) == last = 0 \/ now >= last + cooldown

\* cancel_intent for one intent, batch_cancel_intent for any number: the
\* cooldown is checked and stamped once per call.
CancelIntents(u, S) ==
  /\ BeforeHorizon
  /\ Rested(last_cancel[u], CancelCooldown)
  /\ Cardinality(S) <= MaxBatch
  /\ \A i \in S : intent[i].user = u /\ IsOpen(i)
  /\ intent' = [i \in Intents |->
       IF i \in S THEN [intent[i] EXCEPT !.state = "Cancelled", !.terminal_at = now]
                  ELSE intent[i]]
  /\ open_intents' = Decrement(open_intents, Cardinality(S))
  /\ last_cancel' = [last_cancel EXCEPT ![u] = now]
  /\ UNCHANGED <<now, paused, solverVars, solver_intents, exposure, moneyVars,
                 extended, last_amend, escrow, received>>

\* The deadline is validated, the new minimum is not.
AmendIntent(u, i, min, life) ==
  /\ BeforeHorizon
  /\ Rested(last_amend[u], AmendmentCooldown)
  /\ intent[i].user = u /\ Amendable(i)
  /\ life <= IntentExpiry
  /\ intent' = [intent EXCEPT ![i].min_dst_amount = min, ![i].deadline = now + life]
  /\ last_amend' = [last_amend EXCEPT ![u] = now]
  /\ UNCHANGED <<now, paused, solverVars, bookVars, exposure, moneyVars, extended,
                 last_cancel, escrow, received>>

ExpireIntent(i) ==
  /\ IsOpen(i)
  /\ ~FillWindowOpen(i)
  /\ intent' = [intent EXCEPT ![i].state = "Expired", ![i].terminal_at = now]
  /\ open_intents' = Decrement(open_intents, 1)
  /\ UNCHANGED <<now, paused, solverVars, solver_intents, exposure, moneyVars,
                 extended, userVars, escrow, received>>

\* The slash leaves the contract twice: once less the vault's share, which is only
\* booked to the pool, and once in full.
SlashSolver(i, weight) ==
  LET s        == intent[i].solver
      b        == intent[i].bond_token
      unfilled == intent[i].min_dst_amount - intent[i].total_filled
      slash    == SlashAmount(bond[s][b], unfilled)
      payout   == (slash - VaultShare(slash)) + slash
      kept     == bond[s][b] - slash
  IN
  /\ intent[i].state = "Accepted"
  /\ SlashEligible(i)
  /\ s \in registered
  /\ payout <= balance[b]
  /\ bond' = [bond EXCEPT ![s][b] = kept]
  /\ solver' = [Freed(s) EXCEPT
       ![s].is_active = @ /\ kept >= MinBond[b], ![s].last_slash_time = now]
  /\ solver_intents' = Unlisted(s, i)
  /\ exposure' = [exposure EXCEPT ![s] = @ - ExposureNotional(unfilled, weight)]
  /\ total_bonded' = total_bonded - slash
  /\ intent' = [intent EXCEPT ![i].solver = NoSolver, ![i].state = "Open",
                              ![i].deadline = now + IntentExpiry]
  /\ open_intents' = open_intents + 1
  /\ backstop_pool' = backstop_pool + VaultShare(slash)
  /\ balance' = [balance EXCEPT ![b] = @ - payout]
  /\ UNCHANGED <<now, paused, registered, extended, userVars, escrow, received>>

\* The record is deleted, and the solver's list entry if the record still names one.  The
\* user's history, which the same call empties of the intent, is kept in Submissions: its
\* CloseIntent is that part of this handler.
CloseIntent(i) ==
  LET s == intent[i].solver IN
  /\ intent[i].state \in TerminalStates
  /\ now >= intent[i].terminal_at + Retention
  /\ intent' = [intent EXCEPT ![i] = Blank(@.user, "Tombstone")]
  /\ solver_intents' = IF s = NoSolver THEN solver_intents
                       ELSE Unlisted(s, i)
  /\ extended' = extended \ {i}
  /\ UNCHANGED <<now, paused, solverVars, open_intents, exposure, moneyVars, userVars,
                 escrow, received>>

-----------------------------------------------------------------------------
(* The escrow path: a completing fill held by the contract until the       *)
(* dispute window closes, the arbiter rules, or the arbiter's time is up.  *)

BeginFill(s, i, amount, fee) ==
  /\ BeforeHorizon
  /\ ~paused
  /\ fee <= amount
  /\ intent[i].state = "Accepted" /\ intent[i].solver = s
  /\ FillWindowOpen(i)
  /\ Completes(i, amount)
  /\ intent' = [intent EXCEPT ![i].state = "Filling",
                              ![i].dispute_deadline = now + DisputeWindow,
                              ![i].fill_amount = Landed(amount, fee)]
  /\ escrow' = escrow + amount - fee
  /\ UNCHANGED <<now, paused, solverVars, bookVars, exposure, moneyVars, extended,
                 userVars, received>>

DisputeFill(u, i) ==
  /\ BeforeHorizon
  /\ intent[i].state = "Filling" /\ intent[i].user = u
  /\ now < intent[i].dispute_deadline
  /\ intent' = [intent EXCEPT ![i].state = "Disputed", ![i].dispute_raised_at = now]
  /\ UNCHANGED <<now, paused, solverVars, bookVars, exposure, moneyVars, extended,
                 userVars, escrow, received>>

\* What resolve_dispute and release_fill share: the escrow is paid out, less a
\* fee, and the intent ends.  Neither touches SolverIntents or SolverExposure.
PayOutEscrow(i, fee, state, resolution) ==
  LET held  == intent[i].fill_amount
      total == intent[i].total_filled + held
  IN
  /\ intent[i].solver \in registered
  /\ held <= escrow
  /\ intent' = [intent EXCEPT ![i].total_filled = total, ![i].fill_amount = total,
                              ![i].state = state, ![i].terminal_at = now,
                              ![i].resolution = resolution]
  /\ escrow' = escrow - held
  /\ received' = [received EXCEPT ![i] = @ + held - fee]
  /\ UNCHANGED <<now, paused, registered, bookVars, exposure, total_bonded,
                 backstop_pool, extended, userVars>>

\* Upheld: no fee, and the holder is slashed; TotalBonded is left as it was.
UpholdDispute(i) ==
  LET s     == intent[i].solver
      b     == intent[i].bond_token
      slash == SlashAmount(bond[s][b], intent[i].min_dst_amount - intent[i].total_filled)
      kept  == bond[s][b] - slash
  IN
  /\ BeforeHorizon
  /\ intent[i].state = "Disputed"
  /\ slash <= balance[b]
  /\ bond' = [bond EXCEPT ![s][b] = kept]
  /\ solver' = [Freed(s) EXCEPT
       ![s].is_active = @ /\ kept >= MinBond[b], ![s].last_slash_time = now]
  /\ balance' = [balance EXCEPT ![b] = @ - slash]
  /\ PayOutEscrow(i, 0, "Resolved", "Upheld")

\* Dismissed: the fee is taken, the holder goes free.
DismissDispute(i) ==
  /\ BeforeHorizon
  /\ intent[i].state = "Disputed"
  /\ solver' = Freed(intent[i].solver)
  /\ UNCHANGED <<bond, balance>>
  /\ PayOutEscrow(i, Fee(intent[i].fill_amount), "Resolved", "Dismissed")

\* Permissionless: an undisputed escrow after the dispute window, with a fee.
ReleaseUndisputed(i) ==
  /\ intent[i].state = "Filling" /\ now >= intent[i].dispute_deadline
  /\ solver' = Freed(intent[i].solver)
  /\ UNCHANGED <<bond, balance>>
  /\ PayOutEscrow(i, Fee(intent[i].fill_amount), "Filled", intent[i].resolution)

\* Mutant: an unanswered dispute is charged the fee.
ReleaseUnansweredWithFee(i) ==
  /\ intent[i].state = "Disputed"
  /\ now >= intent[i].dispute_raised_at + ArbiterWindow
  /\ solver' = Freed(intent[i].solver)
  /\ UNCHANGED <<bond, balance>>
  /\ PayOutEscrow(i, Fee(intent[i].fill_amount), "Resolved", "None")

\* Mutant: a dispute can be released before the arbiter's window has passed.
ReleaseUnansweredEarly(i) ==
  /\ intent[i].state = "Disputed"
  /\ solver' = Freed(intent[i].solver)
  /\ UNCHANGED <<bond, balance>>
  /\ PayOutEscrow(i, 0, "Resolved", "None")

\* Permissionless: a dispute the arbiter left unanswered, with no fee.
ReleaseUnanswered(i) ==
  /\ intent[i].state = "Disputed"
  /\ now >= intent[i].dispute_raised_at + ArbiterWindow
  /\ solver' = Freed(intent[i].solver)
  /\ UNCHANGED <<bond, balance>>
  /\ PayOutEscrow(i, 0, "Resolved", "None")

-----------------------------------------------------------------------------
Init ==
  /\ now = 1
  /\ paused = FALSE
  /\ registered = {}
  /\ solver = [s \in Solvers |-> NewSolver]
  /\ bond = [s \in Solvers |-> NoBond]
  /\ intent = [i \in Intents |-> Blank(CHOOSE u \in Users : TRUE, "Absent")]
  /\ open_intents = 0
  /\ solver_intents = [s \in Solvers |-> {}]
  /\ exposure = [s \in Solvers |-> 0]
  /\ total_bonded = 0
  /\ backstop_pool = 0
  /\ balance = NoBond
  /\ extended = {}
  /\ last_cancel = [u \in Users |-> 0]
  /\ last_amend = [u \in Users |-> 0]
  /\ escrow = 0
  /\ received = [i \in Intents |-> 0]

SolverCall(s) ==
  \/ \E b \in BondTokens, amount \in Deposits, fee \in TransferFees :
       RegisterSolver(s, b, amount, fee)
  \/ DeregisterSolver(s)
  \/ \E b \in BondTokens, amount \in Withdrawals : WithdrawBond(s, b, amount)
  \/ \E i \in Intents :
       \/ \E b \in BondTokens, window \in FillWindows, weight \in Weights :
            AcceptIntent(s, i, b, window, weight)
       \/ \E amount \in FillAmounts, weight \in Weights : FillIntent(s, i, amount, weight)
       \/ \E amount \in FillAmounts, fee \in TransferFees : BeginFill(s, i, amount, fee)
       \/ RequestExtension(s, i)

UserCall(u) ==
  \/ \E S \in SUBSET Intents : CancelIntents(u, S)
  \/ \E i \in Intents :
       \/ \E min \in MinAmounts, life \in Lifetimes : SubmitIntent(u, i, min, life)
       \/ \E min \in AmendAmounts, life \in Lifetimes : AmendIntent(u, i, min, life)
       \/ DisputeFill(u, i)

AdminCall ==
  \/ \E p \in Switches : SetPaused(p)
  \/ \E b \in BondTokens, amount \in RescuedBonds : RescueBond(b, amount)
  \/ \E amount \in RescuedOutput : RescueOutput(amount)

ArbiterCall == \E i \in Intents : UpholdDispute(i) \/ DismissDispute(i)

\* The permissionless calls: anyone may make them, and keepers do.
Slash(i) == \E weight \in Weights : SlashSolver(i, weight)
Release(i) == ReleaseUndisputed(i) \/ ReleaseUnanswered(i)
KeeperCall(i) == Slash(i) \/ ExpireIntent(i) \/ Release(i) \/ CloseIntent(i)

Next ==
  \/ Tick
  \/ \E s \in Solvers : SolverCall(s)
  \/ \E u \in Users : UserCall(u)
  \/ AdminCall
  \/ ArbiterCall
  \/ \E i \in Intents : KeeperCall(i)

Spec == Init /\ [][Next]_vars

\* Time passes, and some keeper makes each permissionless call that stays valid.
\* Nothing is assumed of solvers, users, the admin or the arbiter.
Fairness == WF_vars(Tick) /\ \A i \in Intents : WF_vars(KeeperCall(i))

FairSpec == Spec /\ Fairness

-----------------------------------------------------------------------------
(* Properties.                                                             *)

\* Every variable keeps its type; bonds and balances never go negative.
TypeOK ==
  /\ now \in Nat /\ paused \in BOOLEAN
  /\ registered \subseteq Solvers
  /\ solver \in [Solvers -> SolverRecord]
  /\ bond \in [Solvers -> [BondTokens -> Nat]]
  /\ intent \in [Intents -> IntentRecord]
  /\ open_intents \in Nat
  /\ solver_intents \in [Solvers -> SUBSET Intents]
  /\ exposure \in [Solvers -> Int]
  /\ total_bonded \in Int /\ backstop_pool \in Nat
  /\ balance \in [BondTokens -> Nat]
  /\ extended \subseteq Intents
  /\ last_cancel \in [Users -> Nat] /\ last_amend \in [Users -> Nat]
  /\ escrow \in Nat
  /\ received \in [Intents -> Int]

\* active_intents, the counter that gates withdrawal, deregistration and the
\* per-solver cap, is exactly the number of intents the solver holds.  Its
\* decrements saturate, so a missed increment would go unnoticed in the code.
ActiveIntentsExact ==
  \A s \in Solvers : solver[s].active_intents = Cardinality(HeldBy(s))

\* The holder of an intent is registered, so the unwrap() of its record in
\* fill_intent, slash_solver, resolve_dispute and release_fill never traps
\* and no held intent is stuck for want of a record.
HolderRegistered ==
  \A i \in Intents : intent[i].state \in HeldStates => intent[i].solver \in registered

\* OpenIntents, the counter get_protocol_health reports, is exactly the number
\* of open intents, whichever of the nine entry points moved them in or out.
OpenIntentsExact == open_intents = Cardinality(OpenNow)

\* get_solver_intents misses no intent the solver holds, and lists only intents
\* whose record still names that solver (the ended ones it should have dropped).
SolverIntentsComplete ==
  \A s \in Solvers :
    /\ HeldBy(s) \subseteq solver_intents[s]
    /\ \A i \in solver_intents[s] :
         intent[i].solver = s /\ intent[i].state \in HeldStates \cup TerminalStates

\* The inductive invariant: each counter that gates a call says exactly what the
\* records say.  HolderRegistered is inductive only beside ActiveIntentsExact,
\* on which the guard of deregister_solver relies.
Bookkeeping ==
  ActiveIntentsExact /\ HolderRegistered /\ OpenIntentsExact /\ SolverIntentsComplete

\* A solver's bond shrinks while it holds an intent only by being slashed: the
\* checks of withdraw_bond and deregister_solver read active_intents alone.
BondLockedWhileHolding ==
  [][\A s \in Solvers, t \in BondTokens :
       bond'[s][t] < bond[s][t] => HeldBy(s) = {} \/ solver'[s].last_slash_time = now]_vars

\* The price and the bond token of an intent cannot change under the solver that
\* holds it: not by an amendment, nor through a slash and a second acceptance.
TermsFixedWhileHeld ==
  [][\A i \in Intents :
       (intent[i].state \in HeldStates /\ intent'[i].state \in HeldStates) =>
         /\ intent'[i].solver = intent[i].solver
         /\ intent'[i].min_dst_amount = intent[i].min_dst_amount
         /\ intent'[i].bond_token = intent[i].bond_token]_vars

\* An ended intent stays as it ended until it is pruned, and a pruned id is
\* never used again: no late fill, slash, ruling or release changes it.
EndedIsFinal ==
  [][\A i \in Intents :
       /\ intent[i].state \in TerminalStates =>
            intent'[i] = intent[i] \/ intent'[i].state = "Tombstone"
       /\ intent[i].state = "Tombstone" => intent'[i].state = "Tombstone"]_vars

\* What the record of an intent counts as filled has reached its user in full,
\* through any mix of partial fills, slashes and new holders, an upheld dispute
\* or one left unanswered; only a released or dismissed escrow is short, and by
\* at most one protocol fee.
UserPaid ==
  \A i \in Intents : intent[i].state # "Tombstone" =>
    /\ received[i] <= intent[i].total_filled
    /\ intent[i].total_filled <= received[i] + Fee(intent[i].total_filled)
    /\ received[i] = intent[i].total_filled
         \/ intent[i].state = "Filled" \/ intent[i].resolution = "Dismissed"

\* The holder is due to be slashed, and the contract does not have what a slash
\* pays out: the call reverts, and only a deposit makes it possible again.
CannotPaySlash(i) ==
  LET s     == intent[i].solver
      b     == intent[i].bond_token
      slash == SlashAmount(bond[s][b], intent[i].min_dst_amount - intent[i].total_filled)
  IN
  /\ intent[i].state = "Accepted" /\ SlashEligible(i)
  /\ (slash - VaultShare(slash)) + slash > balance[b]

\* Whatever solvers, users and the arbiter do or fail to do, every submitted
\* intent ends and is pruned, unless the contract cannot pay for a slash: no
\* other state waits for a call only they can make.
EveryIntentPruned ==
  \A i \in Intents :
    intent[i].state # "Absent" ~> intent[i].state = "Tombstone" \/ CannotPaySlash(i)

-----------------------------------------------------------------------------
(* The contract implements the abstract life of an intent.                 *)

PhaseOf(state) ==
  CASE state = "Absent"            -> "none"
    [] state \in OpenStates        -> "offered"
    [] state = "Accepted"          -> "held"
    [] state = "Filling"           -> "secured"
    [] state = "Disputed"          -> "contested"
    [] state \in TerminalStates    -> "ended"
    [] state = "Tombstone"         -> "forgotten"

Lifecycle == INSTANCE IntentLifecycle WITH
  Nobody  <- NoSolver,
  MaxHeld <- MaxActive,
  members <- registered,
  phase   <- [i \in Intents |-> PhaseOf(intent[i].state)],
  holder  <- [i \in Intents |-> IF intent[i].state \in HeldStates
                                THEN intent[i].solver ELSE NoSolver]

\* Every step of the contract is a step of the abstract life of an intent, or
\* leaves it alone; in particular a solver that leaves holds nothing.
ImplementsLifecycle == Lifecycle!Spec

=============================================================================
