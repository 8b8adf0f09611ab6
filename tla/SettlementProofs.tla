-------------------------- MODULE SettlementProofs --------------------------
(***************************************************************************)
(* What holds of the settlement contract for every set of solvers, users,  *)
(* intents and tokens, every configuration and every amount.               *)
(***************************************************************************)
EXTENDS SettlementAccounts, Sums

USE SettlementAssumption

-----------------------------------------------------------------------------
(* The arithmetic of the handlers.                                         *)

\* Truncating division stays in the integers.
LEMMA TruncDivType ==
  ASSUME NEW a \in Int, NEW d \in Nat \ {0}
  PROVE  TruncDiv(a, d) \in Int
BY DEF TruncDiv

\* exposure_notional is an integer, whatever the sign of the amount.
LEMMA NotionalType ==
  ASSUME NEW amount \in Int, NEW weight \in Weights
  PROVE  ExposureNotional(amount, weight) \in Int
<1>1. amount * weight \in Int
  OBVIOUS
<1>. QED
  BY <1>1, TruncDivType DEF ExposureNotional

\* A share in basis points of an amount is an amount.
LEMMA FeeType == ASSUME NEW amount \in Nat PROVE Fee(amount) \in Nat
<1>1. amount * FeeBps \in Nat
  OBVIOUS
<1>. QED
  BY <1>1 DEF Fee

\* The vault's share of a slash is an amount.
LEMMA VaultShareType == ASSUME NEW slash \in Nat PROVE VaultShare(slash) \in Nat
<1>1. slash * VaultShareBps \in Nat
  OBVIOUS
<1>. QED
  BY <1>1 DEF VaultShare

\* compute_slash_amount never takes more than the bond, and takes something from
\* every bond that is not empty.
THEOREM SlashWithinBond ==
  ASSUME NEW bonded \in Nat, NEW unfilled \in Int
  PROVE  /\ SlashAmount(bonded, unfilled) \in 0..bonded
         /\ bonded > 0 => SlashAmount(bonded, unfilled) > 0
<1>1. CASE bonded = 0
  BY <1>1 DEF SlashAmount
<1>2. CASE bonded > 0
  <2>. DEFINE proportional == MinOf(MaxOf(unfilled, 0), bonded) \div SlashDivisor
              rate == (bonded \div Bps) * SlashBps
              cap == MaxOf(MinOf(rate, bonded), 1)
  <2>1. proportional \in Int
    BY DEF MinOf, MaxOf
  <2>2. bonded \div Bps \in Int
    OBVIOUS
  <2>3. rate \in Int
    BY <2>2
  <2>4. cap \in 1..bonded
    <3>. HIDE DEF rate
    <3>. QED
      BY <1>2, <2>3 DEF MinOf, MaxOf
  <2>5. SlashAmount(bonded, unfilled) = MinOf(MaxOf(proportional, 1), cap)
    BY <1>2 DEF SlashAmount
  <2>. HIDE DEF proportional, cap
  <2>. QED
    BY <1>2, <2>1, <2>4, <2>5 DEF MinOf, MaxOf
<1>. QED
  BY <1>1, <1>2

\* A saturating decrement stays a natural number.
LEMMA DecrementType ==
  ASSUME NEW n \in Nat, NEW k \in Nat PROVE Decrement(n, k) \in Nat
BY DEF Decrement

-----------------------------------------------------------------------------
(* Every step keeps the types.                                             *)

\* The record of an intent id that names no intent.
LEMMA BlankType ==
  ASSUME NEW u \in Users, NEW state \in IntentStates
  PROVE  Blank(u, state) \in IntentRecord
BY DEF Blank, IntentRecord

\* Counting an obligation down keeps the types of the solver records.
LEMMA FreedType ==
  ASSUME TypeOK, NEW s \in Solvers
  PROVE  Freed(s) \in [Solvers -> SolverRecord]
<1>1. solver[s] \in SolverRecord
  BY DEF TypeOK
<1>2. solver[s].active_intents \in Nat
  BY <1>1 DEF SolverRecord
<1>3. Decrement(solver[s].active_intents, 1) \in Nat
  BY <1>2, DecrementType
<1>4. [solver[s] EXCEPT !.active_intents = Decrement(@, 1)] \in SolverRecord
  BY <1>1, <1>3 DEF SolverRecord
<1>. QED
  BY <1>4 DEF TypeOK, Freed

\* So does the slash that goes with it.
LEMMA SlashedRecordType ==
  ASSUME TypeOK, NEW s \in Solvers, NEW healthy \in BOOLEAN
  PROVE  [Freed(s) EXCEPT ![s].is_active = @ /\ healthy, ![s].last_slash_time = now]
           \in [Solvers -> SolverRecord]
<1>. DEFINE freed == Freed(s)
<1>1. freed \in [Solvers -> SolverRecord] /\ now \in Nat
  BY FreedType DEF TypeOK
<1>. HIDE DEF freed
<1>2. freed[s] \in SolverRecord
  BY <1>1
<1>3. [freed[s] EXCEPT !.is_active = @ /\ healthy, !.last_slash_time = now]
        \in SolverRecord
  BY <1>1, <1>2 DEF SolverRecord
<1>. QED
  BY <1>1, <1>3 DEF freed

\* register_solver: a bond never records more than what arrived, which is not negative.
LEMMA RegisterSolverType ==
  ASSUME TypeOK, NEW s \in Solvers, NEW b \in BondTokens, NEW amount \in Deposits,
         NEW fee \in TransferFees, RegisterSolver(s, b, amount, fee)
  PROVE  TypeOK'
<1>. USE DEF TypeOK, RegisterSolver, Landed, bookVars, userVars
<1>1. solver' \in [Solvers -> SolverRecord]
  <2>1. solver[s] \in SolverRecord
    OBVIOUS
  <2>2. [solver[s] EXCEPT !.is_active = TRUE] \in SolverRecord
    BY <2>1 DEF SolverRecord
  <2>3. solver' = [solver EXCEPT ![s] = [solver[s] EXCEPT !.is_active = TRUE]]
    OBVIOUS
  <2>. QED
    BY <2>2, <2>3
<1>2. bond' \in [Solvers -> [BondTokens -> Nat]]
  <2>1. amount - fee \in Nat
    OBVIOUS
  <2>. QED BY <2>1
<1>3. balance' \in [BondTokens -> Nat]
  OBVIOUS
<1>4. total_bonded' \in Int
  OBVIOUS
<1>. QED
  BY <1>1, <1>2, <1>3, <1>4

\* deregister_solver: no balance goes below zero, as every bond is covered.
LEMMA DeregisterSolverType ==
  ASSUME TypeOK, NEW s \in Solvers, DeregisterSolver(s)
  PROVE  TypeOK'
BY DEF TypeOK, DeregisterSolver, SolverRecord, NewSolver, NoBond, bookVars, userVars

\* withdraw_bond: neither the bond nor the balance goes below zero.
LEMMA WithdrawBondType ==
  ASSUME TypeOK, NEW s \in Solvers, NEW b \in BondTokens, NEW amount \in Withdrawals,
         WithdrawBond(s, b, amount)
  PROVE  TypeOK'
BY DEF TypeOK, WithdrawBond, bookVars, userVars

\* submit_intent writes a whole record.
LEMMA SubmitIntentType ==
  ASSUME TypeOK, NEW u \in Users, NEW i \in Intents, NEW min \in MinAmounts,
         NEW life \in Lifetimes, SubmitIntent(u, i, min, life)
  PROVE  TypeOK'
<1>1. intent' \in [Intents -> IntentRecord]
  <2>1. Blank(u, "Open") \in IntentRecord
    BY BlankType DEF IntentStates, OpenStates
  <2>2. min \in Int /\ now + life \in Nat
    BY DEF TypeOK
  <2>3. [Blank(u, "Open") EXCEPT !.min_dst_amount = min, !.deadline = now + life]
          \in IntentRecord
    BY <2>1, <2>2 DEF IntentRecord
  <2>. QED
    BY <2>3 DEF TypeOK, SubmitIntent
<1>. QED
  BY <1>1 DEF TypeOK, SubmitIntent, solverVars, moneyVars, userVars

\* accept_intent: the record, the counter and the exposure.
LEMMA AcceptIntentType ==
  ASSUME TypeOK, NEW s \in Solvers, NEW i \in Intents, NEW b \in BondTokens,
         NEW window \in FillWindows, NEW weight \in Weights,
         AcceptIntent(s, i, b, window, weight)
  PROVE  TypeOK'
<1>1. intent' \in [Intents -> IntentRecord]
  <2>1. intent[i] \in IntentRecord /\ now + window \in Nat
    BY DEF TypeOK
  <2>2. [intent[i] EXCEPT !.solver = s, !.state = "Accepted", !.bond_token = b,
                          !.deadline = now + window] \in IntentRecord
    BY <2>1 DEF IntentRecord, IntentStates, HeldStates
  <2>. QED
    BY <2>2 DEF TypeOK, AcceptIntent
<1>2. solver' \in [Solvers -> SolverRecord]
  <2>1. solver[s] \in SolverRecord
    BY DEF TypeOK
  <2>2. [solver[s] EXCEPT !.active_intents = @ + 1] \in SolverRecord
    BY <2>1 DEF SolverRecord
  <2>. QED
    BY <2>2 DEF TypeOK, AcceptIntent
<1>3. exposure' \in [Solvers -> Int]
  <2>1. intent[i].min_dst_amount \in Int
    BY DEF TypeOK, IntentRecord
  <2>2. ExposureNotional(intent[i].min_dst_amount, weight) \in Int
    BY <2>1, NotionalType
  <2>. QED
    BY <2>2 DEF TypeOK, AcceptIntent
<1>. QED
  BY <1>1, <1>2, <1>3 DEF TypeOK, AcceptIntent, Decrement, moneyVars, userVars

\* fill_intent, completing the intent or not.
LEMMA FillIntentType ==
  ASSUME TypeOK, NEW s \in Solvers, NEW i \in Intents, NEW amount \in FillAmounts,
         NEW weight \in Weights, FillIntent(s, i, amount, weight)
  PROVE  TypeOK'
<1>0. /\ intent[i] \in IntentRecord
      /\ intent[i].total_filled + amount \in Nat
      /\ now + IntentExpiry \in Nat /\ now \in Nat
  BY DEF TypeOK, IntentRecord
<1>1. intent' \in [Intents -> IntentRecord]
  <2>. DEFINE filled == intent[i].total_filled + amount
              full == [intent[i] EXCEPT !.total_filled = filled, !.fill_amount = filled,
                         !.state = "Filled", !.terminal_at = now]
              part == [intent[i] EXCEPT !.total_filled = filled, !.fill_amount = filled,
                         !.state = "PartiallyFilled", !.solver = NoSolver,
                         !.deadline = now + IntentExpiry]
  <2>1. full \in IntentRecord
    BY <1>0 DEF IntentRecord, IntentStates, TerminalStates
  <2>2. part \in IntentRecord
    BY <1>0 DEF IntentRecord, IntentStates, OpenStates
  <2>3. intent' = [intent EXCEPT ![i] = IF Completes(i, amount) THEN full ELSE part]
    BY DEF FillIntent
  <2>. HIDE DEF full, part
  <2>. QED
    BY <2>1, <2>2, <2>3 DEF TypeOK
<1>2. solver' \in [Solvers -> SolverRecord]
  BY FreedType DEF FillIntent
<1>3. exposure' \in [Solvers -> Int]
  <2>1. ReleasedOnFill(i, amount) \in Int
    BY <1>0 DEF ReleasedOnFill, IntentRecord
  <2>2. ExposureNotional(ReleasedOnFill(i, amount), weight) \in Int
    BY <2>1, NotionalType
  <2>. QED
    BY <2>2 DEF TypeOK, FillIntent
<1>. QED
  BY <1>1, <1>2, <1>3 DEF TypeOK, FillIntent, Unlisted, moneyVars, userVars

\* request_extension only moves a deadline.
LEMMA RequestExtensionType ==
  ASSUME TypeOK, NEW s \in Solvers, NEW i \in Intents, RequestExtension(s, i)
  PROVE  TypeOK'
<1>1. intent[i] \in IntentRecord
  BY DEF TypeOK
<1>2. intent[i].deadline + MaxExtension \in Nat
  BY <1>1 DEF IntentRecord
<1>3. [intent[i] EXCEPT !.deadline = @ + MaxExtension] \in IntentRecord
  BY <1>1, <1>2 DEF IntentRecord
<1>4. intent' \in [Intents -> IntentRecord]
  BY <1>3 DEF TypeOK, RequestExtension
<1>. QED
  BY <1>4 DEF TypeOK, RequestExtension, solverVars, bookVars, moneyVars, userVars

\* cancel_intent and batch_cancel_intent, for any set of intents.
LEMMA CancelIntentsType ==
  ASSUME TypeOK, NEW u \in Users, NEW S \in SUBSET Intents, CancelIntents(u, S)
  PROVE  TypeOK'
<1>1. intent' \in [Intents -> IntentRecord]
  <2>1. ASSUME NEW i \in Intents
        PROVE  [intent[i] EXCEPT !.state = "Cancelled", !.terminal_at = now]
                 \in IntentRecord
    <3>1. intent[i] \in IntentRecord /\ now \in Nat
      BY DEF TypeOK
    <3>. QED
      BY <3>1 DEF IntentRecord, IntentStates, TerminalStates
  <2>. QED
    BY <2>1 DEF TypeOK, CancelIntents
<1>2. open_intents' \in Nat
  <2>1. IsFiniteSet(S)
    BY FS_Subset
  <2>2. Cardinality(S) \in Nat
    BY <2>1, FS_CardinalityType
  <2>. QED
    BY <2>2, DecrementType DEF TypeOK, CancelIntents
<1>. QED
  BY <1>1, <1>2 DEF TypeOK, CancelIntents, solverVars, moneyVars

\* amend_intent: the new minimum may be negative, the deadline may not.
LEMMA AmendIntentType ==
  ASSUME TypeOK, NEW u \in Users, NEW i \in Intents, NEW min \in AmendAmounts,
         NEW life \in Lifetimes, AmendIntent(u, i, min, life)
  PROVE  TypeOK'
<1>1. intent[i] \in IntentRecord /\ min \in Int /\ now + life \in Nat
  BY DEF TypeOK
<1>2. [intent[i] EXCEPT !.min_dst_amount = min, !.deadline = now + life] \in IntentRecord
  BY <1>1 DEF IntentRecord
<1>3. intent' \in [Intents -> IntentRecord]
  BY <1>2 DEF TypeOK, AmendIntent
<1>. QED
  BY <1>3 DEF TypeOK, AmendIntent, solverVars, bookVars, moneyVars

\* expire_intent.
LEMMA ExpireIntentType ==
  ASSUME TypeOK, NEW i \in Intents, ExpireIntent(i)
  PROVE  TypeOK'
<1>1. intent[i] \in IntentRecord /\ now \in Nat
  BY DEF TypeOK
<1>2. [intent[i] EXCEPT !.state = "Expired", !.terminal_at = now] \in IntentRecord
  BY <1>1 DEF IntentRecord, IntentStates, TerminalStates
<1>3. intent' \in [Intents -> IntentRecord]
  BY <1>2 DEF TypeOK, ExpireIntent
<1>. QED
  BY <1>3 DEF TypeOK, ExpireIntent, Decrement, solverVars, moneyVars, userVars

\* What slash_solver does to an intent, and what it leaves alone.
LEMMA SlashEffect ==
  ASSUME NEW i, NEW weight, SlashSolver(i, weight)
  PROVE  /\ intent[i].state = "Accepted" /\ intent[i].solver \in registered
         /\ intent' = [intent EXCEPT ![i].solver = NoSolver, ![i].state = "Open",
                                     ![i].deadline = now + IntentExpiry]
         /\ solver_intents' = Unlisted(intent[i].solver, i)
         /\ open_intents' = open_intents + 1
         /\ UNCHANGED <<now, paused, registered, extended, userVars, escrow, received>>
  BY Zenon DEF SlashSolver

\* slash_solver: its two payouts are covered, or the call reverts.
LEMMA SlashSolverType ==
  ASSUME TypeOK, NEW i \in Intents, NEW weight \in Weights, SlashSolver(i, weight)
  PROVE  TypeOK'
<1>. DEFINE s == intent[i].solver
            b == intent[i].bond_token
            unfilled == intent[i].min_dst_amount - intent[i].total_filled
            slash == SlashAmount(bond[s][b], unfilled)
            payout == (slash - VaultShare(slash)) + slash
<1>1. /\ intent[i] \in IntentRecord /\ now + IntentExpiry \in Nat
      /\ s \in Solvers /\ b \in BondTokens /\ unfilled \in Int
  <2>1. intent[i] \in IntentRecord /\ now \in Nat /\ registered \subseteq Solvers
    BY DEF TypeOK
  <2>2. now + IntentExpiry \in Nat
    BY <2>1
  <2>3. s \in registered
    BY SlashEffect
  <2>4. /\ b \in BondTokens /\ intent[i].min_dst_amount \in Int
        /\ intent[i].total_filled \in Int
    BY <2>1 DEF IntentRecord
  <2>. QED
    BY <2>1, <2>2, <2>3, <2>4
<1>2. bond[s][b] \in Nat
  BY <1>1 DEF TypeOK
<1>3. slash \in 0..bond[s][b]
  BY <1>1, <1>2, SlashWithinBond
<1>4. VaultShare(slash) \in Nat
  BY <1>2, <1>3, VaultShareType
<1>5. payout \in Int /\ payout <= balance[b]
  <2>1. payout <= balance[b]
    BY Zenon DEF SlashSolver
  <2>2. slash \in Int
    BY <1>2, <1>3
  <2>. HIDE DEF slash
  <2>. QED
    BY <1>4, <2>1, <2>2
<1>6. ExposureNotional(unfilled, weight) \in Int
  BY <1>1, NotionalType
<1>7. intent' \in [Intents -> IntentRecord]
  <2>1. [intent[i] EXCEPT !.solver = NoSolver, !.state = "Open",
                          !.deadline = now + IntentExpiry] \in IntentRecord
    BY <1>1 DEF IntentRecord, IntentStates, OpenStates
  <2>. QED
    BY <2>1 DEF TypeOK, SlashSolver
<1>8. solver' \in [Solvers -> SolverRecord]
  <2>1. (bond[s][b] - slash >= MinBond[b]) \in BOOLEAN
    OBVIOUS
  <2>. QED
    BY <1>1, <2>1, SlashedRecordType DEF SlashSolver
<1>9. bond' \in [Solvers -> [BondTokens -> Nat]]
  <2>1. bond[s][b] - slash \in Nat
    BY <1>2, <1>3
  <2>. QED
    BY <1>1, <2>1 DEF TypeOK, SlashSolver
<1>10. balance' \in [BondTokens -> Nat]
  <2>1. balance[b] - payout \in Nat
    BY <1>1, <1>5 DEF TypeOK
  <2>. QED
    BY <2>1 DEF TypeOK, SlashSolver
<1>11. exposure' \in [Solvers -> Int]
  <2>1. exposure' = [exposure EXCEPT ![s] = @ - ExposureNotional(unfilled, weight)]
    BY Zenon DEF SlashSolver
  <2>2. exposure \in [Solvers -> Int]
    BY DEF TypeOK
  <2>3. ASSUME NEW e, e = ExposureNotional(unfilled, weight)
        PROVE  [exposure EXCEPT ![s] = @ - e] \in [Solvers -> Int]
    <3>1. exposure[s] - e \in Int /\ s \in Solvers
      BY <1>1, <1>6, <2>2, <2>3
    <3>. HIDE DEF s, unfilled
    <3>. QED
      BY <2>2, <3>1
  <2>. HIDE DEF s, unfilled
  <2>. QED
    BY <2>1, <2>3
<1>12. total_bonded' \in Int /\ backstop_pool' \in Nat
  <2>1. total_bonded' = total_bonded - slash /\ backstop_pool' = backstop_pool + VaultShare(slash)
    BY Zenon DEF SlashSolver
  <2>2. slash \in Int
    BY <1>2, <1>3
  <2>3. total_bonded \in Int /\ backstop_pool \in Nat
    BY DEF TypeOK
  <2>. HIDE DEF slash
  <2>. QED
    BY <1>4, <2>1, <2>2, <2>3
<1>13. solver_intents' \in [Solvers -> SUBSET Intents] /\ open_intents' \in Nat
  <2>1. solver_intents \in [Solvers -> SUBSET Intents] /\ open_intents \in Nat
    BY DEF TypeOK
  <2>2. solver_intents' = Unlisted(s, i) /\ open_intents' = open_intents + 1
    BY SlashEffect
  <2>. HIDE DEF s
  <2>3. Unlisted(s, i) \in [Solvers -> SUBSET Intents]
    BY <2>1 DEF Unlisted
  <2>. QED
    BY <2>1, <2>2, <2>3
<1>14. UNCHANGED <<now, paused, registered, extended, userVars, escrow, received>>
  BY SlashEffect
<1>. QED
  BY <1>7, <1>8, <1>9, <1>10, <1>11, <1>12, <1>13, <1>14 DEF TypeOK, userVars

\* close_intent leaves a blank record and may have no solver to unlist.
LEMMA CloseIntentType ==
  ASSUME TypeOK, NEW i \in Intents, CloseIntent(i)
  PROVE  TypeOK'
<1>1. intent[i] \in IntentRecord
  BY DEF TypeOK
<1>2. Blank(intent[i].user, "Tombstone") \in IntentRecord
  BY <1>1, BlankType DEF IntentRecord, IntentStates
<1>3. intent' \in [Intents -> IntentRecord]
  BY <1>2 DEF TypeOK, CloseIntent
<1>4. solver_intents' \in [Solvers -> SUBSET Intents]
  <2>1. intent[i].solver \in Solvers \cup {NoSolver}
    BY <1>1 DEF IntentRecord
  <2>. QED
    BY <2>1 DEF TypeOK, CloseIntent, Unlisted
<1>. QED
  <2>1. extended' \in SUBSET Intents
    BY DEF TypeOK, CloseIntent
  <2>2. UNCHANGED <<now, paused, solverVars, open_intents, exposure, moneyVars, userVars,
                    escrow, received>>
    BY DEF CloseIntent
  <2>. QED
    BY <1>3, <1>4, <2>1, <2>2 DEF TypeOK, solverVars, moneyVars, userVars

\* begin_fill: what lands in escrow is not negative.
LEMMA BeginFillType ==
  ASSUME TypeOK, NEW s \in Solvers, NEW i \in Intents, NEW amount \in FillAmounts,
         NEW fee \in TransferFees, BeginFill(s, i, amount, fee)
  PROVE  TypeOK'
<1>1. /\ intent[i] \in IntentRecord /\ now + DisputeWindow \in Nat
      /\ amount - fee \in Nat
  BY DEF TypeOK, BeginFill
<1>2. [intent[i] EXCEPT !.state = "Filling", !.dispute_deadline = now + DisputeWindow,
                        !.fill_amount = amount - fee] \in IntentRecord
  BY <1>1 DEF IntentRecord, IntentStates, HeldStates
<1>3. intent' \in [Intents -> IntentRecord]
  BY <1>2 DEF TypeOK, BeginFill, Landed
<1>. QED
  BY <1>1, <1>3 DEF TypeOK, BeginFill, solverVars, bookVars, moneyVars, userVars

\* dispute_fill.
LEMMA DisputeFillType ==
  ASSUME TypeOK, NEW u \in Users, NEW i \in Intents, DisputeFill(u, i)
  PROVE  TypeOK'
<1>1. intent[i] \in IntentRecord /\ now \in Nat
  BY DEF TypeOK
<1>2. [intent[i] EXCEPT !.state = "Disputed", !.dispute_raised_at = now] \in IntentRecord
  BY <1>1 DEF IntentRecord, IntentStates, HeldStates
<1>3. intent' \in [Intents -> IntentRecord]
  BY <1>2 DEF TypeOK, DisputeFill
<1>. QED
  BY <1>3 DEF TypeOK, DisputeFill, solverVars, bookVars, moneyVars, userVars

\* The four ways out of the escrow, given what each does to the holder's record,
\* bond and the contract's balance.
LEMMA PayOutEscrowType ==
  ASSUME TypeOK, NEW i \in Intents, NEW fee \in Int,
         NEW state \in {"Filled", "Resolved"},
         NEW resolution \in {"None", "Upheld", "Dismissed"},
         PayOutEscrow(i, fee, state, resolution),
         solver' \in [Solvers -> SolverRecord],
         bond' \in [Solvers -> [BondTokens -> Nat]],
         balance' \in [BondTokens -> Nat]
  PROVE  TypeOK'
<1>. DEFINE held == intent[i].fill_amount
            total == intent[i].total_filled + held
<1>1. /\ intent[i] \in IntentRecord /\ held \in Nat /\ total \in Nat /\ now \in Nat
      /\ received[i] \in Int
  BY DEF TypeOK, IntentRecord
<1>2. [intent[i] EXCEPT !.total_filled = total, !.fill_amount = total, !.state = state,
                        !.terminal_at = now, !.resolution = resolution] \in IntentRecord
  BY <1>1 DEF IntentRecord, IntentStates, TerminalStates
<1>3. intent' \in [Intents -> IntentRecord]
  BY <1>2 DEF TypeOK, PayOutEscrow
<1>4. received' \in [Intents -> Int]
  BY <1>1 DEF TypeOK, PayOutEscrow
<1>5. escrow' \in Nat
  BY <1>1 DEF TypeOK, PayOutEscrow
<1>6. UNCHANGED <<now, paused, registered, bookVars, exposure, total_bonded, backstop_pool,
                  extended, userVars>>
  BY Zenon DEF PayOutEscrow
<1>. QED
  BY <1>3, <1>4, <1>5, <1>6 DEF TypeOK, bookVars, userVars

\* An upheld dispute: the slash is within the bond and covered.
LEMMA UpholdDisputeType ==
  ASSUME TypeOK, NEW i \in Intents, UpholdDispute(i)
  PROVE  TypeOK'
<1>. DEFINE s == intent[i].solver
            b == intent[i].bond_token
            unfilled == intent[i].min_dst_amount - intent[i].total_filled
            slash == SlashAmount(bond[s][b], unfilled)
<1>1. s \in Solvers /\ b \in BondTokens /\ unfilled \in Int
  <2>1. intent[i] \in IntentRecord /\ registered \subseteq Solvers
    BY DEF TypeOK
  <2>2. s \in registered
    BY Zenon DEF UpholdDispute, PayOutEscrow
  <2>3. /\ b \in BondTokens /\ intent[i].min_dst_amount \in Int
        /\ intent[i].total_filled \in Int
    BY <2>1 DEF IntentRecord
  <2>. QED
    BY <2>1, <2>2, <2>3
<1>2. bond[s][b] \in Nat
  BY <1>1 DEF TypeOK
<1>3. slash \in 0..bond[s][b]
  BY <1>1, <1>2, SlashWithinBond
<1>4. solver' \in [Solvers -> SolverRecord]
  <2>1. (bond[s][b] - slash >= MinBond[b]) \in BOOLEAN
    OBVIOUS
  <2>. QED
    BY <1>1, <2>1, SlashedRecordType DEF UpholdDispute
<1>5. bond' \in [Solvers -> [BondTokens -> Nat]]
  <2>1. bond[s][b] - slash \in Nat
    BY <1>2, <1>3
  <2>. QED
    BY <1>1, <2>1 DEF TypeOK, UpholdDispute
<1>6. balance' \in [BondTokens -> Nat]
  <2>1. slash <= balance[b] /\ balance' = [balance EXCEPT ![b] = @ - slash]
    BY Zenon DEF UpholdDispute
  <2>2. balance[b] \in Nat /\ balance \in [BondTokens -> Nat]
    BY <1>1 DEF TypeOK
  <2>. HIDE DEF s, b, slash
  <2>3. PICK x \in Nat : x = slash
    BY <1>2, <1>3
  <2>4. balance[b] - slash \in Nat
    BY <2>1, <2>2, <2>3
  <2>. QED
    BY <1>1, <2>1, <2>2, <2>4
<1>7. PayOutEscrow(i, 0, "Resolved", "Upheld")
  BY Zenon DEF UpholdDispute
<1>. QED
  BY <1>4, <1>5, <1>6, <1>7, PayOutEscrowType

\* A payout that leaves bonds and balances alone and frees the holder.
LEMMA FreeingPayOutType ==
  ASSUME TypeOK, NEW i \in Intents, NEW fee \in Int,
         NEW state \in {"Filled", "Resolved"},
         NEW resolution \in {"None", "Upheld", "Dismissed"},
         PayOutEscrow(i, fee, state, resolution),
         solver' = Freed(intent[i].solver), UNCHANGED <<bond, balance>>
  PROVE  TypeOK'
<1>1. intent[i].solver \in Solvers
  BY DEF TypeOK, PayOutEscrow
<1>2. solver' \in [Solvers -> SolverRecord]
  BY <1>1, FreedType
<1>3. bond' \in [Solvers -> [BondTokens -> Nat]] /\ balance' \in [BondTokens -> Nat]
  BY DEF TypeOK
<1>. QED
  BY <1>2, <1>3, PayOutEscrowType

\* A dismissed dispute, an undisputed release, an unanswered dispute.
LEMMA ReleaseType ==
  ASSUME TypeOK, NEW i \in Intents,
         DismissDispute(i) \/ ReleaseUndisputed(i) \/ ReleaseUnanswered(i)
  PROVE  TypeOK'
<1>1. /\ intent[i].fill_amount \in Nat
      /\ intent[i].resolution \in {"None", "Upheld", "Dismissed"}
  BY DEF TypeOK, IntentRecord
<1>2. Fee(intent[i].fill_amount) \in Int
  BY <1>1, FeeType
<1>3. CASE DismissDispute(i)
  BY <1>2, <1>3, FreeingPayOutType DEF DismissDispute
<1>4. CASE ReleaseUndisputed(i)
  BY <1>1, <1>2, <1>4, FreeingPayOutType DEF ReleaseUndisputed
<1>5. CASE ReleaseUnanswered(i)
  BY <1>5, FreeingPayOutType DEF ReleaseUnanswered
<1>. QED
  BY <1>3, <1>4, <1>5

\* The clock, the pause switch and the rescues.
LEMMA ClockAndAdminType ==
  ASSUME TypeOK, Tick \/ AdminCall
  PROVE  TypeOK'
<1>1. CASE Tick
  BY <1>1 DEF TypeOK, Tick, solverVars, bookVars, moneyVars, userVars
<1>2. ASSUME NEW p \in Switches, SetPaused(p)
      PROVE  TypeOK'
  BY <1>2 DEF TypeOK, SetPaused, solverVars, bookVars, moneyVars, userVars
<1>3. ASSUME NEW b \in BondTokens, NEW amount \in RescuedBonds, RescueBond(b, amount)
      PROVE  TypeOK'
  BY <1>3 DEF TypeOK, RescueBond, solverVars, bookVars, userVars
<1>4. ASSUME NEW amount \in RescuedOutput, RescueOutput(amount)
      PROVE  TypeOK'
  BY <1>4 DEF TypeOK, RescueOutput, solverVars, bookVars, moneyVars, userVars
<1>. QED
  BY <1>1, <1>2, <1>3, <1>4 DEF AdminCall

\* initialize leaves a typed state.
LEMMA InitType == Init => TypeOK
<1>1. SUFFICES ASSUME Init PROVE TypeOK
  OBVIOUS
<1>2. (CHOOSE u \in Users : TRUE) \in Users
  OBVIOUS
<1>3. intent \in [Intents -> IntentRecord]
  <2>. DEFINE blank == Blank(CHOOSE u \in Users : TRUE, "Absent")
  <2>1. "Absent" \in IntentStates
    BY DEF IntentStates
  <2>2. blank \in IntentRecord
    BY <1>2, <2>1, BlankType
  <2>3. intent = [i \in Intents |-> blank]
    BY <1>1 DEF Init
  <2>. HIDE DEF blank
  <2>. QED
    BY <2>2, <2>3
<1>4. solver \in [Solvers -> SolverRecord]
  BY <1>1 DEF Init, NewSolver, SolverRecord
<1>5. registered \subseteq Solvers /\ extended \subseteq Intents
  BY <1>1 DEF Init
<1>6. last_cancel \in [Users -> Nat] /\ last_amend \in [Users -> Nat]
  BY <1>1 DEF Init
<1>7. /\ solver_intents \in [Solvers -> SUBSET Intents]
      /\ exposure \in [Solvers -> Int] /\ received \in [Intents -> Int]
  BY <1>1 DEF Init
<1>8. /\ now \in Nat /\ open_intents \in Nat /\ escrow \in Nat
      /\ total_bonded \in Int /\ backstop_pool \in Nat
  <2>1. /\ now = 1 /\ open_intents = 0 /\ escrow = 0
        /\ total_bonded = 0 /\ backstop_pool = 0
    BY <1>1, Zenon DEF Init
  <2>. QED
    BY <2>1
<1>9. paused \in BOOLEAN
  BY <1>1, Zenon DEF Init
<1>10. balance \in [BondTokens -> Nat] /\ bond \in [Solvers -> [BondTokens -> Nat]]
  BY <1>1 DEF Init, NoBond
<1>. QED
  BY <1>3, <1>4, <1>5, <1>6, <1>7, <1>8, <1>9, <1>10 DEF TypeOK

\* Every step keeps the types.
LEMMA NextType == TypeOK /\ [Next]_vars => TypeOK'
<1>1. SUFFICES ASSUME TypeOK, [Next]_vars PROVE TypeOK'
  OBVIOUS
<1>2. ASSUME NEW s \in Solvers, SolverCall(s)
      PROVE  TypeOK'
  BY <1>1, <1>2, RegisterSolverType, DeregisterSolverType, WithdrawBondType,
     AcceptIntentType, FillIntentType, BeginFillType, RequestExtensionType DEF SolverCall
<1>3. ASSUME NEW u \in Users, UserCall(u)
      PROVE  TypeOK'
  BY <1>1, <1>3, SubmitIntentType, CancelIntentsType, AmendIntentType, DisputeFillType
     DEF UserCall
<1>4. ASSUME NEW i \in Intents, KeeperCall(i)
      PROVE  TypeOK'
  BY <1>1, <1>4, SlashSolverType, ExpireIntentType, ReleaseType, CloseIntentType
     DEF KeeperCall, Slash, Release
<1>5. CASE ArbiterCall
  BY <1>1, <1>5, UpholdDisputeType, ReleaseType DEF ArbiterCall
<1>6. CASE Tick \/ AdminCall
  BY <1>1, <1>6, ClockAndAdminType
<1>7. CASE UNCHANGED vars
  BY <1>1, <1>7 DEF TypeOK, vars, solverVars, bookVars, moneyVars, userVars
<1>. QED
  BY <1>1, <1>2, <1>3, <1>4, <1>5, <1>6, <1>7 DEF Next

\* Every reachable state is typed; in particular no bond and no balance of the
\* contract is ever negative, whatever the fees, slashes and rescues.
THEOREM TypeCorrect == Spec => []TypeOK
<1>. QED
  BY InitType, NextType, PTL DEF Spec

-----------------------------------------------------------------------------
(* The counters and lists the contract keeps beside the records agree with *)
(* the records.                                                            *)

HIDE SettlementAssumption

Holds(s, i) == intent[i].state \in HeldStates /\ intent[i].solver = s

\* At most the record of intent i changes.
Touches(i) == \A j \in Intents \ {i} : intent'[j] = intent[j]

-----------------------------------------------------------------------------
(* Counting.                                                               *)

\* Sets that differ in one element at most differ by one in size at most.
LEMMA CountChange ==
  ASSUME NEW A, NEW B, IsFiniteSet(A), NEW x, A \ {x} = B \ {x}
  PROVE  /\ Cardinality(A) \in Nat
         /\ x \in A /\ x \notin B => Cardinality(A) > 0 /\ Cardinality(B) = Cardinality(A) - 1
         /\ x \notin A /\ x \in B => Cardinality(B) = Cardinality(A) + 1
         /\ (x \in A <=> x \in B) => Cardinality(B) = Cardinality(A)
<1>1. Cardinality(A) \in Nat
  BY FS_CardinalityType
<1>2. CASE x \in A /\ x \notin B
  <2>1. B = A \ {x} /\ A # {}
    BY <1>2
  <2>2. Cardinality(A) # 0
    BY <2>1, FS_EmptySet
  <2>. QED
    BY <1>1, <1>2, <2>1, <2>2, FS_RemoveElement
<1>3. CASE x \notin A /\ x \in B
  <2>1. B = A \cup {x}
    BY <1>3
  <2>. QED
    BY <1>1, <1>3, <2>1, FS_AddElement
<1>4. CASE x \in A <=> x \in B
  <2>1. A = B
    BY <1>4
  <2>. QED
    BY <1>1, <1>4, <2>1
<1>. QED
  BY <1>2, <1>3, <1>4

\* There are finitely many intents to count.
LEMMA FiniteParts ==
  IsFiniteSet(OpenNow) /\ \A s \in Solvers : IsFiniteSet(HeldBy(s))
<1>1. IsFiniteSet(Intents)
  BY SettlementAssumption
<1>2. OpenNow \in SUBSET Intents /\ \A s \in Solvers : HeldBy(s) \in SUBSET Intents
  BY DEF OpenNow, HeldBy
<1>. QED
  BY <1>1, <1>2, FS_Subset

\* How the number of intents a solver holds moves with one record.
LEMMA HeldCount ==
  ASSUME NEW s \in Solvers, NEW i \in Intents, Touches(i)
  PROVE  /\ Cardinality(HeldBy(s)) \in Nat
         /\ Holds(s, i) /\ ~Holds(s, i)' =>
              Cardinality(HeldBy(s)) > 0 /\ Cardinality(HeldBy(s)') = Cardinality(HeldBy(s)) - 1
         /\ ~Holds(s, i) /\ Holds(s, i)' => Cardinality(HeldBy(s)') = Cardinality(HeldBy(s)) + 1
         /\ (Holds(s, i) <=> Holds(s, i)') => Cardinality(HeldBy(s)') = Cardinality(HeldBy(s))
<1>1. HeldBy(s) \ {i} = HeldBy(s)' \ {i}
  BY DEF HeldBy, Touches
<1>2. (i \in HeldBy(s) <=> Holds(s, i)) /\ (i \in HeldBy(s)' <=> Holds(s, i)')
  BY DEF HeldBy, Holds
<1>. QED
  BY <1>1, <1>2, FiniteParts, CountChange

\* How the number of open intents moves with one record.
LEMMA OpenCount ==
  ASSUME NEW i \in Intents, Touches(i)
  PROVE  /\ Cardinality(OpenNow) \in Nat
         /\ IsOpen(i) /\ ~IsOpen(i)' =>
              Cardinality(OpenNow) > 0 /\ Cardinality(OpenNow') = Cardinality(OpenNow) - 1
         /\ ~IsOpen(i) /\ IsOpen(i)' => Cardinality(OpenNow') = Cardinality(OpenNow) + 1
         /\ (IsOpen(i) <=> IsOpen(i)') => Cardinality(OpenNow') = Cardinality(OpenNow)
<1>1. OpenNow \ {i} = OpenNow' \ {i}
  BY DEF OpenNow, Touches
<1>2. (i \in OpenNow <=> IsOpen(i)) /\ (i \in OpenNow' <=> IsOpen(i)')
  BY DEF OpenNow, IsOpen
<1>. QED
  BY <1>1, <1>2, FiniteParts, CountChange

\* A solver whose counter is zero holds nothing.
LEMMA NoObligationsHoldsNothing ==
  ASSUME ActiveIntentsExact, NEW s \in Solvers, HasNoObligations(s)
  PROVE  HeldBy(s) = {}
BY FiniteParts, FS_EmptySet DEF ActiveIntentsExact, HasNoObligations

-----------------------------------------------------------------------------
(* The three ways in which a step touches the books.                       *)

\* A step that moves no intent into or out of a holder's hands or the open states.
LEMMA BooksUnmoved ==
  ASSUME TypeOK, Bookkeeping,
         OpenNow' = OpenNow, \A s \in Solvers : HeldBy(s)' = HeldBy(s),
         open_intents' = open_intents, solver_intents' = solver_intents,
         \A s \in Solvers : solver'[s].active_intents = solver[s].active_intents,
         \A s \in Solvers : HeldBy(s) # {} /\ s \in registered => s \in registered',
         \A i \in Intents : intent'[i].state \in HeldStates => intent[i].state \in HeldStates,
         \A s \in Solvers : \A i \in solver_intents[s] :
           intent'[i].solver = intent[i].solver
           /\ intent'[i].state \in HeldStates \cup TerminalStates
  PROVE  Bookkeeping'
<1>1. ActiveIntentsExact' /\ OpenIntentsExact'
  BY DEF Bookkeeping, ActiveIntentsExact, OpenIntentsExact
<1>2. SolverIntentsComplete'
  BY DEF Bookkeeping, SolverIntentsComplete
<1>3. HolderRegistered'
  <2>1. SUFFICES ASSUME NEW i \in Intents, intent'[i].state \in HeldStates
                 PROVE  intent'[i].solver \in registered'
    BY DEF HolderRegistered
  <2>2. intent[i].state \in HeldStates /\ intent[i].solver \in registered
    BY <2>1 DEF Bookkeeping, HolderRegistered
  <2>3. intent[i].solver \in Solvers
    BY <2>2 DEF TypeOK
  <2>4. i \in HeldBy(intent[i].solver)
    BY <2>2 DEF HeldBy
  <2>5. intent'[i].solver = intent[i].solver
    BY <2>3, <2>4 DEF HeldBy
  <2>. QED
    BY <2>2, <2>3, <2>4, <2>5
<1>. QED
  BY <1>1, <1>2, <1>3 DEF Bookkeeping

\* A solver takes an open intent up.
LEMMA BooksTakeUp ==
  ASSUME TypeOK, Bookkeeping, NEW s \in registered, NEW i \in Intents, Touches(i),
         IsOpen(i), Holds(s, i)',
         solver' = [solver EXCEPT ![s].active_intents = @ + 1],
         solver_intents' = [solver_intents EXCEPT ![s] = @ \cup {i}],
         open_intents' = Decrement(open_intents, 1), registered' = registered
  PROVE  Bookkeeping'
<1>1. s \in Solvers /\ ~IsOpen(i)' /\ \A r \in Solvers : ~Holds(r, i)
  BY DEF TypeOK, IsOpen, Holds, OpenStates, HeldStates
<1>2. OpenIntentsExact'
  BY <1>1, OpenCount DEF Bookkeeping, OpenIntentsExact, Decrement
<1>3. ActiveIntentsExact'
  <2>1. SUFFICES ASSUME NEW r \in Solvers
                 PROVE  solver'[r].active_intents = Cardinality(HeldBy(r)')
    BY DEF ActiveIntentsExact
  <2>2. solver[r].active_intents = Cardinality(HeldBy(r))
    BY DEF Bookkeeping, ActiveIntentsExact
  <2>3. CASE r = s
    <3>1. solver'[s].active_intents = solver[s].active_intents + 1
      BY <1>1 DEF TypeOK, SolverRecord
    <3>. QED
      BY <1>1, <2>2, <2>3, <3>1, HeldCount
  <2>4. CASE r # s
    <3>1. solver'[r].active_intents = solver[r].active_intents /\ ~Holds(r, i)'
      BY <2>4 DEF TypeOK, Holds
    <3>. QED
      BY <1>1, <2>2, <3>1, HeldCount
  <2>. QED
    BY <2>3, <2>4
<1>4. HolderRegistered'
  BY DEF Bookkeeping, HolderRegistered, Touches, Holds
<1>5. SolverIntentsComplete'
  BY <1>1 DEF Bookkeeping, SolverIntentsComplete, HeldBy, Touches, Holds, TypeOK, IsOpen,
              OpenStates, HeldStates, TerminalStates
<1>. QED
  BY <1>2, <1>3, <1>4, <1>5 DEF Bookkeeping

\* A solver lets an intent go: back to the open states, or to its end.
LEMMA BooksLetGo ==
  ASSUME TypeOK, Bookkeeping, NEW s \in Solvers, NEW i \in Intents, Touches(i),
         Holds(s, i), intent'[i].state \in OpenStates \cup TerminalStates,
         \A r \in Solvers : solver'[r].active_intents = Freed(s)[r].active_intents,
         open_intents' = IF IsOpen(i)' THEN open_intents + 1 ELSE open_intents,
         registered' = registered,
         \/ solver_intents' = Unlisted(s, i)
         \/ /\ solver_intents' = solver_intents /\ intent'[i].solver = s
            /\ intent'[i].state \in TerminalStates
  PROVE  Bookkeeping'
<1>1. ~IsOpen(i) /\ \A r \in Solvers : ~Holds(r, i)' /\ (r # s => ~Holds(r, i))
  BY DEF IsOpen, Holds, OpenStates, HeldStates, TerminalStates
<1>2. OpenIntentsExact'
  BY <1>1, OpenCount DEF Bookkeeping, OpenIntentsExact
<1>3. ActiveIntentsExact'
  <2>1. SUFFICES ASSUME NEW r \in Solvers
                 PROVE  solver'[r].active_intents = Cardinality(HeldBy(r)')
    BY DEF ActiveIntentsExact
  <2>2. solver[r].active_intents = Cardinality(HeldBy(r))
    BY DEF Bookkeeping, ActiveIntentsExact
  <2>3. CASE r = s
    <3>1. solver'[s].active_intents = Decrement(solver[s].active_intents, 1)
      BY DEF TypeOK, SolverRecord, Freed
    <3>. QED
      BY <1>1, <2>2, <2>3, <3>1, HeldCount DEF Decrement
  <2>4. CASE r # s
    <3>1. solver'[r].active_intents = solver[r].active_intents
      BY <2>4 DEF TypeOK, Freed
    <3>. QED
      BY <1>1, <2>2, <2>4, <3>1, HeldCount
  <2>. QED
    BY <2>3, <2>4
<1>4. HolderRegistered'
  BY DEF Bookkeeping, HolderRegistered, Touches, HeldStates, OpenStates, TerminalStates
<1>5. SolverIntentsComplete'
  <2>1. SUFFICES ASSUME NEW r \in Solvers
                 PROVE  /\ HeldBy(r)' \subseteq solver_intents'[r]
                        /\ \A j \in solver_intents'[r] :
                             /\ intent'[j].solver = r
                             /\ intent'[j].state \in HeldStates \cup TerminalStates
    BY DEF SolverIntentsComplete
  <2>2. /\ HeldBy(r) \subseteq solver_intents[r] /\ solver_intents[r] \subseteq Intents
        /\ \A j \in solver_intents[r] :
             intent[j].solver = r /\ intent[j].state \in HeldStates \cup TerminalStates
    BY DEF Bookkeeping, SolverIntentsComplete, TypeOK
  <2>3. HeldBy(r)' = HeldBy(r) \ {i} /\ (r # s => i \notin solver_intents[r])
    BY <1>1, <2>2 DEF HeldBy, Holds, Touches
  <2>4. CASE solver_intents' = Unlisted(s, i)
    <3>1. solver_intents'[r] = solver_intents[r] \ {i}
      BY <2>3, <2>4 DEF Unlisted, TypeOK
    <3>. QED
      BY <2>2, <2>3, <3>1 DEF Touches
  <2>5. CASE /\ solver_intents' = solver_intents /\ intent'[i].solver = s
             /\ intent'[i].state \in TerminalStates
    BY <2>2, <2>3, <2>5 DEF Touches
  <2>. QED
    BY <2>4, <2>5
<1>. QED
  BY <1>2, <1>3, <1>4, <1>5 DEF Bookkeeping

-----------------------------------------------------------------------------
(* Every step keeps the books.                                             *)

\* Calls that move no intent.
LEMMA RegistryBooks ==
  ASSUME TypeOK, Bookkeeping, NEW s \in Solvers,
         \/ \E b \in BondTokens, amount \in Deposits, fee \in TransferFees :
              RegisterSolver(s, b, amount, fee)
         \/ DeregisterSolver(s)
         \/ \E b \in BondTokens, amount \in Withdrawals : WithdrawBond(s, b, amount)
  PROVE  Bookkeeping'
<1>1. intent' = intent /\ open_intents' = open_intents /\ solver_intents' = solver_intents
  BY DEF RegisterSolver, DeregisterSolver, WithdrawBond, bookVars
<1>2. \A r \in Solvers : solver'[r].active_intents = solver[r].active_intents
  <2>1. CASE solver' = [solver EXCEPT ![s].is_active = TRUE]
    BY <2>1 DEF TypeOK, SolverRecord
  <2>2. CASE HasNoObligations(s) /\ solver' = [solver EXCEPT ![s] = NewSolver]
    BY <2>2 DEF TypeOK, HasNoObligations, NewSolver
  <2>3. CASE solver' = solver
    BY <2>3
  <2>. QED
    BY <2>1, <2>2, <2>3 DEF RegisterSolver, DeregisterSolver, WithdrawBond
<1>3. \A r \in Solvers : HeldBy(r) # {} /\ r \in registered => r \in registered'
  BY NoObligationsHoldsNothing
     DEF RegisterSolver, DeregisterSolver, WithdrawBond, Bookkeeping
<1>4. OpenNow' = OpenNow /\ \A r \in Solvers : HeldBy(r)' = HeldBy(r)
  BY <1>1 DEF OpenNow, HeldBy
<1>5. \A r \in Solvers : \A i \in solver_intents[r] :
        intent[i].state \in HeldStates \cup TerminalStates
  BY DEF Bookkeeping, SolverIntentsComplete
<1>. QED
  BY <1>1, <1>2, <1>3, <1>4, <1>5, BooksUnmoved

\* Steps that move no intent and no solver.
LEMMA IdleBooks ==
  ASSUME TypeOK, Bookkeeping, UNCHANGED <<registered, solver, intent, bookVars>>
  PROVE  Bookkeeping'
BY DEF Bookkeeping, ActiveIntentsExact, HolderRegistered, OpenIntentsExact,
       SolverIntentsComplete, HeldBy, OpenNow, bookVars

\* The clock, the pause switch and the rescues move no intent.
LEMMA ClockAndAdminBooks ==
  ASSUME TypeOK, Bookkeeping, Tick \/ AdminCall
  PROVE  Bookkeeping'
<1>1. UNCHANGED <<registered, solver, intent, bookVars>>
  BY DEF Tick, AdminCall, SetPaused, RescueBond, RescueOutput, solverVars
<1>. QED
  BY <1>1, IdleBooks

\* Calls that change an intent's terms or stage but not who holds it.
LEMMA StageBooks ==
  ASSUME TypeOK, Bookkeeping, NEW i \in Intents, Touches(i),
         UNCHANGED <<registered, solver, bookVars>>,
         intent'[i].solver = intent[i].solver,
         \/ IsOpen(i) /\ IsOpen(i)'
         \/ intent[i].state \in HeldStates /\ intent'[i].state \in HeldStates
  PROVE  Bookkeeping'
<1>1. OpenNow' = OpenNow /\ \A r \in Solvers : HeldBy(r)' = HeldBy(r)
  BY DEF OpenNow, HeldBy, Touches, IsOpen, OpenStates, HeldStates
<1>2. \A j \in Intents : intent'[j].state \in HeldStates => intent[j].state \in HeldStates
  BY DEF Touches, IsOpen, OpenStates, HeldStates
<1>3. \A r \in Solvers : \A j \in solver_intents[r] :
        intent'[j].solver = intent[j].solver
        /\ intent'[j].state \in HeldStates \cup TerminalStates
  BY DEF Bookkeeping, SolverIntentsComplete, Touches, TypeOK, IsOpen, OpenStates,
         HeldStates, TerminalStates
<1>. QED
  BY <1>1, <1>2, <1>3, BooksUnmoved DEF bookVars

\* begin_fill, dispute_fill, amend_intent and request_extension are such calls.
LEMMA StageMovesBooks ==
  ASSUME TypeOK, Bookkeeping, NEW i \in Intents,
         \/ \E u \in Users : DisputeFill(u, i)
         \/ \E u \in Users, min \in AmendAmounts, life \in Lifetimes :
              AmendIntent(u, i, min, life)
         \/ \E s \in Solvers : RequestExtension(s, i)
         \/ \E s \in Solvers, amount \in FillAmounts, fee \in TransferFees :
              BeginFill(s, i, amount, fee)
  PROVE  Bookkeeping'
<1>1. UNCHANGED <<registered, solver, bookVars>>
  BY DEF DisputeFill, AmendIntent, RequestExtension, BeginFill, solverVars
<1>2. intent[i] \in IntentRecord
  BY DEF TypeOK
<1>3. /\ Touches(i) /\ intent'[i].solver = intent[i].solver
      /\ \/ IsOpen(i) /\ IsOpen(i)'
         \/ intent[i].state \in HeldStates /\ intent'[i].state \in HeldStates
  <2>1. ASSUME NEW u \in Users, DisputeFill(u, i) PROVE <1>3
    BY <1>2, <2>1 DEF DisputeFill, Touches, TypeOK, IntentRecord, HeldStates
  <2>2. ASSUME NEW u \in Users, NEW min \in AmendAmounts, NEW life \in Lifetimes,
               AmendIntent(u, i, min, life)
        PROVE  <1>3
    BY <1>2, <2>2 DEF AmendIntent, Touches, TypeOK, IntentRecord, Amendable, IsOpen, OpenStates
  <2>3. ASSUME NEW s \in Solvers, RequestExtension(s, i) PROVE <1>3
    BY <1>2, <2>3 DEF RequestExtension, Touches, TypeOK, IntentRecord, HeldStates
  <2>4. ASSUME NEW s \in Solvers, NEW amount \in FillAmounts, NEW fee \in TransferFees,
               BeginFill(s, i, amount, fee)
        PROVE  <1>3
    BY <1>2, <2>4 DEF BeginFill, Touches, TypeOK, IntentRecord, HeldStates
  <2>. QED
    BY <2>1, <2>2, <2>3, <2>4
<1>. QED
  BY <1>1, <1>3, StageBooks

\* accept_intent takes an intent up.
LEMMA AcceptIntentBooks ==
  ASSUME TypeOK, Bookkeeping, NEW s \in Solvers, NEW i \in Intents, NEW b \in BondTokens,
         NEW window \in FillWindows, NEW weight \in Weights,
         AcceptIntent(s, i, b, window, weight)
  PROVE  Bookkeeping'
<1>1. intent[i] \in IntentRecord
  BY DEF TypeOK
<1>2. Touches(i) /\ IsOpen(i) /\ Holds(s, i)'
  BY <1>1 DEF AcceptIntent, Touches, Holds, TypeOK, IntentRecord, HeldStates
<1>. QED
  BY <1>2, BooksTakeUp DEF AcceptIntent

\* fill_intent lets the intent go, done or re-opened.
LEMMA FillIntentBooks ==
  ASSUME TypeOK, Bookkeeping, NEW s \in Solvers, NEW i \in Intents,
         NEW amount \in FillAmounts, NEW weight \in Weights,
         FillIntent(s, i, amount, weight)
  PROVE  Bookkeeping'
<1>1. intent[i] \in IntentRecord
  BY DEF TypeOK
<1>2. Touches(i) /\ Holds(s, i)
  BY DEF FillIntent, Touches, Holds, TypeOK, HeldStates
<1>3. intent'[i].state = IF Completes(i, amount) THEN "Filled" ELSE "PartiallyFilled"
  BY <1>1 DEF FillIntent, TypeOK, IntentRecord
<1>4. /\ solver' = Freed(s) /\ solver_intents' = Unlisted(s, i) /\ registered' = registered
      /\ open_intents' = IF Completes(i, amount) THEN open_intents ELSE open_intents + 1
  BY DEF FillIntent
<1>5. /\ intent'[i].state \in OpenStates \cup TerminalStates
      /\ open_intents' = IF IsOpen(i)' THEN open_intents + 1 ELSE open_intents
  BY <1>3, <1>4 DEF IsOpen, OpenStates, TerminalStates
<1>. QED
  BY <1>2, <1>4, <1>5, BooksLetGo

\* A slash counts one obligation down, whatever else it does to the record.
LEMMA SlashedCountsDown ==
  ASSUME TypeOK, NEW s \in Solvers, NEW healthy \in BOOLEAN,
         solver' = [Freed(s) EXCEPT ![s].is_active = @ /\ healthy, ![s].last_slash_time = now]
  PROVE  \A r \in Solvers : solver'[r].active_intents = Freed(s)[r].active_intents
<1>1. Freed(s) \in [Solvers -> SolverRecord]
  BY FreedType
<1>. QED
  BY <1>1 DEF SolverRecord

\* slash_solver lets the intent go, re-opened.
LEMMA SlashSolverBooks ==
  ASSUME TypeOK, Bookkeeping, NEW i \in Intents, NEW weight \in Weights,
         SlashSolver(i, weight)
  PROVE  Bookkeeping'
<1>. DEFINE s == intent[i].solver
            b == intent[i].bond_token
            kept == bond[s][b]
                      - SlashAmount(bond[s][b], intent[i].min_dst_amount - intent[i].total_filled)
<1>1. s \in Solvers /\ intent[i] \in IntentRecord
  BY DEF TypeOK, SlashSolver
<1>2. \A r \in Solvers : solver'[r].active_intents = Freed(s)[r].active_intents
  <2>1. solver' = [Freed(s) EXCEPT ![s].is_active = @ /\ (kept >= MinBond[b]),
                                   ![s].last_slash_time = now]
    BY Zenon DEF SlashSolver
  <2>2. (kept >= MinBond[b]) \in BOOLEAN
    OBVIOUS
  <2>. QED
    BY <1>1, <2>1, <2>2, SlashedCountsDown
<1>3. Touches(i) /\ Holds(s, i) /\ intent'[i].state = "Open"
  BY <1>1 DEF SlashSolver, Touches, Holds, TypeOK, IntentRecord, HeldStates
<1>4. /\ solver_intents' = Unlisted(s, i) /\ registered' = registered
      /\ open_intents' = open_intents + 1
  BY Zenon DEF SlashSolver
<1>5. /\ intent'[i].state \in OpenStates \cup TerminalStates
      /\ open_intents' = IF IsOpen(i)' THEN open_intents + 1 ELSE open_intents
  BY <1>3, <1>4 DEF IsOpen, OpenStates
<1>. QED
  BY <1>1, <1>2, <1>3, <1>4, <1>5, BooksLetGo

\* The four ways out of the escrow.
LEMMA PayOutBooks ==
  ASSUME TypeOK, Bookkeeping, NEW i \in Intents, NEW fee,
         NEW state \in {"Filled", "Resolved"}, NEW resolution,
         PayOutEscrow(i, fee, state, resolution),
         intent[i].state \in EscrowStates,
         \A r \in Solvers :
           solver'[r].active_intents = Freed(intent[i].solver)[r].active_intents
  PROVE  Bookkeeping'
<1>. DEFINE s == intent[i].solver
<1>1. s \in Solvers /\ intent[i] \in IntentRecord
  BY DEF TypeOK, PayOutEscrow
<1>2. Touches(i) /\ Holds(s, i)
  BY DEF PayOutEscrow, Touches, Holds, TypeOK, HeldStates, EscrowStates
<1>3. intent'[i].state = state /\ intent'[i].solver = s
  BY <1>1 DEF PayOutEscrow, TypeOK, IntentRecord
<1>4. UNCHANGED <<registered, open_intents, solver_intents>>
  BY DEF PayOutEscrow, bookVars
<1>5. ~IsOpen(i)' /\ intent'[i].state \in TerminalStates
  BY <1>3 DEF IsOpen, OpenStates, TerminalStates
<1>. QED
  BY <1>1, <1>2, <1>3, <1>4, <1>5, BooksLetGo

\* Rulings and releases let the intent go, ended; it stays on its solver's list.
LEMMA ReleaseBooks ==
  ASSUME TypeOK, Bookkeeping, NEW i \in Intents,
         UpholdDispute(i) \/ DismissDispute(i) \/ ReleaseUndisputed(i) \/ ReleaseUnanswered(i)
  PROVE  Bookkeeping'
<1>. DEFINE s == intent[i].solver
            b == intent[i].bond_token
            kept == bond[s][b]
                      - SlashAmount(bond[s][b], intent[i].min_dst_amount - intent[i].total_filled)
<1>1. s \in Solvers /\ intent[i].state \in EscrowStates
  BY DEF TypeOK, UpholdDispute, DismissDispute, ReleaseUndisputed, ReleaseUnanswered,
         PayOutEscrow, EscrowStates
<1>2. CASE UpholdDispute(i)
  <2>1. solver' = [Freed(s) EXCEPT ![s].is_active = @ /\ (kept >= MinBond[b]),
                                   ![s].last_slash_time = now]
    BY <1>2, Zenon DEF UpholdDispute
  <2>2. (kept >= MinBond[b]) \in BOOLEAN
    OBVIOUS
  <2>3. \A r \in Solvers : solver'[r].active_intents = Freed(s)[r].active_intents
    BY <1>1, <2>1, <2>2, SlashedCountsDown
  <2>4. PayOutEscrow(i, 0, "Resolved", "Upheld")
    BY <1>2, Zenon DEF UpholdDispute
  <2>. QED
    BY <1>1, <2>3, <2>4, PayOutBooks
<1>3. CASE DismissDispute(i) \/ ReleaseUndisputed(i) \/ ReleaseUnanswered(i)
  <2>1. solver' = Freed(s)
    BY <1>3 DEF DismissDispute, ReleaseUndisputed, ReleaseUnanswered
  <2>2. \E fee, resolution : \E state \in {"Filled", "Resolved"} :
          PayOutEscrow(i, fee, state, resolution)
    BY <1>3 DEF DismissDispute, ReleaseUndisputed, ReleaseUnanswered
  <2>. QED
    BY <1>1, <2>1, <2>2, PayOutBooks
<1>. QED
  BY <1>2, <1>3

\* Intents that nobody holds change state, and leave the lists that named them.
LEMMA BooksAside ==
  ASSUME TypeOK, Bookkeeping, NEW C \in SUBSET Intents,
         \A j \in Intents \ C : intent'[j] = intent[j],
         \A j \in C : intent[j].state \notin HeldStates /\ intent'[j].state \notin HeldStates,
         UNCHANGED <<registered, solver>>,
         \A s \in Solvers : solver_intents'[s] = solver_intents[s] \ C,
         OpenIntentsExact'
  PROVE  Bookkeeping'
<1>1. \A s \in Solvers : HeldBy(s)' = HeldBy(s) /\ HeldBy(s) \cap C = {}
  BY DEF HeldBy
<1>2. ActiveIntentsExact'
  BY <1>1 DEF Bookkeeping, ActiveIntentsExact
<1>3. HolderRegistered'
  BY DEF Bookkeeping, HolderRegistered
<1>4. SolverIntentsComplete'
  <2>1. SUFFICES ASSUME NEW s \in Solvers
                 PROVE  /\ HeldBy(s)' \subseteq solver_intents'[s]
                        /\ \A j \in solver_intents'[s] :
                             /\ intent'[j].solver = s
                             /\ intent'[j].state \in HeldStates \cup TerminalStates
    BY DEF SolverIntentsComplete
  <2>2. /\ HeldBy(s) \subseteq solver_intents[s] /\ solver_intents[s] \subseteq Intents
        /\ \A j \in solver_intents[s] :
             intent[j].solver = s /\ intent[j].state \in HeldStates \cup TerminalStates
    BY DEF Bookkeeping, SolverIntentsComplete, TypeOK
  <2>. QED
    BY <1>1, <2>2
<1>. QED
  BY <1>2, <1>3, <1>4 DEF Bookkeeping

\* No list names an intent that is neither held nor ended.
LEMMA UnlistedOnes ==
  ASSUME TypeOK, Bookkeeping, UNCHANGED solver_intents, NEW C \in SUBSET Intents,
         \A j \in C : intent[j].state \notin HeldStates \cup TerminalStates
  PROVE  \A s \in Solvers : solver_intents'[s] = solver_intents[s] \ C
BY DEF Bookkeeping, SolverIntentsComplete

\* submit_intent adds one open intent.
LEMMA SubmitIntentBooks ==
  ASSUME TypeOK, Bookkeeping, NEW u \in Users, NEW i \in Intents, NEW min \in MinAmounts,
         NEW life \in Lifetimes, SubmitIntent(u, i, min, life)
  PROVE  Bookkeeping'
<1>1. /\ Touches(i) /\ intent'[i].state = "Open" /\ intent[i].state = "Absent"
      /\ open_intents' = open_intents + 1 /\ UNCHANGED <<registered, solver, solver_intents>>
  BY DEF SubmitIntent, Touches, TypeOK, Blank, solverVars
<1>2. OpenIntentsExact'
  BY <1>1, OpenCount DEF Bookkeeping, OpenIntentsExact, IsOpen, OpenStates
<1>3. \A s \in Solvers : solver_intents'[s] = solver_intents[s] \ {i}
  BY <1>1, UnlistedOnes DEF HeldStates, TerminalStates
<1>. QED
  BY <1>1, <1>2, <1>3, BooksAside DEF Touches, HeldStates

\* expire_intent removes one open intent.
LEMMA ExpireIntentBooks ==
  ASSUME TypeOK, Bookkeeping, NEW i \in Intents, ExpireIntent(i)
  PROVE  Bookkeeping'
<1>1. intent[i] \in IntentRecord
  BY DEF TypeOK
<1>2. /\ Touches(i) /\ intent'[i].state = "Expired" /\ IsOpen(i)
      /\ open_intents' = Decrement(open_intents, 1)
      /\ UNCHANGED <<registered, solver, solver_intents>>
  BY <1>1 DEF ExpireIntent, Touches, TypeOK, IntentRecord, solverVars
<1>3. OpenIntentsExact'
  BY <1>2, OpenCount DEF Bookkeeping, OpenIntentsExact, IsOpen, OpenStates, Decrement
<1>4. \A s \in Solvers : solver_intents'[s] = solver_intents[s] \ {i}
  BY <1>2, UnlistedOnes DEF IsOpen, OpenStates, HeldStates, TerminalStates
<1>. QED
  BY <1>2, <1>3, <1>4, BooksAside DEF Touches, IsOpen, OpenStates, HeldStates

\* close_intent forgets an ended intent, in the records and in the lists.
LEMMA CloseIntentBooks ==
  ASSUME TypeOK, Bookkeeping, NEW i \in Intents, CloseIntent(i)
  PROVE  Bookkeeping'
<1>1. intent[i] \in IntentRecord
  BY DEF TypeOK
<1>2. /\ Touches(i) /\ intent'[i].state = "Tombstone" /\ intent[i].state \in TerminalStates
      /\ UNCHANGED <<registered, solver, open_intents>>
  BY DEF CloseIntent, Touches, TypeOK, Blank, solverVars
<1>3. OpenIntentsExact'
  BY <1>2, OpenCount
     DEF Bookkeeping, OpenIntentsExact, IsOpen, OpenStates, TerminalStates
<1>4. ASSUME NEW s \in Solvers
      PROVE  solver_intents'[s] = solver_intents[s] \ {i}
  <2>1. i \in solver_intents[s] => intent[i].solver = s
    BY DEF Bookkeeping, SolverIntentsComplete
  <2>2. s # NoSolver
    BY SettlementAssumption
  <2>. QED
    BY <2>1, <2>2 DEF CloseIntent, Unlisted, TypeOK
<1>. QED
  BY <1>2, <1>3, <1>4, BooksAside DEF Touches, HeldStates, TerminalStates

\* A batch of cancellations removes as many open intents as it names.
LEMMA CancelIntentsBooks ==
  ASSUME TypeOK, Bookkeeping, NEW u \in Users, NEW S \in SUBSET Intents, CancelIntents(u, S)
  PROVE  Bookkeeping'
<1>1. \A i \in S : IsOpen(i) /\ intent'[i].state = "Cancelled"
  <2>1. \A i \in Intents : intent[i] \in IntentRecord
    BY DEF TypeOK
  <2>. QED
    BY <2>1 DEF CancelIntents, IntentRecord
<1>2. /\ \A j \in Intents \ S : intent'[j] = intent[j]
      /\ open_intents' = Decrement(open_intents, Cardinality(S))
      /\ UNCHANGED <<registered, solver, solver_intents>>
  BY DEF CancelIntents, solverVars
<1>3. OpenIntentsExact'
  <2>1. OpenNow' = OpenNow \ S /\ OpenNow \cap S = S
    BY <1>1, <1>2 DEF OpenNow, IsOpen, OpenStates
  <2>2. /\ Cardinality(OpenNow) \in Nat /\ Cardinality(OpenNow') \in Nat
        /\ Cardinality(S) \in Nat
        /\ Cardinality(OpenNow') = Cardinality(OpenNow) - Cardinality(S)
    <3>1. IsFiniteSet(OpenNow) /\ IsFiniteSet(OpenNow') /\ IsFiniteSet(S)
      BY <2>1, FiniteParts, FS_Difference, FS_Subset
    <3>2. /\ Cardinality(OpenNow) \in Nat /\ Cardinality(OpenNow') \in Nat
          /\ Cardinality(S) \in Nat
      BY <3>1, FS_CardinalityType
    <3>3. Cardinality(OpenNow \ S) = Cardinality(OpenNow) - Cardinality(OpenNow \cap S)
      BY <3>1, FS_Difference
    <3>. QED
      BY <2>1, <3>2, <3>3
  <2>. QED
    BY <1>2, <2>2 DEF Bookkeeping, OpenIntentsExact, Decrement
<1>4. \A s \in Solvers : solver_intents'[s] = solver_intents[s] \ S
  BY <1>1, <1>2, UnlistedOnes DEF IsOpen, OpenStates, HeldStates, TerminalStates
<1>. QED
  BY <1>1, <1>2, <1>3, <1>4, BooksAside DEF IsOpen, OpenStates, HeldStates

\* The books start empty and exact.
LEMMA InitBooks == Init => Bookkeeping
<1>1. SUFFICES ASSUME Init PROVE Bookkeeping
  OBVIOUS
<1>2. \A i \in Intents : intent[i].state = "Absent"
  BY <1>1 DEF Init, Blank
<1>3. OpenNow = {} /\ \A s \in Solvers : HeldBy(s) = {}
  BY <1>2 DEF OpenNow, HeldBy, OpenStates, HeldStates
<1>4. /\ open_intents = 0
      /\ \A s \in Solvers : solver[s].active_intents = 0 /\ solver_intents[s] = {}
  BY <1>1 DEF Init, NewSolver
<1>. QED
  BY <1>2, <1>3, <1>4, FS_EmptySet
     DEF Bookkeeping, ActiveIntentsExact, HolderRegistered, OpenIntentsExact,
         SolverIntentsComplete, HeldStates

\* Every step keeps the books exact.
LEMMA NextBooks == TypeOK /\ Bookkeeping /\ [Next]_vars => Bookkeeping'
<1>1. SUFFICES ASSUME TypeOK, Bookkeeping, [Next]_vars PROVE Bookkeeping'
  OBVIOUS
<1>2. ASSUME NEW s \in Solvers, SolverCall(s)
      PROVE  Bookkeeping'
  BY <1>1, <1>2, RegistryBooks, AcceptIntentBooks, FillIntentBooks, StageMovesBooks
     DEF SolverCall
<1>3. ASSUME NEW u \in Users, UserCall(u)
      PROVE  Bookkeeping'
  BY <1>1, <1>3, SubmitIntentBooks, CancelIntentsBooks, StageMovesBooks DEF UserCall
<1>4. ASSUME NEW i \in Intents, KeeperCall(i)
      PROVE  Bookkeeping'
  BY <1>1, <1>4, SlashSolverBooks, ExpireIntentBooks, ReleaseBooks, CloseIntentBooks
     DEF KeeperCall, Slash, Release
<1>5. CASE ArbiterCall
  BY <1>1, <1>5, ReleaseBooks DEF ArbiterCall
<1>6. CASE Tick \/ AdminCall
  BY <1>1, <1>6, ClockAndAdminBooks
<1>7. CASE UNCHANGED vars
  BY <1>1, <1>7, IdleBooks DEF vars, solverVars
<1>. QED
  BY <1>1, <1>2, <1>3, <1>4, <1>5, <1>6, <1>7 DEF Next

\* The books are exact in every reachable state.
THEOREM BooksExact == Spec => []Bookkeeping
<1>1. TypeOK /\ Bookkeeping /\ [Next]_vars => Bookkeeping'
  BY NextBooks
<1>. QED
  BY <1>1, InitBooks, TypeCorrect, PTL DEF Spec

\* active_intents counts the intents a solver holds, exactly, for ever.
THEOREM ActiveIntentsAreExact == Spec => []ActiveIntentsExact
<1>1. Bookkeeping => ActiveIntentsExact
  BY DEF Bookkeeping
<1>. QED
  BY <1>1, BooksExact, PTL

\* The record of a held intent's solver is always there to be read.
THEOREM HoldersStayRegistered == Spec => []HolderRegistered
<1>1. Bookkeeping => HolderRegistered
  BY DEF Bookkeeping
<1>. QED
  BY <1>1, BooksExact, PTL

\* OpenIntents never drifts from the number of open intents.
THEOREM OpenIntentsAreExact == Spec => []OpenIntentsExact
<1>1. Bookkeeping => OpenIntentsExact
  BY DEF Bookkeeping
<1>. QED
  BY <1>1, BooksExact, PTL

\* get_solver_intents never misses an intent its solver holds.
THEOREM SolverIntentsAreComplete == Spec => []SolverIntentsComplete
<1>1. Bookkeeping => SolverIntentsComplete
  BY DEF Bookkeeping
<1>. QED
  BY <1>1, BooksExact, PTL

-----------------------------------------------------------------------------
(* What the users receive.                                                 *)

\* Multiplying by a natural number is monotone.
LEMMA TimesMonotone ==
  ASSUME NEW a \in Nat, NEW b \in Nat, NEW c \in Nat, a <= b
  PROVE  a * c <= b * c
<1>1. (b - a) * c \in Nat
  <2>1. b - a \in Nat OBVIOUS
  <2>. QED BY <2>1
<1>2. b * c = a * c + (b - a) * c
  OBVIOUS
<1>. QED
  BY <1>1, <1>2

\* So is integer division.
LEMMA DivMonotone ==
  ASSUME NEW x \in Nat, NEW y \in Nat, NEW d \in Nat \ {0}, x <= y
  PROVE  x \div d <= y \div d
OBVIOUS

\* The fee on a part is at most the fee on the whole.
LEMMA FeeMonotone ==
  ASSUME NEW a \in Nat, NEW b \in Nat, a <= b
  PROVE  Fee(a) <= Fee(b)
<1>1. a * FeeBps <= b * FeeBps
  BY TimesMonotone, SettlementAssumption
<1>2. a * FeeBps \in Nat /\ b * FeeBps \in Nat /\ Bps \in Nat \ {0}
  BY SettlementAssumption
<1>. QED
  BY <1>1, <1>2, DivMonotone DEF Fee

\* What UserPaid asks of a record and of what its user got for it.
Paid(record, got) ==
  record.state # "Tombstone" =>
    /\ got <= record.total_filled
    /\ record.total_filled <= got + Fee(record.total_filled)
    /\ got = record.total_filled \/ record.state = "Filled" \/ record.resolution = "Dismissed"

\* Its strengthening: until an intent ends, its user has received exactly what the
\* record counts as filled, and no dispute about it has been ruled on.
PaidExactly(record, got) ==
  /\ record.state \notin TerminalStates \cup {"Tombstone"} =>
       got = record.total_filled /\ record.resolution = "None"
  /\ record.state = "Absent" => record.total_filled = 0

Payments ==
  \A i \in Intents : PaidExactly(intent[i], received[i]) /\ Paid(intent[i], received[i])

\* Whoever has received all that is filled has been paid.
LEMMA PaidInFull ==
  ASSUME NEW record \in IntentRecord
  PROVE  Paid(record, record.total_filled)
<1>1. record.total_filled \in Nat
  BY DEF IntentRecord
<1>2. Fee(record.total_filled) \in Nat
  BY <1>1, FeeType
<1>. QED
  BY <1>1, <1>2 DEF Paid

\* A step that leaves the record and the receipts of all intents but one alone.
LEMMA OnePayment ==
  ASSUME Payments, NEW i \in Intents, Touches(i),
         \A j \in Intents \ {i} : received'[j] = received[j],
         PaidExactly(intent'[i], received'[i]), Paid(intent'[i], received'[i])
  PROVE  Payments'
BY DEF Payments, Touches

\* A step that changes neither what is filled nor what is received.
LEMMA PaymentsUnmoved ==
  ASSUME TypeOK', Payments, received' = received,
         \A i \in Intents :
           \/ intent'[i] = intent[i]
           \/ intent'[i].state = "Tombstone"
           \/ /\ intent[i].state \notin TerminalStates \cup {"Tombstone"}
              /\ intent'[i].state # "Absent"
              /\ intent'[i].total_filled = intent[i].total_filled
              /\ intent'[i].resolution = intent[i].resolution
  PROVE  Payments'
<1>1. SUFFICES ASSUME NEW i \in Intents
               PROVE  PaidExactly(intent'[i], received'[i]) /\ Paid(intent'[i], received'[i])
  BY DEF Payments
<1>2. PaidExactly(intent[i], received[i]) /\ Paid(intent[i], received[i])
  BY DEF Payments
<1>3. CASE intent'[i] = intent[i]
  BY <1>2, <1>3
<1>4. CASE intent'[i].state = "Tombstone"
  BY <1>4 DEF PaidExactly, Paid, TerminalStates
<1>5. CASE /\ intent[i].state \notin TerminalStates \cup {"Tombstone"}
           /\ intent'[i].state # "Absent"
           /\ intent'[i].total_filled = intent[i].total_filled
           /\ intent'[i].resolution = intent[i].resolution
  <2>1. received'[i] = intent'[i].total_filled /\ intent'[i].resolution = "None"
    BY <1>2, <1>5 DEF PaidExactly
  <2>2. intent'[i] \in IntentRecord
    BY DEF TypeOK
  <2>3. Paid(intent'[i], received'[i])
    BY <2>1, <2>2, PaidInFull
  <2>. QED
    BY <1>5, <2>1, <2>3 DEF PaidExactly
<1>. QED
  BY <1>3, <1>4, <1>5

\* fill_intent pays the user what it adds to the record.
LEMMA FillIntentPays ==
  ASSUME TypeOK, TypeOK', Payments, NEW s \in Solvers, NEW i \in Intents,
         NEW amount \in FillAmounts, NEW weight \in Weights,
         FillIntent(s, i, amount, weight)
  PROVE  Payments'
<1>1. intent[i] \in IntentRecord /\ intent'[i] \in IntentRecord
  BY DEF TypeOK
<1>2. received[i] = intent[i].total_filled /\ intent[i].resolution = "None"
  BY DEF Payments, PaidExactly, FillIntent, TerminalStates
<1>3. /\ intent'[i].total_filled = intent[i].total_filled + amount
      /\ intent'[i].resolution = intent[i].resolution
      /\ intent'[i].state \in {"Filled", "PartiallyFilled"}
  BY <1>1 DEF FillIntent, TypeOK, IntentRecord
<1>4. received'[i] = intent'[i].total_filled
  BY <1>2, <1>3 DEF FillIntent, TypeOK
<1>5. Touches(i) /\ \A j \in Intents \ {i} : received'[j] = received[j]
  BY DEF FillIntent, Touches, TypeOK
<1>6. Paid(intent'[i], received'[i])
  BY <1>1, <1>4, PaidInFull
<1>7. PaidExactly(intent'[i], received'[i])
  BY <1>2, <1>3, <1>4 DEF PaidExactly
<1>. QED
  BY <1>5, <1>6, <1>7, OnePayment

\* The ways out of the escrow pay the held fill, less one fee at most.
LEMMA PayOutEscrowPays ==
  ASSUME TypeOK, TypeOK', Payments, NEW i \in Intents, intent[i].state \in EscrowStates,
         NEW fee, NEW state \in {"Filled", "Resolved"}, NEW resolution,
         PayOutEscrow(i, fee, state, resolution),
         \/ fee = 0
         \/ /\ fee = Fee(intent[i].fill_amount)
            /\ state = "Filled" \/ resolution = "Dismissed"
  PROVE  Payments'
<1>. DEFINE held == intent[i].fill_amount
            filled == intent[i].total_filled
<1>1. intent[i] \in IntentRecord /\ intent'[i] \in IntentRecord
  BY DEF TypeOK
<1>2. received[i] = filled /\ filled \in Nat /\ held \in Nat
  BY <1>1 DEF Payments, PaidExactly, EscrowStates, TerminalStates, IntentRecord
<1>3. /\ intent'[i].total_filled = filled + held /\ intent'[i].resolution = resolution
      /\ intent'[i].state = state
  BY <1>1 DEF PayOutEscrow, TypeOK, IntentRecord
<1>4. received'[i] = filled + held - fee
  BY <1>2 DEF PayOutEscrow, TypeOK
<1>5. Touches(i) /\ \A j \in Intents \ {i} : received'[j] = received[j]
  BY DEF PayOutEscrow, Touches, TypeOK
<1>6. Paid(intent'[i], received'[i])
  <2>1. CASE fee = 0
    <3>1. received'[i] = intent'[i].total_filled
      BY <1>2, <1>3, <1>4, <2>1
    <3>. QED
      BY <1>1, <3>1, PaidInFull
  <2>2. CASE /\ fee = Fee(held)
             /\ state = "Filled" \/ resolution = "Dismissed"
    <3>1. /\ Fee(held) \in Nat /\ Fee(filled + held) \in Nat
          /\ Fee(held) <= Fee(filled + held)
      BY <1>2, FeeType, FeeMonotone
    <3>. QED
      BY <1>2, <1>3, <1>4, <2>2, <3>1 DEF Paid
  <2>. QED
    BY <2>1, <2>2
<1>7. PaidExactly(intent'[i], received'[i])
  BY <1>3 DEF PaidExactly, TerminalStates
<1>. QED
  BY <1>5, <1>6, <1>7, OnePayment

\* The four rulings and releases, with the fee each of them takes.
LEMMA ReleasePays ==
  ASSUME TypeOK, TypeOK', Payments, NEW i \in Intents,
         UpholdDispute(i) \/ DismissDispute(i) \/ ReleaseUndisputed(i) \/ ReleaseUnanswered(i)
  PROVE  Payments'
<1>1. CASE UpholdDispute(i)
  <2>1. PayOutEscrow(i, 0, "Resolved", "Upheld") /\ intent[i].state = "Disputed"
    BY <1>1, Zenon DEF UpholdDispute
  <2>. QED
    BY <2>1, PayOutEscrowPays DEF EscrowStates
<1>2. CASE DismissDispute(i)
  <2>1. PayOutEscrow(i, Fee(intent[i].fill_amount), "Resolved", "Dismissed")
        /\ intent[i].state = "Disputed"
    BY <1>2, Zenon DEF DismissDispute
  <2>. QED
    BY <2>1, PayOutEscrowPays DEF EscrowStates
<1>3. CASE ReleaseUndisputed(i)
  <2>1. PayOutEscrow(i, Fee(intent[i].fill_amount), "Filled", intent[i].resolution)
        /\ intent[i].state = "Filling"
    BY <1>3, Zenon DEF ReleaseUndisputed
  <2>. QED
    BY <2>1, PayOutEscrowPays DEF EscrowStates
<1>4. CASE ReleaseUnanswered(i)
  <2>1. PayOutEscrow(i, 0, "Resolved", "None") /\ intent[i].state = "Disputed"
    BY <1>4, Zenon DEF ReleaseUnanswered
  <2>. QED
    BY <2>1, PayOutEscrowPays DEF EscrowStates
<1>. QED
  BY <1>1, <1>2, <1>3, <1>4

\* A submission starts from nothing filled and nothing received.
LEMMA SubmitIntentPays ==
  ASSUME TypeOK, TypeOK', Payments, NEW u \in Users, NEW i \in Intents,
         NEW min \in MinAmounts, NEW life \in Lifetimes, SubmitIntent(u, i, min, life)
  PROVE  Payments'
<1>1. received[i] = 0
  BY DEF SubmitIntent, Payments, PaidExactly, TerminalStates
<1>2. /\ intent'[i].total_filled = 0 /\ intent'[i].resolution = "None"
      /\ intent'[i].state = "Open" /\ Touches(i) /\ received' = received
  BY DEF SubmitIntent, Touches, TypeOK, Blank
<1>3. intent'[i] \in IntentRecord
  BY DEF TypeOK
<1>4. Paid(intent'[i], received'[i])
  BY <1>1, <1>2, <1>3, PaidInFull
<1>5. PaidExactly(intent'[i], received'[i])
  BY <1>1, <1>2 DEF PaidExactly
<1>. QED
  BY <1>2, <1>4, <1>5, OnePayment

\* Every other call moves no output token of a user.
LEMMA OtherCallsPayNothing ==
  ASSUME TypeOK, TypeOK', Payments, NEW i \in Intents,
         \/ \E s \in Solvers, b \in BondTokens, window \in FillWindows, weight \in Weights :
              AcceptIntent(s, i, b, window, weight)
         \/ \E s \in Solvers, amount \in FillAmounts, fee \in TransferFees :
              BeginFill(s, i, amount, fee)
         \/ \E s \in Solvers : RequestExtension(s, i)
         \/ \E u \in Users, min \in AmendAmounts, life \in Lifetimes :
              AmendIntent(u, i, min, life)
         \/ \E u \in Users : DisputeFill(u, i)
         \/ \E weight \in Weights : SlashSolver(i, weight)
         \/ ExpireIntent(i)
         \/ CloseIntent(i)
  PROVE  Payments'
<1>1. intent[i] \in IntentRecord
  BY DEF TypeOK
<1>. DEFINE Quiet == /\ Touches(i) /\ received' = received
                     /\ \/ intent'[i].state = "Tombstone"
                        \/ /\ intent[i].state \notin TerminalStates \cup {"Tombstone"}
                           /\ intent'[i].state # "Absent"
                           /\ intent'[i].total_filled = intent[i].total_filled
                           /\ intent'[i].resolution = intent[i].resolution
<1>2. ASSUME NEW s \in Solvers, NEW b \in BondTokens, NEW window \in FillWindows,
             NEW weight \in Weights, AcceptIntent(s, i, b, window, weight)
      PROVE  Quiet
  <2>1. Touches(i) /\ received' = received /\ intent[i].state \in OpenStates
    BY <1>2 DEF AcceptIntent, Touches, IsOpen, TypeOK
  <2>2. intent' = [intent EXCEPT ![i].solver = s, ![i].state = "Accepted",
                                 ![i].bond_token = b, ![i].deadline = now + window]
    BY Zenon, <1>2 DEF AcceptIntent
  <2>3. /\ intent'[i].state = "Accepted"
        /\ intent'[i].total_filled = intent[i].total_filled
        /\ intent'[i].resolution = intent[i].resolution
    BY <1>1, <2>2 DEF TypeOK, IntentRecord
  <2>. QED
    BY <2>1, <2>3 DEF OpenStates, TerminalStates
<1>3. ASSUME NEW s \in Solvers, NEW amount \in FillAmounts, NEW fee \in TransferFees,
             BeginFill(s, i, amount, fee)
      PROVE  Quiet
  BY <1>1, <1>3 DEF BeginFill, Touches, TerminalStates, TypeOK, IntentRecord
<1>4. ASSUME NEW s \in Solvers, RequestExtension(s, i)
      PROVE  Quiet
  BY <1>1, <1>4 DEF RequestExtension, Touches, TerminalStates, TypeOK, IntentRecord
<1>5. ASSUME NEW u \in Users, NEW min \in AmendAmounts, NEW life \in Lifetimes,
             AmendIntent(u, i, min, life)
      PROVE  Quiet
  BY <1>1, <1>5 DEF AmendIntent, Amendable, Touches, TerminalStates, TypeOK, IntentRecord
<1>6. ASSUME NEW u \in Users, DisputeFill(u, i)
      PROVE  Quiet
  BY <1>1, <1>6 DEF DisputeFill, Touches, TerminalStates, TypeOK, IntentRecord
<1>7. ASSUME NEW weight \in Weights, SlashSolver(i, weight)
      PROVE  Quiet
  <2>1. /\ intent[i].state = "Accepted" /\ received' = received
        /\ intent' = [intent EXCEPT ![i].solver = NoSolver, ![i].state = "Open",
                                    ![i].deadline = now + IntentExpiry]
    BY <1>7, SlashEffect
  <2>2. /\ Touches(i) /\ intent'[i].state = "Open"
        /\ intent'[i].total_filled = intent[i].total_filled
        /\ intent'[i].resolution = intent[i].resolution
    BY <1>1, <2>1 DEF Touches, TypeOK, IntentRecord
  <2>. QED
    BY <2>1, <2>2 DEF TerminalStates
<1>8. ASSUME ExpireIntent(i) PROVE Quiet
  BY <1>1, <1>8 DEF ExpireIntent, Touches, IsOpen, OpenStates, TerminalStates, TypeOK, IntentRecord
<1>9. ASSUME CloseIntent(i) PROVE Quiet
  BY <1>9 DEF CloseIntent, Touches, Blank, TypeOK
<1>10. Quiet
  BY <1>2, <1>3, <1>4, <1>5, <1>6, <1>7, <1>8, <1>9
<1>. QED
  BY <1>10, PaymentsUnmoved DEF Touches

\* A batch of cancellations pays nobody.
LEMMA CancelIntentsPaysNothing ==
  ASSUME TypeOK, TypeOK', Payments, NEW u \in Users, NEW S \in SUBSET Intents,
         CancelIntents(u, S)
  PROVE  Payments'
<1>1. \A i \in Intents : intent[i] \in IntentRecord
  BY DEF TypeOK
<1>2. \A i \in Intents :
        \/ intent'[i] = intent[i]
        \/ /\ intent[i].state \notin TerminalStates \cup {"Tombstone"}
           /\ intent'[i].state # "Absent"
           /\ intent'[i].total_filled = intent[i].total_filled
           /\ intent'[i].resolution = intent[i].resolution
  BY <1>1 DEF CancelIntents, IsOpen, OpenStates, TerminalStates, IntentRecord
<1>3. received' = received
  BY DEF CancelIntents
<1>. QED
  BY <1>2, <1>3, PaymentsUnmoved

\* At the start nothing is filled and nothing received.
LEMMA InitPayments == Init => Payments
<1>1. SUFFICES ASSUME Init, NEW i \in Intents
               PROVE  PaidExactly(intent[i], received[i]) /\ Paid(intent[i], received[i])
  BY DEF Payments
<1>2. /\ intent[i].state = "Absent" /\ intent[i].total_filled = 0
      /\ intent[i].resolution = "None" /\ received[i] = 0
  BY <1>1 DEF Init, Blank
<1>3. intent[i] \in IntentRecord
  BY <1>1, InitType DEF TypeOK
<1>. QED
  BY <1>2, <1>3, PaidInFull DEF PaidExactly

\* Every step keeps the users paid.
LEMMA NextPayments == TypeOK /\ TypeOK' /\ Payments /\ [Next]_vars => Payments'
<1>1. SUFFICES ASSUME TypeOK, TypeOK', Payments, [Next]_vars PROVE Payments'
  OBVIOUS
<1>2. CASE intent' = intent /\ received' = received
  BY <1>1, <1>2 DEF Payments
<1>3. ASSUME NEW s \in Solvers, SolverCall(s)
      PROVE  Payments'
  <2>1. CASE \/ \E b \in BondTokens, amount \in Deposits, fee \in TransferFees :
                  RegisterSolver(s, b, amount, fee)
             \/ DeregisterSolver(s)
             \/ \E b \in BondTokens, amount \in Withdrawals : WithdrawBond(s, b, amount)
    BY <1>2, <2>1 DEF RegisterSolver, DeregisterSolver, WithdrawBond
  <2>. QED
    BY <1>1, <1>3, <2>1, FillIntentPays, OtherCallsPayNothing DEF SolverCall
<1>4. ASSUME NEW u \in Users, UserCall(u)
      PROVE  Payments'
  BY <1>1, <1>4, SubmitIntentPays, CancelIntentsPaysNothing, OtherCallsPayNothing DEF UserCall
<1>5. ASSUME NEW i \in Intents, KeeperCall(i) \/ UpholdDispute(i) \/ DismissDispute(i)
      PROVE  Payments'
  BY <1>1, <1>5, ReleasePays, OtherCallsPayNothing DEF KeeperCall, Slash, Release
<1>6. CASE Tick \/ AdminCall \/ UNCHANGED vars
  BY <1>2, <1>6 DEF Tick, AdminCall, SetPaused, RescueBond, RescueOutput, vars
<1>. QED
  BY <1>1, <1>3, <1>4, <1>5, <1>6 DEF Next, ArbiterCall

\* What an intent's record counts as filled has reached its user, whatever mix of
\* partial fills, slashes, holders, fees and rulings led there.
THEOREM UsersArePaid == Spec => []UserPaid
<1>1. TypeOK /\ TypeOK' /\ Payments /\ [Next]_vars => Payments'
  BY NextPayments
<1>2. Payments => UserPaid
  BY DEF Payments, Paid, UserPaid
<1>. QED
  BY <1>1, <1>2, InitPayments, TypeCorrect, PTL DEF Spec

-----------------------------------------------------------------------------
(* The escrow: what is held for the fills in it is what their records say. *)

EscrowCovered ==
  escrow <= Owed /\ (RescuedOutput = {} => escrow = Owed)

HeldInEscrow(i) == intent[i].state \in EscrowStates

\* The amount of intent i that is in escrow.
PartOwed(i) == IF HeldInEscrow(i) THEN intent[i].fill_amount ELSE 0

\* The sum is an integer, and so is each part of it.
LEMMA OwedType ==
  ASSUME TypeOK
  PROVE  Owed \in Int /\ \A i \in Intents : PartOwed(i) \in Nat
<1>. DEFINE amount == [i \in Intents |-> intent[i].fill_amount]
<1>1. \A i \in Intents : intent[i].fill_amount \in Nat
  BY DEF TypeOK, IntentRecord
<1>2. IsFiniteSet(InEscrow)
  <2>1. IsFiniteSet(Intents)
    BY SettlementAssumption
  <2>2. InEscrow \in SUBSET Intents
    BY DEF InEscrow
  <2>. QED
    BY <2>1, <2>2, FS_Subset
<1>3. \A i \in InEscrow : amount[i] \in Int
  BY <1>1 DEF InEscrow
<1>4. SumFunctionOnSet(amount, InEscrow) \in Int
  BY <1>2, <1>3, SumIsInt
<1>. QED
  BY <1>1, <1>4 DEF Owed, PartOwed

\* It moves as the part of the one record that changes does.
LEMMA OwedMoves ==
  ASSUME TypeOK, TypeOK', NEW i \in Intents, Touches(i)
  PROVE  Owed' = Owed + PartOwed(i)' - PartOwed(i)
<1>. DEFINE amount == [j \in Intents |-> intent[j].fill_amount]
            after == [j \in Intents |-> intent'[j].fill_amount]
            inside == InEscrow'
<1>1. \A j \in Intents : amount[j] \in Int /\ after[j] \in Int
  BY DEF TypeOK, IntentRecord
<1>2. IsFiniteSet(InEscrow) /\ IsFiniteSet(inside)
  <2>1. IsFiniteSet(Intents)
    BY SettlementAssumption
  <2>2. InEscrow \in SUBSET Intents /\ inside \in SUBSET Intents
    BY DEF InEscrow
  <2>. QED
    BY <2>1, <2>2, FS_Subset
<1>3. InEscrow \ {i} = inside \ {i} /\ \A j \in InEscrow \ {i} : amount[j] = after[j]
  BY DEF InEscrow, Touches
<1>4. (i \in InEscrow <=> HeldInEscrow(i)) /\ (i \in inside <=> HeldInEscrow(i)')
  BY DEF InEscrow, HeldInEscrow
<1>5. /\ Owed = SumFunctionOnSet(amount, InEscrow)
      /\ Owed' = SumFunctionOnSet(after, inside)
  BY DEF Owed
<1>6. /\ PartOwed(i) = IF i \in InEscrow THEN amount[i] ELSE 0
      /\ PartOwed(i)' = IF i \in inside THEN after[i] ELSE 0
  BY <1>4 DEF PartOwed
<1>7. \A j \in InEscrow : amount[j] \in Int
  BY <1>1 DEF InEscrow
<1>8. \A j \in inside : after[j] \in Int
  BY <1>1 DEF InEscrow
<1>. HIDE DEF amount, after, inside
<1>9. Owed' - PartOwed(i)' = Owed - PartOwed(i)
  BY <1>2, <1>3, <1>5, <1>6, <1>7, <1>8, SumMoves
<1>10. /\ Owed \in Int /\ Owed' \in Int
  BY <1>2, <1>5, <1>7, <1>8, SumIsInt
<1>11. PartOwed(i) \in Int /\ PartOwed(i)' \in Int
  BY <1>6, <1>7, <1>8
<1>. QED
  BY <1>9, <1>10, <1>11

\* Steps that leave what is in escrow, and the escrow, alone.
LEMMA EscrowUnmoved ==
  ASSUME TypeOK, EscrowCovered, escrow' = escrow,
         \A i \in Intents :
           /\ HeldInEscrow(i)' <=> HeldInEscrow(i)
           /\ HeldInEscrow(i) => intent'[i].fill_amount = intent[i].fill_amount
  PROVE  EscrowCovered'
<1>. DEFINE amount == [j \in Intents |-> intent[j].fill_amount]
            after == [j \in Intents |-> intent'[j].fill_amount]
<1>1. InEscrow' = InEscrow
  BY DEF InEscrow, HeldInEscrow
<1>2. IsFiniteSet(InEscrow)
  <2>1. IsFiniteSet(Intents)
    BY SettlementAssumption
  <2>2. InEscrow \in SUBSET Intents
    BY DEF InEscrow
  <2>. QED
    BY <2>1, <2>2, FS_Subset
<1>3. \A j \in InEscrow : amount[j] = after[j]
  BY DEF InEscrow, HeldInEscrow
<1>4. Owed = SumFunctionOnSet(amount, InEscrow) /\ Owed' = SumFunctionOnSet(after, InEscrow')
  BY DEF Owed
<1>. HIDE DEF amount, after
<1>5. SumFunctionOnSet(amount, InEscrow) = SumFunctionOnSet(after, InEscrow)
  BY <1>2, <1>3, SumOfSame
<1>6. Owed' = Owed
  BY <1>1, <1>4, <1>5, Zenon
<1>. QED
  BY <1>6 DEF EscrowCovered

\* What one record does when a call does not bring it into or out of escrow.
EscrowSteady(i) ==
  /\ HeldInEscrow(i)' <=> HeldInEscrow(i)
  /\ HeldInEscrow(i) => intent'[i].fill_amount = intent[i].fill_amount

\* The calls of a solver that put nothing in escrow.
LEMMA SolverCallsEscrowNothing ==
  ASSUME TypeOK, EscrowCovered, NEW s \in Solvers,
         \/ \E b \in BondTokens, amount \in Deposits, fee \in TransferFees :
              RegisterSolver(s, b, amount, fee)
         \/ DeregisterSolver(s)
         \/ \E b \in BondTokens, amount \in Withdrawals : WithdrawBond(s, b, amount)
         \/ \E i \in Intents :
              \/ \E b \in BondTokens, window \in FillWindows, weight \in Weights :
                   AcceptIntent(s, i, b, window, weight)
              \/ \E amount \in FillAmounts, weight \in Weights : FillIntent(s, i, amount, weight)
              \/ RequestExtension(s, i)
  PROVE  EscrowCovered'
<1>1. ASSUME intent' = intent, escrow' = escrow PROVE EscrowCovered'
  BY <1>1, EscrowUnmoved DEF HeldInEscrow
<1>2. ASSUME NEW i \in Intents, Touches(i), escrow' = escrow, ~HeldInEscrow(i), ~HeldInEscrow(i)'
      PROVE  EscrowCovered'
  BY <1>2, EscrowUnmoved DEF HeldInEscrow, Touches
<1>3. ASSUME NEW b \in BondTokens, NEW amount \in Deposits, NEW fee \in TransferFees,
             RegisterSolver(s, b, amount, fee)
      PROVE  EscrowCovered'
  BY <1>1, <1>3 DEF RegisterSolver
<1>4. CASE DeregisterSolver(s)
  BY <1>1, <1>4 DEF DeregisterSolver
<1>5. ASSUME NEW b \in BondTokens, NEW amount \in Withdrawals, WithdrawBond(s, b, amount)
      PROVE  EscrowCovered'
  BY <1>1, <1>5 DEF WithdrawBond
<1>6. ASSUME NEW i \in Intents, NEW b \in BondTokens, NEW window \in FillWindows,
             NEW weight \in Weights, AcceptIntent(s, i, b, window, weight)
      PROVE  EscrowCovered'
  <2>1. intent[i] \in IntentRecord
    BY DEF TypeOK
  <2>2. Touches(i) /\ escrow' = escrow /\ ~HeldInEscrow(i) /\ ~HeldInEscrow(i)'
    BY <1>6, <2>1 DEF AcceptIntent, Touches, HeldInEscrow, IsOpen, OpenStates, EscrowStates,
                      TypeOK, IntentRecord
  <2>. QED
    BY <1>2, <2>2
<1>7. ASSUME NEW i \in Intents, NEW amount \in FillAmounts, NEW weight \in Weights,
             FillIntent(s, i, amount, weight)
      PROVE  EscrowCovered'
  <2>1. intent[i] \in IntentRecord
    BY DEF TypeOK
  <2>2. intent'[i].state = IF Completes(i, amount) THEN "Filled" ELSE "PartiallyFilled"
    BY <1>7, <2>1 DEF FillIntent, TypeOK, IntentRecord
  <2>3. Touches(i) /\ escrow' = escrow /\ intent[i].state = "Accepted"
    BY <1>7 DEF FillIntent, Touches, TypeOK
  <2>4. ~HeldInEscrow(i) /\ ~HeldInEscrow(i)'
    BY <2>2, <2>3 DEF HeldInEscrow, EscrowStates
  <2>. QED
    BY <1>2, <2>3, <2>4
<1>8. ASSUME NEW i \in Intents, RequestExtension(s, i)
      PROVE  EscrowCovered'
  <2>1. intent[i] \in IntentRecord
    BY DEF TypeOK
  <2>2. Touches(i) /\ escrow' = escrow /\ ~HeldInEscrow(i) /\ ~HeldInEscrow(i)'
    BY <1>8, <2>1 DEF RequestExtension, Touches, HeldInEscrow, EscrowStates, TypeOK, IntentRecord
  <2>. QED
    BY <1>2, <2>2
<1>. QED
  BY <1>3, <1>4, <1>5, <1>6, <1>7, <1>8

\* The calls of a user leave what is in escrow there, disputed or not.
LEMMA UserCallsEscrowNothing ==
  ASSUME TypeOK, EscrowCovered, NEW u \in Users, UserCall(u)
  PROVE  EscrowCovered'
<1>1. ASSUME NEW i \in Intents, Touches(i), escrow' = escrow, EscrowSteady(i)
      PROVE  EscrowCovered'
  BY <1>1, EscrowUnmoved DEF HeldInEscrow, Touches, EscrowSteady
<1>2. ASSUME NEW S \in SUBSET Intents, CancelIntents(u, S)
      PROVE  EscrowCovered'
  <2>1. escrow' = escrow /\ \A i \in Intents \ S : intent'[i] = intent[i]
    BY <1>2 DEF CancelIntents
  <2>2. \A i \in S : ~HeldInEscrow(i) /\ ~HeldInEscrow(i)'
    <3>1. SUFFICES ASSUME NEW i \in S
                   PROVE  ~HeldInEscrow(i) /\ ~HeldInEscrow(i)'
      OBVIOUS
    <3>2. intent[i] \in IntentRecord
      BY DEF TypeOK
    <3>. QED
      BY <1>2, <3>2 DEF CancelIntents, HeldInEscrow, IsOpen, OpenStates, EscrowStates,
                        IntentRecord
  <2>. QED
    BY <2>1, <2>2, EscrowUnmoved DEF HeldInEscrow
<1>3. ASSUME NEW i \in Intents, NEW min \in MinAmounts, NEW life \in Lifetimes,
             SubmitIntent(u, i, min, life)
      PROVE  EscrowCovered'
  <2>1. Touches(i) /\ escrow' = escrow /\ ~HeldInEscrow(i) /\ ~HeldInEscrow(i)'
    BY <1>3 DEF SubmitIntent, Touches, HeldInEscrow, EscrowStates, Blank, TypeOK
  <2>. QED
    BY <1>1, <2>1 DEF EscrowSteady
<1>4. ASSUME NEW i \in Intents, NEW min \in AmendAmounts, NEW life \in Lifetimes,
             AmendIntent(u, i, min, life)
      PROVE  EscrowCovered'
  <2>1. intent[i] \in IntentRecord
    BY DEF TypeOK
  <2>2. Touches(i) /\ escrow' = escrow /\ ~HeldInEscrow(i) /\ ~HeldInEscrow(i)'
    BY <1>4, <2>1 DEF AmendIntent, Amendable, Touches, HeldInEscrow, EscrowStates, TypeOK,
                      IntentRecord
  <2>. QED
    BY <1>1, <2>2 DEF EscrowSteady
<1>5. ASSUME NEW i \in Intents, DisputeFill(u, i)
      PROVE  EscrowCovered'
  <2>1. intent[i] \in IntentRecord
    BY DEF TypeOK
  <2>2. Touches(i) /\ escrow' = escrow /\ HeldInEscrow(i) /\ HeldInEscrow(i)'
    BY <1>5, <2>1 DEF DisputeFill, Touches, HeldInEscrow, EscrowStates, TypeOK, IntentRecord
  <2>3. intent'[i].fill_amount = intent[i].fill_amount
    BY <1>5, <2>1 DEF DisputeFill, TypeOK, IntentRecord
  <2>. QED
    BY <1>1, <2>2, <2>3 DEF EscrowSteady
<1>. QED
  BY <1>2, <1>3, <1>4, <1>5 DEF UserCall

\* begin_fill puts in what it books.
LEMMA BeginFillEscrows ==
  ASSUME TypeOK, TypeOK', EscrowCovered, NEW s \in Solvers, NEW i \in Intents,
         NEW amount \in FillAmounts, NEW fee \in TransferFees, BeginFill(s, i, amount, fee)
  PROVE  EscrowCovered'
<1>1. intent[i] \in IntentRecord
  BY DEF TypeOK
<1>2. amount \in Int /\ fee \in Int
  BY SettlementAssumption
<1>3. Touches(i) /\ escrow' = escrow + amount - fee /\ PartOwed(i) = 0
  BY DEF BeginFill, Touches, PartOwed, HeldInEscrow, EscrowStates, TypeOK
<1>4. PartOwed(i)' = amount - fee
  BY <1>1 DEF BeginFill, PartOwed, HeldInEscrow, EscrowStates, TypeOK, IntentRecord, Landed
<1>5. Owed' = Owed + PartOwed(i)' - PartOwed(i)
  BY <1>3, OwedMoves
<1>6. Owed \in Int /\ escrow \in Int
  BY OwedType DEF TypeOK
<1>. QED
  BY <1>2, <1>3, <1>4, <1>5, <1>6 DEF EscrowCovered

\* What paying out writes in the record, in the books and in the user's hands.
PaidOut(i, fee, state, resolution) ==
  /\ intent' = [intent EXCEPT
       ![i].total_filled = intent[i].total_filled + intent[i].fill_amount,
       ![i].fill_amount = intent[i].total_filled + intent[i].fill_amount,
       ![i].state = state, ![i].terminal_at = now, ![i].resolution = resolution]
  /\ escrow' = escrow - intent[i].fill_amount
  /\ UNCHANGED <<now, paused, registered, bookVars, exposure, total_bonded,
                 backstop_pool, extended, userVars>>
  /\ intent[i].solver \in registered

LEMMA PayOutEffect ==
  ASSUME NEW i, NEW fee, NEW state, NEW resolution, PayOutEscrow(i, fee, state, resolution)
  PROVE  PaidOut(i, fee, state, resolution)
  BY Zenon DEF PayOutEscrow, PaidOut

\* One record is touched, and its state is the one it was given.
LEMMA PayOutTouches ==
  ASSUME TypeOK, NEW i \in Intents, NEW fee, NEW state, NEW resolution,
         PaidOut(i, fee, state, resolution)
  PROVE  /\ Touches(i) /\ intent'[i].state = state
         /\ intent'[i].min_dst_amount = intent[i].min_dst_amount
<1>1. intent \in [Intents -> IntentRecord] /\ intent[i] \in IntentRecord
  BY DEF TypeOK
<1>2. intent' = [intent EXCEPT ![i] =
        [@ EXCEPT !.total_filled = intent[i].total_filled + intent[i].fill_amount,
                  !.fill_amount = intent[i].total_filled + intent[i].fill_amount,
                  !.state = state, !.terminal_at = now, !.resolution = resolution]]
  BY <1>1 DEF PaidOut
<1>3. intent'[i] = [intent[i] EXCEPT
        !.total_filled = intent[i].total_filled + intent[i].fill_amount,
        !.fill_amount = intent[i].total_filled + intent[i].fill_amount,
        !.state = state, !.terminal_at = now, !.resolution = resolution]
  BY <1>1, <1>2
<1>4. Touches(i)
  BY <1>1, <1>2 DEF Touches
<1>. QED
  BY <1>1, <1>3, <1>4 DEF IntentRecord

\* The four ways out pay what was put in, to the unit.
LEMMA PayOutEmptiesEscrow ==
  ASSUME TypeOK, TypeOK', EscrowCovered, NEW i \in Intents, HeldInEscrow(i), NEW fee,
         NEW state \in {"Filled", "Resolved"}, NEW resolution,
         PayOutEscrow(i, fee, state, resolution)
  PROVE  EscrowCovered'
<1>1. intent[i] \in IntentRecord
  BY DEF TypeOK
<1>2. Touches(i) /\ escrow' = escrow - intent[i].fill_amount /\ intent'[i].state = state
  <2>1. PaidOut(i, fee, state, resolution)
    BY PayOutEffect
  <2>. QED
    BY <2>1, PayOutTouches DEF PaidOut
<1>3. PartOwed(i) = intent[i].fill_amount /\ PartOwed(i)' = 0
  BY <1>2 DEF PartOwed, HeldInEscrow, EscrowStates
<1>4. Owed' = Owed + PartOwed(i)' - PartOwed(i)
  BY <1>2, OwedMoves
<1>5. Owed \in Int /\ escrow \in Int /\ intent[i].fill_amount \in Int
  BY <1>1, OwedType DEF TypeOK, IntentRecord
<1>. QED
  BY <1>2, <1>3, <1>4, <1>5 DEF EscrowCovered

\* They are the rulings and the releases.
LEMMA ReleaseEmptiesEscrow ==
  ASSUME TypeOK, TypeOK', EscrowCovered, NEW i \in Intents,
         UpholdDispute(i) \/ DismissDispute(i) \/ ReleaseUndisputed(i) \/ ReleaseUnanswered(i)
  PROVE  EscrowCovered'
<1>1. HeldInEscrow(i)
  BY DEF UpholdDispute, DismissDispute, ReleaseUndisputed, ReleaseUnanswered, HeldInEscrow,
         EscrowStates
<1>2. \E fee, resolution : \E state \in {"Filled", "Resolved"} :
        PayOutEscrow(i, fee, state, resolution)
  BY DEF UpholdDispute, DismissDispute, ReleaseUndisputed, ReleaseUnanswered
<1>. QED
  BY <1>1, <1>2, PayOutEmptiesEscrow

\* The other calls of a keeper move an intent between states outside of the escrow.
LEMMA KeepersEscrowNothing ==
  ASSUME TypeOK, EscrowCovered, NEW i \in Intents,
         Slash(i) \/ ExpireIntent(i) \/ CloseIntent(i)
  PROVE  EscrowCovered'
<1>1. intent[i] \in IntentRecord
  BY DEF TypeOK
<1>2. Touches(i) /\ escrow' = escrow /\ ~HeldInEscrow(i) /\ ~HeldInEscrow(i)'
  <2>1. CASE Slash(i)
    <3>1. PICK weight \in Weights : SlashSolver(i, weight)
      BY <2>1 DEF Slash
    <3>2. intent[i].state = "Accepted" /\ escrow' = escrow
      BY <3>1 DEF SlashSolver
    <3>3. intent' = [intent EXCEPT ![i].solver = NoSolver, ![i].state = "Open",
                                   ![i].deadline = now + IntentExpiry]
      BY <3>1, Zenon DEF SlashSolver
    <3>. QED
      BY <1>1, <3>2, <3>3 DEF Touches, HeldInEscrow, EscrowStates, TypeOK, IntentRecord
  <2>2. CASE ExpireIntent(i)
    BY <1>1, <2>2 DEF ExpireIntent, Touches, HeldInEscrow, IsOpen, OpenStates, EscrowStates,
                      TypeOK, IntentRecord
  <2>3. CASE CloseIntent(i)
    BY <1>1, <2>3 DEF CloseIntent, Touches, HeldInEscrow, TerminalStates, EscrowStates,
                      Blank, TypeOK
  <2>. QED
    BY <2>1, <2>2, <2>3
<1>. QED
  BY <1>2, EscrowUnmoved DEF HeldInEscrow, Touches

\* Only a rescue of the destination token takes from the escrow without a record.
LEMMA ClockAndAdminEscrow ==
  ASSUME TypeOK, EscrowCovered, Tick \/ AdminCall
  PROVE  EscrowCovered'
<1>1. intent' = intent
  BY DEF Tick, AdminCall, SetPaused, RescueBond, RescueOutput
<1>2. ASSUME escrow' = escrow PROVE EscrowCovered'
  BY <1>1, <1>2, EscrowUnmoved DEF HeldInEscrow
<1>3. ASSUME NEW amount \in RescuedOutput, RescueOutput(amount) PROVE EscrowCovered'
  <2>1. escrow' = escrow - amount /\ amount \in Nat
    BY <1>3, SettlementAssumption DEF RescueOutput
  <2>2. Owed' = Owed /\ Owed \in Int /\ escrow \in Int
    BY <1>1, OwedType DEF Owed, InEscrow, TypeOK
  <2>. QED
    BY <2>1, <2>2 DEF EscrowCovered
<1>. QED
  BY <1>2, <1>3 DEF Tick, AdminCall, SetPaused, RescueBond

\* At first nothing is owed.
LEMMA InitEscrow == Init => EscrowCovered
<1>1. SUFFICES ASSUME Init PROVE EscrowCovered
  OBVIOUS
<1>2. InEscrow = {}
  BY <1>1 DEF Init, InEscrow, EscrowStates, Blank
<1>3. Owed = 0
  BY <1>2, SumOfNone DEF Owed
<1>. QED
  BY <1>1, <1>3 DEF Init, EscrowCovered

LEMMA NextEscrow == TypeOK /\ TypeOK' /\ EscrowCovered /\ [Next]_vars => EscrowCovered'
<1>1. SUFFICES ASSUME TypeOK, TypeOK', EscrowCovered, [Next]_vars PROVE EscrowCovered'
  OBVIOUS
<1>2. ASSUME NEW s \in Solvers, SolverCall(s)
      PROVE  EscrowCovered'
  BY <1>1, <1>2, SolverCallsEscrowNothing, BeginFillEscrows DEF SolverCall
<1>3. ASSUME NEW u \in Users, UserCall(u)
      PROVE  EscrowCovered'
  BY <1>1, <1>3, UserCallsEscrowNothing
<1>4. ASSUME NEW i \in Intents, KeeperCall(i)
      PROVE  EscrowCovered'
  BY <1>1, <1>4, KeepersEscrowNothing, ReleaseEmptiesEscrow DEF KeeperCall, Release
<1>5. CASE ArbiterCall
  BY <1>1, <1>5, ReleaseEmptiesEscrow DEF ArbiterCall
<1>6. CASE Tick \/ AdminCall
  BY <1>1, <1>6, ClockAndAdminEscrow
<1>7. CASE UNCHANGED vars
  BY <1>1, <1>7, EscrowUnmoved DEF vars, HeldInEscrow
<1>. QED
  BY <1>1, <1>2, <1>3, <1>4, <1>5, <1>6, <1>7 DEF Next

\* While the admin rescues none of the destination token, the contract holds of it
\* exactly what the fills in escrow put in; with rescues, never more than that.
THEOREM EscrowIsConserved ==
  Spec => [](escrow <= Owed /\ (RescuedOutput = {} => EscrowConserved))
<1>1. EscrowCovered => (escrow <= Owed /\ (RescuedOutput = {} => EscrowConserved))
  BY DEF EscrowCovered, EscrowConserved
<1>. QED
  BY <1>1, InitType, NextType, InitEscrow, NextEscrow, PTL DEF Spec

-----------------------------------------------------------------------------
(* The exposure of a solver covers what it holds.                          *)

\* The oracle answers one rate, and no amendment makes a minimum worth less than nothing.
OneRate(weight) ==
  /\ Weights = {weight}
  /\ \A amount \in AmendAmounts : ExposureNotional(amount, weight) >= 0

Worth(i, weight) == ExposureNotional(intent[i].min_dst_amount, weight)

\* What intent i adds to what solver s is exposed for.
PartHeld(s, i, weight) == IF Holds(s, i) THEN Worth(i, weight) ELSE 0

Covered(weight) ==
  /\ \A i \in Intents : Worth(i, weight) >= 0
  /\ \A s \in Solvers : HeldNotional(s, weight) <= exposure[s]

\* What is owed for a smaller amount is not more, on either side of zero.
LEMMA NotionalMonotone ==
  ASSUME NEW a \in Int, NEW b \in Int, a <= b, NEW weight \in Weights
  PROVE  ExposureNotional(a, weight) <= ExposureNotional(b, weight)
<1>1. weight \in Nat /\ Bps \in Nat \ {0}
  BY SettlementAssumption
<1>2. a * weight \in Int /\ b * weight \in Int
  BY <1>1
<1>3. a * weight <= b * weight
  <2>1. b - a \in Nat
    OBVIOUS
  <2>2. (b - a) * weight \in Nat
    BY <1>1, <2>1
  <2>3. b * weight = a * weight + (b - a) * weight
    BY <1>1
  <2>. QED
    BY <1>2, <2>2, <2>3
<1>. DEFINE x == a * weight
            y == b * weight
<1>4. x \in Int /\ y \in Int /\ x <= y
  BY <1>2, <1>3
<1>5. ExposureNotional(a, weight) = TruncDiv(x, Bps) /\ ExposureNotional(b, weight) = TruncDiv(y, Bps)
  BY DEF ExposureNotional
<1>. HIDE DEF x, y
<1>6. TruncDiv(x, Bps) <= TruncDiv(y, Bps)
  <2>1. CASE x >= 0
    BY <1>1, <1>4, <2>1, DivMonotone DEF TruncDiv
  <2>2. CASE x < 0 /\ y >= 0
    <3>1. (-x) \div Bps \in Nat /\ y \div Bps \in Nat
      BY <1>1, <1>4, <2>2
    <3>. QED
      BY <1>4, <2>2, <3>1 DEF TruncDiv
  <2>3. CASE y < 0
    <3>1. -y \in Nat /\ -x \in Nat /\ -y <= -x
      BY <1>4, <2>3
    <3>2. (-y) \div Bps <= (-x) \div Bps
      BY <1>1, <3>1, DivMonotone
    <3>3. (-y) \div Bps \in Int /\ (-x) \div Bps \in Int
      BY <1>1, <3>1
    <3>. QED
      BY <1>4, <2>3, <3>2, <3>3 DEF TruncDiv
  <2>. QED
    BY <1>4, <2>1, <2>2, <2>3
<1>. QED
  BY <1>5, <1>6

\* A minimum that is not negative is worth something, or nothing.
LEMMA NotionalOfNat ==
  ASSUME NEW amount \in Nat, NEW weight \in Weights
  PROVE  ExposureNotional(amount, weight) >= 0
<1>1. weight \in Nat /\ Bps \in Nat \ {0}
  BY SettlementAssumption
<1>2. amount * weight \in Nat
  BY <1>1
<1>. QED
  BY <1>1, <1>2 DEF ExposureNotional, TruncDiv

\* What a solver holds is worth an integer.
LEMMA HeldNotionalType ==
  ASSUME TypeOK, NEW weight \in Weights, NEW s \in Solvers
  PROVE  HeldNotional(s, weight) \in Int
<1>. DEFINE worth == [i \in Intents |-> ExposureNotional(intent[i].min_dst_amount, weight)]
<1>1. \A i \in Intents : intent[i].min_dst_amount \in Int
  BY DEF TypeOK, IntentRecord
<1>2. \A i \in Intents : ExposureNotional(intent[i].min_dst_amount, weight) \in Int
  BY <1>1, NotionalType, SettlementAssumption
<1>3. \A i \in HeldBy(s) : worth[i] \in Int
  BY <1>2 DEF HeldBy
<1>4. HeldNotional(s, weight) = SumFunctionOnSet(worth, HeldBy(s))
  BY DEF HeldNotional
<1>. HIDE DEF worth
<1>. QED
  BY <1>3, <1>4, FiniteParts, SumIsInt

\* It moves as the part of the one record that changes does.
LEMMA HeldNotionalMoves ==
  ASSUME TypeOK, TypeOK', NEW weight \in Weights, NEW s \in Solvers, NEW i \in Intents,
         Touches(i)
  PROVE  HeldNotional(s, weight)'
           = HeldNotional(s, weight) + PartHeld(s, i, weight)' - PartHeld(s, i, weight)
<1>. DEFINE worth == [j \in Intents |-> ExposureNotional(intent[j].min_dst_amount, weight)]
            after == [j \in Intents |-> ExposureNotional(intent'[j].min_dst_amount, weight)]
            held == HeldBy(s)'
<1>1. \A j \in Intents : intent[j].min_dst_amount \in Int /\ intent'[j].min_dst_amount \in Int
  BY DEF TypeOK, IntentRecord
<1>2. \A j \in Intents : worth[j] \in Int /\ after[j] \in Int
  BY <1>1, NotionalType, SettlementAssumption
<1>3. IsFiniteSet(HeldBy(s)) /\ IsFiniteSet(held)
  <2>1. IsFiniteSet(Intents)
    BY SettlementAssumption
  <2>2. HeldBy(s) \in SUBSET Intents /\ held \in SUBSET Intents
    BY DEF HeldBy
  <2>. QED
    BY <2>1, <2>2, FS_Subset
<1>4. HeldBy(s) \ {i} = held \ {i} /\ \A j \in HeldBy(s) \ {i} : worth[j] = after[j]
  BY DEF HeldBy, Touches
<1>5. (i \in HeldBy(s) <=> Holds(s, i)) /\ (i \in held <=> Holds(s, i)')
  BY DEF HeldBy, Holds
<1>6. /\ HeldNotional(s, weight) = SumFunctionOnSet(worth, HeldBy(s))
      /\ HeldNotional(s, weight)' = SumFunctionOnSet(after, held)
  BY DEF HeldNotional
<1>7. /\ PartHeld(s, i, weight) = IF i \in HeldBy(s) THEN worth[i] ELSE 0
      /\ PartHeld(s, i, weight)' = IF i \in held THEN after[i] ELSE 0
  BY <1>5 DEF PartHeld, Worth
<1>8. \A j \in HeldBy(s) : worth[j] \in Int
  BY <1>2 DEF HeldBy
<1>9. \A j \in held : after[j] \in Int
  BY <1>2 DEF HeldBy
<1>. HIDE DEF worth, after, held
<1>10. HeldNotional(s, weight)' - PartHeld(s, i, weight)'
         = HeldNotional(s, weight) - PartHeld(s, i, weight)
  BY <1>3, <1>4, <1>6, <1>7, <1>8, <1>9, SumMoves
<1>11. HeldNotional(s, weight) \in Int /\ HeldNotional(s, weight)' \in Int
  BY <1>3, <1>6, <1>8, <1>9, SumIsInt
<1>12. PartHeld(s, i, weight) \in Int /\ PartHeld(s, i, weight)' \in Int
  BY <1>7, <1>8, <1>9
<1>. QED
  BY <1>10, <1>11, <1>12

\* A step of one record: no solver's exposure falls by more than what it holds does.
LEMMA CoverFollows ==
  ASSUME TypeOK, TypeOK', NEW weight \in Weights, Covered(weight), NEW i \in Intents,
         Touches(i), Worth(i, weight)' >= 0,
         \A s \in Solvers : PartHeld(s, i, weight)' - PartHeld(s, i, weight)
                              <= exposure'[s] - exposure[s]
  PROVE  Covered(weight)'
<1>1. \A j \in Intents : Worth(j, weight)' >= 0
  <2>1. SUFFICES ASSUME NEW j \in Intents PROVE Worth(j, weight)' >= 0
    OBVIOUS
  <2>2. CASE j = i
    BY <2>2
  <2>3. CASE j # i
    <3>1. Worth(j, weight)' = Worth(j, weight)
      BY <2>3 DEF Touches, Worth
    <3>. QED
      BY <3>1 DEF Covered
  <2>. QED
    BY <2>2, <2>3
<1>2. ASSUME NEW s \in Solvers PROVE HeldNotional(s, weight)' <= exposure'[s]
  <2>1. /\ HeldNotional(s, weight) <= exposure[s]
        /\ PartHeld(s, i, weight)' - PartHeld(s, i, weight) <= exposure'[s] - exposure[s]
    BY DEF Covered
  <2>2. HeldNotional(s, weight)'
          = HeldNotional(s, weight) + PartHeld(s, i, weight)' - PartHeld(s, i, weight)
    BY HeldNotionalMoves
  <2>3. exposure[s] \in Int /\ exposure'[s] \in Int /\ HeldNotional(s, weight) \in Int
    BY HeldNotionalType DEF TypeOK
  <2>4. Worth(i, weight) \in Int /\ Worth(i, weight)' \in Int
    <3>1. intent[i].min_dst_amount \in Int /\ intent'[i].min_dst_amount \in Int
      BY DEF TypeOK, IntentRecord
    <3>. QED
      BY <3>1, NotionalType, SettlementAssumption DEF Worth
  <2>5. PartHeld(s, i, weight) \in Int /\ PartHeld(s, i, weight)' \in Int
    BY <2>4 DEF PartHeld
  <2>. QED
    BY <2>1, <2>2, <2>3, <2>5
<1>. QED
  BY <1>1, <1>2 DEF Covered

\* A step of a record nobody holds, before or after.
LEMMA CoverAside ==
  ASSUME TypeOK, TypeOK', NEW weight \in Weights, Covered(weight), NEW i \in Intents,
         Touches(i), Worth(i, weight)' >= 0, exposure' = exposure,
         intent[i].state \notin HeldStates, intent'[i].state \notin HeldStates
  PROVE  Covered(weight)'
<1>1. \A s \in Solvers : PartHeld(s, i, weight)' = 0 /\ PartHeld(s, i, weight) = 0
  BY DEF PartHeld, Holds
<1>2. \A s \in Solvers : exposure'[s] - exposure[s] = 0
  BY DEF TypeOK
<1>. QED
  BY <1>1, <1>2, CoverFollows

\* A step that keeps holder and minimum.
LEMMA CoverKept ==
  ASSUME TypeOK, NEW weight \in Weights, Covered(weight), exposure' = exposure,
         \A i \in Intents : /\ intent'[i].min_dst_amount = intent[i].min_dst_amount
                            /\ \A s \in Solvers : Holds(s, i)' <=> Holds(s, i)
  PROVE  Covered(weight)'
<1>1. \A i \in Intents : Worth(i, weight)' = Worth(i, weight)
  BY DEF Worth
<1>2. ASSUME NEW s \in Solvers PROVE HeldNotional(s, weight)' = HeldNotional(s, weight)
  <2>1. HeldBy(s)' = HeldBy(s)
    BY DEF HeldBy, Holds
  <2>2. [i \in Intents |-> ExposureNotional(intent'[i].min_dst_amount, weight)]
          = [i \in Intents |-> ExposureNotional(intent[i].min_dst_amount, weight)]
    OBVIOUS
  <2>. QED
    BY <2>1, <2>2, Zenon DEF HeldNotional
<1>. QED
  BY <1>1, <1>2 DEF Covered

\* accept_intent exposes the solver for what it takes on.
LEMMA AcceptIntentCovers ==
  ASSUME TypeOK, TypeOK', NEW weight \in Weights, Covered(weight),
         NEW s \in Solvers, NEW i \in Intents, NEW b \in BondTokens,
         NEW window \in FillWindows, AcceptIntent(s, i, b, window, weight)
  PROVE  Covered(weight)'
<1>1. intent[i] \in IntentRecord /\ intent[i].min_dst_amount \in Int
  BY DEF TypeOK, IntentRecord
<1>2. Touches(i) /\ intent[i].state \notin HeldStates
      /\ intent'[i].min_dst_amount = intent[i].min_dst_amount
  BY <1>1 DEF AcceptIntent, Touches, IsOpen, OpenStates, HeldStates, TypeOK, IntentRecord
<1>3. \A r \in Solvers : ~Holds(r, i) /\ (Holds(r, i)' <=> r = s)
  BY <1>1, <1>2 DEF AcceptIntent, Holds, HeldStates, TypeOK, IntentRecord
<1>4. Worth(i, weight) \in Int /\ Worth(i, weight)' = Worth(i, weight) /\ Worth(i, weight) >= 0
  BY <1>1, <1>2, NotionalType, SettlementAssumption DEF Worth, Covered
<1>5. exposure' = [exposure EXCEPT ![s] = exposure[s] + Worth(i, weight)]
  BY DEF AcceptIntent, Worth
<1>6. ASSUME NEW r \in Solvers
      PROVE  PartHeld(r, i, weight)' - PartHeld(r, i, weight) <= exposure'[r] - exposure[r]
  <2>1. exposure[r] \in Int /\ exposure'[r] = exposure[r] + IF r = s THEN Worth(i, weight) ELSE 0
    BY <1>5 DEF TypeOK
  <2>2. PartHeld(r, i, weight) = 0
        /\ PartHeld(r, i, weight)' = IF r = s THEN Worth(i, weight) ELSE 0
    BY <1>3, <1>4 DEF PartHeld
  <2>. QED
    BY <1>4, <2>1, <2>2
<1>. QED
  BY <1>2, <1>4, <1>6, CoverFollows

\* A holder that lets go is relieved of at most what the intent was worth.
LEMMA LettingGoCovers ==
  ASSUME TypeOK, TypeOK', NEW weight \in Weights, Covered(weight),
         NEW s \in Solvers, NEW i \in Intents, Touches(i), Holds(s, i),
         intent'[i].state \notin HeldStates,
         intent'[i].min_dst_amount = intent[i].min_dst_amount,
         NEW released \in Int, released <= Worth(i, weight),
         exposure' = [exposure EXCEPT ![s] = @ - released]
  PROVE  Covered(weight)'
<1>1. intent[i].min_dst_amount \in Int
  BY DEF TypeOK, IntentRecord
<1>2. Worth(i, weight) \in Int /\ Worth(i, weight)' = Worth(i, weight) /\ Worth(i, weight) >= 0
  BY <1>1, NotionalType, SettlementAssumption DEF Worth, Covered
<1>3. \A r \in Solvers : ~Holds(r, i)' /\ (Holds(r, i) <=> r = s)
  BY DEF Holds
<1>4. ASSUME NEW r \in Solvers
      PROVE  PartHeld(r, i, weight)' - PartHeld(r, i, weight) <= exposure'[r] - exposure[r]
  <2>1. exposure[r] \in Int /\ exposure'[r] = exposure[r] - IF r = s THEN released ELSE 0
    BY DEF TypeOK
  <2>2. PartHeld(r, i, weight)' = 0
        /\ PartHeld(r, i, weight) = IF r = s THEN Worth(i, weight) ELSE 0
    BY <1>3, <1>2 DEF PartHeld
  <2>. QED
    BY <1>2, <2>1, <2>2
<1>. QED
  BY <1>2, <1>4, CoverFollows

\* fill_intent releases the whole minimum, or the part that was delivered.
LEMMA FillIntentCovers ==
  ASSUME TypeOK, TypeOK', NEW weight \in Weights, Covered(weight),
         NEW s \in Solvers, NEW i \in Intents, NEW amount \in FillAmounts,
         FillIntent(s, i, amount, weight)
  PROVE  Covered(weight)'
<1>. DEFINE released == ExposureNotional(ReleasedOnFill(i, amount), weight)
<1>1. /\ intent[i] \in IntentRecord /\ intent[i].min_dst_amount \in Int
      /\ intent[i].total_filled \in Nat /\ amount \in Nat
  BY SettlementAssumption DEF TypeOK, IntentRecord
<1>2. Touches(i) /\ Holds(s, i)
  BY DEF FillIntent, Touches, Holds, TypeOK, HeldStates
<1>3. /\ intent'[i].state \in {"Filled", "PartiallyFilled"}
      /\ intent'[i].min_dst_amount = intent[i].min_dst_amount
  BY <1>1 DEF FillIntent, TypeOK, IntentRecord
<1>4. ReleasedOnFill(i, amount) \in Int /\ ReleasedOnFill(i, amount) <= intent[i].min_dst_amount
  BY <1>1 DEF ReleasedOnFill, Completes
<1>5. released \in Int /\ released <= Worth(i, weight)
  BY <1>1, <1>4, NotionalType, NotionalMonotone, SettlementAssumption DEF Worth
<1>6. exposure' = [exposure EXCEPT ![s] = @ - released]
  BY DEF FillIntent
<1>7. intent'[i].state \notin HeldStates
  BY <1>3 DEF HeldStates
<1>. HIDE DEF released
<1>. QED
  BY <1>2, <1>3, <1>5, <1>6, <1>7, LettingGoCovers

\* slash_solver releases what is left of the minimum.
LEMMA SlashSolverCovers ==
  ASSUME TypeOK, TypeOK', NEW weight \in Weights, Covered(weight),
         NEW i \in Intents, SlashSolver(i, weight)
  PROVE  Covered(weight)'
<1>. DEFINE s == intent[i].solver
            unfilled == intent[i].min_dst_amount - intent[i].total_filled
            released == ExposureNotional(unfilled, weight)
<1>1. /\ intent[i] \in IntentRecord /\ intent[i].min_dst_amount \in Int
      /\ intent[i].total_filled \in Nat /\ s \in Solvers
  BY DEF TypeOK, IntentRecord, SlashSolver
<1>2. intent' = [intent EXCEPT ![i].solver = NoSolver, ![i].state = "Open",
                               ![i].deadline = now + IntentExpiry]
  BY Zenon DEF SlashSolver
<1>3. intent[i].state = "Accepted"
  BY DEF SlashSolver
<1>4. /\ Touches(i) /\ Holds(s, i) /\ intent'[i].state \notin HeldStates
      /\ intent'[i].min_dst_amount = intent[i].min_dst_amount
  BY <1>1, <1>2, <1>3 DEF Touches, Holds, TypeOK, HeldStates, IntentRecord
<1>5. released \in Int /\ released <= Worth(i, weight)
  BY <1>1, NotionalType, NotionalMonotone, SettlementAssumption DEF Worth
<1>6. exposure' = [exposure EXCEPT ![s] = @ - released]
  BY Zenon DEF SlashSolver
<1>. HIDE DEF s, released
<1>. QED
  BY <1>1, <1>4, <1>5, <1>6, LettingGoCovers

\* The escrow path releases nothing.
LEMMA PayOutCovers ==
  ASSUME TypeOK, TypeOK', NEW weight \in Weights, Covered(weight), NEW i \in Intents,
         UpholdDispute(i) \/ DismissDispute(i) \/ ReleaseUndisputed(i) \/ ReleaseUnanswered(i)
  PROVE  Covered(weight)'
<1>1. intent[i] \in IntentRecord /\ intent[i].state \in HeldStates
  BY DEF UpholdDispute, DismissDispute, ReleaseUndisputed, ReleaseUnanswered, HeldStates, TypeOK
<1>2. PICK fee, resolution : \E state \in {"Filled", "Resolved"} :
        PayOutEscrow(i, fee, state, resolution)
  BY DEF UpholdDispute, DismissDispute, ReleaseUndisputed, ReleaseUnanswered
<1>3. /\ Touches(i) /\ exposure' = exposure /\ intent[i].solver \in Solvers
      /\ intent'[i].state \in {"Filled", "Resolved"}
      /\ intent'[i].min_dst_amount = intent[i].min_dst_amount
  <2>1. PICK state \in {"Filled", "Resolved"} : PayOutEscrow(i, fee, state, resolution)
    BY <1>2
  <2>2. PaidOut(i, fee, state, resolution)
    BY <2>1, PayOutEffect
  <2>3. registered \subseteq Solvers
    BY DEF TypeOK
  <2>. QED
    BY <2>2, <2>3, PayOutTouches DEF PaidOut
<1>4. PICK s \in Solvers : s = intent[i].solver
  BY <1>3
<1>5. Holds(s, i) /\ intent'[i].state \notin HeldStates
  BY <1>1, <1>3, <1>4 DEF Holds, HeldStates
<1>6. 0 <= Worth(i, weight)
  <2>1. intent[i].min_dst_amount \in Int
    BY <1>1 DEF IntentRecord
  <2>2. Worth(i, weight) \in Int
    BY <2>1, NotionalType, SettlementAssumption DEF Worth
  <2>. QED
    BY <2>2 DEF Covered
<1>7. exposure' = [exposure EXCEPT ![s] = @ - 0]
  BY <1>3 DEF TypeOK
<1>8. 0 \in Int
  OBVIOUS
<1>. QED
  BY <1>3, <1>5, <1>6, <1>7, <1>8, LettingGoCovers

\* begin_fill, dispute_fill and request_extension keep holder and minimum; amend_intent,
\* submit_intent, expire_intent, close_intent and the cancels find no holder.
LEMMA OtherMovesCover ==
  ASSUME TypeOK, TypeOK', NEW weight, OneRate(weight), Covered(weight), NEW i \in Intents,
         \/ \E s \in Solvers, amount \in FillAmounts, fee \in TransferFees :
              BeginFill(s, i, amount, fee)
         \/ \E s \in Solvers : RequestExtension(s, i)
         \/ \E u \in Users : DisputeFill(u, i)
         \/ \E u \in Users, min \in MinAmounts, life \in Lifetimes :
              SubmitIntent(u, i, min, life)
         \/ \E u \in Users, min \in AmendAmounts, life \in Lifetimes :
              AmendIntent(u, i, min, life)
         \/ ExpireIntent(i)
         \/ CloseIntent(i)
  PROVE  Covered(weight)'
<1>1. intent[i] \in IntentRecord /\ weight \in Weights
  BY DEF TypeOK, OneRate
<1>2. ASSUME Touches(i), exposure' = exposure,
             intent'[i].min_dst_amount = intent[i].min_dst_amount,
             intent'[i].solver = intent[i].solver,
             intent[i].state \in HeldStates, intent'[i].state \in HeldStates
      PROVE  Covered(weight)'
  BY <1>1, <1>2, CoverKept DEF Touches, Holds
<1>3. ASSUME Touches(i), exposure' = exposure, Worth(i, weight)' >= 0,
             intent[i].state \notin HeldStates, intent'[i].state \notin HeldStates
      PROVE  Covered(weight)'
  BY <1>1, <1>3, CoverAside
<1>4. ASSUME NEW s \in Solvers, NEW amount \in FillAmounts, NEW fee \in TransferFees,
             BeginFill(s, i, amount, fee)
      PROVE  Covered(weight)'
  BY <1>1, <1>2, <1>4 DEF BeginFill, Touches, HeldStates, TypeOK, IntentRecord
<1>5. ASSUME NEW s \in Solvers, RequestExtension(s, i)
      PROVE  Covered(weight)'
  BY <1>1, <1>2, <1>5 DEF RequestExtension, Touches, HeldStates, TypeOK, IntentRecord
<1>6. ASSUME NEW u \in Users, DisputeFill(u, i)
      PROVE  Covered(weight)'
  BY <1>1, <1>2, <1>6 DEF DisputeFill, Touches, HeldStates, TypeOK, IntentRecord
<1>7. ASSUME NEW u \in Users, NEW min \in MinAmounts, NEW life \in Lifetimes,
             SubmitIntent(u, i, min, life)
      PROVE  Covered(weight)'
  <2>1. min \in Nat
    BY SettlementAssumption
  <2>2. /\ Touches(i) /\ exposure' = exposure /\ intent'[i].min_dst_amount = min
        /\ intent[i].state \notin HeldStates /\ intent'[i].state \notin HeldStates
    BY <1>7 DEF SubmitIntent, Touches, HeldStates, TypeOK, Blank
  <2>3. Worth(i, weight)' >= 0
    BY <1>1, <2>1, <2>2, NotionalOfNat DEF Worth
  <2>. QED
    BY <1>3, <2>2, <2>3
<1>8. ASSUME NEW u \in Users, NEW min \in AmendAmounts, NEW life \in Lifetimes,
             AmendIntent(u, i, min, life)
      PROVE  Covered(weight)'
  <2>1. /\ Touches(i) /\ exposure' = exposure /\ intent'[i].min_dst_amount = min
        /\ intent[i].state \notin HeldStates /\ intent'[i].state \notin HeldStates
    BY <1>1, <1>8 DEF AmendIntent, Amendable, Touches, HeldStates, TypeOK, IntentRecord
  <2>2. Worth(i, weight)' >= 0
    BY <2>1 DEF Worth, OneRate
  <2>. QED
    BY <1>3, <2>1, <2>2
<1>9. CASE ExpireIntent(i)
  <2>1. /\ Touches(i) /\ exposure' = exposure
        /\ intent'[i].min_dst_amount = intent[i].min_dst_amount
        /\ intent[i].state \notin HeldStates /\ intent'[i].state \notin HeldStates
    BY <1>1, <1>9 DEF ExpireIntent, IsOpen, OpenStates, Touches, HeldStates, TypeOK, IntentRecord
  <2>2. Worth(i, weight)' >= 0
    BY <2>1 DEF Worth, Covered
  <2>. QED
    BY <1>3, <2>1, <2>2
<1>10. CASE CloseIntent(i)
  <2>1. /\ Touches(i) /\ exposure' = exposure /\ intent'[i].min_dst_amount = 0
        /\ intent[i].state \notin HeldStates /\ intent'[i].state \notin HeldStates
    BY <1>1, <1>10 DEF CloseIntent, TerminalStates, Touches, HeldStates, TypeOK, Blank
  <2>2. Worth(i, weight)' >= 0
    BY <1>1, <2>1, NotionalOfNat DEF Worth
  <2>. QED
    BY <1>3, <2>1, <2>2
<1>. QED
  BY <1>4, <1>5, <1>6, <1>7, <1>8, <1>9, <1>10

\* cancel_intent and batch_cancel_intent, for any set of intents nobody holds.
LEMMA CancelIntentsCovers ==
  ASSUME TypeOK, NEW weight \in Weights, Covered(weight), NEW u \in Users,
         NEW C \in SUBSET Intents, CancelIntents(u, C)
  PROVE  Covered(weight)'
<1>1. ASSUME NEW i \in Intents
      PROVE  /\ intent'[i].min_dst_amount = intent[i].min_dst_amount
             /\ \A s \in Solvers : Holds(s, i)' <=> Holds(s, i)
  <2>1. intent[i] \in IntentRecord
    BY DEF TypeOK
  <2>2. CASE i \in C
    BY <2>1, <2>2 DEF CancelIntents, Holds, IsOpen, OpenStates, HeldStates, IntentRecord
  <2>3. CASE i \notin C
    BY <2>3 DEF CancelIntents, Holds
  <2>. QED
    BY <2>2, <2>3
<1>2. exposure' = exposure
  BY DEF CancelIntents
<1>. QED
  BY <1>1, <1>2, CoverKept

\* At first nobody holds anything, and every record is blank.
LEMMA InitCovers == ASSUME NEW weight \in Weights PROVE Init => Covered(weight)
<1>1. SUFFICES ASSUME Init PROVE Covered(weight)
  OBVIOUS
<1>2. \A i \in Intents : intent[i].min_dst_amount = 0 /\ intent[i].state \notin HeldStates
  BY <1>1 DEF Init, HeldStates, Blank
<1>3. \A i \in Intents : Worth(i, weight) >= 0
  BY <1>2, NotionalOfNat DEF Worth
<1>4. \A s \in Solvers : HeldBy(s) = {}
  BY <1>2 DEF HeldBy
<1>5. \A s \in Solvers : HeldNotional(s, weight) = 0 /\ exposure[s] = 0
  BY <1>1, <1>4, SumOfNone DEF HeldNotional, Init
<1>. QED
  BY <1>3, <1>5 DEF Covered

LEMMA NextCovers ==
  ASSUME NEW weight, OneRate(weight)
  PROVE  TypeOK /\ TypeOK' /\ Covered(weight) /\ [Next]_vars => Covered(weight)'
<1>1. SUFFICES ASSUME TypeOK, TypeOK', Covered(weight), [Next]_vars PROVE Covered(weight)'
  OBVIOUS
<1>2. weight \in Weights /\ \A w \in Weights : w = weight
  BY DEF OneRate
<1>3. ASSUME intent' = intent, exposure' = exposure PROVE Covered(weight)'
  BY <1>1, <1>2, <1>3, CoverKept DEF Holds
<1>4. ASSUME NEW s \in Solvers, SolverCall(s)
      PROVE  Covered(weight)'
  <2>1. ASSUME \/ \E b \in BondTokens, amount \in Deposits, fee \in TransferFees :
                    RegisterSolver(s, b, amount, fee)
               \/ DeregisterSolver(s)
               \/ \E b \in BondTokens, amount \in Withdrawals : WithdrawBond(s, b, amount)
        PROVE  Covered(weight)'
    BY <1>3, <2>1 DEF RegisterSolver, DeregisterSolver, WithdrawBond
  <2>. QED
    BY <1>1, <1>2, <1>4, <2>1, AcceptIntentCovers, FillIntentCovers, OtherMovesCover DEF SolverCall
<1>5. ASSUME NEW u \in Users, UserCall(u)
      PROVE  Covered(weight)'
  BY <1>1, <1>2, <1>5, CancelIntentsCovers, OtherMovesCover DEF UserCall
<1>6. ASSUME NEW i \in Intents, KeeperCall(i)
      PROVE  Covered(weight)'
  BY <1>1, <1>2, <1>6, SlashSolverCovers, PayOutCovers, OtherMovesCover
     DEF KeeperCall, Slash, Release
<1>7. CASE ArbiterCall
  BY <1>1, <1>2, <1>7, PayOutCovers DEF ArbiterCall
<1>8. CASE Tick \/ AdminCall
  BY <1>3, <1>8 DEF Tick, AdminCall, SetPaused, RescueBond, RescueOutput
<1>9. CASE UNCHANGED vars
  BY <1>3, <1>9 DEF vars
<1>. QED
  BY <1>1, <1>4, <1>5, <1>6, <1>7, <1>8, <1>9 DEF Next

\* While the oracle's rate does not move and no amendment makes a minimum worth less
\* than nothing, a solver's exposure is at least the notional of all that it holds.
THEOREM ExposureCovers ==
  ASSUME NEW weight, OneRate(weight) PROVE Spec => []ExposureCoversHeld
<1>1. weight \in Weights
  BY DEF OneRate
<1>2. Covered(weight) => ExposureCoversHeld
  BY DEF Covered, ExposureCoversHeld, OneRate
<1>3. Init => TypeOK /\ Covered(weight)
  BY <1>1, InitType, InitCovers
<1>4. TypeOK /\ Covered(weight) /\ [Next]_vars => (TypeOK /\ Covered(weight))'
  BY NextType, NextCovers
<1>. QED
  BY <1>2, <1>3, <1>4, PTL DEF Spec
====
