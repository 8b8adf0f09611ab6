------------------------------- MODULE SettlementRefinement -------------------------------
(***************************************************************************)
(* The settlement contract implements the abstract life of an intent, and  *)
(* the board of disputes the arbiter panel is composed with.               *)
(***************************************************************************)
EXTENDS SettlementProofs, SettlementDisputes, SettlementViews

Phase == [i \in Intents |-> PhaseOf(intent[i].state)]

HolderOf(i) == IF intent[i].state \in HeldStates THEN intent[i].solver ELSE NoSolver

Holder == [i \in Intents |-> HolderOf(i)]

-----------------------------------------------------------------------------
(* The refinement mapping.                                                 *)

\* The phase of each state, and that the states of a phase are those and no others.
LEMMA PhaseOfStates ==
  /\ PhaseOf("Absent") = "none" /\ PhaseOf("Tombstone") = "forgotten"
  /\ PhaseOf("Accepted") = "held" /\ PhaseOf("Filling") = "secured"
  /\ PhaseOf("Disputed") = "contested"
  /\ \A state \in OpenStates : PhaseOf(state) = "offered"
  /\ \A state \in TerminalStates : PhaseOf(state) = "ended"
BY DEF PhaseOf, OpenStates, TerminalStates

\* The instance of the abstract specification counts as this module does.
LEMMA SameCardinality == \A S : Lifecycle!Cardinality(S) = Cardinality(S)
BY DEF Lifecycle!Cardinality, Cardinality

\* What the abstract specification counts as claims is what the solver holds.
LEMMA ClaimsAreHoldings ==
  ASSUME TypeOK, NEW s \in Solvers
  PROVE  Lifecycle!Claims(s) = HeldBy(s)
<1>1. ASSUME NEW i \in Intents
      PROVE  PhaseOf(intent[i].state) \in {"held", "secured", "contested"}
               <=> intent[i].state \in HeldStates
  <2>1. intent[i].state \in IntentStates
    BY DEF TypeOK, IntentRecord
  <2>. QED
    BY <2>1, PhaseOfStates DEF IntentStates, OpenStates, HeldStates, TerminalStates
<1>. QED
  BY <1>1 DEF Lifecycle!Claims, Lifecycle!InHand, HeldBy

\* One changed record is one change of the abstract phase and holder.
LEMMA OneMove ==
  ASSUME NEW i \in Intents, Touches(i)
  PROVE  /\ Phase' = [Phase EXCEPT ![i] = PhaseOf(intent'[i].state)]
         /\ Holder' = [Holder EXCEPT ![i] = HolderOf(i)']
<1>1. /\ Phase' = [j \in Intents |-> PhaseOf(intent'[j].state)]
      /\ Holder' = [j \in Intents |-> HolderOf(j)']
  BY DEF Phase, Holder
<1>2. ASSUME NEW j \in Intents \ {i}
      PROVE  PhaseOf(intent'[j].state) = PhaseOf(intent[j].state) /\ HolderOf(j)' = HolderOf(j)
  BY <1>2 DEF Touches, HolderOf
<1>3. Phase' = [Phase EXCEPT ![i] = PhaseOf(intent'[i].state)]
  BY <1>1, <1>2 DEF Phase
<1>4. Holder' = [Holder EXCEPT ![i] = HolderOf(i)']
  BY <1>1, <1>2 DEF Holder
<1>. QED
  BY <1>3, <1>4

\* A change of one record between two given phases is a Move.
LEMMA MoveMaps ==
  ASSUME NEW i \in Intents, Touches(i), registered' = registered,
         NEW from, PhaseOf(intent[i].state) \in from, NEW by, by = HolderOf(i)'
  PROVE  Lifecycle!Move(i, from, PhaseOf(intent'[i].state), by)
<1>1. Phase[i] \in from
  BY DEF Phase
<1>. QED
  BY <1>1, OneMove DEF Lifecycle!Move, Phase, Holder, HolderOf

\* The abstract specification's next step, or none.
AbstractStep == [Lifecycle!Next]_(Lifecycle!lifecycleVars)

\* A step that changes neither phases, holders nor members maps to a stutter.
LEMMA StutterMaps ==
  ASSUME registered' = registered,
         \A i \in Intents : /\ PhaseOf(intent'[i].state) = PhaseOf(intent[i].state)
                            /\ HolderOf(i)' = HolderOf(i)
  PROVE  AbstractStep
<1>1. /\ Phase' = [j \in Intents |-> PhaseOf(intent'[j].state)]
      /\ Holder' = [j \in Intents |-> HolderOf(j)']
  BY DEF Phase, Holder
<1>2. UNCHANGED <<registered, Phase, Holder>>
  BY <1>1 DEF Phase, Holder
<1>. QED
  BY <1>2 DEF AbstractStep, Lifecycle!lifecycleVars, Phase, Holder, HolderOf

\* The moves of one intent that are steps of the abstract specification.
LEMMA AbstractMoves ==
  ASSUME NEW i \in Intents,
         \/ Lifecycle!Move(i, {"none"}, "offered", NoSolver)
         \/ Lifecycle!Move(i, {"held"}, "offered", NoSolver)
         \/ Lifecycle!Move(i, {"held"}, "secured", HolderOf(i))
         \/ Lifecycle!Move(i, {"secured"}, "contested", HolderOf(i))
         \/ Lifecycle!Move(i, {"held", "secured", "contested"}, "ended", NoSolver)
         \/ Lifecycle!Move(i, {"ended"}, "forgotten", NoSolver)
  PROVE  AbstractStep
<1>1. CASE Lifecycle!Move(i, {"none"}, "offered", NoSolver)
  BY <1>1 DEF AbstractStep, Lifecycle!Next, Lifecycle!Offer
<1>2. CASE Lifecycle!Move(i, {"held"}, "offered", NoSolver)
  BY <1>2 DEF AbstractStep, Lifecycle!Next, Lifecycle!Return
<1>3. CASE Lifecycle!Move(i, {"held"}, "secured", HolderOf(i))
  <2>1. Lifecycle!Secure(i)
    BY <1>3 DEF Lifecycle!Secure, Lifecycle!Move, HolderOf
  <2>. QED
    BY <2>1 DEF AbstractStep, Lifecycle!Next
<1>4. CASE Lifecycle!Move(i, {"secured"}, "contested", HolderOf(i))
  <2>1. Lifecycle!Contest(i)
    BY <1>4 DEF Lifecycle!Contest, Lifecycle!Move, HolderOf
  <2>. QED
    BY <2>1 DEF AbstractStep, Lifecycle!Next
<1>5. CASE Lifecycle!Move(i, {"held", "secured", "contested"}, "ended", NoSolver)
  BY <1>5 DEF AbstractStep, Lifecycle!Next, Lifecycle!Settle, Lifecycle!InHand
<1>6. CASE Lifecycle!Move(i, {"ended"}, "forgotten", NoSolver)
  BY <1>6 DEF AbstractStep, Lifecycle!Next, Lifecycle!Forget
<1>. QED
  BY <1>1, <1>2, <1>3, <1>4, <1>5, <1>6

-----------------------------------------------------------------------------
(* Every call maps.                                                        *)

\* register_solver is Join, deregister_solver is Leave.
LEMMA RegistryMaps ==
  ASSUME TypeOK, Bookkeeping, NEW s \in Solvers,
         \/ \E b \in BondTokens, amount \in Deposits, fee \in TransferFees :
              RegisterSolver(s, b, amount, fee)
         \/ DeregisterSolver(s)
         \/ \E b \in BondTokens, amount \in Withdrawals : WithdrawBond(s, b, amount)
  PROVE  AbstractStep
<1>1. intent' = intent
  BY DEF RegisterSolver, DeregisterSolver, WithdrawBond
<1>2. CASE registered' = registered \cup {s}
  <2>1. Lifecycle!Join(s)
    BY <1>1, <1>2 DEF Lifecycle!Join
  <2>. QED
    BY <2>1 DEF AbstractStep, Lifecycle!Next
<1>3. CASE DeregisterSolver(s)
  <2>1. Lifecycle!Claims(s) = {}
    BY <1>3, ClaimsAreHoldings, NoObligationsHoldsNothing DEF DeregisterSolver, Bookkeeping
  <2>2. Lifecycle!Leave(s)
    BY <1>1, <1>3, <2>1 DEF Lifecycle!Leave, DeregisterSolver
  <2>. QED
    BY <2>2 DEF AbstractStep, Lifecycle!Next
<1>4. CASE registered' = registered
  BY <1>1, <1>4, StutterMaps DEF HolderOf
<1>. QED
  BY <1>2, <1>3, <1>4 DEF RegisterSolver, WithdrawBond

\* accept_intent is Claim: its counter guard is the cap on claims.
LEMMA AcceptIntentMaps ==
  ASSUME TypeOK, Bookkeeping, NEW s \in Solvers, NEW i \in Intents, NEW b \in BondTokens,
         NEW window \in FillWindows, NEW weight \in Weights,
         AcceptIntent(s, i, b, window, weight)
  PROVE  AbstractStep
<1>1. intent[i] \in IntentRecord
  BY DEF TypeOK
<1>2. /\ Touches(i) /\ intent'[i].state = "Accepted" /\ intent'[i].solver = s
      /\ registered' = registered
  BY <1>1 DEF AcceptIntent, Touches, TypeOK, IntentRecord
<1>3. Lifecycle!Move(i, {"offered"}, "held", s)
  <2>1. PhaseOf(intent[i].state) = "offered"
    BY PhaseOfStates DEF AcceptIntent, IsOpen
  <2>2. s = HolderOf(i)' /\ PhaseOf(intent'[i].state) = "held"
    BY <1>2, PhaseOfStates DEF HolderOf, HeldStates
  <2>. QED
    BY <1>2, <2>1, <2>2, MoveMaps
<1>4. Cardinality(Lifecycle!Claims(s)) < MaxActive
  BY ClaimsAreHoldings DEF AcceptIntent, HasRoom, Bookkeeping, ActiveIntentsExact
<1>5. Lifecycle!Claim(s, i)
  <2>1. s \in registered
    BY DEF AcceptIntent
  <2>. QED
    BY <1>3, <1>4, <2>1, SameCardinality DEF Lifecycle!Claim, Lifecycle!Move
<1>. QED
  BY <1>5 DEF AbstractStep, Lifecycle!Next

\* fill_intent settles the intent or puts the rest of it back on offer.
LEMMA FillIntentMaps ==
  ASSUME TypeOK, NEW s \in Solvers, NEW i \in Intents, NEW amount \in FillAmounts,
         NEW weight \in Weights, FillIntent(s, i, amount, weight)
  PROVE  AbstractStep
<1>1. intent[i] \in IntentRecord
  BY DEF TypeOK
<1>2. Touches(i) /\ registered' = registered /\ PhaseOf(intent[i].state) = "held"
  BY PhaseOfStates DEF FillIntent, Touches, TypeOK
<1>3. CASE Completes(i, amount)
  <2>1. intent'[i].state = "Filled"
    BY <1>1, <1>3 DEF FillIntent, TypeOK, IntentRecord
  <2>2. PhaseOf(intent'[i].state) = "ended" /\ HolderOf(i)' = NoSolver
    BY <2>1, PhaseOfStates DEF HolderOf, TerminalStates, HeldStates
  <2>. QED
    BY <1>2, <2>2, MoveMaps, AbstractMoves
<1>4. CASE ~Completes(i, amount)
  <2>1. intent'[i].state = "PartiallyFilled"
    BY <1>1, <1>4 DEF FillIntent, TypeOK, IntentRecord
  <2>2. PhaseOf(intent'[i].state) = "offered" /\ HolderOf(i)' = NoSolver
    BY <2>1, PhaseOfStates DEF HolderOf, OpenStates, HeldStates
  <2>. QED
    BY <1>2, <2>2, MoveMaps, AbstractMoves
<1>. QED
  BY <1>3, <1>4

\* submit_intent is Offer.
LEMMA SubmitIntentMaps ==
  ASSUME TypeOK, NEW u \in Users, NEW i \in Intents, NEW min \in MinAmounts,
         NEW life \in Lifetimes, SubmitIntent(u, i, min, life)
  PROVE  AbstractStep
<1>1. /\ Touches(i) /\ intent'[i].state = "Open" /\ intent[i].state = "Absent"
      /\ registered' = registered
  BY DEF SubmitIntent, Touches, TypeOK, Blank, solverVars
<1>2. /\ PhaseOf(intent[i].state) = "none" /\ PhaseOf(intent'[i].state) = "offered"
      /\ HolderOf(i)' = NoSolver
  BY <1>1, PhaseOfStates DEF HolderOf, OpenStates, HeldStates
<1>. QED
  BY <1>1, <1>2, MoveMaps, AbstractMoves

\* begin_fill is Secure.
LEMMA BeginFillMaps ==
  ASSUME TypeOK, NEW s \in Solvers, NEW i \in Intents, NEW amount \in FillAmounts,
         NEW fee \in TransferFees, BeginFill(s, i, amount, fee)
  PROVE  AbstractStep
<1>1. intent[i] \in IntentRecord
  BY DEF TypeOK
<1>2. /\ Touches(i) /\ intent'[i].state = "Filling" /\ intent[i].state = "Accepted"
      /\ intent'[i].solver = intent[i].solver /\ registered' = registered
  BY <1>1 DEF BeginFill, Touches, TypeOK, IntentRecord, solverVars
<1>3. /\ PhaseOf(intent[i].state) = "held" /\ PhaseOf(intent'[i].state) = "secured"
      /\ HolderOf(i)' = HolderOf(i)
  BY <1>2, PhaseOfStates DEF HolderOf, HeldStates
<1>4. Lifecycle!Move(i, {"held"}, "secured", HolderOf(i))
  BY <1>2, <1>3, MoveMaps DEF Lifecycle!Move
<1>. QED
  BY <1>4, AbstractMoves

\* dispute_fill is Contest.
LEMMA DisputeFillMaps ==
  ASSUME TypeOK, NEW u \in Users, NEW i \in Intents, DisputeFill(u, i)
  PROVE  AbstractStep
<1>1. intent[i] \in IntentRecord
  BY DEF TypeOK
<1>2. /\ Touches(i) /\ intent'[i].state = "Disputed" /\ intent[i].state = "Filling"
      /\ intent'[i].solver = intent[i].solver /\ registered' = registered
  BY <1>1 DEF DisputeFill, Touches, TypeOK, IntentRecord, solverVars
<1>3. /\ PhaseOf(intent[i].state) = "secured" /\ PhaseOf(intent'[i].state) = "contested"
      /\ HolderOf(i)' = HolderOf(i)
  BY <1>2, PhaseOfStates DEF HolderOf, HeldStates
<1>4. Lifecycle!Move(i, {"secured"}, "contested", HolderOf(i))
  BY <1>2, <1>3, MoveMaps DEF Lifecycle!Move
<1>. QED
  BY <1>4, AbstractMoves

\* slash_solver is Return.
LEMMA SlashSolverMaps ==
  ASSUME TypeOK, NEW i \in Intents, NEW weight \in Weights, SlashSolver(i, weight)
  PROVE  AbstractStep
<1>1. intent[i] \in IntentRecord
  BY DEF TypeOK
<1>2. /\ Touches(i) /\ intent'[i].state = "Open" /\ intent[i].state = "Accepted"
      /\ registered' = registered
  BY <1>1 DEF SlashSolver, Touches, TypeOK, IntentRecord
<1>3. /\ PhaseOf(intent[i].state) = "held" /\ PhaseOf(intent'[i].state) = "offered"
      /\ HolderOf(i)' = NoSolver
  BY <1>2, PhaseOfStates DEF HolderOf, OpenStates, HeldStates
<1>. QED
  BY <1>2, <1>3, MoveMaps, AbstractMoves

\* Every way out of the escrow is Settle.
LEMMA PayOutMaps ==
  ASSUME TypeOK, NEW i \in Intents, intent[i].state \in EscrowStates,
         NEW fee, NEW state \in {"Filled", "Resolved"}, NEW resolution,
         PayOutEscrow(i, fee, state, resolution)
  PROVE  AbstractStep
<1>1. intent[i] \in IntentRecord
  BY DEF TypeOK
<1>2. Touches(i) /\ intent'[i].state = state /\ registered' = registered
  BY <1>1 DEF PayOutEscrow, Touches, TypeOK, IntentRecord
<1>3. /\ PhaseOf(intent[i].state) \in {"held", "secured", "contested"}
      /\ PhaseOf(intent'[i].state) = "ended" /\ HolderOf(i)' = NoSolver
  BY <1>2, PhaseOfStates DEF HolderOf, TerminalStates, HeldStates, EscrowStates
<1>. QED
  BY <1>2, <1>3, MoveMaps, AbstractMoves

\* resolve_dispute and release_fill are ways out of the escrow.
LEMMA ReleaseMaps ==
  ASSUME TypeOK, NEW i \in Intents,
         UpholdDispute(i) \/ DismissDispute(i) \/ ReleaseUndisputed(i) \/ ReleaseUnanswered(i)
  PROVE  AbstractStep
<1>1. intent[i].state \in EscrowStates
  BY DEF UpholdDispute, DismissDispute, ReleaseUndisputed, ReleaseUnanswered, EscrowStates
<1>2. \E fee, resolution : \E state \in {"Filled", "Resolved"} :
        PayOutEscrow(i, fee, state, resolution)
  BY Zenon DEF UpholdDispute, DismissDispute, ReleaseUndisputed, ReleaseUnanswered
<1>. QED
  BY <1>1, <1>2, PayOutMaps

\* close_intent is Forget.
LEMMA CloseIntentMaps ==
  ASSUME TypeOK, NEW i \in Intents, CloseIntent(i)
  PROVE  AbstractStep
<1>1. /\ Touches(i) /\ intent'[i].state = "Tombstone" /\ intent[i].state \in TerminalStates
      /\ registered' = registered
  BY DEF CloseIntent, Touches, TypeOK, Blank, solverVars
<1>2. /\ PhaseOf(intent[i].state) = "ended" /\ PhaseOf(intent'[i].state) = "forgotten"
      /\ HolderOf(i)' = NoSolver
  BY <1>1, PhaseOfStates DEF HolderOf, HeldStates
<1>. QED
  BY <1>1, <1>2, MoveMaps, AbstractMoves

\* cancel_intent, batch_cancel_intent and expire_intent are Retract.
LEMMA RetractMaps ==
  ASSUME TypeOK, NEW S \in SUBSET Intents, registered' = registered,
         \A i \in S : IsOpen(i) /\ intent'[i].state \in TerminalStates,
         \A i \in Intents \ S : intent'[i] = intent[i]
  PROVE  AbstractStep
<1>1. \A i \in S : Phase[i] = "offered" /\ PhaseOf(intent'[i].state) = "ended"
  BY PhaseOfStates DEF Phase, IsOpen
<1>2. Phase' = [i \in Intents |-> IF i \in S THEN "ended" ELSE Phase[i]]
  <2>1. Phase' = [i \in Intents |-> PhaseOf(intent'[i].state)]
    BY DEF Phase
  <2>. QED
    BY <1>1, <2>1 DEF Phase
<1>3. Holder' = Holder
  <2>1. Holder' = [i \in Intents |-> HolderOf(i)']
    BY DEF Holder
  <2>2. \A i \in Intents : HolderOf(i)' = HolderOf(i)
    BY DEF HolderOf, IsOpen, OpenStates, HeldStates, TerminalStates
  <2>. QED
    BY <2>1, <2>2 DEF Holder
<1>4. Lifecycle!Retract(S)
  BY <1>1, <1>2, <1>3 DEF Lifecycle!Retract, Phase, Holder, HolderOf
<1>. QED
  BY <1>4 DEF AbstractStep, Lifecycle!Next

\* A batch of cancellations is one Retract.
LEMMA CancelIntentsMaps ==
  ASSUME TypeOK, NEW u \in Users, NEW S \in SUBSET Intents, CancelIntents(u, S)
  PROVE  AbstractStep
<1>1. \A i \in Intents : intent[i] \in IntentRecord
  BY DEF TypeOK
<1>2. \A i \in S : IsOpen(i) /\ intent'[i].state \in TerminalStates
  BY <1>1 DEF CancelIntents, IntentRecord, TerminalStates
<1>3. registered' = registered /\ \A i \in Intents \ S : intent'[i] = intent[i]
  BY DEF CancelIntents, solverVars
<1>. QED
  BY <1>2, <1>3, RetractMaps

\* expire_intent retracts one intent.
LEMMA ExpireIntentMaps ==
  ASSUME TypeOK, NEW i \in Intents, ExpireIntent(i)
  PROVE  AbstractStep
<1>1. intent[i] \in IntentRecord
  BY DEF TypeOK
<1>2. /\ Touches(i) /\ intent'[i].state = "Expired" /\ IsOpen(i)
      /\ registered' = registered
  BY <1>1 DEF ExpireIntent, Touches, TypeOK, IntentRecord, solverVars
<1>3. \A j \in {i} : IsOpen(j) /\ intent'[j].state \in TerminalStates
  BY <1>2 DEF TerminalStates
<1>. QED
  BY <1>2, <1>3, RetractMaps, {i} \in SUBSET Intents DEF Touches

\* amend_intent and request_extension change terms only.
LEMMA TermsMap ==
  ASSUME TypeOK, NEW i \in Intents,
         \/ \E u \in Users, min \in AmendAmounts, life \in Lifetimes :
              AmendIntent(u, i, min, life)
         \/ \E s \in Solvers : RequestExtension(s, i)
  PROVE  AbstractStep
<1>1. \A j \in Intents : intent[j] \in IntentRecord
  BY DEF TypeOK
<1>2. registered' = registered
  BY DEF AmendIntent, RequestExtension, solverVars
<1>3. \A j \in Intents :
        intent'[j].state = intent[j].state /\ intent'[j].solver = intent[j].solver
  <2>1. ASSUME NEW u \in Users, NEW min \in AmendAmounts, NEW life \in Lifetimes,
               AmendIntent(u, i, min, life), NEW j \in Intents
        PROVE  intent'[j].state = intent[j].state /\ intent'[j].solver = intent[j].solver
    BY <1>1, <2>1 DEF AmendIntent, TypeOK, IntentRecord
  <2>2. ASSUME NEW s \in Solvers, RequestExtension(s, i), NEW j \in Intents
        PROVE  intent'[j].state = intent[j].state /\ intent'[j].solver = intent[j].solver
    BY <1>1, <2>2 DEF RequestExtension, TypeOK, IntentRecord
  <2>. QED
    BY <2>1, <2>2
<1>. QED
  BY <1>2, <1>3, StutterMaps DEF HolderOf

\* Steps that leave the intents and the registered solvers alone.
LEMMA IdleMaps ==
  ASSUME intent' = intent, registered' = registered
  PROVE  AbstractStep
BY StutterMaps DEF HolderOf

\* Every step of the contract is a step of the abstract specification, or none.
LEMMA NextMaps == TypeOK /\ Bookkeeping /\ [Next]_vars => AbstractStep
<1>1. SUFFICES ASSUME TypeOK, Bookkeeping, [Next]_vars PROVE AbstractStep
  OBVIOUS
<1>2. ASSUME NEW s \in Solvers, SolverCall(s)
      PROVE  AbstractStep
  BY <1>1, <1>2, RegistryMaps, AcceptIntentMaps, FillIntentMaps, BeginFillMaps, TermsMap
     DEF SolverCall
<1>3. ASSUME NEW u \in Users, UserCall(u)
      PROVE  AbstractStep
  BY <1>1, <1>3, SubmitIntentMaps, CancelIntentsMaps, TermsMap, DisputeFillMaps DEF UserCall
<1>4. ASSUME NEW i \in Intents, KeeperCall(i)
      PROVE  AbstractStep
  BY <1>1, <1>4, SlashSolverMaps, ExpireIntentMaps, ReleaseMaps, CloseIntentMaps
     DEF KeeperCall, Slash, Release
<1>5. CASE ArbiterCall
  BY <1>1, <1>5, ReleaseMaps DEF ArbiterCall
<1>6. CASE Tick \/ AdminCall \/ UNCHANGED vars
  <2>1. intent' = intent /\ registered' = registered
    BY <1>6 DEF Tick, AdminCall, SetPaused, RescueBond, RescueOutput, vars, solverVars
  <2>. QED
    BY <2>1, IdleMaps
<1>. QED
  BY <1>1, <1>2, <1>3, <1>4, <1>5, <1>6 DEF Next

\* The initial states map to the abstract ones.
LEMMA InitMaps == Init => Lifecycle!Init
<1>1. SUFFICES ASSUME Init PROVE Lifecycle!Init
  OBVIOUS
<1>2. \A i \in Intents : intent[i].state = "Absent"
  BY <1>1 DEF Init, Blank
<1>3. \A i \in Intents : PhaseOf(intent[i].state) = "none" /\ HolderOf(i) = NoSolver
  BY <1>2, PhaseOfStates DEF HolderOf, HeldStates
<1>4. registered = {}
  BY <1>1 DEF Init
<1>. QED
  BY <1>3, <1>4 DEF Lifecycle!Init, HolderOf

\* The contract implements the abstract life of an intent: one holder at a time,
\* no more than the cap each, none that leaves holding, no way back from escrow.
THEOREM Implementation == Spec => ImplementsLifecycle
<1>1. TypeOK /\ Bookkeeping /\ [Next]_vars => AbstractStep
  BY NextMaps
<1>. QED
  BY <1>1, InitMaps, TypeCorrect, BooksExact, PTL
     DEF Spec, ImplementsLifecycle, Lifecycle!Spec, AbstractStep

-----------------------------------------------------------------------------
(* What no step does to the record of an intent.                           *)

\* The ways in which a step may change a record.
RecordStep(j) ==
  \/ intent'[j] = intent[j]
  \/ intent[j].state \in {"Absent"} \cup OpenStates
  \/ /\ intent[j].state \in HeldStates
     /\ intent'[j].state \in OpenStates \cup TerminalStates
  \/ /\ intent[j].state \in HeldStates
     /\ intent'[j].solver = intent[j].solver
     /\ intent'[j].min_dst_amount = intent[j].min_dst_amount
     /\ intent'[j].bond_token = intent[j].bond_token
  \/ intent[j].state \in TerminalStates /\ intent'[j].state = "Tombstone"

\* A step that touches one record changes it in one of those ways, if it does so there.
LEMMA OneRecordStep ==
  ASSUME NEW i \in Intents, Touches(i), RecordStep(i)
  PROVE  \A j \in Intents : RecordStep(j)
BY DEF Touches, RecordStep

\* A solver's calls.
LEMMA SolverRecordStep ==
  ASSUME TypeOK, NEW s \in Solvers, SolverCall(s)
  PROVE  \A j \in Intents : RecordStep(j)
<1>1. CASE intent' = intent
  BY <1>1 DEF RecordStep
<1>2. ASSUME NEW i \in Intents, NEW b \in BondTokens, NEW window \in FillWindows,
             NEW weight \in Weights, AcceptIntent(s, i, b, window, weight)
      PROVE  \A j \in Intents : RecordStep(j)
  <2>1. Touches(i) /\ RecordStep(i)
    BY <1>2 DEF AcceptIntent, Touches, RecordStep, IsOpen, TypeOK
  <2>. QED
    BY <2>1, OneRecordStep
<1>3. ASSUME NEW i \in Intents, NEW amount \in FillAmounts, NEW weight \in Weights,
             FillIntent(s, i, amount, weight)
      PROVE  \A j \in Intents : RecordStep(j)
  <2>1. intent[i] \in IntentRecord
    BY DEF TypeOK
  <2>2. intent'[i].state = IF Completes(i, amount) THEN "Filled" ELSE "PartiallyFilled"
    BY <1>3, <2>1 DEF FillIntent, TypeOK, IntentRecord
  <2>3. Touches(i) /\ intent[i].state \in HeldStates
    BY <1>3 DEF FillIntent, Touches, TypeOK, HeldStates
  <2>4. RecordStep(i)
    BY <2>2, <2>3 DEF RecordStep, OpenStates, TerminalStates
  <2>. QED
    BY <2>3, <2>4, OneRecordStep
<1>4. ASSUME NEW i \in Intents, NEW amount \in FillAmounts, NEW fee \in TransferFees,
             BeginFill(s, i, amount, fee)
      PROVE  \A j \in Intents : RecordStep(j)
  <2>1. intent[i] \in IntentRecord
    BY DEF TypeOK
  <2>2. Touches(i) /\ RecordStep(i)
    BY <1>4, <2>1 DEF BeginFill, Touches, RecordStep, TypeOK, IntentRecord, HeldStates
  <2>. QED
    BY <2>2, OneRecordStep
<1>5. ASSUME NEW i \in Intents, RequestExtension(s, i)
      PROVE  \A j \in Intents : RecordStep(j)
  <2>1. intent[i] \in IntentRecord
    BY DEF TypeOK
  <2>2. Touches(i) /\ RecordStep(i)
    BY <1>5, <2>1 DEF RequestExtension, Touches, RecordStep, TypeOK, IntentRecord, HeldStates
  <2>. QED
    BY <2>2, OneRecordStep
<1>6. CASE \/ \E b \in BondTokens, amount \in Deposits, fee \in TransferFees :
                RegisterSolver(s, b, amount, fee)
           \/ DeregisterSolver(s)
           \/ \E b \in BondTokens, amount \in Withdrawals : WithdrawBond(s, b, amount)
  BY <1>1, <1>6 DEF RegisterSolver, DeregisterSolver, WithdrawBond
<1>. QED
  BY <1>2, <1>3, <1>4, <1>5, <1>6 DEF SolverCall

\* A user's calls.
LEMMA UserRecordStep ==
  ASSUME TypeOK, NEW u \in Users, UserCall(u)
  PROVE  \A j \in Intents : RecordStep(j)
<1>1. ASSUME NEW S \in SUBSET Intents, CancelIntents(u, S)
      PROVE  \A j \in Intents : RecordStep(j)
  BY <1>1 DEF CancelIntents, RecordStep, IsOpen
<1>2. ASSUME NEW i \in Intents, NEW min \in MinAmounts, NEW life \in Lifetimes,
             SubmitIntent(u, i, min, life)
      PROVE  \A j \in Intents : RecordStep(j)
  BY <1>2, OneRecordStep DEF SubmitIntent, Touches, RecordStep, TypeOK
<1>3. ASSUME NEW i \in Intents, NEW min \in AmendAmounts, NEW life \in Lifetimes,
             AmendIntent(u, i, min, life)
      PROVE  \A j \in Intents : RecordStep(j)
  <2>1. Touches(i) /\ RecordStep(i)
    BY <1>3 DEF AmendIntent, Amendable, Touches, RecordStep, OpenStates, TypeOK
  <2>. QED
    BY <2>1, OneRecordStep
<1>4. ASSUME NEW i \in Intents, DisputeFill(u, i)
      PROVE  \A j \in Intents : RecordStep(j)
  <2>1. intent[i] \in IntentRecord
    BY DEF TypeOK
  <2>2. Touches(i) /\ RecordStep(i)
    BY <1>4, <2>1 DEF DisputeFill, Touches, RecordStep, TypeOK, IntentRecord, HeldStates
  <2>. QED
    BY <2>2, OneRecordStep
<1>. QED
  BY <1>1, <1>2, <1>3, <1>4 DEF UserCall

\* The ways out of the escrow.
LEMMA ReleaseRecordStep ==
  ASSUME TypeOK, NEW i \in Intents,
         UpholdDispute(i) \/ DismissDispute(i) \/ ReleaseUndisputed(i) \/ ReleaseUnanswered(i)
  PROVE  \A j \in Intents : RecordStep(j)
<1>1. intent[i] \in IntentRecord
  BY DEF TypeOK
<1>2. intent[i].state \in HeldStates
  BY DEF UpholdDispute, DismissDispute, ReleaseUndisputed, ReleaseUnanswered, HeldStates
<1>3. \E fee, resolution : \E state \in {"Filled", "Resolved"} :
        PayOutEscrow(i, fee, state, resolution)
  BY Zenon DEF UpholdDispute, DismissDispute, ReleaseUndisputed, ReleaseUnanswered
<1>4. Touches(i) /\ intent'[i].state \in TerminalStates
  BY <1>1, <1>3 DEF PayOutEscrow, Touches, TypeOK, IntentRecord, TerminalStates
<1>. QED
  BY <1>2, <1>4, OneRecordStep DEF RecordStep

\* The keepers' calls.
LEMMA KeeperRecordStep ==
  ASSUME TypeOK, NEW i \in Intents, KeeperCall(i)
  PROVE  \A j \in Intents : RecordStep(j)
<1>1. intent[i] \in IntentRecord
  BY DEF TypeOK
<1>2. ASSUME NEW weight \in Weights, SlashSolver(i, weight)
      PROVE  \A j \in Intents : RecordStep(j)
  <2>1. Touches(i) /\ RecordStep(i)
    BY <1>1, <1>2 DEF SlashSolver, Touches, RecordStep, TypeOK, IntentRecord, HeldStates,
                      OpenStates
  <2>. QED
    BY <2>1, OneRecordStep
<1>3. CASE ExpireIntent(i)
  BY <1>3, OneRecordStep DEF ExpireIntent, Touches, RecordStep, IsOpen, TypeOK
<1>4. CASE CloseIntent(i)
  BY <1>4, OneRecordStep DEF CloseIntent, Touches, RecordStep, Blank, TypeOK
<1>. QED
  BY <1>2, <1>3, <1>4, ReleaseRecordStep DEF KeeperCall, Slash, Release

\* Every step changes records in those ways only.
LEMMA NextRecordStep == TypeOK /\ [Next]_vars => \A j \in Intents : RecordStep(j)
<1>1. SUFFICES ASSUME TypeOK, [Next]_vars PROVE \A j \in Intents : RecordStep(j)
  OBVIOUS
<1>2. CASE Tick \/ AdminCall \/ UNCHANGED vars
  <2>1. intent' = intent
    BY <1>2 DEF Tick, AdminCall, SetPaused, RescueBond, RescueOutput, vars
  <2>. QED
    BY <2>1 DEF RecordStep
<1>. QED
  BY <1>1, <1>2, SolverRecordStep, UserRecordStep, KeeperRecordStep, ReleaseRecordStep
     DEF Next, ArbiterCall

\* No late fill, slash, ruling or release changes an ended intent.
THEOREM EndedStaysEnded == Spec => EndedIsFinal
<1>1. TypeOK /\ [Next]_vars =>
        [\A i \in Intents :
          /\ intent[i].state \in TerminalStates =>
               intent'[i] = intent[i] \/ intent'[i].state = "Tombstone"
          /\ intent[i].state = "Tombstone" => intent'[i].state = "Tombstone"]_vars
  BY NextRecordStep DEF RecordStep, OpenStates, HeldStates, TerminalStates
<1>. QED
  BY <1>1, TypeCorrect, PTL DEF Spec, EndedIsFinal

\* The holder, the price and the bond token of a held intent do not change.
THEOREM TermsStayFixed == Spec => TermsFixedWhileHeld
<1>1. TypeOK /\ [Next]_vars =>
        [\A i \in Intents :
          (intent[i].state \in HeldStates /\ intent'[i].state \in HeldStates) =>
            /\ intent'[i].solver = intent[i].solver
            /\ intent'[i].min_dst_amount = intent[i].min_dst_amount
            /\ intent'[i].bond_token = intent[i].bond_token]_vars
  BY NextRecordStep DEF RecordStep, OpenStates, HeldStates, TerminalStates
<1>. QED
  BY <1>1, TypeCorrect, PTL DEF Spec, TermsFixedWhileHeld

-----------------------------------------------------------------------------
(* What no step does to a bond.                                            *)

\* A bond shrinks only when its owner holds nothing, or is being slashed.
BondStep ==
  \A s \in Solvers, t \in BondTokens :
    bond'[s][t] < bond[s][t] => HeldBy(s) = {} \/ solver'[s].last_slash_time = now

\* A slash stamps the record of the solver it takes the bond from.
LEMMA SlashedIsStamped ==
  ASSUME TypeOK, NEW s \in Solvers, NEW b \in BondTokens, NEW kept, NEW healthy \in BOOLEAN,
         bond' = [bond EXCEPT ![s][b] = kept],
         solver' = [Freed(s) EXCEPT ![s].is_active = @ /\ healthy, ![s].last_slash_time = now]
  PROVE  BondStep
<1>1. solver'[s].last_slash_time = now
  <2>1. Freed(s) \in [Solvers -> SolverRecord]
    BY FreedType
  <2>. QED
    BY <2>1 DEF SolverRecord
<1>2. \A r \in Solvers \ {s} : bond'[r] = bond[r]
  BY DEF TypeOK
<1>3. \A r \in Solvers \ {s}, t \in BondTokens : ~(bond'[r][t] < bond[r][t])
  BY <1>2 DEF TypeOK
<1>. QED
  BY <1>1, <1>3 DEF BondStep

\* A step that leaves the bonds alone.
LEMMA BondKept ==
  ASSUME TypeOK, bond' = bond
  PROVE  BondStep
BY DEF TypeOK, BondStep

\* The solver's own calls.
LEMMA RegistryBondStep ==
  ASSUME TypeOK, Bookkeeping, NEW s \in Solvers, SolverCall(s)
  PROVE  BondStep
<1>1. ASSUME NEW b \in BondTokens, NEW amount \in Deposits, NEW fee \in TransferFees,
             RegisterSolver(s, b, amount, fee)
      PROVE  BondStep
  <2>1. amount - fee \in Nat
    BY <1>1, SettlementAssumption DEF RegisterSolver
  <2>2. bond' = [bond EXCEPT ![s][b] = @ + (amount - fee)]
    BY <1>1 DEF RegisterSolver, Landed
  <2>. QED
    BY <2>1, <2>2 DEF TypeOK, BondStep
<1>2. CASE DeregisterSolver(s) \/ \E b \in BondTokens, amount \in Withdrawals :
             WithdrawBond(s, b, amount)
  <2>1. HeldBy(s) = {}
    BY <1>2, NoObligationsHoldsNothing DEF Bookkeeping, DeregisterSolver, WithdrawBond
  <2>2. \A r \in Solvers \ {s} : bond'[r] = bond[r]
    BY <1>2 DEF DeregisterSolver, WithdrawBond, TypeOK
  <2>3. \A r \in Solvers \ {s}, t \in BondTokens : ~(bond'[r][t] < bond[r][t])
    BY <2>2 DEF TypeOK
  <2>. QED
    BY <2>1, <2>3 DEF BondStep
<1>3. ASSUME NEW i \in Intents,
             \/ \E b \in BondTokens, window \in FillWindows, weight \in Weights :
                  AcceptIntent(s, i, b, window, weight)
             \/ \E amount \in FillAmounts, weight \in Weights : FillIntent(s, i, amount, weight)
             \/ \E amount \in FillAmounts, fee \in TransferFees : BeginFill(s, i, amount, fee)
             \/ RequestExtension(s, i)
      PROVE  BondStep
  <2>1. bond' = bond
    BY <1>3 DEF AcceptIntent, FillIntent, BeginFill, RequestExtension, solverVars
  <2>. QED
    BY <2>1, BondKept
<1>. QED
  BY <1>1, <1>2, <1>3 DEF SolverCall

\* The slashes.
LEMMA SlashBondStep ==
  ASSUME TypeOK, NEW i \in Intents,
         UpholdDispute(i) \/ \E weight \in Weights : SlashSolver(i, weight)
  PROVE  BondStep
<1>. DEFINE s == intent[i].solver
            b == intent[i].bond_token
            kept == bond[s][b]
                      - SlashAmount(bond[s][b], intent[i].min_dst_amount - intent[i].total_filled)
<1>1. s \in Solvers /\ b \in BondTokens
  BY DEF TypeOK, IntentRecord, UpholdDispute, PayOutEscrow, SlashSolver
<1>2. /\ bond' = [bond EXCEPT ![s][b] = kept]
      /\ solver' = [Freed(s) EXCEPT ![s].is_active = @ /\ (kept >= MinBond[b]),
                                    ![s].last_slash_time = now]
  BY Zenon DEF UpholdDispute, SlashSolver
<1>3. (kept >= MinBond[b]) \in BOOLEAN
  OBVIOUS
<1>. QED
  BY <1>1, <1>2, <1>3, SlashedIsStamped

\* No step lets a holder take its bond out.
LEMMA NextBondStep == TypeOK /\ Bookkeeping /\ [Next]_vars => BondStep
<1>1. SUFFICES ASSUME TypeOK, Bookkeeping, [Next]_vars PROVE BondStep
  OBVIOUS
<1>2. ASSUME NEW s \in Solvers, SolverCall(s) PROVE BondStep
  BY <1>1, <1>2, RegistryBondStep
<1>3. ASSUME NEW u \in Users, UserCall(u) PROVE bond' = bond
  BY <1>3 DEF UserCall, CancelIntents, SubmitIntent, AmendIntent, DisputeFill, solverVars
<1>4. CASE Tick \/ AdminCall \/ UNCHANGED vars
  <2>1. bond' = bond
    BY <1>4 DEF Tick, AdminCall, SetPaused, RescueBond, RescueOutput, vars, solverVars
  <2>. QED
    BY <1>1, <2>1, BondKept
<1>5. ASSUME NEW i \in Intents,
             \/ ExpireIntent(i) \/ CloseIntent(i)
             \/ DismissDispute(i) \/ ReleaseUndisputed(i) \/ ReleaseUnanswered(i)
      PROVE  bond' = bond
  BY <1>5 DEF ExpireIntent, CloseIntent, DismissDispute, ReleaseUndisputed,
              ReleaseUnanswered, solverVars
<1>. QED
  BY <1>1, <1>2, <1>3, <1>4, <1>5, SlashBondStep, BondKept
     DEF Next, ArbiterCall, KeeperCall, Slash, Release

\* A solver's collateral stays put while it holds an intent: the two guards that
\* read active_intents suffice, because that counter is exact.
THEOREM BondsStayLocked == Spec => BondLockedWhileHolding
<1>1. TypeOK /\ Bookkeeping /\ [Next]_vars =>
        [\A s \in Solvers, t \in BondTokens :
          bond'[s][t] < bond[s][t] => HeldBy(s) = {} \/ solver'[s].last_slash_time = now]_vars
  BY NextBondStep DEF BondStep
<1>. QED
  BY <1>1, TypeCorrect, BooksExact, PTL DEF Spec, BondLockedWhileHolding

-----------------------------------------------------------------------------
(* What the views say, and what the calls then do.                         *)

Foretold(i) ==
  /\ (intent[i].state # "Absent" /\ GetEffectiveIntentState(i) = "Expired") =>
       intent'[i].state \in OpenStates \cup {"Expired", "Cancelled", "Tombstone"}
  /\ TakenOn(i) => GetEffectiveIntentState(i) \in OpenStates
  /\ \A s \in Solvers : intent'[i].solver = s =>
       /\ (TakenOn(i) /\ intent'[i].bond_token = DefaultToken
             /\ RequiredBond(DefaultToken) >= MinBond[DefaultToken]) =>
            /\ IsSolverEligible(s)
            /\ GetSolverExposure(s)'.used <= GetSolverExposure(s)'.capacity
       /\ (intent[i].state = "Accepted"
             /\ intent'[i].fill_amount > intent[i].fill_amount) =>
            CheckFillGuards(i, s)

\* A record that takes no solver on and no fill in.
LEMMA QuietIsForetold ==
  ASSUME TypeOK, NEW i \in Intents, ~TakenOn(i),
         intent[i].state = "Accepted" => intent'[i].fill_amount = intent[i].fill_amount,
         (intent[i].state \in OpenStates \cup {"Expired"}) =>
           intent'[i].state \in OpenStates \cup {"Expired", "Cancelled", "Tombstone"}
  PROVE  Foretold(i)
<1>1. intent[i].fill_amount \in Int
  BY DEF TypeOK, IntentRecord
<1>2. intent[i].state = "Accepted" => ~(intent'[i].fill_amount > intent[i].fill_amount)
  BY <1>1
<1>3. GetEffectiveIntentState(i) = "Expired" => intent[i].state \in OpenStates \cup {"Expired"}
  BY DEF GetEffectiveIntentState
<1>. QED
  BY <1>2, <1>3 DEF Foretold

\* It is enough to look at the record a call is about.
LEMMA OneIsForetold ==
  ASSUME TypeOK, NEW i \in Intents, Touches(i), Foretold(i)
  PROVE  \A j \in Intents : Foretold(j)
<1>1. SUFFICES ASSUME NEW j \in Intents, j # i PROVE Foretold(j)
  OBVIOUS
<1>2. intent'[j] = intent[j]
  BY <1>1 DEF Touches
<1>. QED
  BY <1>2, QuietIsForetold DEF TakenOn

\* accept_intent checks all that the two views of a solver check.
LEMMA AcceptIntentForetold ==
  ASSUME TypeOK, NEW s \in Solvers, NEW i \in Intents, NEW b \in BondTokens,
         NEW window \in FillWindows, NEW weight \in Weights,
         AcceptIntent(s, i, b, window, weight)
  PROVE  \A j \in Intents : Foretold(j)
<1>. DEFINE new_exposure == exposure[s] + ExposureNotional(intent[i].min_dst_amount, weight)
<1>1. intent[i] \in IntentRecord /\ now \in Nat /\ intent[i].deadline \in Nat
  BY DEF TypeOK, IntentRecord
<1>2. /\ Touches(i) /\ intent'[i].solver = s /\ intent'[i].bond_token = b
      /\ intent[i].state \in OpenStates /\ now < intent[i].deadline
  BY <1>1 DEF AcceptIntent, Touches, IsOpen, FillWindowOpen, TypeOK, IntentRecord
<1>3. GetEffectiveIntentState(i) = intent[i].state
  BY <1>1, <1>2 DEF GetEffectiveIntentState
<1>4. ASSUME b = DefaultToken, RequiredBond(DefaultToken) >= MinBond[DefaultToken]
      PROVE  IsSolverEligible(s)
  <2>1. /\ s \in registered /\ solver[s].is_active /\ ~CoolingDown(s) /\ HasRoom(s)
        /\ bond[s][DefaultToken] >= RequiredBond(DefaultToken)
    BY <1>4 DEF AcceptIntent
  <2>2. /\ solver[s].last_slash_time \in Nat /\ bond[s][DefaultToken] \in Int
        /\ MinBond[DefaultToken] \in Int
    BY SettlementAssumption DEF TypeOK, SolverRecord
  <2>3. RequiredBond(DefaultToken) \in Int
    <3>1. MinBond[DefaultToken] * DstMultiplier \in Nat
      BY SettlementAssumption
    <3>. QED
      BY <3>1 DEF RequiredBond
  <2>4. bond[s][DefaultToken] >= MinBond[DefaultToken]
    BY <1>4, <2>1, <2>2, <2>3
  <2>5. SlashCooldownOver(s)
    <3>1. SlashCooldown \in Nat
      BY SettlementAssumption
    <3>. QED
      BY <1>1, <2>1, <2>2, <3>1 DEF CoolingDown, SlashCooldownOver
  <2>. QED
    BY <2>1, <2>4, <2>5 DEF IsSolverEligible, HasRoom
<1>5. ASSUME b = DefaultToken
      PROVE  GetSolverExposure(s)'.used <= GetSolverExposure(s)'.capacity
  <2>1. /\ s \in registered /\ registered' = registered /\ bond' = bond
        /\ exposure' = [exposure EXCEPT ![s] = new_exposure]
        /\ new_exposure <= bond[s][DefaultToken] * CoverageMultiplier
    BY <1>5 DEF AcceptIntent
  <2>2. exposure'[s] = new_exposure
    BY <2>1 DEF TypeOK
  <2>3. /\ GetSolverExposure(s)'.used = new_exposure
        /\ GetSolverExposure(s)'.capacity = bond[s][DefaultToken] * CoverageMultiplier
    BY <2>1, <2>2 DEF GetSolverExposure
  <2>. QED
    BY <2>1, <2>3
<1>6. intent[i].state # "Accepted" /\ intent[i].state # "Expired"
  BY <1>2 DEF OpenStates
<1>7. Foretold(i)
  BY <1>2, <1>3, <1>4, <1>5, <1>6 DEF Foretold
<1>. QED
  BY <1>2, <1>7, OneIsForetold

\* fill_intent and begin_fill check what check_fill_guards does.
LEMMA FillsForetold ==
  ASSUME TypeOK, NEW s \in Solvers, NEW i \in Intents, NEW amount \in FillAmounts,
         \/ \E weight \in Weights : FillIntent(s, i, amount, weight)
         \/ \E fee \in TransferFees : BeginFill(s, i, amount, fee)
  PROVE  \A j \in Intents : Foretold(j)
<1>1. intent[i] \in IntentRecord
  BY DEF TypeOK
<1>2. /\ Touches(i) /\ intent[i].state = "Accepted" /\ intent[i].solver = s
      /\ now < intent[i].deadline
  BY DEF FillIntent, BeginFill, Touches, FillWindowOpen, TypeOK
<1>3. intent'[i].solver \in {s, NoSolver}
  <2>1. ASSUME NEW weight \in Weights, FillIntent(s, i, amount, weight)
        PROVE  intent'[i].solver \in {s, NoSolver}
    <3>1. CASE Completes(i, amount)
      BY <1>1, <1>2, <2>1, <3>1 DEF FillIntent, TypeOK, IntentRecord
    <3>2. CASE ~Completes(i, amount)
      BY <1>1, <1>2, <2>1, <3>2 DEF FillIntent, TypeOK, IntentRecord
    <3>. QED
      BY <3>1, <3>2
  <2>2. ASSUME NEW fee \in TransferFees, BeginFill(s, i, amount, fee)
        PROVE  intent'[i].solver \in {s, NoSolver}
    BY <1>1, <1>2, <2>2 DEF BeginFill, TypeOK, IntentRecord
  <2>. QED
    BY <2>1, <2>2
<1>4. \A r \in Solvers : intent'[i].solver = r => CheckFillGuards(i, r)
  BY <1>2, <1>3, SettlementAssumption DEF CheckFillGuards
<1>5. ~TakenOn(i) /\ GetEffectiveIntentState(i) = "Accepted"
  BY <1>2 DEF TakenOn, GetEffectiveIntentState, OpenStates
<1>6. Foretold(i)
  BY <1>4, <1>5 DEF Foretold
<1>. QED
  BY <1>2, <1>6, OneIsForetold

\* The calls that neither take a solver on nor bring a fill.
LEMMA OtherMovesForetold ==
  ASSUME TypeOK, NEW i \in Intents,
         \/ \E s \in Solvers : RequestExtension(s, i)
         \/ \E u \in Users : DisputeFill(u, i)
         \/ \E u \in Users, min \in MinAmounts, life \in Lifetimes :
              SubmitIntent(u, i, min, life)
         \/ \E u \in Users, min \in AmendAmounts, life \in Lifetimes :
              AmendIntent(u, i, min, life)
         \/ Slash(i) \/ ExpireIntent(i) \/ CloseIntent(i)
  PROVE  \A j \in Intents : Foretold(j)
<1>1. intent[i] \in IntentRecord
  BY DEF TypeOK
<1>2. ASSUME Touches(i), intent'[i].fill_amount = intent[i].fill_amount,
             intent[i].state \in HeldStates, ~TakenOn(i)
      PROVE  \A j \in Intents : Foretold(j)
  BY <1>2, QuietIsForetold, OneIsForetold DEF HeldStates, OpenStates
<1>3. ASSUME Touches(i), intent[i].state \notin HeldStates,
             intent'[i].state \in {"Open", "PartiallyFilled", "Expired", "Tombstone"}
      PROVE  \A j \in Intents : Foretold(j)
  BY <1>3, QuietIsForetold, OneIsForetold DEF HeldStates, OpenStates, TakenOn
<1>4. ASSUME NEW s \in Solvers, RequestExtension(s, i)
      PROVE  \A j \in Intents : Foretold(j)
  BY <1>1, <1>2, <1>4 DEF RequestExtension, Touches, HeldStates, TakenOn, TypeOK, IntentRecord
<1>5. ASSUME NEW u \in Users, DisputeFill(u, i)
      PROVE  \A j \in Intents : Foretold(j)
  BY <1>1, <1>2, <1>5 DEF DisputeFill, Touches, HeldStates, TakenOn, TypeOK, IntentRecord
<1>6. ASSUME NEW u \in Users, NEW min \in MinAmounts, NEW life \in Lifetimes,
             SubmitIntent(u, i, min, life)
      PROVE  \A j \in Intents : Foretold(j)
  BY <1>3, <1>6 DEF SubmitIntent, Touches, HeldStates, Blank, TypeOK
<1>7. ASSUME NEW u \in Users, NEW min \in AmendAmounts, NEW life \in Lifetimes,
             AmendIntent(u, i, min, life)
      PROVE  \A j \in Intents : Foretold(j)
  BY <1>1, <1>3, <1>7 DEF AmendIntent, Amendable, Touches, HeldStates, TypeOK, IntentRecord
<1>8. CASE Slash(i)
  <2>1. PICK weight \in Weights : SlashSolver(i, weight)
    BY <1>8 DEF Slash
  <2>2. intent[i].state = "Accepted"
        /\ intent' = [intent EXCEPT ![i].solver = NoSolver, ![i].state = "Open",
                                    ![i].deadline = now + IntentExpiry]
    BY <2>1, Zenon DEF SlashSolver
  <2>. QED
    BY <1>1, <1>2, <2>2 DEF Touches, HeldStates, TakenOn, TypeOK, IntentRecord
<1>9. CASE ExpireIntent(i)
  BY <1>1, <1>3, <1>9 DEF ExpireIntent, IsOpen, OpenStates, Touches, HeldStates, TypeOK,
                          IntentRecord
<1>10. CASE CloseIntent(i)
  BY <1>1, <1>3, <1>10 DEF CloseIntent, TerminalStates, Touches, HeldStates, Blank, TypeOK
<1>. QED
  BY <1>4, <1>5, <1>6, <1>7, <1>8, <1>9, <1>10

\* The ways out of the escrow start from no state the views look at.
LEMMA ReleaseForetold ==
  ASSUME TypeOK, NEW i \in Intents,
         UpholdDispute(i) \/ DismissDispute(i) \/ ReleaseUndisputed(i) \/ ReleaseUnanswered(i)
  PROVE  \A j \in Intents : Foretold(j)
<1>1. intent[i] \in IntentRecord
  BY DEF TypeOK
<1>2. intent[i].state \in EscrowStates
  BY DEF UpholdDispute, DismissDispute, ReleaseUndisputed, ReleaseUnanswered, EscrowStates
<1>3. \E fee, resolution : \E state \in {"Filled", "Resolved"} :
        PayOutEscrow(i, fee, state, resolution)
  BY Zenon DEF UpholdDispute, DismissDispute, ReleaseUndisputed, ReleaseUnanswered
<1>4. Touches(i) /\ intent'[i].state \in {"Filled", "Resolved"}
  BY <1>1, <1>3 DEF PayOutEscrow, Touches, TypeOK, IntentRecord
<1>5. ~TakenOn(i) /\ intent[i].state # "Accepted"
      /\ intent[i].state \notin OpenStates \cup {"Expired"}
  BY <1>2, <1>4 DEF TakenOn, EscrowStates, OpenStates
<1>6. Foretold(i)
  BY <1>5, QuietIsForetold
<1>. QED
  BY <1>4, <1>6, OneIsForetold

\* Cancels find intents open, and end them as such.
LEMMA CancelIntentsForetold ==
  ASSUME TypeOK, NEW u \in Users, NEW C \in SUBSET Intents, CancelIntents(u, C)
  PROVE  \A j \in Intents : Foretold(j)
<1>1. SUFFICES ASSUME NEW j \in Intents PROVE Foretold(j)
  OBVIOUS
<1>2. intent[j] \in IntentRecord
  BY DEF TypeOK
<1>3. CASE j \in C
  <2>1. intent[j].state \in OpenStates /\ intent'[j].state = "Cancelled"
    BY <1>2, <1>3 DEF CancelIntents, IsOpen, IntentRecord
  <2>. QED
    BY <2>1, QuietIsForetold DEF TakenOn, OpenStates
<1>4. CASE j \notin C
  <2>1. intent'[j] = intent[j]
    BY <1>4 DEF CancelIntents
  <2>. QED
    BY <2>1, QuietIsForetold DEF TakenOn
<1>. QED
  BY <1>3, <1>4

LEMMA NextForetold == TypeOK /\ [Next]_vars => \A j \in Intents : Foretold(j)
<1>1. SUFFICES ASSUME TypeOK, [Next]_vars PROVE \A j \in Intents : Foretold(j)
  OBVIOUS
<1>2. ASSUME intent' = intent PROVE \A j \in Intents : Foretold(j)
  BY <1>1, <1>2, QuietIsForetold DEF TakenOn
<1>3. CASE Tick \/ AdminCall \/ UNCHANGED vars
  BY <1>2, <1>3 DEF Tick, AdminCall, SetPaused, RescueBond, RescueOutput, vars
<1>4. ASSUME NEW s \in Solvers, SolverCall(s) PROVE \A j \in Intents : Foretold(j)
  <2>1. CASE \/ \E b \in BondTokens, amount \in Deposits, fee \in TransferFees :
                  RegisterSolver(s, b, amount, fee)
             \/ DeregisterSolver(s)
             \/ \E b \in BondTokens, amount \in Withdrawals : WithdrawBond(s, b, amount)
    BY <1>2, <2>1 DEF RegisterSolver, DeregisterSolver, WithdrawBond
  <2>. QED
    BY <1>1, <1>4, <2>1, AcceptIntentForetold, FillsForetold, OtherMovesForetold DEF SolverCall
<1>5. ASSUME NEW u \in Users, UserCall(u) PROVE \A j \in Intents : Foretold(j)
  BY <1>1, <1>5, CancelIntentsForetold, OtherMovesForetold DEF UserCall
<1>6. ASSUME NEW i \in Intents, KeeperCall(i) PROVE \A j \in Intents : Foretold(j)
  BY <1>1, <1>6, OtherMovesForetold, ReleaseForetold DEF KeeperCall, Release
<1>. QED
  BY <1>1, <1>3, <1>4, <1>5, <1>6, ReleaseForetold DEF Next, ArbiterCall

\* The views never send a solver away from a call that would have worked, and an intent
\* they show as expired only ends, or is given a new deadline.
THEOREM TheViewsForetell == Spec => ViewsForetell
<1>1. TypeOK /\ [Next]_vars =>
        [\A i \in Intents :
           /\ (intent[i].state # "Absent" /\ GetEffectiveIntentState(i) = "Expired") =>
                intent'[i].state \in OpenStates \cup {"Expired", "Cancelled", "Tombstone"}
           /\ TakenOn(i) => GetEffectiveIntentState(i) \in OpenStates
           /\ \A s \in Solvers : intent'[i].solver = s =>
                /\ (TakenOn(i) /\ intent'[i].bond_token = DefaultToken
                      /\ RequiredBond(DefaultToken) >= MinBond[DefaultToken]) =>
                     /\ IsSolverEligible(s)
                     /\ GetSolverExposure(s)'.used <= GetSolverExposure(s)'.capacity
                /\ (intent[i].state = "Accepted"
                      /\ intent'[i].fill_amount > intent[i].fill_amount) =>
                     CheckFillGuards(i, s)]_vars
  BY NextForetold, Zenon DEF Foretold
<1>. QED
  BY <1>1, TypeCorrect, PTL DEF Spec, ViewsForetell

-----------------------------------------------------------------------------
(* The contract serves the board of disputes.                              *)

BoardStep == [Board!Next]_<<now, Board!boardVars>>

\* The states of an intent no arbiter has to do with.
Undisputed == IntentStates \ {"Disputed", "Resolved", "Tombstone"}

\* Steps that change no disputed, resolved or pruned record, nor make one.
LEMMA QuietStep ==
  ASSUME now' = now,
         \A i \in Intents : \/ intent'[i] = intent[i]
                            \/ intent[i].state \in Undisputed /\ intent'[i].state \in Undisputed
  PROVE  BoardStep
<1>1. ASSUME NEW i \in Intents
      PROVE  PhaseOfCase(i)' = PhaseOfCase(i) /\ RaisedAt(i)' = RaisedAt(i)
  BY DEF PhaseOfCase, RaisedAt, Undisputed
<1> QED BY <1>1 DEF BoardStep, Board!boardVars, CasePhase, CaseRaised

\* The moves of one case that are steps of the board.
LEMMA CaseMove ==
  ASSUME NEW i \in Intents, Touches(i), now' = now,
         \/ PhaseOfCase(i) = "none" /\ PhaseOfCase(i)' = "raised" /\ RaisedAt(i)' = now
         \/ /\ PhaseOfCase(i) = "raised" /\ RaisedAt(i)' = 0
            /\ \/ PhaseOfCase(i)' \in Board!Rulings
               \/ PhaseOfCase(i)' = "lapsed" /\ now >= RaisedAt(i) + ArbiterWindow
         \/ PhaseOfCase(i) # "raised" /\ PhaseOfCase(i)' = "gone" /\ RaisedAt(i)' = RaisedAt(i)
  PROVE  BoardStep
<1>1. \A j \in Intents \ {i} : PhaseOfCase(j)' = PhaseOfCase(j) /\ RaisedAt(j)' = RaisedAt(j)
  BY DEF Touches, PhaseOfCase, RaisedAt
<1>2. /\ CasePhase' = [CasePhase EXCEPT ![i] = PhaseOfCase(i)']
      /\ CaseRaised' = [CaseRaised EXCEPT ![i] = RaisedAt(i)']
  BY <1>1 DEF CasePhase, CaseRaised
<1>3. CasePhase[i] = PhaseOfCase(i) /\ CaseRaised[i] = RaisedAt(i)
  BY DEF CasePhase, CaseRaised
<1>4. RaisedAt(i)' = RaisedAt(i) => CaseRaised' = CaseRaised
  BY <1>1 DEF CaseRaised
<1>5. CASE PhaseOfCase(i) = "none" /\ PhaseOfCase(i)' = "raised" /\ RaisedAt(i)' = now
  <2>1. Board!Raise(i)
    BY <1>2, <1>3, <1>5 DEF Board!Raise
  <2> QED BY <2>1 DEF BoardStep, Board!Next
<1>6. CASE /\ PhaseOfCase(i) = "raised" /\ RaisedAt(i)' = 0
           /\ PhaseOfCase(i)' \in Board!Rulings
  <2>1. Board!Close(i, PhaseOfCase(i)')
    BY <1>2, <1>3, <1>6 DEF Board!Close
  <2> QED BY <1>6, <2>1 DEF BoardStep, Board!Next, Board!Rule
<1>7. CASE /\ PhaseOfCase(i) = "raised" /\ RaisedAt(i)' = 0
           /\ PhaseOfCase(i)' = "lapsed" /\ now >= RaisedAt(i) + ArbiterWindow
  <2>1. Board!Close(i, "lapsed") /\ Board!TimedOut(i)
    BY <1>2, <1>3, <1>7 DEF Board!Close, Board!TimedOut
  <2> QED BY <2>1 DEF BoardStep, Board!Next, Board!Lapse
<1>8. CASE PhaseOfCase(i) # "raised" /\ PhaseOfCase(i)' = "gone" /\ RaisedAt(i)' = RaisedAt(i)
  <2>1. Board!Forget(i)
    BY <1>2, <1>3, <1>4, <1>8 DEF Board!Forget
  <2> QED BY <2>1 DEF BoardStep, Board!Next
<1> QED BY <1>5, <1>6, <1>7, <1>8

\* dispute_fill raises a case.
LEMMA DisputeFillRaises ==
  ASSUME TypeOK, NEW u \in Users, NEW i \in Intents, DisputeFill(u, i)
  PROVE  BoardStep
<1>1. intent[i] \in IntentRecord
  BY DEF TypeOK
<1>2. /\ Touches(i) /\ intent[i].state = "Filling" /\ intent'[i].state = "Disputed"
      /\ intent'[i].dispute_raised_at = now /\ now' = now
  BY <1>1 DEF DisputeFill, Touches, TypeOK, IntentRecord
<1>3. PhaseOfCase(i) = "none" /\ PhaseOfCase(i)' = "raised" /\ RaisedAt(i)' = now
  BY <1>2 DEF PhaseOfCase, RaisedAt
<1> QED BY <1>2, <1>3, CaseMove

\* resolve_dispute rules on a case, release_fill lapses it or was never one.
LEMMA PayOutAnswers ==
  ASSUME TypeOK, NEW i \in Intents,
         UpholdDispute(i) \/ DismissDispute(i) \/ ReleaseUndisputed(i) \/ ReleaseUnanswered(i)
  PROVE  BoardStep
<1>1. intent[i] \in IntentRecord
  BY DEF TypeOK
<1>2. ASSUME NEW fee, NEW state, NEW resolution, PayOutEscrow(i, fee, state, resolution)
      PROVE  /\ Touches(i) /\ now' = now
             /\ intent'[i].state = state /\ intent'[i].resolution = resolution
  BY <1>1, <1>2 DEF PayOutEscrow, Touches, TypeOK, IntentRecord
<1>3. CASE UpholdDispute(i)
  <2>1. intent[i].state = "Disputed" /\ PayOutEscrow(i, 0, "Resolved", "Upheld")
    BY <1>3, Zenon DEF UpholdDispute
  <2>2. /\ PhaseOfCase(i) = "raised" /\ PhaseOfCase(i)' \in Board!Rulings /\ RaisedAt(i)' = 0
    BY <1>2, <2>1 DEF PhaseOfCase, RaisedAt, Board!Rulings
  <2> QED BY <1>2, <2>1, <2>2, CaseMove
<1>4. CASE DismissDispute(i)
  <2>1. /\ intent[i].state = "Disputed"
        /\ PayOutEscrow(i, Fee(intent[i].fill_amount), "Resolved", "Dismissed")
    BY <1>4, Zenon DEF DismissDispute
  <2>2. /\ PhaseOfCase(i) = "raised" /\ PhaseOfCase(i)' \in Board!Rulings /\ RaisedAt(i)' = 0
    BY <1>2, <2>1 DEF PhaseOfCase, RaisedAt, Board!Rulings
  <2> QED BY <1>2, <2>1, <2>2, CaseMove
<1>5. CASE ReleaseUnanswered(i)
  <2>1. /\ intent[i].state = "Disputed" /\ PayOutEscrow(i, 0, "Resolved", "None")
        /\ now >= intent[i].dispute_raised_at + ArbiterWindow
    BY <1>5, Zenon DEF ReleaseUnanswered
  <2>2. /\ PhaseOfCase(i) = "raised" /\ PhaseOfCase(i)' = "lapsed" /\ RaisedAt(i)' = 0
        /\ now >= RaisedAt(i) + ArbiterWindow
    BY <1>2, <2>1 DEF PhaseOfCase, RaisedAt
  <2> QED BY <1>2, <2>1, <2>2, CaseMove
<1>6. CASE ReleaseUndisputed(i)
  <2>1. /\ intent[i].state = "Filling"
        /\ PayOutEscrow(i, Fee(intent[i].fill_amount), "Filled", intent[i].resolution)
    BY <1>6, Zenon DEF ReleaseUndisputed
  <2>2. /\ Touches(i) /\ now' = now
        /\ intent[i].state \in Undisputed /\ intent'[i].state \in Undisputed
    BY <1>2, <2>1 DEF Undisputed, IntentStates, OpenStates, HeldStates, TerminalStates
  <2> QED BY <2>2, QuietStep DEF Touches
<1> QED BY <1>3, <1>4, <1>5, <1>6

\* close_intent forgets a case, if there was one.
LEMMA CloseIntentForgets ==
  ASSUME TypeOK, NEW i \in Intents, CloseIntent(i)
  PROVE  BoardStep
<1>1. /\ Touches(i) /\ now' = now /\ intent[i].state \in TerminalStates
      /\ intent'[i].state = "Tombstone"
  BY DEF CloseIntent, Touches, TypeOK, Blank
<1>2. /\ PhaseOfCase(i) # "raised" /\ PhaseOfCase(i)' = "gone"
      /\ RaisedAt(i)' = 0 /\ RaisedAt(i) = 0
  BY <1>1 DEF PhaseOfCase, RaisedAt, TerminalStates
<1> QED BY <1>1, <1>2, CaseMove

\* The other calls of solvers have nothing to do with disputes.
LEMMA SolverCallsQuiet ==
  ASSUME TypeOK, NEW s \in Solvers, SolverCall(s)
  PROVE  BoardStep
<1> USE DEF Undisputed, IntentStates, OpenStates, HeldStates, TerminalStates
<1>1. \A i \in Intents : intent[i] \in IntentRecord
  BY DEF TypeOK
<1>2. CASE \/ \E b \in BondTokens, amount \in Deposits, fee \in TransferFees :
                RegisterSolver(s, b, amount, fee)
           \/ DeregisterSolver(s)
           \/ \E b \in BondTokens, amount \in Withdrawals : WithdrawBond(s, b, amount)
  BY <1>2, QuietStep DEF RegisterSolver, DeregisterSolver, WithdrawBond
<1>3. ASSUME NEW i \in Intents, NEW b \in BondTokens, NEW window \in FillWindows,
             NEW weight \in Weights, AcceptIntent(s, i, b, window, weight)
      PROVE  BoardStep
  <2>1. /\ Touches(i) /\ now' = now /\ intent[i].state \in OpenStates
        /\ intent'[i].state = "Accepted"
    BY <1>1, <1>3 DEF AcceptIntent, Touches, IsOpen, TypeOK, IntentRecord
  <2> QED BY <2>1, QuietStep DEF Touches
<1>4. ASSUME NEW i \in Intents, NEW amount \in FillAmounts, NEW weight \in Weights,
             FillIntent(s, i, amount, weight)
      PROVE  BoardStep
  <2>1. intent'[i].state = IF Completes(i, amount) THEN "Filled" ELSE "PartiallyFilled"
    BY <1>1, <1>4 DEF FillIntent, TypeOK, IntentRecord
  <2>2. Touches(i) /\ now' = now /\ intent[i].state = "Accepted"
    BY <1>4 DEF FillIntent, Touches, TypeOK
  <2> QED BY <2>1, <2>2, QuietStep DEF Touches
<1>5. ASSUME NEW i \in Intents, NEW amount \in FillAmounts, NEW fee \in TransferFees,
             BeginFill(s, i, amount, fee)
      PROVE  BoardStep
  <2>1. /\ Touches(i) /\ now' = now /\ intent[i].state = "Accepted"
        /\ intent'[i].state = "Filling"
    BY <1>1, <1>5 DEF BeginFill, Touches, TypeOK, IntentRecord
  <2> QED BY <2>1, QuietStep DEF Touches
<1>6. ASSUME NEW i \in Intents, RequestExtension(s, i)
      PROVE  BoardStep
  <2>1. /\ Touches(i) /\ now' = now /\ intent[i].state = "Accepted"
        /\ intent'[i].state = "Accepted"
    BY <1>1, <1>6 DEF RequestExtension, Touches, TypeOK, IntentRecord
  <2> QED BY <2>1, QuietStep DEF Touches
<1> QED BY <1>2, <1>3, <1>4, <1>5, <1>6 DEF SolverCall

\* Users' calls raise cases or are quiet.
LEMMA UserCallsServe ==
  ASSUME TypeOK, NEW u \in Users, UserCall(u)
  PROVE  BoardStep
<1> USE DEF Undisputed, IntentStates, OpenStates, HeldStates, TerminalStates
<1>1. \A i \in Intents : intent[i] \in IntentRecord
  BY DEF TypeOK
<1>2. ASSUME NEW S \in SUBSET Intents, CancelIntents(u, S)
      PROVE  BoardStep
  <2>1. \A i \in Intents :
          \/ intent'[i] = intent[i]
          \/ intent[i].state \in OpenStates /\ intent'[i].state = "Cancelled"
    BY <1>1, <1>2 DEF CancelIntents, IsOpen, IntentRecord
  <2>2. now' = now
    BY <1>2 DEF CancelIntents
  <2> QED BY <2>1, <2>2, QuietStep
<1>3. ASSUME NEW i \in Intents, NEW min \in MinAmounts, NEW life \in Lifetimes,
             SubmitIntent(u, i, min, life)
      PROVE  BoardStep
  <2>1. /\ Touches(i) /\ now' = now /\ intent[i].state = "Absent" /\ intent'[i].state = "Open"
    BY <1>3 DEF SubmitIntent, Touches, TypeOK, Blank
  <2> QED BY <2>1, QuietStep DEF Touches
<1>4. ASSUME NEW i \in Intents, NEW min \in AmendAmounts, NEW life \in Lifetimes,
             AmendIntent(u, i, min, life)
      PROVE  BoardStep
  <2>1. /\ Touches(i) /\ now' = now /\ intent[i].state = "Open" /\ intent'[i].state = "Open"
    BY <1>1, <1>4 DEF AmendIntent, Amendable, Touches, TypeOK, IntentRecord
  <2> QED BY <2>1, QuietStep DEF Touches
<1> QED BY <1>2, <1>3, <1>4, DisputeFillRaises DEF UserCall

\* Keepers' calls answer or forget cases or are quiet.
LEMMA KeeperCallsServe ==
  ASSUME TypeOK, NEW i \in Intents, KeeperCall(i)
  PROVE  BoardStep
<1> USE DEF Undisputed, IntentStates, OpenStates, HeldStates, TerminalStates
<1>1. intent[i] \in IntentRecord
  BY DEF TypeOK
<1>2. ASSUME NEW weight \in Weights, SlashSolver(i, weight)
      PROVE  BoardStep
  <2>1. /\ Touches(i) /\ now' = now /\ intent[i].state = "Accepted" /\ intent'[i].state = "Open"
    BY <1>1, <1>2 DEF SlashSolver, Touches, TypeOK, IntentRecord
  <2> QED BY <2>1, QuietStep DEF Touches
<1>3. CASE ExpireIntent(i)
  <2>1. /\ Touches(i) /\ now' = now /\ intent[i].state \in OpenStates
        /\ intent'[i].state = "Expired"
    BY <1>1, <1>3 DEF ExpireIntent, IsOpen, Touches, TypeOK, IntentRecord
  <2> QED BY <2>1, QuietStep DEF Touches
<1> QED
  BY <1>2, <1>3, PayOutAnswers, CloseIntentForgets DEF KeeperCall, Slash, Release

\* Every step of the contract is a step of the board, or none.
LEMMA NextServes == TypeOK /\ [Next]_vars => BoardStep
<1>1. SUFFICES ASSUME TypeOK, [Next]_vars PROVE BoardStep
  OBVIOUS
<1>2. CASE Tick
  <2>1. now' = now + 1 /\ intent' = intent
    BY <1>2 DEF Tick
  <2>2. \A i \in Intents : PhaseOfCase(i)' = PhaseOfCase(i) /\ RaisedAt(i)' = RaisedAt(i)
    BY <2>1 DEF PhaseOfCase, RaisedAt
  <2> QED BY <2>1, <2>2 DEF BoardStep, Board!Next, Board!boardVars, CasePhase, CaseRaised
<1>3. CASE AdminCall \/ UNCHANGED vars
  <2>1. now' = now /\ intent' = intent
    BY <1>3 DEF AdminCall, SetPaused, RescueBond, RescueOutput, vars
  <2> QED BY <2>1, QuietStep
<1> QED
  BY <1>1, <1>2, <1>3, SolverCallsQuiet, UserCallsServe, KeeperCallsServe, PayOutAnswers
     DEF Next, ArbiterCall

\* To an arbiter panel the contract is the board the panel is composed with: a
\* dispute is answered once, and by a timeout not before the window has passed.
THEOREM ServesThePanel == Spec => ServesDisputes
<1>1. Init => now \in Nat /\ Board!BoardInit
  <2>1. SUFFICES ASSUME Init PROVE now \in Nat /\ Board!BoardInit
    OBVIOUS
  <2>2. \A i \in Intents : intent[i].state = "Absent"
    BY <2>1 DEF Init, Blank
  <2> QED BY <2>1, <2>2 DEF Init, Board!BoardInit, CasePhase, CaseRaised, PhaseOfCase, RaisedAt
<1>2. TypeOK /\ [Next]_vars => BoardStep
  BY NextServes
<1> QED
  BY <1>1, <1>2, TypeCorrect, PTL DEF Spec, ServesDisputes, Board!Spec, BoardStep
=============================================================================
