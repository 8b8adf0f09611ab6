--------------------------- MODULE ContractProofs ---------------------------
(***************************************************************************)
(* Proofs about the contracts around the settlement: the timelock, for any *)
(* operations, chains of predecessors, delays and grace period; the        *)
(* administration of the settlement and the roles of the solver registry,  *)
(* as changes by notice; the periphery's pointer; the proof registry, for  *)
(* any messages in any order; the lists: the settlement's paged ones, for  *)
(* any page size, the directory's names, and a solver's bonds; and the     *)
(* arithmetic of prices, shares, tiers and scores, for any arguments.      *)
(***************************************************************************)
EXTENDS Timelock, SettlementAdmin, RegistryRoles, Periphery, ProofRegistry, Directory,
        SolverBonds, Pricing, Sums

(***************************************************************************)
(* The timelock.                                                           *)
(***************************************************************************)

Inv == TypeOK /\ PerformedOnce

\* A step changes at most one operation.
Touches(o) ==
  \A q \in Ops \ {o} : operation'[q] = operation[q] /\ performed'[q] = performed[q]

-----------------------------------------------------------------------------
(* What each call does to its operation.                                   *)

\* schedule stores a new one.
LEMMA ScheduleEffect ==
  ASSUME Inv, NEW o \in Ops, NEW delay \in Delays, Schedule(o, delay)
  PROVE  /\ UNCHANGED <<now, min_delay, roles, performed>> /\ Touches(o)
         /\ operation' \in [Ops -> Operation]
         /\ operation[o] = NoOperation
         /\ operation'[o].known /\ ~operation'[o].executed
         /\ operation'[o].ready_at = now + delay
         /\ operation'[o].expires_at = operation'[o].ready_at + GracePeriod
         /\ delay >= min_delay /\ delay \in Nat
         /\ Predecessor[o] # NoOp => operation[Predecessor[o]].known
<1> DEFINE r == [known |-> TRUE, ready_at |-> now + delay,
                 expires_at |-> now + delay + GracePeriod, executed |-> FALSE]
<1>1. delay \in Nat /\ GracePeriod \in Nat /\ now \in Nat
  BY TimelockAssumption DEF Inv, TypeOK
<1>2. r \in Operation
  BY <1>1 DEF Operation
<1>3. /\ r.known = TRUE /\ r.executed = FALSE /\ r.ready_at = now + delay
      /\ r.expires_at = r.ready_at + GracePeriod
  BY <1>1
<1>4. operation' = [operation EXCEPT ![o] = r]
  BY DEF Schedule
<1> HIDE DEF r
<1>5. /\ operation' \in [Ops -> Operation] /\ operation'[o] = r
      /\ \A q \in Ops \ {o} : operation'[q] = operation[q]
  BY <1>2, <1>4 DEF Inv, TypeOK
<1>6. operation[o] = NoOperation
  BY DEF Inv, TypeOK, Schedule, Unknown, Known
<1> QED
  BY <1>1, <1>3, <1>5, <1>6 DEF Schedule, Touches, Known, LongEnough

\* cancel marks a pending one.
LEMMA CancelEffect ==
  ASSUME Inv, NEW o \in Ops, Cancel(o)
  PROVE  /\ UNCHANGED <<now, min_delay, roles, performed>> /\ Touches(o)
         /\ operation' \in [Ops -> Operation]
         /\ operation[o].known /\ ~operation[o].executed
         /\ operation'[o].known /\ operation'[o].executed
         /\ operation'[o].ready_at = operation[o].ready_at
         /\ operation'[o].expires_at = operation[o].expires_at
<1>1. /\ UNCHANGED <<now, min_delay, roles, performed>>
      /\ operation' = [operation EXCEPT ![o].executed = TRUE]
      /\ operation[o].known /\ ~operation[o].executed
  BY DEF Cancel, Known
<1> QED BY <1>1 DEF Inv, TypeOK, Operation, Touches

\* execute marks a pending one and makes its calls.
LEMMA ExecuteEffect ==
  ASSUME Inv, NEW o \in Ops, Execute(o)
  PROVE  /\ UNCHANGED <<now, min_delay, roles>> /\ Touches(o)
         /\ operation' \in [Ops -> Operation] /\ performed' \in [Ops -> Nat]
         /\ operation[o].known /\ ~operation[o].executed
         /\ operation[o].ready_at <= now /\ now <= operation[o].expires_at
         /\ PredecessorDone(o)
         /\ operation'[o].known /\ operation'[o].executed
         /\ operation'[o].ready_at = operation[o].ready_at
         /\ operation'[o].expires_at = operation[o].expires_at
         /\ performed[o] = 0 /\ performed'[o] = 1
<1>1. /\ UNCHANGED <<now, min_delay, roles>>
      /\ operation' = [operation EXCEPT ![o].executed = TRUE]
      /\ performed' = [performed EXCEPT ![o] = @ + 1]
      /\ operation[o].known /\ ~operation[o].executed
      /\ operation[o].ready_at <= now /\ now <= operation[o].expires_at
      /\ PredecessorDone(o)
  BY DEF Execute, Known, InWindow
<1>2. performed[o] = 0
  <2>1. performed[o] \in Nat /\ performed[o] <= 1
    BY DEF Inv, TypeOK, PerformedOnce
  <2>2. performed[o] # 1
    BY <1>1 DEF Inv, PerformedOnce
  <2> QED BY <2>1, <2>2
<1>3. /\ performed' \in [Ops -> Nat] /\ performed'[o] = 1
      /\ \A q \in Ops \ {o} : performed'[q] = performed[q]
  BY <1>1, <1>2 DEF Inv, TypeOK
<1>4. /\ operation' \in [Ops -> Operation]
      /\ \A q \in Ops \ {o} : operation'[q] = operation[q]
      /\ operation'[o].known /\ operation'[o].executed
      /\ operation'[o].ready_at = operation[o].ready_at
      /\ operation'[o].expires_at = operation[o].expires_at
  BY <1>1 DEF Inv, TypeOK, Operation
<1> QED BY <1>1, <1>2, <1>3, <1>4 DEF Touches

-----------------------------------------------------------------------------
(* The invariant.                                                          *)

\* What the invariant says of one operation.
Stored(o) ==
  IF operation[o].known
  THEN operation[o].expires_at = operation[o].ready_at + GracePeriod
  ELSE operation[o] = NoOperation

Once(o) == performed[o] <= 1 /\ (performed[o] = 1 => operation[o].executed)

\* A call on one operation that keeps the invariant for it keeps the invariant.
LEMMA OneOperation ==
  ASSUME Inv, NEW o \in Ops, Touches(o), UNCHANGED <<now, min_delay, roles>>,
         operation' \in [Ops -> Operation], performed' \in [Ops -> Nat],
         Stored(o)', Once(o)'
  PROVE  Inv'
<1>1. ASSUME NEW q \in Ops
      PROVE  Stored(q)' /\ Once(q)'
  <2>1. Stored(q) /\ Once(q)
    BY DEF Inv, TypeOK, PerformedOnce, Stored, Once
  <2>2. CASE q # o
    <3>1. operation'[q] = operation[q] /\ performed'[q] = performed[q]
      BY <2>2 DEF Touches
    <3> QED BY <2>1, <3>1, Zenon DEF Stored, Once
  <2> QED BY <2>2
<1>2. {now', min_delay'} \subseteq Nat /\ roles' \subseteq Roles
  BY DEF Inv, TypeOK
<1> QED BY <1>1, <1>2, Zenon DEF Inv, TypeOK, PerformedOnce, Stored, Once

\* The clock, the delay and the roles touch no operation.
LEMMA QuietSteps ==
  ASSUME Inv, Tick \/ AdminCall \/ UNCHANGED vars
  PROVE  /\ Inv' /\ UNCHANGED <<operation, performed>>
         /\ now' \in {now, now + 1} /\ now' \in Nat /\ min_delay' \in Nat
         /\ now' = now \/ min_delay' = min_delay
<1>1. /\ UNCHANGED <<operation, performed>>
      /\ now' \in {now, now + 1} /\ now' \in Nat /\ min_delay' \in Nat
      /\ now' = now \/ min_delay' = min_delay
      /\ roles' \subseteq Roles
  BY TimelockAssumption DEF Tick, AdminCall, UpdateDelay, GrantRole, RevokeRole, vars,
     Inv, TypeOK
<1> QED BY <1>1 DEF Inv, TypeOK, PerformedOnce

\* Every step keeps the invariant.
LEMMA InvKept == Inv /\ [Next]_vars => Inv'
<1> SUFFICES ASSUME Inv, [Next]_vars PROVE Inv'
  OBVIOUS
<1>1. ASSUME NEW o \in Ops, NEW delay \in Delays, Schedule(o, delay)
      PROVE  Inv'
  <2>1. performed' = performed /\ performed' \in [Ops -> Nat]
    BY <1>1, ScheduleEffect DEF Inv, TypeOK
  <2>2. Stored(o)'
    BY <1>1, ScheduleEffect DEF Stored
  <2>3. Once(o) /\ ~operation[o].executed
    BY <1>1, ScheduleEffect DEF Inv, PerformedOnce, Once, NoOperation
  <2>4. Once(o)'
    BY <2>1, <2>3 DEF Once
  <2> QED BY <1>1, <2>1, <2>2, <2>4, ScheduleEffect, OneOperation
<1>2. ASSUME NEW o \in Ops, Cancel(o)
      PROVE  Inv'
  <2>1. performed' = performed /\ performed' \in [Ops -> Nat]
    BY <1>2, CancelEffect DEF Inv, TypeOK
  <2>2. Stored(o)'
    BY <1>2, CancelEffect DEF Inv, TypeOK, Stored
  <2>3. Once(o)'
    BY <1>2, <2>1, CancelEffect DEF Inv, PerformedOnce, Once
  <2> QED BY <1>2, <2>1, <2>2, <2>3, CancelEffect, OneOperation
<1>3. ASSUME NEW o \in Ops, Execute(o)
      PROVE  Inv'
  <2>1. Stored(o)'
    BY <1>3, ExecuteEffect DEF Inv, TypeOK, Stored
  <2>2. Once(o)'
    BY <1>3, ExecuteEffect DEF Once
  <2> QED BY <1>3, <2>1, <2>2, ExecuteEffect, OneOperation
<1> QED BY <1>1, <1>2, <1>3, QuietSteps DEF Next, OperationCall

\* Nothing is stored at first.
LEMMA InvStart == Init => Inv
<1>1. NoOperation \in Operation /\ ~NoOperation.known
  BY DEF NoOperation, Operation
<1> QED BY <1>1, TimelockAssumption DEF Init, Inv, TypeOK, PerformedOnce

\* The invariant holds in every reachable state.
LEMMA Invariance == Spec => []Inv
  BY InvStart, InvKept, PTL DEF Spec

-----------------------------------------------------------------------------
(* The theorems.                                                           *)

\* Every variable keeps its type, and every stored window its length.
THEOREM TypeCorrect == Spec => []TypeOK
  BY Invariance, PTL DEF Inv

\* The calls of an operation take effect at most once.
THEOREM IsPerformedOnce == Spec => []PerformedOnce
  BY Invariance, PTL DEF Inv

LateNeverRunsStep ==
  \A o \in Ops :
    operation[o].known /\ now > operation[o].ready_at + GracePeriod =>
      performed'[o] = performed[o] /\ operation'[o].ready_at = operation[o].ready_at

\* What was not executed in its window never takes effect.
THEOREM LateOnesNeverRun == Spec => LateNeverRuns
<1>1. ASSUME Inv, [Next]_vars PROVE LateNeverRunsStep
  <2> SUFFICES ASSUME NEW o \in Ops, operation[o].known,
                      now > operation[o].ready_at + GracePeriod
               PROVE  /\ performed'[o] = performed[o]
                      /\ operation'[o].ready_at = operation[o].ready_at
    BY DEF LateNeverRunsStep
  <2>1. CASE Tick \/ AdminCall \/ UNCHANGED vars
    BY <1>1, <2>1, QuietSteps
  <2>2. ASSUME NEW q \in Ops, NEW delay \in Delays, Schedule(q, delay)
        PROVE  operation'[o] = operation[o] /\ performed' = performed
    <3>1. q # o
      BY <2>2 DEF Schedule, Unknown, Known
    <3> QED BY <1>1, <2>2, <3>1, ScheduleEffect DEF Touches
  <2>3. ASSUME NEW q \in Ops, Cancel(q)
        PROVE  operation'[o].ready_at = operation[o].ready_at /\ performed' = performed
    <3>1. CASE q = o
      BY <1>1, <2>3, <3>1, CancelEffect
    <3>2. CASE q # o
      BY <1>1, <2>3, <3>2, CancelEffect DEF Touches
    <3> QED BY <3>1, <3>2
  <2>4. ASSUME NEW q \in Ops, Execute(q)
        PROVE  operation'[o] = operation[o] /\ performed'[o] = performed[o]
    <3>1. /\ operation[o].expires_at = operation[o].ready_at + GracePeriod
          /\ now \in Nat /\ operation[o] \in Operation
      BY <1>1 DEF Inv, TypeOK
    <3>2. ~(now <= operation[o].expires_at)
      BY <3>1, TimelockAssumption DEF Operation
    <3>3. q # o
      BY <1>1, <2>4, <3>2, ExecuteEffect
    <3> QED BY <1>1, <2>4, <3>3, ExecuteEffect DEF Touches
  <2> QED
    BY <1>1, <2>1, <2>2, <2>3, <2>4 DEF Next, OperationCall
<1> QED BY <1>1, Invariance, PTL DEF Spec, LateNeverRuns, LateNeverRunsStep

Done(o) ==
  /\ operation[o].known
  /\ operation[o].executed \/ now > operation[o].expires_at

DoneStays == \A o \in Ops : Done(o) => Done(o)'

LEMMA DoneShown == \A o \in Ops : (GetOperationState(o) = "Done") <=> Done(o)
BY DEF GetOperationState, Done, Known

\* What get_operation_state once shows as done, because it was executed, cancelled or
\* late, stays done: whoever gave up on an operation never sees it come back.
THEOREM DoneIsFinal ==
  Spec => [][\A o \in Ops :
               GetOperationState(o) = "Done" => GetOperationState(o)' = "Done"]_vars
<1>1. ASSUME Inv, [Next]_vars PROVE DoneStays
  <2> SUFFICES ASSUME NEW o \in Ops, Done(o) PROVE Done(o)'
    BY DEF DoneStays
  <2>1. now' \in Nat /\ now \in Nat /\ now' >= now /\ operation[o] \in Operation
    <3>1. now' = now \/ now' = now + 1
      <4>1. CASE Tick \/ AdminCall \/ UNCHANGED vars
        BY <1>1, <4>1, QuietSteps
      <4>2. ASSUME NEW q \in Ops, OperationCall(q) PROVE now' = now
        BY <4>2 DEF OperationCall, Schedule, Cancel, Execute
      <4> QED BY <1>1, <4>1, <4>2 DEF Next
    <3> QED BY <1>1, <3>1 DEF Inv, TypeOK
  <2>2. CASE operation'[o] = operation[o]
    BY <2>1, <2>2 DEF Done, Operation
  <2>3. CASE Tick \/ AdminCall \/ UNCHANGED vars
    BY <1>1, <2>2, <2>3, QuietSteps
  <2>4. ASSUME NEW q \in Ops, NEW delay \in Delays, Schedule(q, delay)
        PROVE  operation'[o] = operation[o]
    <3>1. q # o
      BY <2>4 DEF Schedule, Unknown, Known, Done
    <3> QED BY <1>1, <2>4, <3>1, ScheduleEffect DEF Touches
  <2>5. ASSUME NEW q \in Ops, Cancel(q) \/ Execute(q)
        PROVE  operation'[o] = operation[o] \/ Done(o)'
    <3>1. CASE q = o
      BY <1>1, <2>5, <3>1, CancelEffect, ExecuteEffect DEF Done
    <3>2. CASE q # o
      BY <1>1, <2>5, <3>2, CancelEffect, ExecuteEffect DEF Touches
    <3> QED BY <3>1, <3>2
  <2> QED
    BY <1>1, <2>2, <2>3, <2>4, <2>5 DEF Next, OperationCall
<1>2. Inv /\ [Next]_vars =>
        \A o \in Ops : GetOperationState(o) = "Done" => GetOperationState(o)' = "Done"
  <2>1. \A o \in Ops : (GetOperationState(o)' = "Done") <=> Done(o)'
    BY DEF GetOperationState, Done, Known
  <2> QED BY <1>1, <2>1, DoneShown DEF DoneStays
<1> QED BY <1>2, Invariance, PTL DEF Spec

-----------------------------------------------------------------------------
(* The timelock implements the abstract queue of delayed calls.            *)

QueueStep == [Queue!Next]_<<now, min_delay, Queue!queueVars>>

\* Steps that touch one operation move one entry of the queue.
LEMMA Moves ==
  ASSUME NEW o \in Ops, Touches(o)
  PROVE  /\ Stage' = [Stage EXCEPT ![o] = StageOf(o)']
         /\ ReadyAt' = [ReadyAt EXCEPT ![o] = operation'[o].ready_at]
         /\ Stage[o] = StageOf(o) /\ ReadyAt[o] = operation[o].ready_at
         /\ ReadyAt'[o] = operation'[o].ready_at
<1>1. \A q \in Ops \ {o} :
        StageOf(q)' = StageOf(q) /\ operation'[q].ready_at = operation[q].ready_at
  BY DEF Touches, StageOf, Known
<1> QED BY <1>1 DEF Stage, ReadyAt

\* The entry does not change when it becomes ready.
LEMMA ReadyKept ==
  ASSUME NEW o \in Ops, Touches(o), operation'[o].ready_at = operation[o].ready_at
  PROVE  ReadyAt' = ReadyAt
  BY DEF Touches, ReadyAt

\* Every step is a step of the queue, or none.
LEMMA StepMaps == Inv /\ [Next]_vars => QueueStep
<1> SUFFICES ASSUME Inv, [Next]_vars PROVE QueueStep
  OBVIOUS
<1>1. CASE Tick \/ AdminCall \/ UNCHANGED vars
  <2>1. Stage' = Stage /\ ReadyAt' = ReadyAt
    BY <1>1, QuietSteps DEF Stage, StageOf, Known, ReadyAt
  <2>2. /\ now' \in {now, now + 1} /\ min_delay' \in Nat
        /\ now' = now \/ min_delay' = min_delay
    BY <1>1, QuietSteps
  <2> QED BY <2>1, <2>2 DEF QueueStep, Queue!Next, Queue!queueVars
<1>2. ASSUME NEW o \in Ops, NEW delay \in Delays, Schedule(o, delay)
      PROVE  QueueStep
  <2>1. /\ UNCHANGED <<now, min_delay>> /\ Touches(o)
        /\ operation'[o].ready_at = now + delay /\ delay >= min_delay /\ delay \in Nat
        /\ operation'[o].known /\ ~operation'[o].executed /\ operation[o] = NoOperation
        /\ performed' = performed
        /\ Predecessor[o] # NoOp => operation[Predecessor[o]].known
    BY <1>2, ScheduleEffect
  <2>2. StageOf(o) = "unset"
    <3>1. ~Known(o)
      BY <2>1 DEF Known, NoOperation
    <3> QED BY <3>1, Zenon DEF StageOf
  <2>3. performed[o] = 0
    <3>1. ~operation[o].executed
      BY <2>1 DEF NoOperation
    <3> QED BY <3>1 DEF Inv, TypeOK, PerformedOnce
  <2>4. StageOf(o)' = "waiting"
    BY <2>1, <2>3 DEF StageOf, Known
  <2>5. Predecessor[o] # NoOp => Stage[Predecessor[o]] # "unset"
    BY <2>1, TimelockAssumption DEF Stage, StageOf, Known
  <2>6. ReadyAt'[o] >= now + min_delay
    BY <2>1, Moves DEF Inv, TypeOK
  <2>7. Queue!Schedule(o, ReadyAt'[o])
    BY <2>1, <2>2, <2>4, <2>5, <2>6, Moves DEF Queue!Schedule
  <2> QED BY <2>1, <2>7 DEF QueueStep, Queue!Next
<1>3. ASSUME NEW o \in Ops, Cancel(o)
      PROVE  QueueStep
  <2>1. /\ UNCHANGED <<now, min_delay, performed>> /\ Touches(o)
        /\ operation[o].known /\ ~operation[o].executed
        /\ operation'[o].known /\ operation'[o].executed
        /\ operation'[o].ready_at = operation[o].ready_at
    BY <1>3, CancelEffect
  <2>2. performed[o] = 0
    BY <2>1 DEF Inv, TypeOK, PerformedOnce
  <2>3. StageOf(o) = "waiting" /\ StageOf(o)' = "dropped"
    BY <2>1, <2>2 DEF StageOf, Known
  <2>4. Queue!Drop(o)
    BY <2>1, <2>3, Moves, ReadyKept DEF Queue!Drop
  <2> QED BY <2>1, <2>4 DEF QueueStep, Queue!Next
<1>4. ASSUME NEW o \in Ops, Execute(o)
      PROVE  QueueStep
  <2>1. /\ UNCHANGED <<now, min_delay>> /\ Touches(o)
        /\ operation[o].known /\ ~operation[o].executed
        /\ operation[o].ready_at <= now /\ now <= operation[o].expires_at
        /\ operation'[o].known /\ operation'[o].executed
        /\ operation'[o].ready_at = operation[o].ready_at
        /\ performed[o] = 0 /\ performed'[o] = 1 /\ PredecessorDone(o)
    BY <1>4, ExecuteEffect
  <2>2. StageOf(o) = "waiting" /\ StageOf(o)' = "ran"
    <3>1. StageOf(o) = "waiting"
      BY <2>1 DEF StageOf, Known
    <3>2. StageOf(o)' = "ran"
      BY <2>1 DEF StageOf, Known
    <3> QED BY <3>1, <3>2
  <2>3. Predecessor[o] # NoOp => Queue!Settled(Predecessor[o])
    <3>1. \A q \in Ops : performed[q] \in Nat /\ performed[q] <= 1
      BY DEF Inv, TypeOK, PerformedOnce
    <3>2. \A q \in Ops :
            operation[q].known /\ operation[q].executed => StageOf(q) \in {"ran", "dropped"}
      BY <3>1 DEF StageOf, Known
    <3> QED
      BY <2>1, <3>2, TimelockAssumption DEF PredecessorDone, Queue!Settled, Stage, Known
  <2>4. now \in ReadyAt[o]..(ReadyAt[o] + GracePeriod)
    <3>1. /\ operation[o].expires_at = operation[o].ready_at + GracePeriod
          /\ now \in Nat /\ operation[o] \in Operation
      BY <2>1 DEF Inv, TypeOK
    <3> QED BY <2>1, <3>1, Moves, TimelockAssumption DEF Operation
  <2>5. Queue!Run(o)
    BY <2>1, <2>2, <2>3, <2>4, Moves, ReadyKept DEF Queue!Run
  <2> QED BY <2>1, <2>5 DEF QueueStep, Queue!Next
<1> QED
  BY <1>1, <1>2, <1>3, <1>4 DEF Next, OperationCall

\* Each operation waits as long as was asked for and for its predecessor, and
\* takes effect once or not at all.
THEOREM Implementation == Spec => ImplementsDelayedCalls
<1>1. Init => now \in Nat /\ min_delay \in Nat /\ Queue!QueueInit
  BY TimelockAssumption DEF Init, Queue!QueueInit, Stage, StageOf, ReadyAt, Known, NoOperation
<1> QED
  BY <1>1, StepMaps, Invariance, PTL
     DEF Spec, ImplementsDelayedCalls, Queue!Spec, QueueStep

(***************************************************************************)
(* The administration of the settlement.                                   *)
(***************************************************************************)

Values == Parties \cup {Nobody, TRUE, FALSE}

\* What is proposed under the two keys of a token says which of them it is.
Tagged(key, value) ==
  /\ key[1] = "dst_token_add" => value = TRUE
  /\ key[1] = "dst_token_remove" => value = FALSE

PendingOK ==
  /\ pending \subseteq [key : Keys, value : Values, eta : Nat]
  /\ \A p, q \in pending : p.key = q.key => p = q
  /\ \A p \in pending : Tagged(p.key, p.value)

AdminInv == ledger_time \in Nat /\ office \in [Offices -> Parties \cup {Nobody}] /\ PendingOK

\* The notice that a proposal is.
NoticeFor(p) ==
  [matter |-> MatterOf(p.key), value |-> p.value, since |-> p.eta - AdminTimelockDelay]

\* Two proposals are never one notice.
LEMMA NoticesDiffer ==
  ASSUME NEW p \in [key : Keys, value : Values, eta : Nat],
         NEW q \in [key : Keys, value : Values, eta : Nat],
         Tagged(p.key, p.value), Tagged(q.key, q.value),
         NoticeFor(p) = NoticeFor(q)
  PROVE  p = q
<1>1. /\ MatterOf(p.key) = MatterOf(q.key) /\ p.value = q.value
      /\ p.eta - AdminTimelockDelay = q.eta - AdminTimelockDelay
  BY DEF NoticeFor
<1>2. p.eta = q.eta
  BY <1>1, AdminAssumption
<1>3. \A key \in Keys :
        /\ key = <<key[1], key[2]>>
        /\ key[1] \in {"office", "dst_token_add", "dst_token_remove", "chain"}
  BY DEF Keys
<1>4. p.key = q.key
  <2>1. TRUE # FALSE
    OBVIOUS
  <2>2. p.key[1] = q.key[1] /\ p.key[2] = q.key[2]
    BY <1>1, <1>3, <2>1 DEF MatterOf, Tagged
  <2> QED BY <1>3, <2>2
<1> QED BY <1>1, <1>2, <1>4

\* A proposal that takes the place of another under its key keeps them apart.
LEMMA ProposeKeeps ==
  ASSUME AdminInv, NEW key \in Keys, NEW value \in Values, Tagged(key, value),
         Propose(key, value)
  PROVE  AdminInv'
<1> DEFINE new == [key |-> key, value |-> value, eta |-> EtaOf(key)]
<1>1. pending' = Others(key) \cup {new} /\ UNCHANGED <<ledger_time, office>>
  BY DEF Propose
<1>2. new \in [key : Keys, value : Values, eta : Nat]
  BY AdminAssumption DEF AdminInv, EtaOf
<1>3. \A p \in Others(key) : p \in pending /\ p.key # key
  BY DEF Others
<1>4. PendingOK'
  BY <1>1, <1>2, <1>3 DEF AdminInv, PendingOK
<1> QED BY <1>1, <1>4 DEF AdminInv

\* What only takes proposals away keeps the rest.
LEMMA FewerKeeps ==
  ASSUME AdminInv, pending' \subseteq pending, ledger_time' \in Nat,
         office' \in [Offices -> Parties \cup {Nobody}]
  PROVE  AdminInv'
  BY DEF AdminInv, PendingOK

-----------------------------------------------------------------------------

\* A proposal is a notice given now, in place of any other under its key.
LEMMA ProposalIsGiven ==
  ASSUME AdminInv, NEW key \in Keys, NEW value \in Values, Tagged(key, value),
         Propose(key, value)
  PROVE  Change!Next
<1> DEFINE new == [key |-> key, value |-> value, eta |-> EtaOf(key)]
           dropped == {NoticeFor(p) : p \in {p \in pending : p.key = key}}
<1>1. /\ pending' = Others(key) \cup {new}
      /\ UNCHANGED <<ledger_time, office, allowed_dst, chain_live>>
  BY DEF Propose, allowVars
<1>2. new.eta - AdminTimelockDelay = ledger_time
  BY AdminAssumption DEF AdminInv, EtaOf
<1>3. NoticeFor(new) = [matter |-> MatterOf(key), value |-> value, since |-> ledger_time]
  BY <1>2 DEF NoticeFor
<1>4. Notices = {NoticeFor(p) : p \in pending} /\ Notices' = {NoticeFor(p) : p \in pending'}
  BY DEF Notices, NoticeFor
<1>5. dropped \subseteq {n \in Notices : n.matter = MatterOf(key)}
  BY <1>4 DEF NoticeFor
<1>6. \A p \in Others(key) : NoticeFor(p) \notin dropped
  <2> SUFFICES ASSUME NEW p \in Others(key), NEW q \in pending, q.key = key,
                      NoticeFor(p) = NoticeFor(q)
               PROVE  FALSE
    OBVIOUS
  <2>1. p \in pending /\ p.key # key
    BY DEF Others
  <2>2. p = q
    BY <2>1, NoticesDiffer DEF AdminInv, PendingOK
  <2> QED BY <2>1, <2>2
<1>7. Notices' = (Notices \ dropped) \cup {NoticeFor(new)}
  <2>1. \A p \in pending : p \in Others(key) \/ p.key = key
    BY DEF Others
  <2>2. Others(key) \subseteq pending
    BY DEF Others
  <2>3. Notices \ dropped = {NoticeFor(p) : p \in Others(key)}
    BY <1>4, <1>6, <2>1, <2>2
  <2> HIDE DEF new, dropped
  <2> QED BY <1>1, <1>4, <2>3
<1>8. InForce' = InForce
  BY <1>1 DEF InForce
<1>9. PICK n \in Notices' : n = NoticeFor(new)
  BY <1>7
<1>10. n.matter = MatterOf(key) /\ n.value = value
  BY <1>3, <1>9
<1>11. Change!Give(n.matter, n.value)
  <2>1. Notices' = (Notices \ dropped)
                     \cup {[matter |-> n.matter, value |-> n.value, since |-> ledger_time]}
    BY <1>3, <1>7, <1>10
  <2>2. dropped \in SUBSET {k \in Notices : k.matter = n.matter}
    BY <1>5, <1>10
  <2> HIDE DEF dropped
  <2> QED BY <1>8, <2>1, <2>2 DEF Change!Give
<1>12. Change!Changes
  BY <1>9, <1>11 DEF Change!Changes
<1> QED BY <1>1, <1>12 DEF Change!Next

\* The notice of a proposal goes when the proposal does, and alone.
LEMMA ProposalGone ==
  ASSUME AdminInv, NEW p \in pending, pending' = pending \ {p}
  PROVE  NoticeFor(p) \in Notices /\ Notices' = Notices \ {NoticeFor(p)}
<1>1. Notices = {NoticeFor(q) : q \in pending} /\ Notices' = {NoticeFor(q) : q \in pending'}
  BY DEF Notices, NoticeFor
<1>2. \A q \in pending : NoticeFor(q) = NoticeFor(p) => q = p
  BY NoticesDiffer DEF AdminInv, PendingOK
<1> QED BY <1>1, <1>2

\* A use of a proposal that is due makes its change.
LEMMA UseTakesEffect ==
  ASSUME AdminInv, NEW key \in Keys, NEW value \in Values, Use(key, value),
         ledger_time' = ledger_time, InForce' = [InForce EXCEPT ![MatterOf(key)] = value]
  PROVE  Change!Next
<1>1. PICK p \in pending :
        p.key = key /\ p.value = value /\ ledger_time >= p.eta /\ pending' = pending \ {p}
  BY DEF Use, Due
<1>2. PICK n \in Notices : n = NoticeFor(p)
  BY <1>1, ProposalGone
<1>3. Notices' = Notices \ {n}
  BY <1>1, <1>2, ProposalGone
<1>4. n.matter = MatterOf(key) /\ n.value = value /\ n.since = p.eta - AdminTimelockDelay
  BY <1>1, <1>2 DEF NoticeFor
<1>5. ledger_time >= n.since + AdminTimelockDelay
  <2>1. ledger_time \in Int /\ p.eta \in Int /\ AdminTimelockDelay \in Int
    BY AdminAssumption DEF AdminInv, PendingOK
  <2> QED BY <1>1, <1>4, <2>1
<1>6. Change!TakeEffect(n)
  BY <1>3, <1>4, <1>5 DEF Change!TakeEffect
<1>7. Change!Changes
  BY <1>2, <1>6 DEF Change!Changes
<1> QED BY <1>7 DEF Change!Next

\* A cancellation withdraws one notice.
LEMMA CancelIsWithdrawal ==
  ASSUME AdminInv, NEW key \in Keys, CancelPending(key)
  PROVE  Change!Next
<1>1. PICK p \in pending : p.key = key
  BY DEF CancelPending
<1>2. pending' = pending \ {p}
  BY <1>1 DEF CancelPending, Others, AdminInv, PendingOK
<1>3. PICK n \in Notices : n = NoticeFor(p)
  BY <1>2, ProposalGone
<1>4. Notices' = Notices \ {n}
  BY <1>2, <1>3, ProposalGone
<1>5. InForce' = InForce /\ ledger_time' = ledger_time
  BY DEF CancelPending, InForce, allowVars
<1>6. Change!Withdraw(n)
  BY <1>4, <1>5 DEF Change!Withdraw
<1>7. Change!Changes
  BY <1>3, <1>6 DEF Change!Changes
<1> QED BY <1>5, <1>7 DEF Change!Next

-----------------------------------------------------------------------------

\* Matters are pairs, of three kinds.
LEMMA MatterShape ==
  ASSUME NEW m \in Matters
  PROVE  /\ m = <<m[1], m[2]>>
         /\ m[1] \in {"office", "dst_token", "chain"}
         /\ m[1] = "office" => m[2] \in Offices
  BY DEF Matters

\* Filling an office is the use of the proposal for it.
LEMMA FillStep ==
  ASSUME AdminInv, NEW name \in Offices, NEW who \in Parties \cup {Nobody}, Fill(name, who)
  PROVE  AdminInv' /\ Change!Next
<1> DEFINE key == <<"office", name>>
<1>1. /\ key \in Keys /\ Tagged(key, who) /\ MatterOf(key) = key /\ key \in Matters
      /\ who \in Values
  BY DEF Keys, Tagged, MatterOf, Matters, Values
<1>2. /\ Use(key, who) /\ office' = [office EXCEPT ![name] = who]
      /\ UNCHANGED <<ledger_time, allowed_dst, chain_live>>
  BY DEF Fill, allowVars
<1>3. pending' \subseteq pending
  BY <1>2 DEF Use
<1>4. AdminInv'
  BY <1>2, <1>3, FewerKeeps DEF AdminInv
<1>5. InForce' = [InForce EXCEPT ![key] = who]
  <2>1. ASSUME NEW m \in Matters
        PROVE  InForce'[m] = IF m = key THEN who ELSE InForce[m]
    <3>1. CASE m[1] = "office"
      <4>1. m[2] \in Offices /\ m = <<"office", m[2]>>
        BY <3>1, MatterShape
      <4>2. InForce'[m] = office'[m[2]] /\ InForce[m] = office[m[2]]
        BY <3>1 DEF InForce
      <4>3. office'[m[2]] = IF m[2] = name THEN who ELSE office[m[2]]
        BY <1>2, <4>1 DEF AdminInv
      <4> QED BY <4>1, <4>2, <4>3
    <3>2. CASE m[1] # "office"
      BY <1>2, <3>2 DEF InForce
    <3> QED BY <3>1, <3>2
  <2>2. InForce = [m \in Matters |-> InForce[m]] /\ InForce' = [m \in Matters |-> InForce'[m]]
    BY DEF InForce
  <2> QED BY <1>1, <2>1, <2>2
<1>6. InForce' = [InForce EXCEPT ![MatterOf(key)] = who]
  BY <1>1, <1>5
<1>7. Change!Next
  <2> HIDE DEF key
  <2> QED BY <1>1, <1>2, <1>6, UseTakesEffect
<1> QED BY <1>4, <1>7

\* What proposing and filling an office do, whichever it is.
LEMMA OfficeCall ==
  ASSUME AdminInv, NEW name \in Offices, NEW who \in Parties \cup {Nobody},
         Propose(<<"office", name>>, who) \/ Fill(name, who)
  PROVE  AdminInv' /\ Change!Next
<1>1. <<"office", name>> \in Keys /\ Tagged(<<"office", name>>, who) /\ who \in Values
  BY DEF Keys, Tagged, Values
<1> QED BY <1>1, FillStep, ProposeKeeps, ProposalIsGiven

\* A token is put on the allowlist, or taken off it, by the use of its proposal.
LEMMA TokenUse ==
  ASSUME AdminInv, NEW t \in Tokens,
         ExecuteAddDstToken(t) \/ ExecuteRemoveDstToken(t)
  PROVE  AdminInv' /\ Change!Next
<1> DEFINE matter == <<"dst_token", t>>
           key(tag) == <<tag, t>>
<1>1. /\ key("dst_token_add") \in Keys /\ key("dst_token_remove") \in Keys
      /\ MatterOf(key("dst_token_add")) = matter /\ MatterOf(key("dst_token_remove")) = matter
      /\ matter \in Matters /\ TRUE \in Values /\ FALSE \in Values
  BY DEF Keys, MatterOf, Matters, Values
<1>2. UNCHANGED <<ledger_time, office, chain_live>> /\ pending' \subseteq pending
  BY DEF ExecuteAddDstToken, ExecuteRemoveDstToken, Use
<1>3. AdminInv'
  BY <1>2, FewerKeeps DEF AdminInv
<1>4. ASSUME NEW allowed \in BOOLEAN,
             \A x \in Tokens : (x \in allowed_dst') <=> IF x = t THEN allowed ELSE x \in allowed_dst
      PROVE  InForce' = [InForce EXCEPT ![matter] = allowed]
  <2>1. ASSUME NEW m \in Matters
        PROVE  InForce'[m] = IF m = matter THEN allowed ELSE InForce[m]
    <3>1. CASE m[1] = "dst_token"
      <4>1. m = <<"dst_token", m[2]>> /\ m[2] \in Tokens
        BY <3>1, MatterShape DEF Matters
      <4>2. InForce'[m] = (m[2] \in allowed_dst') /\ InForce[m] = (m[2] \in allowed_dst)
        BY <3>1 DEF InForce
      <4>3. m = matter <=> m[2] = t
        BY <4>1
      <4>4. CASE m[2] = t
        <5>1. (m[2] \in allowed_dst') <=> allowed
          BY <1>4, <4>1, <4>4
        <5>2. (m[2] \in allowed_dst') = allowed
          BY <5>1, Zenon
        <5> HIDE DEF matter
        <5> QED BY <4>2, <4>3, <4>4, <5>2
      <4>5. CASE m[2] # t
        <5>1. (m[2] \in allowed_dst') <=> (m[2] \in allowed_dst)
          BY <1>4, <4>1, <4>5
        <5>2. (m[2] \in allowed_dst') = (m[2] \in allowed_dst)
          BY <5>1, Z3
        <5> HIDE DEF matter
        <5> QED BY <4>2, <4>3, <4>5, <5>2
      <4> QED BY <4>4, <4>5
    <3>2. CASE m[1] # "dst_token"
      BY <1>2, <3>2 DEF InForce
    <3> QED BY <3>1, <3>2
  <2>2. InForce = [m \in Matters |-> InForce[m]] /\ InForce' = [m \in Matters |-> InForce'[m]]
    BY DEF InForce
  <2> QED BY <1>1, <2>1, <2>2
<1>5. CASE ExecuteAddDstToken(t)
  <2>1. Use(key("dst_token_add"), TRUE) /\ allowed_dst' = allowed_dst \cup {t}
    BY <1>5 DEF ExecuteAddDstToken
  <2>2. InForce' = [InForce EXCEPT ![MatterOf(key("dst_token_add"))] = TRUE]
    BY <1>1, <1>4, <2>1
  <2> HIDE DEF key
  <2> QED BY <1>1, <1>2, <1>3, <2>1, <2>2, UseTakesEffect
<1>6. CASE ExecuteRemoveDstToken(t)
  <2>1. Use(key("dst_token_remove"), FALSE) /\ allowed_dst' = allowed_dst \ {t}
    BY <1>6 DEF ExecuteRemoveDstToken
  <2>2. InForce' = [InForce EXCEPT ![MatterOf(key("dst_token_remove"))] = FALSE]
    BY <1>1, <1>4, <2>1
  <2> HIDE DEF key
  <2> QED BY <1>1, <1>2, <1>3, <2>1, <2>2, UseTakesEffect
<1> QED BY <1>5, <1>6

\* Every other call about a token proposes or cancels.
LEMMA TokenCall ==
  ASSUME AdminInv, NEW t \in Tokens, TokenStep(t)
  PROVE  AdminInv' /\ Change!Next
<1>1. /\ <<"dst_token_add", t>> \in Keys /\ Tagged(<<"dst_token_add", t>>, TRUE)
      /\ <<"dst_token_remove", t>> \in Keys /\ Tagged(<<"dst_token_remove", t>>, FALSE)
      /\ TRUE \in Values /\ FALSE \in Values
  BY DEF Keys, Tagged, Values
<1>2. CASE ProposeAddDstToken(t) \/ ProposeRemoveDstToken(t)
  BY <1>1, <1>2, ProposeKeeps, ProposalIsGiven DEF ProposeAddDstToken, ProposeRemoveDstToken
<1>3. ASSUME NEW key \in Keys, CancelPending(key)
      PROVE  AdminInv' /\ Change!Next
  <2>1. AdminInv'
    BY <1>3, FewerKeeps DEF CancelPending, Others, AdminInv
  <2> QED BY <1>3, <2>1, CancelIsWithdrawal
<1>4. CASE CancelPendingDstTokenAdd(t) \/ CancelPendingDstTokenRemove(t)
  BY <1>1, <1>3, <1>4 DEF CancelPendingDstTokenAdd, CancelPendingDstTokenRemove
<1> QED BY <1>2, <1>4, TokenUse DEF TokenStep

\* What a call about a chain does to what is in force.
LEMMA ChainInForce ==
  ASSUME AdminInv, NEW c \in Chains, NEW live \in BOOLEAN,
         UNCHANGED <<office, allowed_dst>>,
         \A x \in Chains : (x \in chain_live') <=> IF x = c THEN live ELSE x \in chain_live
  PROVE  InForce' = [InForce EXCEPT ![<<"chain", c>>] = live]
<1> DEFINE matter == <<"chain", c>>
<1>1. matter \in Matters
  BY DEF Matters
<1>2. ASSUME NEW m \in Matters
      PROVE  InForce'[m] = IF m = matter THEN live ELSE InForce[m]
  <2>1. CASE m[1] = "chain"
    <3>1. m = <<"chain", m[2]>> /\ m[2] \in Chains
      BY <2>1, MatterShape DEF Matters
    <3>2. InForce'[m] = (m[2] \in chain_live') /\ InForce[m] = (m[2] \in chain_live)
      BY <2>1 DEF InForce
    <3>3. m = matter <=> m[2] = c
      BY <3>1
    <3>4. CASE m[2] = c
      <4>1. (m[2] \in chain_live') <=> live
        BY <3>1, <3>4
      <4>2. (m[2] \in chain_live') = live
        BY <4>1, Zenon
      <4> HIDE DEF matter
      <4> QED BY <3>2, <3>3, <3>4, <4>2
    <3>5. CASE m[2] # c
      <4>1. (m[2] \in chain_live') <=> (m[2] \in chain_live)
        BY <3>1, <3>5
      <4>2. (m[2] \in chain_live') = (m[2] \in chain_live)
        BY <4>1, Z3
      <4> HIDE DEF matter
      <4> QED BY <3>2, <3>3, <3>5, <4>2
    <3> QED BY <3>4, <3>5
  <2>2. CASE m[1] # "chain"
    BY <2>2, MatterShape DEF InForce
  <2> QED BY <2>1, <2>2
<1>3. InForce = [m \in Matters |-> InForce[m]] /\ InForce' = [m \in Matters |-> InForce'[m]]
  BY DEF InForce
<1> QED BY <1>1, <1>2, <1>3

\* A chain goes live by the use of its proposal, and lapses at once.
LEMMA ChainCall ==
  ASSUME AdminInv, NEW c \in Chains, ChainStep(c)
  PROVE  AdminInv' /\ (Change!Next \/ UNCHANGED <<ledger_time, InForce, Notices>>)
<1> DEFINE key == <<"chain", c>>
<1>1. /\ key \in Keys /\ Tagged(key, TRUE) /\ MatterOf(key) = key
      /\ TRUE \in Values
  BY DEF Keys, Tagged, MatterOf, Values
<1>2. CASE AddAllowedSrcChain(c) \/ RemoveAllowedSrcChain(c)
  BY <1>2, FewerKeeps DEF AddAllowedSrcChain, RemoveAllowedSrcChain, AdminInv, InForce, Notices
<1>3. CASE ProposeChainOnboarding(c)
  BY <1>1, <1>3, ProposeKeeps, ProposalIsGiven DEF ProposeChainOnboarding
<1>4. CASE ExecuteChainOnboarding(c)
  <2>1. /\ UNCHANGED <<ledger_time, office, allowed_dst>> /\ Use(key, TRUE)
        /\ chain_live' = chain_live \cup {c}
    BY <1>4 DEF ExecuteChainOnboarding
  <2>2. AdminInv'
    BY <2>1, FewerKeeps DEF Use, AdminInv
  <2>3. InForce' = [InForce EXCEPT ![key] = TRUE]
    BY <2>1, ChainInForce
  <2>4. InForce' = [InForce EXCEPT ![MatterOf(key)] = TRUE]
    BY <1>1, <2>3
  <2> HIDE DEF key
  <2> QED BY <1>1, <2>1, <2>2, <2>4, UseTakesEffect
<1>5. CASE ExecuteChainOffboarding(c)
  <2>1. /\ UNCHANGED <<ledger_time, office, allowed_dst, pending>>
        /\ chain_live' = chain_live \ {c}
    BY <1>5 DEF ExecuteChainOffboarding
  <2>2. AdminInv'
    BY <2>1, FewerKeeps DEF AdminInv
  <2>3. InForce' = [InForce EXCEPT ![key] = FALSE]
    BY <2>1, ChainInForce
  <2>4. Notices' = Notices
    BY <2>1 DEF Notices
  <2>5. PICK matter \in {"chain"} \X Chains : matter = key
    OBVIOUS
  <2>6. Change!Lapse(matter)
    BY <2>3, <2>4, <2>5 DEF Change!Lapse
  <2>7. Change!Changes
    BY <2>5, <2>6 DEF Change!Changes
  <2> QED BY <2>1, <2>2, <2>7 DEF Change!Next
<1> QED BY <1>2, <1>3, <1>4, <1>5 DEF ChainStep

\* Every step of the administration is one that the abstract module allows.
LEMMA AdminMaps ==
  ASSUME AdminInv, [AdminNext]_<<ledger_time, adminVars>>
  PROVE  AdminInv' /\ [Change!Next]_Change!changeVars
<1>1. CASE UNCHANGED <<ledger_time, adminVars>>
  BY <1>1 DEF AdminInv, PendingOK, Change!changeVars, adminVars, allowVars, InForce, Notices
<1>2. CASE Later /\ UNCHANGED <<office, allowVars, pending, listVars>>
  <2>1. ledger_time' \in Nat /\ ledger_time' >= ledger_time
    BY <1>2, ClockAssumption DEF Later, AdminInv
  <2>2. AdminInv'
    BY <1>2, <2>1, FewerKeeps DEF AdminInv
  <2>3. InForce' = InForce /\ Notices' = Notices
    BY <1>2 DEF InForce, Notices, allowVars
  <2> QED BY <2>1, <2>2, <2>3 DEF Change!Next
<1>3. ASSUME NEW who \in Parties, OfficeStep(who)
      PROVE  AdminInv' /\ Change!Next
  BY <1>3, OfficeCall
     DEF OfficeStep, Offices, ProposeFeeRecipient, AcceptFeeRecipient, ProposeAdminTransfer,
         AcceptAdminTransfer, ProposeUpgrade, ExecuteUpgrade, ProposeOracle, ExecuteOracle
<1>4. ASSUME NEW policy \in Parties \cup {Nobody},
             ProposeSetPolicy(policy) \/ ExecuteSetPolicy(policy)
      PROVE  AdminInv' /\ Change!Next
  BY <1>4, OfficeCall DEF Offices, ProposeSetPolicy, ExecuteSetPolicy
<1>5. ASSUME NEW c \in Chains, ChainStep(c)
      PROVE  AdminInv' /\ [Change!Next]_Change!changeVars
  BY <1>5, ChainCall DEF Change!changeVars
<1> QED
  BY <1>1, <1>2, <1>3, <1>4, <1>5, TokenCall DEF AdminNext

\* Offices, tokens and chains of the settlement change by notice and after the delay, for
\* any parties, tokens, chains and delay.
THEOREM SettlementChangesByNotice == AdminSpec => ImplementsDelayedChanges
<1>1. AdminInit => AdminInv
  BY ClockAssumption, AdminAssumption
     DEF AdminInit, AdminInv, PendingOK, ClockInit, Offices
<1>2. AdminInit => Notices = {}
  BY DEF AdminInit, Notices
<1> QED
  BY <1>1, <1>2, AdminMaps, PTL DEF AdminSpec, ImplementsDelayedChanges, Change!Spec

(***************************************************************************)
(* The periphery.                                                          *)
(***************************************************************************)

\* No call moves the pointer but as the two steps allow.
LEMMA PointerStep ==
  ASSUME [PeripheryNext]_peripheryVars
  PROVE  [Pointer!Next]_Pointer!changeVars
<1> DEFINE holding == [matter \in {"settlement"} |-> settlement]
           note(core) == [matter |-> "settlement", value |-> core, since |-> 0]
           standing == {note(core) : core \in {pending_settlement} \ {NoCore}}
<1>1. CASE settlement' = settlement /\ pending_settlement' = pending_settlement
  BY <1>1 DEF Pointer!changeVars
<1>2. CASE AcceptSettlement
  <2>1. /\ pending_settlement # NoCore /\ settlement' = pending_settlement
        /\ pending_settlement' = NoCore
    BY <1>2 DEF AcceptSettlement, Forgotten
  <2>2. standing = {note(pending_settlement)} /\ standing' = {}
    BY <2>1
  <2>3. holding' = [holding EXCEPT !["settlement"] = pending_settlement]
    BY <2>1
  <2>4. PICK n \in standing : n = note(pending_settlement)
    BY <2>2
  <2>5. Pointer!TakeEffect(n)
    BY <2>2, <2>3, <2>4 DEF Pointer!TakeEffect
  <2>6. Pointer!Changes
    BY <2>4, <2>5 DEF Pointer!Changes
  <2>7. Pointer!Next
    BY <2>6 DEF Pointer!Next
  <2> QED BY <2>7
<1>3. ASSUME NEW core \in Cores, InitializePeriphery(core)
      PROVE  Pointer!Next
  <2>1. /\ settlement = NoCore /\ settlement' = core
        /\ pending_settlement' = pending_settlement
    BY <1>3 DEF InitializePeriphery, Configured
  <2>2. Pointer!Begin("settlement")
    BY <2>1 DEF Pointer!Begin
  <2> QED BY <2>2 DEF Pointer!Next, Pointer!Changes
<1>4. ASSUME NEW core \in Cores, ProposeSettlement(core)
      PROVE  Pointer!Next
  <2>1. settlement' = settlement /\ pending_settlement' = core /\ core # NoCore
    BY <1>4, PeripheryAssumption DEF ProposeSettlement
  <2>2. standing' = {note(core)}
    BY <2>1
  <2>3. standing' = (standing \ standing) \cup {note(core)}
    BY <2>2
  <2>4. standing = {n \in standing : n.matter = "settlement"}
    OBVIOUS
  <2>5. Pointer!Give(note(core).matter, note(core).value)
    BY <2>1, <2>3, <2>4 DEF Pointer!Give
  <2>6. \E n \in standing' : Pointer!Give(n.matter, n.value)
    BY <2>2, <2>5
  <2>7. Pointer!Changes
    BY <2>6 DEF Pointer!Changes
  <2> QED BY <2>7 DEF Pointer!Next
<1>5. ASSUME NEW core \in Cores, UpgradeCore(core)
      PROVE  settlement' = settlement /\ pending_settlement' = pending_settlement
  BY <1>5 DEF UpgradeCore
<1> QED
  BY <1>1, <1>2, <1>3, <1>4, <1>5 DEF PeripheryNext, peripheryVars

\* The pointer moves in two steps, for any cores and any upgrades of them.
THEOREM PointerMovesInTwoSteps == PeripherySpec => ImplementsTwoSteps
<1>1. PeripheryInit =>
        {[matter |-> "settlement", value |-> core, since |-> 0] :
           core \in {pending_settlement} \ {NoCore}} = {}
  BY DEF PeripheryInit
<1> QED
  BY <1>1, PointerStep, PTL DEF PeripherySpec, ImplementsTwoSteps, Pointer!Spec

(***************************************************************************)
(* The roles of the solver registry.                                       *)
(***************************************************************************)

\* The state a step of the roles leaves.
LEMMA RolesStep ==
  ASSUME RolesTypeOK, [RolesNext]_<<ledger_time, rolesVars>>
  PROVE  RolesTypeOK'
<1>1. CASE UNCHANGED <<ledger_time, rolesVars>>
  BY <1>1 DEF RolesTypeOK, rolesVars
<1>2. CASE Later /\ UNCHANGED rolesVars
  <2>1. ledger_time' \in Nat
    BY <1>2, ClockAssumption DEF Later, RolesTypeOK
  <2> QED BY <1>2, <2>1 DEF RolesTypeOK, rolesVars
<1>3. ASSUME NEW who \in Holders, AcceptAdmin(who)
      PROVE  RolesTypeOK'
  BY <1>3 DEF AcceptAdmin, RolesTypeOK, Nothing
<1>4. ASSUME NEW caller \in Holders, CancelAdminTransfer(caller) \/ CancelWriter(caller)
      PROVE  RolesTypeOK'
  BY <1>4 DEF CancelAdminTransfer, CancelWriter, RolesTypeOK, Nothing
<1>5. ASSUME NEW caller \in Holders, NEW who \in Holders,
             SetWriter(caller, who) \/ ExecuteWriter(caller, who)
      PROVE  RolesTypeOK'
  BY <1>5 DEF SetWriter, ExecuteWriter, RolesTypeOK, Nothing
<1>6. ASSUME NEW caller \in Holders, NEW who \in Holders,
             ProposeAdmin(caller, who) \/ ProposeWriter(caller, who)
      PROVE  RolesTypeOK'
  <2>1. NewPending(who) \in [who : Holders \cup {NoHolder}, eta : Nat]
    BY RolesAssumption DEF NewPending, RolesTypeOK
  <2> QED BY <1>6, <2>1 DEF ProposeAdmin, ProposeWriter, RolesTypeOK
<1> QED
  BY <1>1, <1>2, <1>3, <1>4, <1>5, <1>6 DEF RolesNext

\* What the two roles are held by, and the notices that stand, for the abstract module.
Held == [role \in {"admin", "writer"} |-> IF role = "admin" THEN admin ELSE writer]

Standing == NoticeOf("admin", pending_admin) \cup NoticeOf("writer", pending_writer)

\* A proposal stands as one notice, and no notice is of another role.
LEMMA NoticeShape ==
  ASSUME NEW role, NEW proposal
  PROVE  /\ \A n \in NoticeOf(role, proposal) :
              /\ n = [matter |-> role, value |-> proposal.who,
                      since |-> proposal.eta - RoleDelay]
              /\ proposal.who # NoHolder
         /\ proposal.who # NoHolder =>
              NoticeOf(role, proposal) =
                {[matter |-> role, value |-> proposal.who, since |-> proposal.eta - RoleDelay]}
         /\ proposal.who = NoHolder => NoticeOf(role, proposal) = {}
  BY DEF NoticeOf

\* A proposal is a notice given now, in place of any other of its role.
LEMMA ProposalIsNotice ==
  ASSUME RolesTypeOK, NEW caller \in Holders, NEW who \in Holders,
         ProposeAdmin(caller, who) \/ ProposeWriter(caller, who)
  PROVE  Handover!Next
<1> DEFINE given(role) == [matter |-> role, value |-> who, since |-> ledger_time]
<1>1. /\ NewPending(who).who = who /\ who # NoHolder
      /\ NewPending(who).eta - RoleDelay = ledger_time
  BY RolesAssumption DEF NewPending, RolesTypeOK
<1>2. CASE ProposeAdmin(caller, who)
  <2>1. /\ UNCHANGED <<ledger_time, admin, writer, pending_writer>>
        /\ pending_admin' = NewPending(who)
    BY <1>2 DEF ProposeAdmin
  <2>2. NoticeOf("admin", pending_admin') = {given("admin")}
    BY <1>1, <2>1, NoticeShape
  <2>3. Standing' = NoticeOf("admin", pending_admin') \cup NoticeOf("writer", pending_writer)
    BY <2>1 DEF Standing, NoticeOf
  <2>4. \A n \in NoticeOf("admin", pending_admin) : n.matter = "admin"
    BY NoticeShape
  <2>5. \A n \in NoticeOf("writer", pending_writer) : n.matter = "writer"
    BY NoticeShape
  <2>6. NoticeOf("admin", pending_admin) \subseteq {n \in Standing : n.matter = "admin"}
    BY <2>4 DEF Standing
  <2>7. Standing' = (Standing \ NoticeOf("admin", pending_admin)) \cup {given("admin")}
    BY <2>2, <2>3, <2>4, <2>5 DEF Standing
  <2>8. PICK n \in Standing' : n = given("admin")
    BY <2>7
  <2>9. Handover!Give(n.matter, n.value)
    BY <2>1, <2>6, <2>7, <2>8 DEF Handover!Give, Standing, Held
  <2>10. Handover!Changes
    BY <2>8, <2>9 DEF Handover!Changes, Standing
  <2> QED BY <2>1, <2>10 DEF Handover!Next
<1>3. CASE ProposeWriter(caller, who)
  <2>1. /\ UNCHANGED <<ledger_time, admin, writer, pending_admin>>
        /\ pending_writer' = NewPending(who)
    BY <1>3 DEF ProposeWriter
  <2>2. NoticeOf("writer", pending_writer') = {given("writer")}
    BY <1>1, <2>1, NoticeShape
  <2>3. Standing' = NoticeOf("admin", pending_admin) \cup NoticeOf("writer", pending_writer')
    BY <2>1 DEF Standing, NoticeOf
  <2>4. \A n \in NoticeOf("admin", pending_admin) : n.matter = "admin"
    BY NoticeShape
  <2>5. \A n \in NoticeOf("writer", pending_writer) : n.matter = "writer"
    BY NoticeShape
  <2>6. NoticeOf("writer", pending_writer) \subseteq {n \in Standing : n.matter = "writer"}
    BY <2>5 DEF Standing
  <2>7. Standing' = (Standing \ NoticeOf("writer", pending_writer)) \cup {given("writer")}
    BY <2>2, <2>3, <2>4, <2>5 DEF Standing
  <2>8. PICK n \in Standing' : n = given("writer")
    BY <2>7
  <2>9. Handover!Give(n.matter, n.value)
    BY <2>1, <2>6, <2>7, <2>8 DEF Handover!Give, Standing, Held
  <2>10. Handover!Changes
    BY <2>8, <2>9 DEF Handover!Changes, Standing
  <2> QED BY <2>1, <2>10 DEF Handover!Next
<1> QED BY <1>2, <1>3

\* A role is handed over by the notice that stands for it, when its time has come.
LEMMA HandoverIsByNotice ==
  ASSUME RolesTypeOK, NEW caller \in Holders, NEW who \in Holders,
         AcceptAdmin(who) \/ ExecuteWriter(caller, who)
  PROVE  Handover!Next
<1> DEFINE note(role, proposal) ==
             [matter |-> role, value |-> who, since |-> proposal.eta - RoleDelay]
<1>1. who # NoHolder /\ Nothing.who = NoHolder
  BY RolesAssumption DEF Nothing
<1>2. \A n \in NoticeOf("admin", pending_admin) : n.matter = "admin"
  BY NoticeShape
<1>3. \A n \in NoticeOf("writer", pending_writer) : n.matter = "writer"
  BY NoticeShape
<1>4. CASE AcceptAdmin(who)
  <2>1. /\ UNCHANGED <<ledger_time, writer, pending_writer>>
        /\ pending_admin.who = who /\ ledger_time >= pending_admin.eta
        /\ admin' = who /\ pending_admin' = Nothing
    BY <1>4 DEF AcceptAdmin, Ripe
  <2>2. /\ NoticeOf("admin", pending_admin) = {note("admin", pending_admin)}
        /\ NoticeOf("admin", pending_admin') = {}
    BY <1>1, <2>1, NoticeShape
  <2>3. Standing' = NoticeOf("admin", pending_admin') \cup NoticeOf("writer", pending_writer)
    BY <2>1 DEF Standing, NoticeOf
  <2>4. PICK n \in Standing : n = note("admin", pending_admin)
    BY <2>2 DEF Standing
  <2>5. Standing' = Standing \ {n}
    BY <1>3, <2>2, <2>3, <2>4 DEF Standing
  <2>6. ledger_time >= n.since + RoleDelay
    <3>1. ledger_time \in Int /\ pending_admin.eta \in Int /\ RoleDelay \in Int
      BY RolesAssumption DEF RolesTypeOK
    <3> QED BY <2>1, <2>4, <3>1
  <2>7. Held' = [Held EXCEPT !["admin"] = who]
    BY <2>1 DEF Held
  <2>8. Handover!TakeEffect(n)
    BY <2>4, <2>5, <2>6, <2>7 DEF Handover!TakeEffect, Standing, Held
  <2>9. Handover!Changes
    BY <2>4, <2>8 DEF Handover!Changes, Standing
  <2> QED BY <2>1, <2>9 DEF Handover!Next
<1>5. CASE ExecuteWriter(caller, who)
  <2>1. /\ UNCHANGED <<ledger_time, admin, pending_admin>>
        /\ pending_writer.who = who /\ ledger_time >= pending_writer.eta
        /\ writer' = who /\ pending_writer' = Nothing
    BY <1>5 DEF ExecuteWriter, Ripe
  <2>2. /\ NoticeOf("writer", pending_writer) = {note("writer", pending_writer)}
        /\ NoticeOf("writer", pending_writer') = {}
    BY <1>1, <2>1, NoticeShape
  <2>3. Standing' = NoticeOf("admin", pending_admin) \cup NoticeOf("writer", pending_writer')
    BY <2>1 DEF Standing, NoticeOf
  <2>4. PICK n \in Standing : n = note("writer", pending_writer)
    BY <2>2 DEF Standing
  <2>5. Standing' = Standing \ {n}
    BY <1>2, <2>2, <2>3, <2>4 DEF Standing
  <2>6. ledger_time >= n.since + RoleDelay
    <3>1. ledger_time \in Int /\ pending_writer.eta \in Int /\ RoleDelay \in Int
      BY RolesAssumption DEF RolesTypeOK
    <3> QED BY <2>1, <2>4, <3>1
  <2>7. Held' = [Held EXCEPT !["writer"] = who]
    BY <2>1 DEF Held
  <2>8. Handover!TakeEffect(n)
    BY <2>4, <2>5, <2>6, <2>7 DEF Handover!TakeEffect, Standing, Held
  <2>9. Handover!Changes
    BY <2>4, <2>8 DEF Handover!Changes, Standing
  <2> QED BY <2>1, <2>9 DEF Handover!Next
<1> QED BY <1>4, <1>5

\* A cancellation withdraws the notice that stands, if one does.
LEMMA CancelWithdraws ==
  ASSUME RolesTypeOK, NEW caller \in Holders,
         CancelAdminTransfer(caller) \/ CancelWriter(caller)
  PROVE  Handover!Next
<1>1. Nothing.who = NoHolder
  BY DEF Nothing
<1>2. /\ \A n \in NoticeOf("admin", pending_admin) : n.matter = "admin"
      /\ \A n \in NoticeOf("writer", pending_writer) : n.matter = "writer"
  BY NoticeShape
<1>3. UNCHANGED <<ledger_time, admin, writer>>
  BY DEF CancelAdminTransfer, CancelWriter
<1>4. CASE Standing' = Standing
  <2>1. ledger_time \in Nat
    BY DEF RolesTypeOK
  <2> QED BY <1>3, <1>4, <2>1 DEF Handover!Next, Standing
<1>5. CASE Standing' # Standing
  <2>1. PICK n \in Standing : Standing' = Standing \ {n}
    <3>1. CASE CancelAdminTransfer(caller)
      <4>1. pending_admin' = Nothing /\ pending_writer' = pending_writer
        BY <3>1 DEF CancelAdminTransfer
      <4>2. Standing' = NoticeOf("writer", pending_writer)
        BY <1>1, <4>1 DEF Standing, NoticeOf
      <4>3. pending_admin.who # NoHolder
        BY <1>5, <4>2, NoticeShape DEF Standing
      <4>4. PICK n : NoticeOf("admin", pending_admin) = {n}
        BY <4>3, NoticeShape
      <4> QED BY <1>2, <4>2, <4>4 DEF Standing
    <3>2. CASE CancelWriter(caller)
      <4>1. pending_writer' = Nothing /\ pending_admin' = pending_admin
        BY <3>2 DEF CancelWriter
      <4>2. Standing' = NoticeOf("admin", pending_admin)
        BY <1>1, <4>1 DEF Standing, NoticeOf
      <4>3. pending_writer.who # NoHolder
        BY <1>5, <4>2, NoticeShape DEF Standing
      <4>4. PICK n : NoticeOf("writer", pending_writer) = {n}
        BY <4>3, NoticeShape
      <4> QED BY <1>2, <4>2, <4>4 DEF Standing
    <3> QED BY <3>1, <3>2
  <2>2. Handover!Withdraw(n)
    BY <1>3, <2>1 DEF Handover!Withdraw, Standing
  <2>3. Handover!Changes
    BY <2>1, <2>2 DEF Handover!Changes, Standing
  <2> QED BY <1>3, <2>3 DEF Handover!Next
<1> QED BY <1>4, <1>5

\* Every step of the roles is one that the abstract module allows.
LEMMA RolesMap ==
  ASSUME RolesTypeOK, [RolesNext]_<<ledger_time, rolesVars>>
  PROVE  [Handover!Next]_Handover!changeVars
<1>1. CASE UNCHANGED <<ledger_time, rolesVars>>
  BY <1>1 DEF Handover!changeVars, rolesVars
<1>2. CASE Later /\ UNCHANGED rolesVars
  <2>1. ledger_time' >= ledger_time
    BY <1>2, ClockAssumption DEF Later, RolesTypeOK
  <2> QED BY <1>2, <2>1 DEF Handover!Next, rolesVars
<1>3. ASSUME NEW caller \in Holders, NEW who \in Holders, SetWriter(caller, who)
      PROVE  Handover!Next
  <2>1. /\ UNCHANGED <<ledger_time, admin, pending_admin, pending_writer>>
        /\ writer = NoHolder /\ writer' = who
    BY <1>3 DEF SetWriter, WriterMissing
  <2>2. Held["writer"] = NoHolder /\ Held' = [Held EXCEPT !["writer"] = Held'["writer"]]
    BY <2>1 DEF Held
  <2>3. Handover!Begin("writer")
    BY <2>1, <2>2 DEF Handover!Begin, Held
  <2>4. Handover!Changes
    BY <2>3 DEF Handover!Changes
  <2> QED BY <2>1, <2>4 DEF Handover!Next
<1>4. ASSUME NEW who \in Holders, AcceptAdmin(who)
      PROVE  Handover!Next
  BY <1>4, HandoverIsByNotice
<1> QED
  BY <1>1, <1>2, <1>3, <1>4, ProposalIsNotice, HandoverIsByNotice, CancelWithdraws
     DEF RolesNext

\* The registry's roles are handed over by notice and after the delay, for any holders
\* and any delay.
THEOREM RolesChangeByNotice == RolesSpec => ImplementsRoleChanges
<1>1. RolesInit => RolesTypeOK
  BY ClockAssumption, RolesAssumption DEF RolesInit, RolesTypeOK, ClockInit, Nothing
<1>2. RolesInit =>
        NoticeOf("admin", pending_admin) \cup NoticeOf("writer", pending_writer) = {}
  BY DEF RolesInit, Nothing, NoticeOf
<1> QED
  BY <1>1, <1>2, RolesStep, RolesMap, PTL
     DEF RolesSpec, ImplementsRoleChanges, Handover!Spec

(***************************************************************************)
(* The proof registry.                                                     *)
(***************************************************************************)

\* What a fill was gated on, and when a proof came in.
Backed == \A i \in gated : ValidateProof(i)

InThePast == \A i \in Proved : proof[i].received_at <= ledger_time

ProofInv == ProofTypeOK /\ Backed /\ InThePast /\ MessagesUsedOnce

\* What storing a new proof does, and that it leaves the others alone.
LEMMA StoreEffect ==
  ASSUME ProofTypeOK, NEW payload \in Payload, NEW sequence \in Nat,
         Unproved(payload.intent), Store(payload, sequence)
  PROVE  /\ Proved' = Proved \cup {payload.intent} /\ Proved' \subseteq IntentIds
         /\ proof' \in [Proved' -> ProofRecord]
         /\ \A i \in Proved : i # payload.intent /\ proof'[i] = proof[i]
         /\ proof'[payload.intent].src_chain_id = payload.src_chain
         /\ proof'[payload.intent].vaa_sequence = sequence
         /\ proof'[payload.intent].received_at = ledger_time
<1> DEFINE new == [src_chain_id |-> payload.src_chain, src_amount |-> payload.src_amount,
                   vaa_sequence |-> sequence, received_at |-> ledger_time]
<1>1. payload.intent \in IntentIds /\ payload.src_chain \in Nat /\ payload.src_amount \in Int
  BY DEF Payload
<1>2. new \in ProofRecord
  BY <1>1 DEF ProofRecord, ProofTypeOK
<1>3. proof' = [i \in Proved \cup {payload.intent} |->
                  IF i = payload.intent THEN new ELSE proof[i]]
  BY DEF Store
<1>4. Proved' = Proved \cup {payload.intent}
  BY <1>3 DEF Proved
<1>5. \A i \in Proved : i # payload.intent /\ proof[i] \in ProofRecord
  BY DEF Unproved, ProofTypeOK
<1>6. new.src_chain_id = payload.src_chain /\ new.vaa_sequence = sequence
      /\ new.received_at = ledger_time
  OBVIOUS
<1> HIDE DEF new
<1> QED BY <1>1, <1>2, <1>3, <1>4, <1>5, <1>6 DEF ProofTypeOK

\* A proof that is stored for a message of either bridge keeps what the invariant says,
\* if its chain and sequence, when they count, are new.
LEMMA StoreKeeps ==
  ASSUME ProofInv, NEW payload \in Payload, NEW sequence \in Nat,
         Unproved(payload.intent), Store(payload, sequence),
         UNCHANGED <<ledger_time, sourceVars, gated>>,
         seen_vaa \subseteq seen_vaa', seen_vaa' \subseteq ChainIds \X Nat,
         sequence # 0 => /\ <<payload.src_chain, sequence>> \notin seen_vaa
                         /\ <<payload.src_chain, sequence>> \in seen_vaa'
  PROVE  ProofInv'
<1> DEFINE d == payload.intent
<1>1. /\ Proved' = Proved \cup {d} /\ Proved' \subseteq IntentIds
      /\ proof' \in [Proved' -> ProofRecord]
      /\ \A i \in Proved : i # d /\ proof'[i] = proof[i]
      /\ proof'[d].src_chain_id = payload.src_chain
      /\ proof'[d].vaa_sequence = sequence
      /\ proof'[d].received_at = ledger_time
  BY StoreEffect DEF ProofInv
<1>2. ProofTypeOK'
  BY <1>1 DEF ProofInv, ProofTypeOK, sourceVars
<1>3. Backed'
  BY <1>1 DEF ProofInv, Backed, ValidateProof
<1>4. InThePast'
  BY <1>1 DEF ProofInv, InThePast, ProofTypeOK
<1> DEFINE used(i) == <<proof[i].src_chain_id, proof[i].vaa_sequence>>
           new == <<payload.src_chain, sequence>>
<1>5. used(d)' = new /\ \A i \in Proved : used(i)' = used(i)
  BY <1>1
<1>6. \A i \in Proved : used(i)[2] # 0 =>
        used(i) \in seen_vaa /\ \A j \in Proved : used(j) = used(i) => j = i
  BY DEF ProofInv, MessagesUsedOnce
<1>7. \A i \in Proved' : used(i)'[2] # 0 =>
        used(i)' \in seen_vaa' /\ \A j \in Proved' : used(j)' = used(i)' => j = i
  <2> SUFFICES ASSUME NEW i \in Proved', used(i)'[2] # 0
               PROVE  /\ used(i)' \in seen_vaa'
                      /\ \A j \in Proved' : used(j)' = used(i)' => j = i
    OBVIOUS
  <2>1. new[2] = sequence
    OBVIOUS
  <2> HIDE DEF used, new
  <2>2. CASE i = d
    <3>1. sequence # 0
      BY <1>5, <2>1, <2>2
    <3>2. new \notin seen_vaa /\ new \in seen_vaa'
      BY <3>1 DEF new
    <3>3. \A j \in Proved : used(j) # new
      BY <1>6, <2>1, <3>1, <3>2
    <3> QED BY <1>1, <1>5, <2>2, <3>2, <3>3
  <2>3. CASE i \in Proved
    <3>1. used(i) \in seen_vaa /\ used(i)[2] # 0
      BY <1>5, <1>6, <2>3
    <3>2. new # used(i)
      <4>1. CASE sequence = 0
        BY <2>1, <3>1, <4>1
      <4>2. CASE sequence # 0
        BY <3>1, <4>2 DEF new
      <4> QED BY <4>1, <4>2
    <3> QED BY <1>1, <1>5, <1>6, <2>3, <3>1, <3>2
  <2> QED BY <1>1, <2>2, <2>3
<1>8. MessagesUsedOnce'
  BY <1>7 DEF MessagesUsedOnce
<1> QED BY <1>2, <1>3, <1>4, <1>8 DEF ProofInv

\* Every step keeps the invariant, and no proof is replaced.
LEMMA ProofStep ==
  ASSUME ProofInv, [ProofNext]_<<ledger_time, proofVars>>
  PROVE  /\ ProofInv'
         /\ ledger_time' \in {ledger_time, ledger_time + 1}
         /\ \A i \in Proved : i \in Proved' /\ proof'[i] = proof[i]
<1> USE DEF sourceVars
<1>1. CASE Later /\ UNCHANGED <<sourceVars, proof, seen_vaa, gated>>
  BY <1>1 DEF Later, ProofInv, ProofTypeOK, Backed, ValidateProof, InThePast,
     MessagesUsedOnce, Proved, ProofRecord
<1>2. CASE SourceStep
  <2>1. UNCHANGED <<ledger_time, proof, seen_vaa, gated>>
        /\ emitter' \in [ChainIds -> Emitters \cup {NoEmitter}]
        /\ axelar_source' \in [AxelarChains -> Emitters \cup {NoEmitter}]
    BY <1>2 DEF SourceStep, SetAuthorizedEmitter, RemoveAuthorizedEmitter,
       SetAuthorizedAxelarSource, RemoveAuthorizedAxelarSource, ProofInv, ProofTypeOK
  <2> QED
    BY <2>1 DEF ProofInv, ProofTypeOK, Backed, ValidateProof, InThePast, MessagesUsedOnce,
       Proved
<1>3. ASSUME NEW vaa \in Vaas, ReceiveMessage(vaa) PROVE ProofInv' /\ Store(vaa.payload, vaa.sequence)
  <2>1. /\ vaa.chain \in ChainIds /\ vaa.sequence \in Nat /\ vaa.payload \in Payload
    BY ProofAssumption
  <2>2. /\ Unproved(vaa.payload.intent) /\ Store(vaa.payload, vaa.sequence)
        /\ vaa.payload.src_chain = vaa.chain
        /\ <<vaa.chain, vaa.sequence>> \notin seen_vaa
        /\ seen_vaa' = seen_vaa \cup {<<vaa.chain, vaa.sequence>>}
        /\ UNCHANGED <<ledger_time, sourceVars, gated>>
    BY <1>3 DEF ReceiveMessage, NewSequence
  <2>3. seen_vaa \subseteq seen_vaa' /\ seen_vaa' \subseteq ChainIds \X Nat
    BY <2>1, <2>2 DEF ProofInv, ProofTypeOK
  <2> QED BY <2>1, <2>2, <2>3, StoreKeeps
<1>4. ASSUME NEW m \in AxelarMessages, ReceiveMessageAxelar(m)
      PROVE  ProofInv' /\ Store(m.payload, 0)
  <2>1. m.payload \in Payload
    BY ProofAssumption
  <2>2. /\ Unproved(m.payload.intent) /\ Store(m.payload, 0)
        /\ UNCHANGED <<ledger_time, sourceVars, seen_vaa, gated>>
    BY <1>4 DEF ReceiveMessageAxelar
  <2>3. seen_vaa \subseteq seen_vaa' /\ seen_vaa' \subseteq ChainIds \X Nat
    BY <2>2 DEF ProofInv, ProofTypeOK
  <2> QED BY <2>1, <2>2, <2>3, StoreKeeps
<1>5. ASSUME NEW i \in IntentIds, GatedFill(i) PROVE ProofInv'
  BY <1>5 DEF GatedFill, ProofInv, ProofTypeOK, Backed, ValidateProof, InThePast,
     MessagesUsedOnce, Proved
<1>6. CASE UNCHANGED <<ledger_time, proofVars>>
  BY <1>6 DEF proofVars, ProofInv, ProofTypeOK, Backed, ValidateProof, InThePast,
     MessagesUsedOnce, Proved
<1>7. ProofInv'
  BY <1>1, <1>2, <1>3, <1>4, <1>5, <1>6 DEF ProofNext
<1>8. ledger_time' \in {ledger_time, ledger_time + 1}
  BY DEF ProofNext, Later, SourceStep, SetAuthorizedEmitter, RemoveAuthorizedEmitter,
     SetAuthorizedAxelarSource, RemoveAuthorizedAxelarSource, ReceiveMessage,
     ReceiveMessageAxelar, GatedFill, proofVars
<1>9. \A i \in Proved : i \in Proved' /\ proof'[i] = proof[i]
  <2>1. ASSUME NEW vaa \in Vaas, ReceiveMessage(vaa)
        PROVE  \A i \in Proved : i \in Proved' /\ proof'[i] = proof[i]
    <3>1. vaa.sequence \in Nat /\ vaa.payload \in Payload
      BY ProofAssumption
    <3>2. Unproved(vaa.payload.intent)
      BY <2>1 DEF ReceiveMessage
    <3> QED BY <1>3, <2>1, <3>1, <3>2, StoreEffect DEF ProofInv
  <2>2. ASSUME NEW m \in AxelarMessages, ReceiveMessageAxelar(m)
        PROVE  \A i \in Proved : i \in Proved' /\ proof'[i] = proof[i]
    <3>1. m.payload \in Payload
      BY ProofAssumption
    <3>2. Unproved(m.payload.intent)
      BY <2>2 DEF ReceiveMessageAxelar
    <3> QED BY <1>4, <2>2, <3>1, <3>2, StoreEffect DEF ProofInv
  <2>3. CASE proof' = proof
    BY <2>3 DEF Proved
  <2> QED
    BY <2>1, <2>2, <2>3 DEF ProofNext, SourceStep, SetAuthorizedEmitter,
       RemoveAuthorizedEmitter, SetAuthorizedAxelarSource, RemoveAuthorizedAxelarSource,
       GatedFill, proofVars
<1> QED BY <1>7, <1>8, <1>9

LEMMA ProofStart == ProofInit => ProofInv
<1> SUFFICES ASSUME ProofInit PROVE ProofInv
  OBVIOUS
<1>1. Proved = {} /\ proof = << >>
  BY DEF Proved, ProofInit
<1>2. proof \in [{} -> ProofRecord]
  BY <1>1
<1> QED
  BY <1>1, <1>2 DEF ProofInit, ClockInit, ProofInv, ProofTypeOK, Backed, InThePast,
     MessagesUsedOnce

LEMMA ProofInvariance == ProofSpec => []ProofInv
<1>1. ProofInv /\ [ProofNext]_<<ledger_time, proofVars>> => ProofInv'
  BY ProofStep
<1> QED BY <1>1, ProofStart, PTL DEF ProofSpec

\* A signed message proves one intent, whatever the bridges deliver, how often and in
\* what order, and whoever is authorized to send in between.
THEOREM MessagesCountOnce == ProofSpec => []MessagesUsedOnce
BY ProofInvariance, PTL DEF ProofInv

\* What was proved stands: gated fills stay backed and stale proofs stay stale.
THEOREM ProofsDoStand == ProofSpec => ProofsStand
<1> DEFINE A == /\ \A i \in gated' : ValidateProof(i)'
                /\ \A i \in Proved : ~Fresh(i) => ~Fresh(i)'
<1>1. ASSUME ProofInv, [ProofNext]_<<ledger_time, proofVars>> PROVE A
  <2>1. /\ ProofInv' /\ ledger_time' \in {ledger_time, ledger_time + 1}
        /\ \A i \in Proved : i \in Proved' /\ proof'[i] = proof[i]
    BY <1>1, ProofStep
  <2>2. \A i \in gated' : ValidateProof(i)'
    BY <2>1 DEF ProofInv, Backed
  <2>3. ASSUME NEW i \in Proved, ~Fresh(i) PROVE ~Fresh(i)'
    <3>1. proof[i].received_at \in Nat /\ ledger_time \in Nat /\ ValidityWindow \in Nat
      BY <1>1, ProofAssumption DEF ProofInv, ProofTypeOK, ProofRecord
    <3> QED BY <2>1, <2>3, <3>1 DEF Fresh
  <2> QED BY <2>2, <2>3
<1> QED BY <1>1, ProofInvariance, PTL DEF ProofSpec, ProofsStand

(***************************************************************************)
(* The enumerable sets of the settlement.                                  *)
(***************************************************************************)

Entries == Members \cup {Gap}

\* Every place that the count reaches, and every indexed one, is in its page; and once
\* there is a member, the first page is not empty.
ListInv ==
  /\ ListTypeOK
  /\ \A f \in 0..(count - 1) : PageOf(f) \in Pages /\ InPage(f)
  /\ \A x \in DOMAIN index : PageOf(index[x]) \in Pages /\ InPage(index[x])
  /\ DOMAIN index # {} => 0 \in Pages /\ page[0] # <<>>

\* A place is its page and its slot, and the place after it is the next slot or opens
\* a page.
LEMMA Places ==
  /\ PageOf(0) = 0 /\ SlotOf(0) = 1
  /\ \A f \in Nat : PageOf(f) \in Nat /\ SlotOf(f) \in Nat \ {0}
  /\ \A f \in Nat \ {0} : SlotOf(f) # 1 =>
       PageOf(f - 1) = PageOf(f) /\ SlotOf(f - 1) = SlotOf(f) - 1
<1>1. PageSize \in Nat /\ PageSize > 0
  BY ListAssumption
<1>2. \A f \in Nat : /\ f \div PageSize \in Nat /\ f % PageSize \in 0..(PageSize - 1)
                     /\ f = PageSize * (f \div PageSize) + (f % PageSize)
  BY <1>1
<1>3. PageOf(0) = 0 /\ SlotOf(0) = 1
  <2> DEFINE q == 0 \div PageSize
             r == 0 % PageSize
  <2>1. q \in Nat /\ r \in Nat /\ r < PageSize /\ 0 = PageSize * q + r
    BY <1>1, <1>2
  <2> HIDE DEF q, r
  <2>2. PageSize * q >= 0
    BY <1>1, <2>1
  <2>3. r = 0 /\ PageSize * q = 0
    BY <1>1, <2>1, <2>2
  <2>4. q = 0
    BY <1>1, <2>1, <2>3
  <2> QED BY <2>3, <2>4 DEF PageOf, SlotOf, q, r
<1>4. ASSUME NEW f \in Nat \ {0}, SlotOf(f) # 1
      PROVE  PageOf(f - 1) = PageOf(f) /\ SlotOf(f - 1) = SlotOf(f) - 1
  <2> DEFINE q == f \div PageSize
             r == f % PageSize
             p == (f - 1) \div PageSize
             s == (f - 1) % PageSize
  <2>1. /\ q \in Nat /\ r \in Nat /\ r < PageSize /\ f = PageSize * q + r
        /\ p \in Nat /\ s \in Nat /\ s < PageSize /\ f - 1 = PageSize * p + s
    BY <1>1, <1>2
  <2>2. r # 0
    BY <1>4 DEF SlotOf
  <2> HIDE DEF q, r, p, s
  <2>3. PageSize * q \in Int /\ PageSize * p \in Int
    BY <1>1, <2>1
  <2>4. PageSize * q - PageSize * p = s - (r - 1)
    BY <1>4, <2>1, <2>3
  <2>5. PageSize * (q - p) = s - (r - 1)
    BY <1>1, <2>1, <2>4
  <2>6. ~(q - p >= 1)
    <3>1. SUFFICES ASSUME q - p >= 1 PROVE FALSE
      OBVIOUS
    <3>2. PageSize * (q - p) >= PageSize
      BY <1>1, <2>1, <3>1
    <3> QED BY <1>1, <2>1, <2>2, <2>5, <3>2
  <2>7. ~(p - q >= 1)
    <3>1. SUFFICES ASSUME p - q >= 1 PROVE FALSE
      OBVIOUS
    <3>2. PageSize * (p - q) >= PageSize
      BY <1>1, <2>1, <3>1
    <3>3. PageSize * (p - q) = (r - 1) - s
      BY <1>1, <2>1, <2>4
    <3> QED BY <1>1, <2>1, <2>2, <3>2, <3>3
  <2>8. p = q
    BY <2>1, <2>6, <2>7
  <2>9. s = r - 1
    BY <2>1, <2>4, <2>8, <2>3
  <2> QED BY <2>1, <2>8, <2>9 DEF PageOf, SlotOf, q, r, p, s
<1>5. \A f \in Nat : PageOf(f) \in Nat /\ SlotOf(f) \in Nat \ {0}
  BY <1>2 DEF PageOf, SlotOf
<1> QED BY <1>3, <1>4, <1>5

\* An entry written over another leaves every page its length.
LEMMA WithEntryKeeps ==
  ASSUME NEW pages \in [Pages -> Seq(Entries)], NEW flat \in Nat, PageOf(flat) \in Pages,
         SlotOf(flat) <= Len(pages[PageOf(flat)]), NEW what \in Entries
  PROVE  /\ WithEntry(pages, flat, what) \in [Pages -> Seq(Entries)]
         /\ \A pg \in Pages : Len(WithEntry(pages, flat, what)[pg]) = Len(pages[pg])
<1> DEFINE old == pages[PageOf(flat)]
           new == [old EXCEPT ![SlotOf(flat)] = what]
<1>1. old \in Seq(Entries) /\ SlotOf(flat) \in 1..Len(old)
  BY Places
<1> HIDE DEF old
<1>2. new \in Seq(Entries) /\ Len(new) = Len(old)
  BY <1>1
<1>3. WithEntry(pages, flat, what) = [pages EXCEPT ![PageOf(flat)] = new]
  BY DEF WithEntry, old
<1> HIDE DEF new
<1> QED BY <1>2, <1>3 DEF old

\* Pages that only grow keep every place that was in them.
LEMMA LongerPagesKeep ==
  ASSUME NEW short \in [Pages -> Seq(Entries)], NEW long \in [Pages -> Seq(Entries)],
         \A pg \in Pages : Len(short[pg]) <= Len(long[pg]),
         NEW f \in Nat, PageOf(f) \in Pages, SlotOf(f) <= Len(short[PageOf(f)])
  PROVE  SlotOf(f) <= Len(long[PageOf(f)])
<1>1. SlotOf(f) \in Nat
  BY Places
<1>2. \A pg \in Pages : Len(short[pg]) \in Nat /\ Len(long[pg]) \in Nat
  OBVIOUS
<1>3. PICK pg \in Pages : pg = PageOf(f)
  OBVIOUS
<1>4. SlotOf(f) <= Len(short[pg]) /\ Len(short[pg]) <= Len(long[pg])
  BY <1>3
<1>5. SlotOf(f) <= Len(long[pg])
  BY <1>1, <1>2, <1>4
<1> QED BY <1>3, <1>5

\* A new member's entry goes to the page of the first place that is free, where all
\* places before it are.
LEMMA AddKeeps ==
  ASSUME ListInv, NEW x \in Members, Add(x)
  PROVE  ListInv'
<1>1. CASE UNCHANGED listVars
  BY <1>1 DEF ListInv, ListTypeOK, listVars, InPage
<1>2. CASE x \notin DOMAIN index
  <2>1. /\ page \in [Pages -> Seq(Entries)] /\ count \in Nat
        /\ DOMAIN index \subseteq Members /\ index \in [DOMAIN index -> Nat]
    BY DEF ListInv, ListTypeOK, Entries
  <2>2. /\ PageOf(count) \in Pages
        /\ page' = [page EXCEPT ![PageOf(count)] = Append(@, x)]
        /\ index' = [y \in DOMAIN index \cup {x} |-> IF y = x THEN count ELSE index[y]]
        /\ count' = count + 1
    BY <1>2 DEF Add, PushBack, listVars
  <2>3. PICK long : long = page'
    OBVIOUS
  <2>4. /\ long \in [Pages -> Seq(Entries)]
        /\ Len(long[PageOf(count)]) = Len(page[PageOf(count)]) + 1
        /\ \A pg \in Pages : Len(page[pg]) <= Len(long[pg])
    <3>1. \A pg \in Pages : Len(page[pg]) \in Nat
      BY <2>1
    <3>2. /\ Append(page[PageOf(count)], x) \in Seq(Entries)
          /\ Len(Append(page[PageOf(count)], x)) = Len(page[PageOf(count)]) + 1
      BY <2>1, <2>2 DEF Entries
    <3> QED BY <2>1, <2>2, <2>3, <3>1, <3>2
  <2>5. \A f \in Nat : PageOf(f) \in Pages /\ InPage(f) => SlotOf(f) <= Len(long[PageOf(f)])
    BY <2>1, <2>4, LongerPagesKeep DEF InPage
  <2>6. SlotOf(count) <= Len(long[PageOf(count)])
    <3>1. Len(page[PageOf(count)]) \in Nat
      BY <2>1, <2>2
    <3>2. CASE SlotOf(count) = 1
      BY <2>4, <3>1, <3>2
    <3>3. CASE SlotOf(count) # 1
      <4>1. count # 0
        BY <3>3, Places
      <4>2. /\ PageOf(count - 1) = PageOf(count) /\ SlotOf(count - 1) = SlotOf(count) - 1
            /\ SlotOf(count) \in Nat
        BY <2>1, <3>3, <4>1, Places
      <4>3. SlotOf(count - 1) <= Len(page[PageOf(count - 1)])
        BY <2>1, <4>1 DEF ListInv, InPage
      <4> QED BY <2>4, <3>1, <4>2, <4>3
    <3> QED BY <3>2, <3>3
  <2>7. \A f \in 0..(count' - 1) : PageOf(f) \in Pages /\ SlotOf(f) <= Len(long[PageOf(f)])
    <3> SUFFICES ASSUME NEW f \in 0..(count' - 1)
                 PROVE  PageOf(f) \in Pages /\ SlotOf(f) <= Len(long[PageOf(f)])
      OBVIOUS
    <3>1. f = count \/ f \in 0..(count - 1)
      BY <2>1, <2>2
    <3> QED BY <2>2, <2>5, <2>6, <3>1 DEF ListInv
  <2>8. \A y \in DOMAIN index' :
          PageOf(index'[y]) \in Pages /\ SlotOf(index'[y]) <= Len(long[PageOf(index'[y])])
    <3> SUFFICES ASSUME NEW y \in DOMAIN index'
                 PROVE  PageOf(index'[y]) \in Pages /\ SlotOf(index'[y]) <= Len(long[PageOf(index'[y])])
      OBVIOUS
    <3>1. CASE y = x
      BY <2>2, <2>6, <3>1
    <3>2. CASE y # x
      <4>1. y \in DOMAIN index /\ index'[y] = index[y] /\ index[y] \in Nat
        BY <2>1, <2>2, <3>2
      <4> QED BY <2>5, <4>1 DEF ListInv
    <3> QED BY <3>1, <3>2
  <2>9. 0 \in Pages /\ long[0] # <<>>
    <3>1. PageOf(0) \in Pages /\ SlotOf(0) <= Len(long[PageOf(0)])
      <4>1. 0 \in 0..(count' - 1)
        BY <2>1, <2>2
      <4> QED BY <2>7, <4>1
    <3>2. 0 \in Pages /\ 1 <= Len(long[0])
      BY <3>1, Places
    <3> QED BY <2>4, <3>2
  <2>10. ListTypeOK'
    <3>1. DOMAIN index' \subseteq Members /\ index' \in [DOMAIN index' -> Nat]
      BY <2>1, <2>2
    <3>2. count' \in Nat
      BY <2>1, <2>2
    <3> QED BY <2>3, <2>4, <3>1, <3>2 DEF ListTypeOK, Entries
  <2> QED BY <2>3, <2>7, <2>8, <2>9, <2>10 DEF ListInv, InPage
<1> QED BY <1>1, <1>2 DEF Add

\* The last place is in its page whenever there is somebody to remove.
LEMMA LastIsInPage ==
  ASSUME ListInv, DOMAIN index # {}
  PROVE  LastFlat \in Nat /\ PageOf(LastFlat) \in Pages /\ InPage(LastFlat)
<1>1. count \in Nat /\ page \in [Pages -> Seq(Entries)]
  BY DEF ListInv, ListTypeOK, Entries
<1>2. CASE count > 0
  BY <1>1, <1>2 DEF ListInv, LastFlat
<1>3. CASE count = 0
  <2>1. 0 \in Pages /\ page[0] # <<>> /\ page[0] \in Seq(Entries)
    BY <1>1 DEF ListInv
  <2>2. 1 <= Len(page[0])
    BY <2>1
  <2>3. LastFlat = 0
    BY <1>3 DEF LastFlat
  <2> QED BY <2>1, <2>2, <2>3, Places DEF InPage
<1> QED BY <1>1, <1>2, <1>3

\* A removal overwrites entries and moves no member off its page.
LEMMA RemoveKeeps ==
  ASSUME ListInv, NEW x \in Members, Remove(x)
  PROVE  ListInv'
<1>1. CASE UNCHANGED listVars
  BY <1>1 DEF ListInv, ListTypeOK, listVars, InPage
<1>2. CASE x \in DOMAIN index
  <2> DEFINE flat == index[x]
             last == LastFlat
             moved == EntryAt(last)
  <2>1. /\ page \in [Pages -> Seq(Entries)] /\ count \in Nat /\ flat \in Nat
        /\ DOMAIN index \subseteq Members /\ index \in [DOMAIN index -> Nat]
    BY <1>2 DEF ListInv, ListTypeOK, Entries
  <2>2. /\ page' = PagesWithout(flat) /\ count' = last
        /\ index' = Restrict(Reindexed(flat), DOMAIN Reindexed(flat) \ {x})
    BY <1>2 DEF Remove, listVars
  <2>3. /\ PageOf(flat) \in Pages /\ InPage(flat)
        /\ last \in Nat /\ PageOf(last) \in Pages /\ InPage(last)
    BY <1>2, LastIsInPage DEF ListInv
  <2>4. moved \in Entries
    <3>1. page[PageOf(last)] \in Seq(Entries) /\ SlotOf(last) \in 1..Len(page[PageOf(last)])
      BY <2>1, <2>3, Places DEF InPage
    <3> QED BY <3>1 DEF EntryAt
  <2>5. Gap \in Entries
    BY DEF Entries
  <2> HIDE DEF flat, last, moved
  <2>6. PICK after : after = page'
    OBVIOUS
  <2>7. /\ after \in [Pages -> Seq(Entries)]
        /\ \A pg \in Pages : Len(page[pg]) <= Len(after[pg])
    <3> DEFINE G == WithEntry(page, last, Gap)
               W == WithEntry(page, flat, moved)
               V == WithEntry(page, flat, Gap)
    <3>1. G \in [Pages -> Seq(Entries)] /\ \A pg \in Pages : Len(G[pg]) = Len(page[pg])
      BY <2>1, <2>3, <2>5, WithEntryKeeps DEF InPage
    <3>2. W \in [Pages -> Seq(Entries)] /\ \A pg \in Pages : Len(W[pg]) = Len(page[pg])
      BY <2>1, <2>3, <2>4, WithEntryKeeps DEF InPage
    <3>3. V \in [Pages -> Seq(Entries)] /\ \A pg \in Pages : Len(V[pg]) = Len(page[pg])
      BY <2>1, <2>3, <2>5, WithEntryKeeps DEF InPage
    <3>4. after = IF flat # last THEN [W EXCEPT ![PageOf(last)] = G[PageOf(last)]] ELSE V
      BY <2>2, <2>6 DEF PagesWithout, SwapOut, last, moved
    <3> HIDE DEF G, W, V
    <3>5. \A pg \in Pages : Len(page[pg]) \in Nat
      BY <2>1
    <3> QED BY <2>3, <3>1, <3>2, <3>3, <3>4, <3>5
  <2>8. \A f \in Nat : PageOf(f) \in Pages /\ InPage(f) => SlotOf(f) <= Len(after[PageOf(f)])
    BY <2>1, <2>7, LongerPagesKeep DEF InPage
  <2>9. /\ DOMAIN Reindexed(flat) \subseteq Members
        /\ \A y \in DOMAIN Reindexed(flat) :
             Reindexed(flat)[y] \in {index[z] : z \in DOMAIN index} \cup {flat}
    <3>1. CASE flat # last /\ moved # Gap
      <4>1. moved \in Members
        BY <2>4, <3>1 DEF Entries
      <4>2. Reindexed(flat)
              = [y \in DOMAIN index \cup {moved} |-> IF y = moved THEN flat ELSE index[y]]
        BY <3>1 DEF Reindexed, last, moved
      <4> QED BY <2>1, <4>1, <4>2
    <3>2. CASE ~(flat # last /\ moved # Gap)
      <4>1. Reindexed(flat) = index
        BY <3>2 DEF Reindexed, last, moved
      <4> QED BY <2>1, <4>1
    <3> QED BY <3>1, <3>2
  <2>10. /\ DOMAIN index' = DOMAIN Reindexed(flat) \ {x}
         /\ \A y \in DOMAIN index' : index'[y] = Reindexed(flat)[y]
         /\ index' = [y \in DOMAIN index' |-> index'[y]]
    BY <2>2 DEF Restrict
  <2>11. \A y \in DOMAIN index' : index'[y] \in {index[z] : z \in DOMAIN index}
    BY <1>2, <2>9, <2>10 DEF flat
  <2>12. \A y \in DOMAIN index' :
           /\ index'[y] \in Nat /\ PageOf(index'[y]) \in Pages
           /\ SlotOf(index'[y]) <= Len(after[PageOf(index'[y])])
    BY <2>1, <2>8, <2>11 DEF ListInv
  <2>13. \A f \in 0..(count' - 1) : PageOf(f) \in Pages /\ SlotOf(f) <= Len(after[PageOf(f)])
    <3>1. count' \in Nat /\ count' <= count
      BY <2>1, <2>2 DEF last, LastFlat
    <3>2. \A f \in 0..(count' - 1) : f \in Nat /\ f \in 0..(count - 1)
      BY <2>1, <3>1
    <3> QED BY <2>8, <3>2 DEF ListInv
  <2>14. 0 \in Pages /\ after[0] # <<>>
    <3>1. 0 \in Pages /\ page[0] # <<>> /\ page[0] \in Seq(Entries)
      BY <1>2, <2>1 DEF ListInv
    <3>2. Len(page[0]) <= Len(after[0]) /\ Len(page[0]) \in Nat /\ Len(page[0]) # 0
      BY <2>7, <3>1
    <3> QED BY <3>1, <3>2
  <2>15. ListTypeOK'
    <3>1. index' \in [DOMAIN index' -> Nat] /\ DOMAIN index' \subseteq Members
      BY <2>9, <2>10, <2>12
    <3> QED BY <2>2, <2>3, <2>6, <2>7, <3>1 DEF ListTypeOK, Entries
  <2> QED BY <2>6, <2>12, <2>13, <2>14, <2>15 DEF ListInv, InPage
<1> QED BY <1>1, <1>2 DEF Remove

\* An empty list has all its places.
LEMMA ListStart == ListInit => ListInv
<1> SUFFICES ASSUME ListInit PROVE ListInv
  OBVIOUS
<1>1. /\ page = [pg \in Pages |-> <<>>] /\ count = 0
      /\ DOMAIN index = {} /\ index \in [DOMAIN index -> Nat]
  BY DEF ListInit
<1>2. page \in [Pages -> Seq(Members \cup {Gap})]
  BY <1>1
<1> QED BY <1>1, <1>2 DEF ListInv, ListTypeOK

\* Then a removal reads within its pages.
LEMMA NeverTraps == ListInv => RemovalNeverTraps
  BY LastIsInPage DEF ListInv, RemovalNeverTraps

\* A removal from the list of solvers never traps, whatever registrations, removals and
\* gaps came before it.
THEOREM SolverRemovalNeverTraps == ListSpec => []RemovalNeverTraps
<1>1. ListInv /\ [ListNext]_listVars => ListInv'
  <2>1. ListInv /\ UNCHANGED listVars => ListInv'
    BY DEF ListInv, ListTypeOK, listVars, InPage
  <2> QED BY <2>1, AddKeeps, RemoveKeeps DEF ListNext
<1> QED BY <1>1, ListStart, NeverTraps, PTL DEF ListSpec

\* Nor does one from the list of destination tokens, under the administration's calls.
THEOREM TokenRemovalNeverTraps == AdminSpec => []RemovalNeverTraps
<1>1. ListInv /\ [AdminNext]_<<ledger_time, adminVars>> => ListInv'
  <2> SUFFICES ASSUME ListInv, [AdminNext]_<<ledger_time, adminVars>> PROVE ListInv'
    OBVIOUS
  <2>1. CASE UNCHANGED listVars
    BY <2>1 DEF ListInv, ListTypeOK, listVars, InPage
  <2>2. ASSUME NEW t \in Tokens, TokenStep(t)
        PROVE  ListInv'
    <3>1. UNCHANGED listVars \/ Add(t) \/ Remove(t)
      BY <2>2 DEF TokenStep, ProposeAddDstToken, ExecuteAddDstToken, CancelPendingDstTokenAdd,
         ProposeRemoveDstToken, ExecuteRemoveDstToken, CancelPendingDstTokenRemove, Propose,
         CancelPending
    <3> QED BY <2>1, <3>1, AddKeeps, RemoveKeeps DEF Tokens
  <2>3. ASSUME NEW who, OfficeStep(who) \/ ProposeSetPolicy(who) \/ ExecuteSetPolicy(who)
        PROVE  UNCHANGED listVars
    BY <2>3 DEF OfficeStep, ProposeFeeRecipient, AcceptFeeRecipient, ProposeAdminTransfer,
       AcceptAdminTransfer, ProposeUpgrade, ExecuteUpgrade, ProposeOracle, ExecuteOracle,
       ProposeSetPolicy, ExecuteSetPolicy, Propose, Fill
  <2>4. ASSUME NEW c \in Chains, ChainStep(c)
        PROVE  UNCHANGED listVars
    BY <2>4 DEF ChainStep, AddAllowedSrcChain, RemoveAllowedSrcChain, ProposeChainOnboarding,
       ExecuteChainOnboarding, ExecuteChainOffboarding, Propose
  <2>5. CASE UNCHANGED <<ledger_time, adminVars>>
    BY <2>1, <2>5 DEF adminVars
  <2>6. CASE AdminNext
    <3>1. CASE \E t \in Tokens : TokenStep(t)
      BY <2>2, <3>1
    <3>2. UNCHANGED listVars \/ \E t \in Tokens : TokenStep(t)
      BY <2>3, <2>4, <2>6, Zenon DEF AdminNext
    <3> QED BY <2>1, <3>1, <3>2
  <2> QED BY <2>5, <2>6
<1> QED BY <1>1, ListStart, NeverTraps, PTL DEF AdminSpec, AdminInit

(***************************************************************************)
(* Lists that are rebuilt without a member.                                *)
(***************************************************************************)

\* What one turn of the loop copies.
KeptStep(list, x, f, k) ==
  IF k = 0 THEN << >>
  ELSE IF list[k] = x THEN f[k - 1]
  ELSE Append(f[k - 1], list[k])

Kept(list, x) == CHOOSE f : f = [k \in 0..Len(list) |-> KeptStep(list, x, f, k)]

LEMMA WithoutIsKept ==
  ASSUME NEW list, NEW x
  PROVE  Without(list, x) = Kept(list, x)[Len(list)]
  BY Zenon DEF Without, Kept, KeptStep

\* f holds the copies of the first n turns.
KeptTo(list, x, n, f) ==
  /\ f = [k \in 0..Len(list) |-> f[k]]
  /\ \A k \in 0..Len(list) : k <= n => f[k] = KeptStep(list, x, f, k)

\* The loop's copies are defined: by induction on the turns.
LEMMA KeptIsDefined ==
  ASSUME NEW S, NEW list \in Seq(S), NEW x
  PROVE  \A k \in 0..Len(list) : Kept(list, x)[k] = KeptStep(list, x, Kept(list, x), k)
<1> DEFINE D == 0..Len(list)
           T == {n \in Nat : \E f : KeptTo(list, x, n, f)}
           Solves(f) == f = [k \in D |-> KeptStep(list, x, f, k)]
<1>1. Len(list) \in Nat
  OBVIOUS
<1>2. 0 \in T
  <2> DEFINE f == [k \in D |-> << >>]
  <2>1. f = [k \in D |-> f[k]]
    OBVIOUS
  <2>2. \A k \in D : k <= 0 => f[k] = KeptStep(list, x, f, k)
    BY <1>1 DEF KeptStep
  <2> HIDE DEF f
  <2> QED BY <2>1, <2>2 DEF KeptTo
<1>3. ASSUME NEW n \in Nat, n \in T
      PROVE  n + 1 \in T
  <2>1. PICK f : KeptTo(list, x, n, f)
    BY <1>3
  <2> DEFINE g == [k \in D |-> KeptStep(list, x, f, k)]
  <2>2. g = [k \in D |-> g[k]]
    OBVIOUS
  <2>3. \A k \in D : k <= n => g[k] = f[k]
    BY <2>1 DEF KeptTo
  <2>4. ASSUME NEW k \in D, k <= n + 1
        PROVE  g[k] = KeptStep(list, x, g, k)
    <3>1. CASE k = 0
      BY <3>1 DEF KeptStep
    <3>2. CASE k # 0
      <4>1. k - 1 \in D /\ k - 1 <= n
        BY <1>1, <2>4, <3>2
      <4>2. g[k - 1] = f[k - 1]
        BY <2>3, <4>1
      <4> QED BY <4>2 DEF KeptStep
    <3> QED BY <3>1, <3>2
  <2> HIDE DEF g
  <2>5. KeptTo(list, x, n + 1, g)
    BY <2>2, <2>4 DEF KeptTo
  <2> QED BY <2>5
<1>4. Len(list) \in T
  <2> HIDE DEF T
  <2> QED BY <1>1, <1>2, <1>3, NaturalInduction
<1>5. PICK f : KeptTo(list, x, Len(list), f)
  BY <1>4
<1>6. Solves(f)
  <2>1. \A k \in D : f[k] = KeptStep(list, x, f, k)
    BY <1>1, <1>5 DEF KeptTo
  <2>2. f = [k \in D |-> f[k]]
    BY <1>5 DEF KeptTo
  <2> QED BY <2>1, <2>2
<1>7. Solves(Kept(list, x))
  <2>1. Kept(list, x) = CHOOSE h : Solves(h)
    BY Zenon DEF Kept
  <2> HIDE DEF Solves
  <2> QED BY <1>6, <2>1
<1> QED BY <1>7, Zenon

\* No two places hold the same.
Distinct(list) == \A i, j \in 1..Len(list) : i # j => list[i] # list[j]

\* copy is the first k places of list without x, in the sense of what it holds.
CopyOf(list, x, k, S, copy) ==
  /\ copy \in Seq(S)
  /\ \A j \in 1..Len(copy) : copy[j] # x /\ \E i \in 1..k : copy[j] = list[i]
  /\ \A i \in 1..k : list[i] # x => \E j \in 1..Len(copy) : copy[j] = list[i]
  /\ Distinct(copy)

\* One more turn copies one more place, or leaves it out.
LEMMA OneTurn ==
  ASSUME NEW S, NEW list \in Seq(S), Distinct(list), NEW x, NEW k \in Nat,
         k + 1 <= Len(list), NEW copy, CopyOf(list, x, k, S, copy), list[k + 1] # x
  PROVE  CopyOf(list, x, k + 1, S, Append(copy, list[k + 1]))
<1> DEFINE new == Append(copy, list[k + 1])
<1>1. Len(list) \in Nat /\ k + 1 \in 1..Len(list) /\ list[k + 1] \in S
  OBVIOUS
<1>2. copy \in Seq(S) /\ Len(copy) \in Nat
  BY DEF CopyOf
<1>3. /\ new \in Seq(S) /\ Len(new) = Len(copy) + 1 /\ new[Len(copy) + 1] = list[k + 1]
      /\ \A j \in 1..Len(copy) : new[j] = copy[j]
  BY <1>1, <1>2
<1> HIDE DEF new
<1>4. ASSUME NEW j \in 1..Len(new)
      PROVE  new[j] # x /\ \E i \in 1..(k + 1) : new[j] = list[i]
  <2>1. CASE j = Len(copy) + 1
    BY <1>3, <2>1
  <2>2. CASE j \in 1..Len(copy)
    <3>1. PICK i \in 1..k : copy[j] = list[i]
      BY <2>2 DEF CopyOf
    <3>2. copy[j] # x /\ i \in 1..(k + 1)
      BY <2>2, <3>1 DEF CopyOf
    <3> QED BY <1>3, <2>2, <3>1, <3>2
  <2> QED BY <1>2, <1>3, <2>1, <2>2
<1>5. ASSUME NEW i \in 1..(k + 1), list[i] # x
      PROVE  \E j \in 1..Len(new) : new[j] = list[i]
  <2>1. CASE i = k + 1
    <3>1. Len(copy) + 1 \in 1..Len(new)
      BY <1>2, <1>3
    <3> QED BY <1>3, <2>1, <3>1
  <2>2. CASE i \in 1..k
    <3>1. PICK j \in 1..Len(copy) : copy[j] = list[i]
      BY <1>5, <2>2 DEF CopyOf
    <3>2. j \in 1..Len(new)
      BY <1>2, <1>3
    <3> QED BY <1>3, <3>1, <3>2
  <2> QED BY <2>1, <2>2
<1>6. ASSUME NEW j \in 1..Len(copy)
      PROVE  copy[j] # list[k + 1]
  <2>1. PICK i \in 1..k : copy[j] = list[i]
    BY DEF CopyOf
  <2>2. i \in 1..Len(list) /\ i # k + 1
    BY <1>1
  <2> QED BY <1>1, <2>1, <2>2 DEF Distinct
<1>7. Distinct(new)
  <2> SUFFICES ASSUME NEW i \in 1..Len(new), NEW j \in 1..Len(new), i # j
               PROVE  new[i] # new[j]
    BY DEF Distinct
  <2>1. CASE i \in 1..Len(copy) /\ j \in 1..Len(copy)
    BY <1>3, <2>1 DEF CopyOf, Distinct
  <2>2. CASE i \in 1..Len(copy) /\ j = Len(copy) + 1
    BY <1>3, <1>6, <2>2
  <2>3. CASE i = Len(copy) + 1 /\ j \in 1..Len(copy)
    BY <1>3, <1>6, <2>3
  <2> QED BY <1>2, <1>3, <2>1, <2>2, <2>3
<1> QED BY <1>3, <1>4, <1>5, <1>7 DEF CopyOf, new

\* The rebuilt list holds what the old one does but x, and each thing once.
LEMMA WithoutIsRight ==
  ASSUME NEW S, NEW list \in Seq(S), Distinct(list), NEW x
  PROVE  /\ Without(list, x) \in Seq(S) /\ Distinct(Without(list, x))
         /\ Range(Without(list, x)) = Range(list) \ {x}
<1> DEFINE f == Kept(list, x)
           T == {n \in Nat : n <= Len(list) => CopyOf(list, x, n, S, f[n])}
<1>1. Len(list) \in Nat
  OBVIOUS
<1>2. \A k \in 0..Len(list) : f[k] = KeptStep(list, x, f, k)
  BY KeptIsDefined, Zenon
<1> HIDE DEF f
<1>3. 0 \in T
  <2>1. f[0] = << >>
    BY <1>1, <1>2 DEF KeptStep
  <2>2. CopyOf(list, x, 0, S, << >>)
    BY DEF CopyOf, Distinct
  <2> QED BY <2>1, <2>2
<1>4. ASSUME NEW n \in Nat, n \in T
      PROVE  n + 1 \in T
  <2> SUFFICES ASSUME n + 1 <= Len(list)
               PROVE  CopyOf(list, x, n + 1, S, f[n + 1])
    OBVIOUS
  <2>1. CopyOf(list, x, n, S, f[n])
    BY <1>1, <1>4
  <2>2. n + 1 \in 0..Len(list) /\ (n + 1) - 1 = n /\ n + 1 # 0
    BY <1>1
  <2>3. f[n + 1] = KeptStep(list, x, f, n + 1)
    BY <1>2, <2>2
  <2>4. f[n + 1] = IF list[n + 1] = x THEN f[n] ELSE Append(f[n], list[n + 1])
    BY <2>2, <2>3 DEF KeptStep
  <2>5. CASE list[n + 1] = x
    <3>1. f[n + 1] = f[n]
      BY <2>4, <2>5
    <3>2. PICK copy : copy = f[n]
      OBVIOUS
    <3>3. CopyOf(list, x, n, S, copy)
      BY <2>1, <3>2
    <3>4. CopyOf(list, x, n + 1, S, copy)
      <4>1. \A i \in 1..(n + 1) : i \in 1..n \/ i = n + 1
        OBVIOUS
      <4>2. \A i \in 1..n : i \in 1..(n + 1)
        OBVIOUS
      <4>3. \A j \in 1..Len(copy) : copy[j] # x /\ \E i \in 1..(n + 1) : copy[j] = list[i]
        BY <3>3, <4>2 DEF CopyOf
      <4>4. \A i \in 1..(n + 1) : list[i] # x => \E j \in 1..Len(copy) : copy[j] = list[i]
        BY <2>5, <3>3, <4>1 DEF CopyOf
      <4> QED BY <3>3, <4>3, <4>4 DEF CopyOf
    <3> QED BY <3>1, <3>2, <3>4
  <2>6. CASE list[n + 1] # x
    <3>1. f[n + 1] = Append(f[n], list[n + 1])
      BY <2>4, <2>6
    <3> QED BY <2>1, <2>6, <3>1, OneTurn
  <2> QED BY <2>5, <2>6
<1>5. Len(list) \in T
  <2> HIDE DEF T
  <2> QED BY <1>1, <1>3, <1>4, NaturalInduction
<1>6. PICK copy : copy = f[Len(list)] /\ CopyOf(list, x, Len(list), S, copy)
  BY <1>1, <1>5
<1>7. Without(list, x) = copy
  BY <1>6, WithoutIsKept DEF f
<1>8. Range(copy) = {copy[j] : j \in 1..Len(copy)} /\ Range(list) = {list[i] : i \in 1..Len(list)}
  BY <1>6 DEF CopyOf, Range
<1>9. Range(copy) = Range(list) \ {x}
  <2>1. /\ \A j \in 1..Len(copy) : copy[j] \in Range(list) \ {x}
        /\ \A i \in 1..Len(list) : list[i] # x => list[i] \in Range(copy)
    BY <1>6, <1>8 DEF CopyOf
  <2> QED BY <1>8, <2>1
<1> QED BY <1>6, <1>7, <1>9 DEF CopyOf

\* A list of distinct things is as long as there are things in it.
LEMMA DistinctCounts ==
  ASSUME NEW S, NEW list \in Seq(S), Distinct(list)
  PROVE  IsFiniteSet(Range(list)) /\ Cardinality(Range(list)) = Len(list)
<1>1. /\ Len(list) \in Nat /\ DOMAIN list = 1..Len(list)
      /\ list = [i \in 1..Len(list) |-> list[i]]
  OBVIOUS
<1>2. Range(list) = {list[i] : i \in 1..Len(list)}
  BY <1>1 DEF Range
<1>3. PICK f : f = list
  OBVIOUS
<1>4. f \in [1..Len(list) -> Range(list)]
  BY <1>1, <1>2, <1>3
<1>5. f \in Surjection(1..Len(list), Range(list))
  <2>1. \A x \in Range(list) : \E i \in 1..Len(list) : f[i] = x
    BY <1>2, <1>3
  <2> QED BY <1>4, <2>1 DEF Surjection
<1>6. f \in Injection(1..Len(list), Range(list))
  <2>1. \A i, j \in 1..Len(list) : f[i] = f[j] => i = j
    BY <1>3 DEF Distinct
  <2> QED BY <1>4, <2>1 DEF Injection, IsInjective
<1>7. IsFiniteSet(1..Len(list)) /\ Cardinality(1..Len(list)) = Len(list)
  <2>1. PICK n \in Nat : n = Len(list)
    BY <1>1
  <2>2. IsFiniteSet(1..n) /\ Cardinality(1..n) = IF 1 > n THEN 0 ELSE n - 1 + 1
    BY FS_Interval
  <2> QED BY <2>1, <2>2
<1> QED BY <1>5, <1>6, <1>7, FS_Surjection

\* A new thing at the end keeps a list distinct.
LEMMA DistinctAppends ==
  ASSUME NEW S, NEW list \in Seq(S), Distinct(list), NEW x \in S, x \notin Range(list)
  PROVE  /\ Append(list, x) \in Seq(S) /\ Distinct(Append(list, x))
         /\ Range(Append(list, x)) = Range(list) \cup {x}
<1> DEFINE new == Append(list, x)
<1>1. /\ new \in Seq(S) /\ Len(new) = Len(list) + 1 /\ Len(list) \in Nat
      /\ \A i \in 1..Len(list) : new[i] = list[i]
      /\ new[Len(list) + 1] = x
      /\ DOMAIN new = 1..Len(new) /\ DOMAIN list = 1..Len(list)
  OBVIOUS
<1> HIDE DEF new
<1>2. \A i \in 1..Len(list) : list[i] # x
  BY <1>1 DEF Range
<1>3. \A i \in 1..Len(new) : i \in 1..Len(list) \/ i = Len(list) + 1
  BY <1>1
<1>4. Distinct(new)
  BY <1>1, <1>2, <1>3 DEF Distinct
<1>5. Range(new) = Range(list) \cup {x}
  <2>1. Range(new) = {new[i] : i \in 1..Len(new)} /\ Range(list) = {list[i] : i \in 1..Len(list)}
    BY <1>1 DEF Range
  <2>2. \A i \in 1..Len(list) : i \in 1..Len(new)
    BY <1>1
  <2>3. Len(list) + 1 \in 1..Len(new)
    BY <1>1
  <2> QED BY <1>1, <1>3, <2>1, <2>2, <2>3
<1> QED BY <1>1, <1>4, <1>5 DEF new

(***************************************************************************)
(* The directory.                                                          *)
(***************************************************************************)

DirectoryInv ==
  /\ entry \in [EntryNames -> Addresses \cup {NoAddress}]
  /\ names \in Seq(EntryNames) /\ Distinct(names)
  /\ Range(names) = {name \in EntryNames : FindAddress(name) # NoAddress}

\* An address set under a new name lists it, under an old one leaves the list.
LEMMA SetAddressKeeps ==
  ASSUME DirectoryInv, NEW who, NEW name \in EntryNames, NEW addr \in Addresses,
         SetAddress(who, name, addr)
  PROVE  DirectoryInv'
<1>1. /\ entry' = [entry EXCEPT ![name] = addr] /\ names' = NamesWith(name)
      /\ entry \in [EntryNames -> Addresses \cup {NoAddress}]
      /\ names \in Seq(EntryNames) /\ Distinct(names)
      /\ Range(names) = {n \in EntryNames : entry[n] # NoAddress}
  BY DEF SetAddress, DirectoryInv, FindAddress
<1>2. entry' \in [EntryNames -> Addresses \cup {NoAddress}]
  BY <1>1
<1>3. {n \in EntryNames : entry'[n] # NoAddress}
        = {n \in EntryNames : entry[n] # NoAddress} \cup {name}
  BY <1>1, DirectoryAssumption
<1>4. CASE entry[name] = NoAddress
  <2>1. name \notin Range(names) /\ names' = Append(names, name)
    BY <1>1, <1>4 DEF NamesWith
  <2>2. PICK new : new = Append(names, name)
    OBVIOUS
  <2>3. new \in Seq(EntryNames) /\ Distinct(new) /\ Range(new) = Range(names) \cup {name}
    BY <1>1, <2>1, <2>2, DistinctAppends
  <2>4. names' = new
    BY <2>1, <2>2
  <2> QED BY <1>1, <1>2, <1>3, <2>3, <2>4 DEF DirectoryInv, FindAddress
<1>5. CASE entry[name] # NoAddress
  <2>1. names' = names
    BY <1>1, <1>5 DEF NamesWith
  <2>2. {n \in EntryNames : entry'[n] # NoAddress} = Range(names)
    BY <1>1, <1>3, <1>5
  <2> QED BY <1>1, <1>2, <2>1, <2>2 DEF DirectoryInv, FindAddress, Distinct
<1> QED BY <1>4, <1>5

\* An address removed takes its name off the list.
LEMMA RemoveAddressKeeps ==
  ASSUME DirectoryInv, NEW who, NEW name \in EntryNames, RemoveAddress(who, name)
  PROVE  DirectoryInv'
<1>1. /\ entry' = [entry EXCEPT ![name] = NoAddress] /\ names' = Without(names, name)
      /\ entry \in [EntryNames -> Addresses \cup {NoAddress}]
      /\ names \in Seq(EntryNames) /\ Distinct(names)
      /\ Range(names) = {n \in EntryNames : entry[n] # NoAddress}
  BY DEF RemoveAddress, DirectoryInv, FindAddress
<1>2. entry' \in [EntryNames -> Addresses \cup {NoAddress}]
  BY <1>1
<1>3. {n \in EntryNames : entry'[n] # NoAddress}
        = {n \in EntryNames : entry[n] # NoAddress} \ {name}
  BY <1>1
<1>4. PICK new : new = Without(names, name)
  OBVIOUS
<1>5. new \in Seq(EntryNames) /\ Distinct(new) /\ Range(new) = Range(names) \ {name}
  BY <1>1, <1>4, WithoutIsRight
<1>6. names' = new
  BY <1>1, <1>4
<1> QED BY <1>1, <1>2, <1>3, <1>5, <1>6 DEF DirectoryInv, FindAddress

\* The directory's list names exactly what can be looked up, each name once, for any
\* names, addresses and admins.
THEOREM DirectoryListsItsNames == DirectorySpec => []NamesExact
<1>1. DirectoryInit => DirectoryInv
  BY DEF DirectoryInit, DirectoryInv, FindAddress, Distinct, Range
<1>2. DirectoryInv /\ [DirectoryNext]_directoryVars => DirectoryInv'
  <2>1. DirectoryInv /\ UNCHANGED <<entry, names>> => DirectoryInv'
    BY DEF DirectoryInv, FindAddress, Distinct
  <2> QED
    BY <2>1, SetAddressKeeps, RemoveAddressKeeps
       DEF DirectoryNext, directoryVars, Initialize, AcceptKeeper, ProposeKeeper
<1>3. DirectoryInv => NamesExact
  BY DistinctCounts DEF DirectoryInv, NamesExact
<1> QED BY <1>1, <1>2, <1>3, PTL DEF DirectorySpec

(***************************************************************************)
(* The stored bonds of the settlement's solvers.                           *)
(***************************************************************************)

\* What is stored of each solver's bonds, in the record, under keys and in the list, says
\* what went in and is left.
StoredRight ==
  /\ legacy_bond \in [Bonders -> Nat]
  /\ bond_entries \in [Bonders -> [Currencies -> Nat]]
  /\ staked \in [Bonders -> [Currencies -> Nat]]
  /\ bond_tokens \in [Bonders -> Seq(Currencies)]
  /\ \A s \in Bonders : Distinct(bond_tokens[s])
  /\ \A s \in Bonders : Range(bond_tokens[s]) = {t \in Currencies : staked[s][t] > 0}
  /\ \A s \in Bonders, t \in Currencies : GetSolverBondAmount(s, t) = staked[s][t]

BondsInv ==
  /\ StoredRight
  /\ records \subseteq Bonders /\ busy_solvers \subseteq records
  /\ \A s \in Bonders \ records : \A t \in Currencies : staked[s][t] = 0

\* A list with one token's amount set.
LEMMA ListedIsRight ==
  ASSUME StoredRight, NEW s \in Bonders, NEW t \in Currencies, NEW amount \in Nat
  PROVE  /\ ListedWith(s, t, amount) \in Seq(Currencies)
         /\ Distinct(ListedWith(s, t, amount))
         /\ Range(ListedWith(s, t, amount))
              = {c \in Currencies : IF c = t THEN amount > 0 ELSE staked[s][c] > 0}
<1> DEFINE list == bond_tokens[s]
<1>1. /\ list \in Seq(Currencies) /\ Distinct(list)
      /\ Range(list) = {c \in Currencies : staked[s][c] > 0}
  BY DEF StoredRight
<1> HIDE DEF list
<1>2. CASE amount > 0 /\ t \notin Range(list)
  <2>1. ListedWith(s, t, amount) = Append(list, t)
    BY <1>2 DEF ListedWith, list
  <2>2. /\ Append(list, t) \in Seq(Currencies) /\ Distinct(Append(list, t))
        /\ Range(Append(list, t)) = Range(list) \cup {t}
    BY <1>1, <1>2, DistinctAppends
  <2> QED BY <1>1, <1>2, <2>1, <2>2
<1>3. CASE amount = 0
  <2>1. ListedWith(s, t, amount) = Without(list, t)
    BY <1>3 DEF ListedWith, list
  <2>2. /\ Without(list, t) \in Seq(Currencies) /\ Distinct(Without(list, t))
        /\ Range(Without(list, t)) = Range(list) \ {t}
    BY <1>1, WithoutIsRight
  <2> QED BY <1>1, <1>3, <2>1, <2>2
<1>4. CASE amount > 0 /\ t \in Range(list)
  <2>1. ListedWith(s, t, amount) = list
    BY <1>4 DEF ListedWith, list
  <2> QED BY <1>1, <1>4, <2>1
<1> QED BY <1>2, <1>3, <1>4

\* A write of one bond that follows what went in or out.
LEMMA BondWriteKeeps ==
  ASSUME StoredRight, NEW s \in Bonders, NEW t \in Currencies, NEW amount \in Nat,
         SetSolverBondAmount(s, t, amount), staked' = [staked EXCEPT ![s][t] = amount]
  PROVE  StoredRight'
<1>1. PICK list : list = ListedWith(s, t, amount)
  OBVIOUS
<1>2. /\ list \in Seq(Currencies) /\ Distinct(list)
      /\ Range(list) = {c \in Currencies : IF c = t THEN amount > 0 ELSE staked[s][c] > 0}
  BY <1>1, ListedIsRight
<1>3. /\ legacy_bond' = IF t = LegacyToken THEN [legacy_bond EXCEPT ![s] = amount]
                        ELSE legacy_bond
      /\ bond_entries' = IF t = LegacyToken THEN bond_entries
                         ELSE [bond_entries EXCEPT ![s][t] = amount]
      /\ bond_tokens' = [bond_tokens EXCEPT ![s] = list]
  BY <1>1 DEF SetSolverBondAmount
<1>4. /\ legacy_bond \in [Bonders -> Nat] /\ bond_entries \in [Bonders -> [Currencies -> Nat]]
      /\ staked \in [Bonders -> [Currencies -> Nat]] /\ bond_tokens \in [Bonders -> Seq(Currencies)]
  BY DEF StoredRight
<1>5. /\ legacy_bond' \in [Bonders -> Nat] /\ bond_entries' \in [Bonders -> [Currencies -> Nat]]
      /\ staked' \in [Bonders -> [Currencies -> Nat]]
      /\ bond_tokens' \in [Bonders -> Seq(Currencies)]
  BY <1>2, <1>3, <1>4
<1>6. ASSUME NEW u \in Bonders
      PROVE  /\ Distinct(bond_tokens'[u])
             /\ Range(bond_tokens'[u]) = {c \in Currencies : staked'[u][c] > 0}
  <2>1. CASE u = s
    <3>1. bond_tokens'[u] = list
      BY <1>3, <1>4, <2>1
    <3>2. \A c \in Currencies : staked'[u][c] = IF c = t THEN amount ELSE staked[s][c]
      BY <1>4, <2>1
    <3> QED BY <1>2, <3>1, <3>2
  <2>2. CASE u # s
    <3>1. bond_tokens'[u] = bond_tokens[u] /\ staked'[u] = staked[u]
      BY <1>3, <1>4, <2>2
    <3>2. Distinct(bond_tokens[u]) /\ Range(bond_tokens[u]) = {c \in Currencies : staked[u][c] > 0}
      BY DEF StoredRight
    <3> QED BY <3>1, <3>2, Zenon DEF Distinct
  <2> QED BY <2>1, <2>2
<1>7. ASSUME NEW u \in Bonders, NEW c \in Currencies
      PROVE  (IF c = LegacyToken THEN legacy_bond'[u] ELSE bond_entries'[u][c]) = staked'[u][c]
  <2>1. (IF c = LegacyToken THEN legacy_bond[u] ELSE bond_entries[u][c]) = staked[u][c]
    BY DEF StoredRight, GetSolverBondAmount
  <2>2. staked'[u][c] = IF u = s /\ c = t THEN amount ELSE staked[u][c]
    BY <1>4
  <2> QED BY <1>3, <1>4, <2>1, <2>2
<1> QED BY <1>5, <1>6, <1>7, Zenon DEF StoredRight, GetSolverBondAmount

\* What a solver is paid back when it leaves.
LEMMA RefundsAreAll ==
  ASSUME BondsInv, NEW s \in Bonders
  PROVE  GetSolverBonds(s) = {<<t, staked[s][t]>> : t \in {c \in Currencies : staked[s][c] > 0}}
<1>1. \A t \in Currencies : GetSolverBondAmount(s, t) = staked[s][t]
  BY DEF BondsInv, StoredRight
<1>2. Range(bond_tokens[s]) = {c \in Currencies : staked[s][c] > 0}
  BY DEF BondsInv, StoredRight
<1>3. CASE s \notin records
  <2>1. \A c \in Currencies : staked[s][c] = 0
    BY <1>3 DEF BondsInv
  <2>2. {c \in Currencies : staked[s][c] > 0} = {}
    BY <2>1
  <2> QED BY <1>3, <2>2 DEF GetSolverBonds
<1>4. CASE s \in records
  <2> DEFINE listed == {c \in {LegacyToken} \cup Range(bond_tokens[s]) :
                          GetSolverBondAmount(s, c) > 0}
             held == {c \in Currencies : staked[s][c] > 0}
  <2>1. listed = held
    BY <1>1, <1>2, BondsAssumption
  <2>2. GetSolverBonds(s) = {<<t, GetSolverBondAmount(s, t)>> : t \in listed}
    BY <1>4 DEF GetSolverBonds
  <2>3. \A t \in held : GetSolverBondAmount(s, t) = staked[s][t]
    BY <1>1
  <2> HIDE DEF listed, held
  <2>4. GetSolverBonds(s) = {<<t, staked[s][t]>> : t \in held}
    BY <2>1, <2>2, <2>3
  <2> QED BY <2>4 DEF held
<1> QED BY <1>3, <1>4

\* Leaving takes out everything.
LEMMA DeregisterKeeps ==
  ASSUME BondsInv, NEW s \in Bonders, Deregister(s)
  PROVE  BondsInv'
<1> DEFINE refunds == GetSolverBonds(s)
           refunded == {refund[1] : refund \in refunds}
           held == {c \in Currencies : staked[s][c] > 0}
<1>1. /\ legacy_bond \in [Bonders -> Nat] /\ bond_entries \in [Bonders -> [Currencies -> Nat]]
      /\ staked \in [Bonders -> [Currencies -> Nat]] /\ bond_tokens \in [Bonders -> Seq(Currencies)]
  BY DEF BondsInv, StoredRight
<1>2. refunds = {<<t, staked[s][t]>> : t \in held}
  BY RefundsAreAll
<1>3. /\ records' = records \ {s} /\ busy_solvers' = busy_solvers /\ s \notin busy_solvers
      /\ legacy_bond' = [legacy_bond EXCEPT ![s] = 0]
      /\ bond_entries' = [bond_entries EXCEPT
           ![s] = [t \in Currencies |-> IF t \in refunded THEN 0 ELSE @[t]]]
      /\ bond_tokens' = [bond_tokens EXCEPT ![s] = << >>]
      /\ staked' = [staked EXCEPT
           ![s] = [t \in Currencies |-> IF t \in refunded
                                        THEN @[t] - (CHOOSE r \in refunds : r[1] = t)[2]
                                        ELSE @[t]]]
  BY DEF Deregister
<1> HIDE DEF refunds
<1>4. refunded = held
  <2>1. \A r \in refunds : r[1] \in held
    BY <1>2
  <2>2. \A t \in held : <<t, staked[s][t]>> \in refunds /\ <<t, staked[s][t]>>[1] = t
    BY <1>2
  <2>3. \A t \in held : t \in refunded
    BY <2>2, Zenon
  <2> QED BY <2>1, <2>3
<1>5. ASSUME NEW t \in held
      PROVE  (CHOOSE r \in refunds : r[1] = t)[2] = staked[s][t]
  <2>1. \E r \in refunds : r[1] = t
    <3>1. <<t, staked[s][t]>> \in refunds /\ <<t, staked[s][t]>>[1] = t
      BY <1>2
    <3> QED BY <3>1, Zenon
  <2>2. PICK r \in refunds : r = CHOOSE q \in refunds : q[1] = t
    BY <2>1
  <2>3. r[1] = t
    BY <2>1, <2>2
  <2>4. r[2] = staked[s][r[1]]
    BY <1>2
  <2> QED BY <2>2, <2>3, <2>4
<1> HIDE DEF refunded
<1>6. \A t \in Currencies : staked'[s][t] = 0 /\ bond_entries'[s][t] \in Nat
  <2> SUFFICES ASSUME NEW t \in Currencies
               PROVE  staked'[s][t] = 0 /\ bond_entries'[s][t] \in Nat
    OBVIOUS
  <2>1. staked[s][t] \in Nat /\ bond_entries[s][t] \in Nat
    BY <1>1
  <2>2. CASE t \in held
    <3>1. PICK r : r = CHOOSE q \in refunds : q[1] = t
      OBVIOUS
    <3>2. r[2] = staked[s][t]
      BY <1>5, <2>2, <3>1
    <3>3. staked'[s][t] = staked[s][t] - r[2] /\ bond_entries'[s][t] = 0
      BY <1>1, <1>3, <1>4, <2>2, <3>1
    <3> QED BY <2>1, <3>2, <3>3
  <2>3. CASE t \notin held
    <3>1. staked'[s][t] = staked[s][t] /\ bond_entries'[s][t] = bond_entries[s][t]
      BY <1>1, <1>3, <1>4, <2>3
    <3> QED BY <2>1, <2>3, <3>1
  <2> QED BY <2>2, <2>3
<1>7. \A t \in Currencies :
        (IF t = LegacyToken THEN legacy_bond'[s] ELSE bond_entries'[s][t]) = 0
  <2> SUFFICES ASSUME NEW t \in Currencies, t # LegacyToken
               PROVE  bond_entries'[s][t] = 0
    BY <1>1, <1>3
  <2>1. bond_entries[s][t] = staked[s][t] /\ staked[s][t] \in Nat
    BY <1>1 DEF BondsInv, StoredRight, GetSolverBondAmount
  <2>2. bond_entries'[s][t] = IF t \in held THEN 0 ELSE bond_entries[s][t]
    BY <1>1, <1>3, <1>4
  <2> QED BY <2>1, <2>2
<1>8. \A u \in Bonders \ {s} :
        /\ legacy_bond'[u] = legacy_bond[u] /\ bond_entries'[u] = bond_entries[u]
        /\ staked'[u] = staked[u] /\ bond_tokens'[u] = bond_tokens[u]
  BY <1>1, <1>3
<1>9. bond_tokens'[s] = << >>
  BY <1>1, <1>3
<1>10. /\ legacy_bond' \in [Bonders -> Nat] /\ bond_entries' \in [Bonders -> [Currencies -> Nat]]
       /\ staked' \in [Bonders -> [Currencies -> Nat]]
       /\ bond_tokens' \in [Bonders -> Seq(Currencies)]
  <2>1. legacy_bond' \in [Bonders -> Nat] /\ bond_tokens' \in [Bonders -> Seq(Currencies)]
    BY <1>1, <1>3
  <2>2. PICK f, g : /\ f = [t \in Currencies |-> IF t \in refunded THEN 0 ELSE bond_entries[s][t]]
                    /\ g = [t \in Currencies |-> IF t \in refunded
                                THEN staked[s][t] - (CHOOSE r \in refunds : r[1] = t)[2]
                                ELSE staked[s][t]]
    OBVIOUS
  <2>3. bond_entries' = [bond_entries EXCEPT ![s] = f] /\ staked' = [staked EXCEPT ![s] = g]
    BY <1>3, <2>2
  <2>4. /\ f = [t \in Currencies |-> f[t]] /\ g = [t \in Currencies |-> g[t]]
        /\ f = bond_entries'[s] /\ g = staked'[s]
    BY <1>1, <2>2, <2>3
  <2>5. f \in [Currencies -> Nat] /\ g \in [Currencies -> Nat]
    BY <1>6, <2>4
  <2> QED BY <1>1, <2>1, <2>3, <2>5
<1>11. ASSUME NEW u \in Bonders
       PROVE  /\ Distinct(bond_tokens'[u])
              /\ Range(bond_tokens'[u]) = {c \in Currencies : staked'[u][c] > 0}
  <2>1. CASE u = s
    <3>1. Distinct(<< >>) /\ Range(<< >>) = {}
      BY DEF Distinct, Range
    <3>2. {c \in Currencies : staked'[s][c] > 0} = {}
      BY <1>6
    <3> QED BY <1>9, <2>1, <3>1, <3>2
  <2>2. CASE u # s
    <3>1. bond_tokens'[u] = bond_tokens[u] /\ staked'[u] = staked[u]
      BY <1>8, <2>2
    <3> QED BY <3>1 DEF BondsInv, StoredRight, Distinct
  <2> QED BY <2>1, <2>2
<1>12. ASSUME NEW u \in Bonders, NEW c \in Currencies
       PROVE  (IF c = LegacyToken THEN legacy_bond'[u] ELSE bond_entries'[u][c]) = staked'[u][c]
  <2>1. CASE u = s
    BY <1>6, <1>7, <2>1
  <2>2. CASE u # s
    BY <1>8, <2>2 DEF BondsInv, StoredRight, GetSolverBondAmount
  <2> QED BY <2>1, <2>2
<1>13. StoredRight'
  BY <1>10, <1>11, <1>12, Zenon DEF StoredRight, GetSolverBondAmount
<1>14. \A u \in Bonders \ records' : \A t \in Currencies : staked'[u][t] = 0
  <2> SUFFICES ASSUME NEW u \in Bonders \ records', NEW t \in Currencies
               PROVE  staked'[u][t] = 0
    OBVIOUS
  <2>1. CASE u = s
    BY <1>6, <2>1
  <2>2. CASE u # s
    <3>1. u \in Bonders \ records /\ staked'[u] = staked[u]
      BY <1>3, <1>8, <2>2
    <3> QED BY <3>1 DEF BondsInv
  <2> QED BY <2>1, <2>2
<1> QED BY <1>3, <1>13, <1>14 DEF BondsInv

\* One bond goes up or down, of a solver that is then or was on record.
LEMMA OneBondMoves ==
  ASSUME BondsInv, NEW s \in Bonders, NEW t \in Currencies, NEW amount \in Int,
         GetSolverBondAmount(s, t) + amount >= 0,
         SetSolverBondAmount(s, t, GetSolverBondAmount(s, t) + amount), Moved(s, t, amount),
         s \in records', records' \in {records, records \cup {s}},
         busy_solvers' \subseteq busy_solvers
  PROVE  BondsInv'
<1>1. staked \in [Bonders -> [Currencies -> Nat]] /\ GetSolverBondAmount(s, t) = staked[s][t]
  BY DEF BondsInv, StoredRight
<1>2. PICK left : left = staked[s][t] + amount
  OBVIOUS
<1>3. left \in Nat
  BY <1>1, <1>2
<1>4. staked' = [staked EXCEPT ![s][t] = left]
  BY <1>1, <1>2 DEF Moved
<1>5. SetSolverBondAmount(s, t, left)
  BY <1>1, <1>2
<1>6. StoredRight'
  BY <1>3, <1>4, <1>5, BondWriteKeeps DEF BondsInv
<1>7. \A u \in Bonders \ records' : u \in Bonders \ records /\ staked'[u] = staked[u]
  BY <1>1, <1>4
<1> QED BY <1>6, <1>7 DEF BondsInv

\* Every step keeps the bonds as they are stored.
LEMMA BondsKept ==
  ASSUME BondsInv, [BondsNext]_bondsVars
  PROVE  BondsInv'
<1> USE DEF bondsVars, recordVars
<1>1. CASE UNCHANGED recordVars /\ busy_solvers' \subseteq records
  BY <1>1 DEF BondsInv, StoredRight, GetSolverBondAmount, Distinct
<1>2. ASSUME NEW s \in Bonders, NEW t \in Currencies, NEW amount \in Stakes,
             NEW cost \in TransferCosts, RegisterWithToken(s, t, amount, cost)
      PROVE  BondsInv'
  <2>1. GetSolverBondAmount(s, t) \in Nat /\ amount \in Nat /\ cost \in Nat /\ cost <= amount
    BY <1>2, BondsAssumption DEF RegisterWithToken, BondsInv, StoredRight
  <2>2. PICK more \in Int : more = amount - cost
    BY <2>1
  <2>3. /\ more >= 0
        /\ GetSolverBondAmount(s, t) + amount - cost = GetSolverBondAmount(s, t) + more
    BY <2>1, <2>2
  <2>4. /\ SetSolverBondAmount(s, t, GetSolverBondAmount(s, t) + more) /\ Moved(s, t, more)
        /\ records' = records \cup {s} /\ busy_solvers' = busy_solvers
    BY <1>2, <2>2, <2>3 DEF RegisterWithToken
  <2> QED BY <2>1, <2>3, <2>4, OneBondMoves
<1>3. ASSUME NEW s \in Bonders, NEW t \in Currencies, NEW amount \in Stakes,
             WithdrawBondToken(s, t, amount) \/ SlashBond(s, t, amount)
      PROVE  BondsInv'
  <2>1. GetSolverBondAmount(s, t) \in Nat /\ amount \in Nat
    BY BondsAssumption DEF BondsInv, StoredRight
  <2>2. PICK less \in Int : less = -amount
    BY <2>1
  <2>3. GetSolverBondAmount(s, t) - amount = GetSolverBondAmount(s, t) + less
    BY <2>1, <2>2
  <2>4. /\ GetSolverBondAmount(s, t) + less >= 0 /\ records' = records /\ s \in records
        /\ busy_solvers' \subseteq busy_solvers
    BY <1>3, <2>1, <2>2 DEF WithdrawBondToken, SlashBond, BondsInv
  <2>5. SetSolverBondAmount(s, t, GetSolverBondAmount(s, t) + less) /\ Moved(s, t, less)
    BY <1>3, <2>2, <2>3 DEF WithdrawBondToken, SlashBond
  <2> QED BY <2>4, <2>5, OneBondMoves
<1>4. ASSUME NEW s \in Bonders, BonderCall(s)
      PROVE  BondsInv'
  <2>1. CASE TakeOn(s)
    BY <1>1, <2>1 DEF TakeOn, BondsInv
  <2>2. CASE Deregister(s)
    BY <2>2, DeregisterKeeps
  <2> QED BY <1>2, <1>3, <1>4, <2>1, <2>2 DEF BonderCall
<1>5. ASSUME NEW t \in Currencies, BondTokenCall(t)
      PROVE  UNCHANGED recordVars /\ busy_solvers' = busy_solvers
  BY <1>5 DEF BondTokenCall, AddAllowedBondToken, RemoveAllowedBondToken, SetBondTokenMin
<1>6. CASE UNCHANGED bondsVars
  BY <1>1, <1>6 DEF BondsInv
<1> QED BY <1>1, <1>4, <1>5, <1>6 DEF BondsNext, BondsInv

\* The list in a record finds every bond, once, and nothing else, and leaving pays back
\* all that is left of what went in, for any tokens, minimums and amounts.
THEOREM EveryBondIsFound == BondsSpec => []BondsFound
<1>1. BondsInit => BondsInv
  <2> SUFFICES ASSUME BondsInit PROVE BondsInv
    OBVIOUS
  <2>1. Distinct(<< >>) /\ Range(<< >>) = {}
    BY DEF Distinct, Range
  <2>2. StoredRight
    BY <2>1 DEF BondsInit, StoredRight, NothingIn, GetSolverBondAmount
  <2> QED BY <2>2 DEF BondsInit, BondsInv, NothingIn
<1>2. BondsInv => BondsFound
  <2> SUFFICES ASSUME BondsInv, NEW s \in Bonders
               PROVE  Len(bond_tokens[s]) = Cardinality({t \in Currencies : staked[s][t] > 0})
    BY RefundsAreAll DEF BondsFound, BondsInv, StoredRight
  <2> QED BY DistinctCounts DEF BondsInv, StoredRight
<1> QED BY <1>1, <1>2, BondsKept, PTL DEF BondsSpec

(***************************************************************************)
(* Prices, shares and scores.                                              *)
(***************************************************************************)

\* Division truncates toward zero: what is left has the sign of what is divided.
LEMMA Truncates ==
  ASSUME NEW x \in Int, NEW d \in Nat \ {0}
  PROVE  /\ Quot(x, d) \in Int /\ Rem(x, d) \in Int /\ x = Quot(x, d) * d + Rem(x, d)
         /\ x >= 0 => Quot(x, d) = x \div d /\ Quot(x, d) >= 0 /\ Rem(x, d) \in 0..(d - 1)
         /\ x < 0 => Rem(x, d) \in (1 - d)..0
<1>1. CASE x >= 0
  <2>1. PICK q \in Nat : q = x \div d /\ q * d <= x /\ x < q * d + d
    BY <1>1, Quotient
  <2>2. Quot(x, d) = q
    BY <1>1, <2>1 DEF Quot
  <2>3. q * d \in Nat /\ Rem(x, d) = x - q * d
    BY <2>2, ProductNat DEF Rem
  <2> QED BY <1>1, <2>1, <2>2, <2>3
<1>2. CASE x < 0
  <2>1. -x \in Nat
    BY <1>2
  <2>2. PICK q \in Nat : q = (-x) \div d /\ q * d <= -x /\ -x < q * d + d
    BY <2>1, Quotient
  <2>3. Quot(x, d) = -q
    BY <1>2, <2>2 DEF Quot
  <2>4. q * d \in Nat /\ (-q) * d = -(q * d) /\ Rem(x, d) = x - (-q) * d
    BY <2>3, ProductNat DEF Rem
  <2> QED BY <1>2, <2>2, <2>3, <2>4
<1> QED BY <1>1, <1>2

LEMMA QuotOfNat ==
  ASSUME NEW x \in Nat, NEW d \in Nat \ {0}
  PROVE  Quot(x, d) = x \div d
BY DEF Quot

\* A part of a number is at most the number.
LEMMA PartOfWhole ==
  ASSUME NEW n \in Nat, NEW x \in Nat, NEW d \in Nat \ {0}, x <= d
  PROVE  (n * x) \div d \in 0..n
<1>1. n * x \in Nat /\ n * d \in Nat /\ x * n <= d * n /\ x * n = n * x /\ d * n = n * d
  BY ProductNat, ProductRises
<1>2. PICK q \in Nat : q = (n * x) \div d /\ q * d <= n * x
  BY <1>1, Quotient
<1>3. q <= n
  <2> SUFFICES ASSUME n + 1 <= q PROVE FALSE
    OBVIOUS
  <2>1. (n + 1) * d <= q * d /\ (n + 1) * d = n * d + d /\ q * d \in Nat
    BY ProductRises, ProductNat
  <2> QED BY <1>1, <1>2, <2>1
<1> QED BY <1>2, <1>3

-----------------------------------------------------------------------------
(* The auction.                                                            *)

LEMMA PriceFalls ==
  ASSUME NEW a \in Auction, Falls(a), NEW t \in Nat, NEW u \in Nat, t <= u
  PROVE  /\ CurrentMinDst(a, t) \in a.min..a.start
         /\ CurrentMinDst(a, u) \in a.min..CurrentMinDst(a, t)
<1>1. PICK s \in Int, m \in Int, f \in Nat, e \in Nat :
        s = a.start /\ m = a.min /\ f = a.from /\ e = a.till
  BY DEF Auction
<1>2. f < e /\ m <= s /\ s - m \in Nat /\ e - f \in Nat \ {0}
  BY <1>1 DEF Falls
<1>3. PICK n \in Nat, d \in Nat \ {0} : n = s - m /\ d = e - f
  BY <1>2
<1>4. ASSUME NEW y \in Nat, f < y, y < e
      PROVE  /\ y - f \in Nat /\ y - f <= d /\ n * (y - f) \in Nat
             /\ CurrentMinDst(a, y) = s - ((n * (y - f)) \div d)
             /\ (n * (y - f)) \div d \in 0..n
  <2>1. PICK x \in Nat : x = y - f /\ x <= d
    BY <1>3, <1>4
  <2>2. n * x \in Nat /\ (n * x) \div d \in 0..n
    BY <2>1, ProductNat, PartOfWhole
  <2>3. Decay(a, y) = Quot(n * x, d)
    BY <1>1, <1>3, <2>1 DEF Decay
  <2>4. Quot(n * x, d) = (n * x) \div d
    BY <2>2, QuotOfNat
  <2>5. CurrentMinDst(a, y) = s - ((n * x) \div d)
    BY <1>1, <1>4, <2>3, <2>4 DEF CurrentMinDst
  <2> QED BY <2>1, <2>2, <2>5
<1>5. ASSUME NEW y \in Nat PROVE CurrentMinDst(a, y) \in m..s
  <2>1. CASE y >= e
    BY <1>1, <1>2, <2>1 DEF CurrentMinDst
  <2>2. CASE y < e /\ y <= f
    BY <1>1, <1>2, <2>2 DEF CurrentMinDst
  <2>3. CASE y < e /\ f < y
    <3>1. PICK g \in 0..n : CurrentMinDst(a, y) = s - g
      BY <1>4, <2>3
    <3> QED BY <1>2, <1>3, <3>1
  <2> QED BY <2>1, <2>2, <2>3
<1>6. CurrentMinDst(a, u) <= CurrentMinDst(a, t)
  <2>1. CASE u >= e
    <3>1. CurrentMinDst(a, u) = m
      BY <1>1, <2>1 DEF CurrentMinDst
    <3> QED BY <1>5, <3>1
  <2>2. CASE t <= f /\ u < e
    <3>1. CurrentMinDst(a, t) = s
      BY <1>1, <1>2, <2>2 DEF CurrentMinDst
    <3> QED BY <1>5, <3>1
  <2>3. CASE f < t /\ u < e
    <3>1. PICK x \in Nat, z \in Nat : x = t - f /\ z = u - f /\ x <= z /\ z <= d
      BY <1>3, <2>3
    <3>2. n * x \in Nat /\ n * z \in Nat /\ x * n <= z * n /\ x * n = n * x /\ z * n = n * z
      BY <3>1, ProductNat, ProductRises
    <3>3. (n * x) \div d <= (n * z) \div d
      BY <3>2, QuotientRises
    <3>4. /\ CurrentMinDst(a, t) = s - ((n * x) \div d) /\ (n * x) \div d \in 0..n
          /\ CurrentMinDst(a, u) = s - ((n * z) \div d) /\ (n * z) \div d \in 0..n
      BY <1>4, <2>3, <3>1
    <3>5. PICK g \in Nat, h \in Nat : g = (n * x) \div d /\ h = (n * z) \div d
      BY <3>4
    <3> QED BY <3>3, <3>4, <3>5
  <2> QED BY <2>1, <2>2, <2>3
<1>7. CurrentMinDst(a, t) \in m..s /\ CurrentMinDst(a, u) \in m..s
  BY <1>5
<1> QED BY <1>1, <1>6, <1>7

\* What a quote is.
LEMMA QuoteTypes ==
  ASSUME NEW q \in Quotes
  PROVE  /\ q.auction \in Auction /\ q.pays \in Price /\ q.gets \in Price
         /\ q.amount \in Int /\ q.parts \in 0..Parts /\ q.bond \in Int /\ q.tier \in Nat
         /\ q.record \in Record
BY QuoteOK

LEMMA AuctionsFall ==
  ASSUME quote \in Quotes, ledger_time \in Nat
  PROVE  AuctionFalls
<1> DEFINE a == quote.auction
<1> SUFFICES ASSUME Falls(a)
             PROVE  /\ CurrentMinDst(a, ledger_time) \in a.min..a.start
                    /\ CurrentMinDst(a, ledger_time) = DutchDecay(a, ledger_time)
                    /\ ledger_time <= a.from => CurrentMinDst(a, ledger_time) = a.start
                    /\ ledger_time >= a.till => CurrentMinDst(a, ledger_time) = a.min
                    /\ \A later \in ledger_time..LastTime :
                         CurrentMinDst(a, later) \in a.min..CurrentMinDst(a, ledger_time)
  BY DEF AuctionFalls
<1>1. a \in Auction
  BY QuoteTypes
<1> HIDE DEF a
<1>2. CurrentMinDst(a, ledger_time) \in a.min..a.start
  BY <1>1, PriceFalls
<1>3. CurrentMinDst(a, ledger_time) = DutchDecay(a, ledger_time)
  BY DEF DutchDecay, Falls
<1>4. /\ ledger_time <= a.from => CurrentMinDst(a, ledger_time) = a.start
      /\ ledger_time >= a.till => CurrentMinDst(a, ledger_time) = a.min
  BY <1>1 DEF CurrentMinDst, Falls, Auction
<1>5. ASSUME NEW later \in ledger_time..LastTime
      PROVE  CurrentMinDst(a, later) \in a.min..CurrentMinDst(a, ledger_time)
  <2>1. later \in Nat /\ ledger_time <= later
    BY ClockAssumption DEF ClockAssumption
  <2> QED BY <1>1, <2>1, PriceFalls
<1> QED BY <1>2, <1>3, <1>4, <1>5

-----------------------------------------------------------------------------
(* Rounding.                                                               *)

LEMMA RoundingsAreRight ==
  ASSUME quote \in Quotes
  PROVE  RoundingsAgree
<1>1. PICK amount \in Int, parts \in Nat, d \in Nat \ {0} :
        amount = quote.amount /\ parts = quote.parts /\ d = Parts /\ parts <= d
  BY QuoteTypes, PricingAssumption DEF PricingAssumption
<1>2. PICK x \in Int, q \in Int, r \in Int :
        x = amount * parts /\ q = Quot(x, d) /\ r = Rem(x, d)
  <2>1. amount * parts \in Int
    OBVIOUS
  <2> QED BY <2>1, Truncates
<1>3. /\ x = q * d + r
      /\ x >= 0 => q >= 0 /\ r \in 0..(d - 1)
      /\ x < 0 => r \in (1 - d)..0
  BY <1>2, Truncates
<1>4. PICK y \in Int : y = q * d
  OBVIOUS
<1>5. x = y + r
  BY <1>3, <1>4
<1>6. (q + 1) * d = y + d /\ (q + 0) * d = y
  BY <1>4
<1>7. BpsMulDiv(amount, parts) = q /\ Rem(amount * parts, Parts) = r
  BY <1>1, <1>2 DEF BpsMulDiv
<1>8. BpsMulDivCeil(amount, parts) * d - x \in 0..(d - 1)
  <2>1. BpsMulDivCeil(amount, parts) = q + IF r > 0 THEN 1 ELSE 0
    BY <1>7 DEF BpsMulDivCeil
  <2>2. CASE r > 0
    <3>1. BpsMulDivCeil(amount, parts) * d = y + d
      BY <1>6, <2>1, <2>2
    <3>2. r \in 0..(d - 1)
      BY <1>3, <2>2
    <3> QED BY <1>5, <2>2, <3>1, <3>2
  <2>3. CASE ~ (r > 0)
    <3>1. BpsMulDivCeil(amount, parts) * d = y
      BY <1>6, <2>1, <2>3
    <3>2. r <= 0 /\ -r \in 0..(d - 1)
      BY <1>3, <2>3
    <3> QED BY <1>5, <3>1, <3>2
  <2> QED BY <2>2, <2>3
<1>9. ASSUME amount >= 0
      PROVE  /\ x - BpsMulDiv(amount, parts) * d \in 0..(d - 1)
             /\ 2 * BpsMulDivNearest(amount, parts) * d - 2 * x \in (1 - d)..d
             /\ ComputeFee(amount, parts) <= amount
  <2>1. x >= 0
    BY <1>2, <1>9, ProductNat
  <2>2. r \in 0..(d - 1)
    BY <1>3, <2>1
  <2>3. x - BpsMulDiv(amount, parts) * d \in 0..(d - 1)
    BY <1>4, <1>5, <1>7, <2>2
  <2>4. 2 * BpsMulDivNearest(amount, parts) * d - 2 * x \in (1 - d)..d
    <3>1. BpsMulDivNearest(amount, parts) = q + IF r * 2 >= d THEN 1 ELSE 0
      BY <1>1, <1>7 DEF BpsMulDivNearest
    <3>2. \A z \in Int : 2 * z * d = 2 * (z * d)
      OBVIOUS
    <3>3. CASE r * 2 >= d
      <4>1. 2 * BpsMulDivNearest(amount, parts) * d = 2 * (y + d)
        BY <1>6, <3>1, <3>2, <3>3
      <4> QED BY <1>5, <2>2, <3>3, <4>1
    <3>4. CASE ~ (r * 2 >= d)
      <4>1. 2 * BpsMulDivNearest(amount, parts) * d = 2 * y
        BY <1>6, <3>1, <3>2, <3>4
      <4> QED BY <1>5, <2>2, <3>4, <4>1
    <3> QED BY <3>3, <3>4
  <2>5. ComputeFee(amount, parts) <= amount
    <3>1. amount \in Nat
      BY <1>9
    <3>2. x \in Nat /\ x \div d \in 0..amount
      BY <1>1, <1>2, <2>1, <3>1, PartOfWhole
    <3>3. q = x \div d
      BY <1>2, <2>1, Truncates
    <3> QED BY <1>7, <3>2, <3>3 DEF ComputeFee
  <2> QED BY <2>3, <2>4, <2>5
<1>10. ASSUME NEW fee \in 0..MaxFeeParts PROVE ApplyDiscount(fee, parts) \in 0..fee
  <2>1. fee \in Nat
    BY PricingAssumption DEF PricingAssumption
  <2>2. AtLeast(AtMost(parts, Parts), 0) = parts
    BY <1>1 DEF AtLeast, AtMost
  <2>3. PICK less \in 0..fee : less = BpsMulDiv(fee, parts)
    <3>1. fee * parts \in Nat /\ (fee * parts) \div d \in 0..fee
      BY <1>1, <2>1, ProductNat, PartOfWhole
    <3>2. Quot(fee * parts, d) = (fee * parts) \div d
      BY <3>1, QuotOfNat
    <3> QED BY <1>1, <3>1, <3>2 DEF BpsMulDiv
  <2>4. ApplyDiscount(fee, parts) = IF fee <= 0 THEN 0 ELSE AtLeast(fee - less, 0)
    BY <2>2, <2>3 DEF ApplyDiscount
  <2> QED BY <2>1, <2>3, <2>4 DEF AtLeast
<1> QED BY <1>1, <1>2, <1>8, <1>9, <1>10 DEF RoundingsAgree


-----------------------------------------------------------------------------
(* Powers of ten.                                                          *)

\* One step of TenTo, for a function f that holds the powers below n.
TenStep(f, n) == IF n = 0 THEN 1 ELSE 10 * f[n - 1]

\* f holds the first powers, up to n.
TensTo(n, f) ==
  /\ f = [k \in 0..MaxDecimals |-> f[k]]
  /\ \A k \in 0..MaxDecimals : k <= n => f[k] = TenStep(f, k)

\* The powers are defined: by induction on the exponent.
LEMMA TensAreDefined ==
  \A n \in 0..MaxDecimals : TenTo[n] = TenStep(TenTo, n)
<1> DEFINE D == 0..MaxDecimals
           T == {n \in Nat : \E f : TensTo(n, f)}
           Solves(f) == f = [n \in D |-> TenStep(f, n)]
<1>1. MaxDecimals \in Nat
  BY PricingAssumption DEF PricingAssumption
<1>2. 0 \in T
  <2> DEFINE f == [k \in D |-> 1]
  <2>1. f = [k \in D |-> f[k]]
    OBVIOUS
  <2>2. \A k \in D : k <= 0 => f[k] = TenStep(f, k)
    BY <1>1 DEF TenStep
  <2> HIDE DEF f
  <2> QED BY <2>1, <2>2 DEF TensTo
<1>3. ASSUME NEW n \in Nat, n \in T
      PROVE  n + 1 \in T
  <2>1. PICK f : TensTo(n, f)
    BY <1>3
  <2> DEFINE g == [k \in D |-> TenStep(f, k)]
  <2>2. g = [k \in D |-> g[k]]
    OBVIOUS
  <2>3. \A k \in D : k <= n => g[k] = f[k]
    BY <2>1 DEF TensTo
  <2>4. ASSUME NEW k \in D, k <= n + 1
        PROVE  g[k] = TenStep(g, k)
    <3>1. CASE k = 0
      BY <3>1 DEF TenStep
    <3>2. CASE k # 0
      <4>1. k - 1 \in D /\ k - 1 <= n
        BY <1>1, <2>4, <3>2
      <4>2. g[k - 1] = f[k - 1]
        BY <2>3, <4>1
      <4> QED BY <4>2 DEF TenStep
    <3> QED BY <3>1, <3>2
  <2> HIDE DEF g
  <2>5. TensTo(n + 1, g)
    BY <2>2, <2>4 DEF TensTo
  <2> QED BY <2>5
<1>4. MaxDecimals \in T
  <2> HIDE DEF T
  <2> QED BY <1>1, <1>2, <1>3, NaturalInduction
<1>5. PICK f : TensTo(MaxDecimals, f)
  BY <1>4
<1>6. Solves(f)
  <2>1. \A k \in D : f[k] = TenStep(f, k)
    BY <1>1, <1>5 DEF TensTo
  <2>2. f = [k \in D |-> f[k]]
    BY <1>5 DEF TensTo
  <2> QED BY <2>1, <2>2
<1>7. Solves(TenTo)
  <2>1. TenTo = CHOOSE h : Solves(h)
    BY Zenon DEF TenTo, TenStep
  <2> HIDE DEF Solves
  <2> QED BY <1>6, <2>1
<1> QED BY <1>7, Zenon

\* A power of ten is a positive number.
LEMMA TenIsPositive ==
  \A n \in 0..MaxDecimals : TenTo[n] \in Nat \ {0}
<1> DEFINE T == {n \in Nat : n <= MaxDecimals => TenTo[n] \in Nat \ {0}}
<1>1. MaxDecimals \in Nat
  BY PricingAssumption DEF PricingAssumption
<1>2. 0 \in T
  BY <1>1, TensAreDefined DEF TenStep
<1>3. ASSUME NEW n \in Nat, n \in T PROVE n + 1 \in T
  <2> SUFFICES ASSUME n + 1 <= MaxDecimals PROVE TenTo[n + 1] \in Nat \ {0}
    OBVIOUS
  <2>1. n \in 0..MaxDecimals /\ n + 1 \in 0..MaxDecimals /\ n + 1 # 0 /\ (n + 1) - 1 = n
    BY <1>1
  <2>2. TenTo[n + 1] = 10 * TenTo[n]
    BY <2>1, TensAreDefined DEF TenStep
  <2>3. TenTo[n] \in Nat \ {0}
    BY <1>3, <2>1
  <2> QED BY <2>2, <2>3
<1>4. \A n \in Nat : n \in T
  <2> HIDE DEF T
  <2> QED BY <1>2, <1>3, NaturalInduction
<1> QED BY <1>1, <1>4

\* Exponents add.
LEMMA TensMultiply ==
  ASSUME NEW m \in 0..MaxDecimals, NEW n \in 0..MaxDecimals, m + n <= MaxDecimals
  PROVE  TenTo[m + n] = TenTo[m] * TenTo[n]
<1> DEFINE Adds(k) == TenTo[m + k] = TenTo[m] * TenTo[k]
           T == {k \in Nat : m + k <= MaxDecimals => Adds(k)}
<1>1. MaxDecimals \in Nat /\ m \in Nat /\ n \in Nat
  BY PricingAssumption DEF PricingAssumption
<1>2. TenTo[m] \in Nat
  BY TenIsPositive
<1>3. 0 \in T
  <2>1. TenTo[0] = 1
    BY <1>1, TensAreDefined DEF TenStep
  <2>2. m + 0 = m
    BY <1>1
  <2> QED BY <1>2, <2>1, <2>2
<1>4. ASSUME NEW k \in Nat, k \in T PROVE k + 1 \in T
  <2> SUFFICES ASSUME m + (k + 1) <= MaxDecimals PROVE Adds(k + 1)
    OBVIOUS
  <2>1. /\ k \in 0..MaxDecimals /\ k + 1 \in 0..MaxDecimals /\ k + 1 # 0 /\ (k + 1) - 1 = k
        /\ m + k \in 0..MaxDecimals /\ m + (k + 1) \in 0..MaxDecimals
        /\ m + (k + 1) # 0 /\ (m + (k + 1)) - 1 = m + k /\ m + k <= MaxDecimals
    BY <1>1
  <2>2. TenTo[k + 1] = 10 * TenTo[k]
    BY <2>1, TensAreDefined DEF TenStep
  <2>3. TenTo[m + (k + 1)] = 10 * TenTo[m + k]
    BY <2>1, TensAreDefined DEF TenStep
  <2>4. Adds(k)
    BY <1>4, <2>1
  <2>5. PICK a \in Nat, b \in Nat : a = TenTo[m] /\ b = TenTo[k]
    BY <1>2, <2>1, TenIsPositive
  <2>6. 10 * (a * b) = a * (10 * b)
    OBVIOUS
  <2> QED BY <2>2, <2>3, <2>4, <2>5, <2>6
<1>5. \A k \in Nat : k \in T
  <2> HIDE DEF T
  <2> QED BY <1>3, <1>4, NaturalInduction
<1> QED BY <1>1, <1>5

-----------------------------------------------------------------------------
(* Cross rates.                                                            *)

LEMMA ProductsRise ==
  ASSUME NEW a \in Nat, NEW b \in Nat, a <= b, NEW c \in Nat, NEW d \in Nat, c <= d
  PROVE  a * c <= b * d
<1>1. a * c <= b * c /\ c * b <= d * b /\ b * c = c * b /\ b * d = d * b
  BY ProductRises
<1>2. a * c \in Nat /\ b * c \in Nat /\ b * d \in Nat
  BY ProductNat
<1> QED BY <1>1, <1>2

LEMMA FactorCancels ==
  ASSUME NEW x \in Nat, NEW y \in Nat, NEW k \in Nat \ {0}, x * k <= y * k
  PROVE  x <= y
<1> SUFFICES ASSUME y + 1 <= x PROVE FALSE
  OBVIOUS
<1>1. (y + 1) * k <= x * k /\ (y + 1) * k = y * k + k
  BY ProductRises
<1>2. x * k \in Nat /\ y * k \in Nat
  BY ProductNat
<1> QED BY <1>1, <1>2

\* There at a rate that is no more than a to b, and back at one no more than b to a.
LEMMA ThereAndBack ==
  ASSUME NEW a \in Nat \ {0}, NEW b \in Nat \ {0}, NEW p \in Nat, NEW r \in Nat, NEW s \in Nat,
         r * b <= a * p, s * a <= b * p
  PROVE  r * s <= p * p
<1>1. /\ r * b \in Nat /\ a * p \in Nat /\ s * a \in Nat /\ b * p \in Nat
      /\ r * s \in Nat /\ p * p \in Nat /\ a * b \in Nat
  BY ProductNat
<1>2. (r * b) * (s * a) <= (a * p) * (b * p)
  BY <1>1, ProductsRise
<1>3. (r * b) * (s * a) = (r * s) * (a * b) /\ (a * p) * (b * p) = (p * p) * (a * b)
  OBVIOUS
<1>4. a * b # 0
  OBVIOUS
<1>5. PICK x \in Nat, y \in Nat, k \in Nat \ {0} : x = r * s /\ y = p * p /\ k = a * b
  BY <1>1, <1>4
<1>6. x * k <= y * k
  BY <1>2, <1>3, <1>5
<1> QED BY <1>5, <1>6, FactorCancels

\* The two sides of a rate, brought to the same decimals.
Above(from, to) == from.price * TenTo[to.decimals]

LEMMA SidesArePositive ==
  ASSUME NEW p \in Price, NEW q \in Price, p.price > 0
  PROVE  Above(p, q) \in Nat \ {0}
<1>1. q.decimals \in 0..MaxDecimals /\ p.price \in Nat \ {0}
  BY DEF Price
<1>2. PICK a \in Nat \ {0}, t \in Nat \ {0} : a = p.price /\ t = TenTo[q.decimals]
  BY <1>1, TenIsPositive
<1>3. a * t \in Nat /\ a * t # 0
  OBVIOUS
<1> QED BY <1>2, <1>3 DEF Above

LEMMA ScaledRoundsDown ==
  ASSUME NEW p \in Price, NEW q \in Price, p.price > 0, q.price > 0
  PROVE  /\ Scaled(p, q) \in Nat
         /\ Scaled(p, q) * Above(q, p) <= Above(p, q) * Parts
         /\ \A r \in Nat : r * Above(q, p) <= Above(p, q) * Parts => r <= Scaled(p, q)
<1>1. PICK a \in Nat \ {0}, b \in Nat \ {0}, d \in Nat \ {0} :
        a = Above(p, q) /\ b = Above(q, p) /\ d = Parts
  BY SidesArePositive, PricingAssumption DEF PricingAssumption
<1>2. PICK x \in Nat : x = a * d
  BY ProductNat
<1>3. Scaled(p, q) = Quot(a * d, b)
  BY <1>1 DEF Scaled, Above
<1>4. Scaled(p, q) = x \div b
  BY <1>2, <1>3, QuotOfNat
<1>5. PICK s \in Nat : s = x \div b /\ s * b <= x
  BY Quotient
<1>6. \A r \in Nat : r * b <= x => r <= s
  BY <1>5, QuotientIsMost
<1> QED BY <1>1, <1>2, <1>4, <1>5, <1>6

LEMMA RateOrPar ==
  ASSUME NEW p, NEW q, NEW at
  PROVE  \/ WeightBps(p, q, at) = Parts
         \/ /\ Usable(p, at) /\ Usable(q, at) /\ p.price > 0 /\ q.price > 0
            /\ WeightBps(p, q, at) = Scaled(p, q)
BY DEF WeightBps, Usable

\* What PricesAgree compares are the two sides of the rate, both smaller by the same factor.
LEMMA SidesCompared ==
  ASSUME NEW p \in Price, NEW q \in Price, p.price > 0, q.price > 0
  PROVE  \E a, b, t \in Nat \ {0} :
           /\ a = p.price * TenTo[AtLeast(q.decimals - p.decimals, 0)]
           /\ b = q.price * TenTo[AtLeast(p.decimals - q.decimals, 0)]
           /\ Above(p, q) = a * t /\ Above(q, p) = b * t
<1>1. PICK m \in 0..MaxDecimals, n \in 0..MaxDecimals, x \in Nat \ {0}, y \in Nat \ {0} :
        m = p.decimals /\ n = q.decimals /\ x = p.price /\ y = q.price
  BY DEF Price
<1>2. MaxDecimals \in Nat /\ m \in Nat /\ n \in Nat
  BY PricingAssumption DEF PricingAssumption
<1>3. TenTo[0] = 1
  BY <1>2, TensAreDefined DEF TenStep
<1>4. CASE m <= n
  <2>1. /\ n - m \in 0..MaxDecimals /\ (n - m) + m = n
        /\ AtLeast(n - m, 0) = n - m /\ AtLeast(m - n, 0) = 0
    BY <1>2, <1>4 DEF AtLeast
  <2>2. TenTo[n] = TenTo[n - m] * TenTo[m]
    BY <2>1, TensMultiply
  <2>3. PICK t \in Nat \ {0}, u \in Nat \ {0} : t = TenTo[m] /\ u = TenTo[n - m]
    BY <2>1, TenIsPositive
  <2>4. /\ x * u \in Nat /\ x * u # 0 /\ x * (u * t) = (x * u) * t /\ y * 1 = y
    OBVIOUS
  <2>5. Above(p, q) = (x * u) * t /\ Above(q, p) = y * t
    BY <1>1, <2>2, <2>3, <2>4 DEF Above
  <2>6. PICK a \in Nat \ {0} : a = x * u
    BY <2>4
  <2> QED BY <1>1, <1>3, <2>1, <2>3, <2>4, <2>5, <2>6
<1>5. CASE n <= m
  <2>1. /\ m - n \in 0..MaxDecimals /\ (m - n) + n = m
        /\ AtLeast(m - n, 0) = m - n /\ AtLeast(n - m, 0) = 0
    BY <1>2, <1>5 DEF AtLeast
  <2>2. TenTo[m] = TenTo[m - n] * TenTo[n]
    BY <2>1, TensMultiply
  <2>3. PICK t \in Nat \ {0}, u \in Nat \ {0} : t = TenTo[n] /\ u = TenTo[m - n]
    BY <2>1, TenIsPositive
  <2>4. /\ y * u \in Nat /\ y * u # 0 /\ y * (u * t) = (y * u) * t /\ x * 1 = x
    OBVIOUS
  <2>5. Above(q, p) = (y * u) * t /\ Above(p, q) = x * t
    BY <1>1, <2>2, <2>3, <2>4 DEF Above
  <2>6. PICK b \in Nat \ {0} : b = y * u
    BY <2>4
  <2> QED BY <1>1, <1>3, <2>1, <2>3, <2>4, <2>5, <2>6
<1> QED BY <1>2, <1>4, <1>5

\* Numbers that differ by at most m parts of the larger are that close either way.
LEMMA CloseEitherWay ==
  ASSUME NEW a \in Nat, NEW b \in Nat, NEW p \in Nat, NEW m \in 0..p,
         (AtLeast(a, b) - AtMost(a, b)) * p <= m * AtLeast(a, b)
  PROVE  (p - m) * b <= a * p
<1>1. PICK k \in Nat : k = p - m /\ p = k + m /\ m \in Nat
  <2>1. p - m \in Nat /\ p = (p - m) + m /\ m \in Nat
    OBVIOUS
  <2> QED BY <2>1
<1>2. a * p \in Nat /\ b * p \in Nat /\ k * b \in Nat /\ m * b \in Nat /\ b * p = k * b + m * b
  BY <1>1, ProductNat
<1>3. CASE b <= a
  BY <1>1, <1>2, <1>3, ProductRises
<1>4. CASE a < b
  <2>1. (b - a) * p <= m * b
    BY <1>4 DEF AtLeast, AtMost
  <2>2. (b - a) * p = b * p - a * p
    OBVIOUS
  <2> QED BY <1>1, <1>2, <2>1, <2>2
<1> QED BY <1>3, <1>4

LEMMA AgreeingIsMutual ==
  ASSUME NEW p \in Price, NEW q \in Price, PricesAgree(p, q)
  PROVE  PricesAgree(q, p)
<1>1. p.price > 0 /\ q.price > 0
  BY DEF PricesAgree
<1>2. PICK a \in Nat, b \in Nat :
        /\ a = p.price * TenTo[AtLeast(q.decimals - p.decimals, 0)]
        /\ b = q.price * TenTo[AtLeast(p.decimals - q.decimals, 0)]
  BY <1>1, SidesCompared
<1>3. (AtLeast(a, b) - AtMost(a, b)) * Parts <= MaxDeviation * AtLeast(a, b)
  BY <1>2, Zenon DEF PricesAgree
<1>4. AtLeast(b, a) = AtLeast(a, b) /\ AtMost(b, a) = AtMost(a, b)
  BY DEF AtLeast, AtMost
<1>5. (AtLeast(b, a) - AtMost(b, a)) * Parts <= MaxDeviation * AtLeast(b, a)
  BY <1>3, <1>4, Zenon
<1> QED BY <1>1, <1>2, <1>5, Zenon DEF PricesAgree

LEMMA AgreeingSides ==
  ASSUME NEW p \in Price, NEW q \in Price, PricesAgree(p, q)
  PROVE  (Parts - MaxDeviation) * Above(q, p) <= Above(p, q) * Parts
<1>1. p.price > 0 /\ q.price > 0
  BY DEF PricesAgree
<1>2. PICK a \in Nat \ {0}, b \in Nat \ {0}, t \in Nat \ {0} :
        /\ a = p.price * TenTo[AtLeast(q.decimals - p.decimals, 0)]
        /\ b = q.price * TenTo[AtLeast(p.decimals - q.decimals, 0)]
        /\ Above(p, q) = a * t /\ Above(q, p) = b * t
  BY <1>1, SidesCompared
<1>3. (AtLeast(a, b) - AtMost(a, b)) * Parts <= MaxDeviation * AtLeast(a, b)
  BY <1>2, Zenon DEF PricesAgree
<1>4. PICK d \in Nat, m \in Nat, k \in Nat :
        d = Parts /\ m = MaxDeviation /\ k = d - m /\ m \in 0..d
  BY PricingAssumption DEF PricingAssumption
<1>5. k * b <= a * d
  BY <1>3, <1>4, CloseEitherWay
<1>6. k * b \in Nat /\ a * d \in Nat
  BY ProductNat
<1>7. (k * b) * t <= (a * d) * t
  BY <1>5, <1>6, ProductRises
<1>8. (k * b) * t = k * (b * t) /\ (a * d) * t = (a * t) * d
  OBVIOUS
<1> QED BY <1>2, <1>4, <1>7, <1>8

LEMMA RatesAreFair ==
  ASSUME quote \in Quotes
  PROVE  RatesNeverGain
<1> DEFINE p == quote.pays
           q == quote.gets
           rate == WeightBps(p, q, ledger_time)
           back == WeightBps(q, p, ledger_time)
<1>1. p \in Price /\ q \in Price
  BY QuoteTypes
<1>2. PICK d \in Nat \ {0}, m \in Nat, k \in Nat \ {0} :
        d = Parts /\ m = MaxDeviation /\ k = d - m /\ k <= d
  BY PricingAssumption DEF PricingAssumption
<1> HIDE DEF p, q
<1>3. ASSUME rate # Parts
      PROVE  /\ Usable(p, ledger_time) /\ Usable(q, ledger_time)
             /\ p.price > 0 /\ q.price > 0
             /\ rate = Scaled(p, q) /\ rate \in Nat /\ rate * Above(q, p) <= Above(p, q) * Parts
  BY <1>1, <1>3, RateOrPar, ScaledRoundsDown
<1>4. ASSUME rate # Parts, back # Parts
      PROVE  rate * back <= Parts * Parts
  <2>1. back \in Nat /\ back * Above(p, q) <= Above(q, p) * Parts
    BY <1>1, <1>4, RateOrPar, ScaledRoundsDown
  <2>2. PICK a \in Nat \ {0}, b \in Nat \ {0} : a = Above(p, q) /\ b = Above(q, p)
    BY <1>1, <1>3, <1>4, SidesArePositive
  <2>3. PICK r \in Nat, s \in Nat : r = rate /\ s = back
    BY <1>3, <1>4, <2>1
  <2>4. r * b <= a * d /\ s * a <= b * d
    BY <1>2, <1>3, <1>4, <2>1, <2>2, <2>3
  <2>5. r * s <= d * d
    BY <2>4, ThereAndBack
  <2> QED BY <1>2, <2>3, <2>5
<1>5. ASSUME PricesAgree(p, q)
      PROVE  rate >= Parts - MaxDeviation /\ rate * (Parts - MaxDeviation) <= Parts * Parts
  <2>1. CASE rate = Parts
    <3>1. k <= d /\ k * d <= d * d /\ d * k = k * d
      BY <1>2, ProductRises
    <3> QED BY <1>2, <2>1, <3>1
  <2>2. CASE rate # Parts
    <3>1. PICK a \in Nat \ {0}, b \in Nat \ {0}, r \in Nat :
            a = Above(p, q) /\ b = Above(q, p) /\ r = rate
      BY <1>1, <1>3, <2>2, SidesArePositive
    <3>2. k * b <= a * d /\ k * a <= b * d
      BY <1>1, <1>2, <1>5, <3>1, AgreeingSides, AgreeingIsMutual
    <3>3. r * b <= a * d
      BY <1>2, <1>3, <2>2, <3>1
    <3>4. k <= r
      BY <1>1, <1>2, <1>3, <2>2, <3>1, <3>2, ScaledRoundsDown
    <3>5. r * k <= d * d
      BY <3>2, <3>3, ThereAndBack
    <3> QED BY <1>2, <3>1, <3>4, <3>5
  <2> QED BY <2>1, <2>2
<1>6. rate # Parts =>
        rate * (q.price * TenTo[p.decimals]) <= p.price * TenTo[q.decimals] * Parts
  BY <1>3 DEF Above
<1> QED BY <1>1, <1>3, <1>4, <1>5, <1>6, AgreeingIsMutual DEF RatesNeverGain, p, q

-----------------------------------------------------------------------------
(* Tiers.                                                                  *)

\* The row for a tier is one of the table, that of the next tier is no earlier, and that
\* of a tier which the registry's answer is taken for is its own.
LEMMA RowsInOrder ==
  ASSUME NEW S, NEW table \in Seq(S), Len(table) > 0, NEW tier \in Nat
  PROVE  /\ AtMost(tier + 1, Len(table)) \in DOMAIN table
         /\ AtMost((tier + 1) + 1, Len(table)) \in DOMAIN table
         /\ AtMost(tier + 1, Len(table)) <= AtMost((tier + 1) + 1, Len(table))
         /\ tier < Len(table) => RowOf(table, tier) = table[tier + 1]
<1>1. Len(table) \in Nat /\ DOMAIN table = 1..Len(table)
  OBVIOUS
<1>2. PICK n : n = Len(table)
  OBVIOUS
<1>3. n \in Nat \ {0}
  BY <1>1, <1>2
<1> QED BY <1>1, <1>2, <1>3 DEF AtMost, RowOf

LEMMA SlashRows ==
  ASSUME NEW tier \in Nat
  PROVE  /\ RowOf(SlashRate, tier) \in Nat
         /\ RowOf(SlashRate, tier + 1) \in 0..RowOf(SlashRate, tier)
         /\ FlatSlash \in Nat /\ RowOf(SlashRate, tier) <= FlatSlash
<1>1. /\ SlashRate \in Seq(0..Parts) /\ Len(SlashRate) > 0 /\ Parts \in Nat
      /\ FlatSlash \in 0..Parts
  BY PricingAssumption DEF PricingAssumption
<1>2. PICK j \in DOMAIN SlashRate, k \in DOMAIN SlashRate :
        /\ j = AtMost(tier + 1, Len(SlashRate)) /\ k = AtMost((tier + 1) + 1, Len(SlashRate))
        /\ j <= k
  BY <1>1, RowsInOrder
<1>3. SlashRate[j] \in 0..Parts /\ SlashRate[k] \in 0..Parts
  BY <1>1
<1>4. SlashRate[k] <= SlashRate[j] /\ SlashRate[j] <= FlatSlash
  BY <1>2, TablesFavourTiers DEF TablesFavourTiers
<1>5. RowOf(SlashRate, tier) = SlashRate[j] /\ RowOf(SlashRate, tier + 1) = SlashRate[k]
  BY <1>2, Zenon DEF RowOf
<1> QED BY <1>1, <1>3, <1>4, <1>5

LEMMA BonusRows ==
  ASSUME NEW tier \in Nat
  PROVE  /\ RowOf(WindowBonus, tier) \in Nat /\ RowOf(WindowBonus, tier + 1) \in Nat
         /\ RowOf(WindowBonus, tier) <= RowOf(WindowBonus, tier + 1)
<1>1. WindowBonus \in Seq(Nat) /\ Len(WindowBonus) > 0
  BY PricingAssumption DEF PricingAssumption
<1>2. PICK j \in DOMAIN WindowBonus, k \in DOMAIN WindowBonus :
        /\ j = AtMost(tier + 1, Len(WindowBonus)) /\ k = AtMost((tier + 1) + 1, Len(WindowBonus))
        /\ j <= k
  BY <1>1, RowsInOrder
<1>3. WindowBonus[j] \in Nat /\ WindowBonus[k] \in Nat
  BY <1>1
<1>4. WindowBonus[j] <= WindowBonus[k]
  BY <1>2, TablesFavourTiers DEF TablesFavourTiers
<1>5. RowOf(WindowBonus, tier) = WindowBonus[j] /\ RowOf(WindowBonus, tier + 1) = WindowBonus[k]
  BY <1>2, Zenon DEF RowOf
<1> QED BY <1>3, <1>4, <1>5

\* A slash takes something of a bond, and not more than the bond; at a higher rate no less.
LEMMA SlashInBond ==
  ASSUME NEW bond \in Int, NEW unfilled \in Int, NEW low \in Nat, NEW high \in Nat, low <= high
  PROVE  /\ bond > 0 => SlashAt(bond, unfilled, low) \in 1..bond
         /\ SlashAt(bond, unfilled, low) <= SlashAt(bond, unfilled, high)
<1>1. CASE bond <= 0
  BY <1>1 DEF SlashAt
<1>2. CASE bond > 0
  <2>1. PICK x \in Nat : x = AtMost(AtLeast(unfilled, 0), bond)
    BY <1>2 DEF AtMost, AtLeast
  <2>2. PICK y \in Nat : y = x \div 10
    BY Quotient
  <2>3. PICK z \in Nat : z = bond \div Parts
    <3>1. bond \in Nat /\ Parts \in Nat \ {0}
      BY <1>2, PricingAssumption DEF PricingAssumption
    <3> QED BY <3>1, Quotient
  <2>4. low * z <= high * z /\ low * z = z * low /\ high * z = z * high
    BY ProductRises
  <2>5. PICK v \in Nat, w \in Nat : v = z * low /\ w = z * high /\ v <= w
    BY <2>4, ProductNat
  <2> DEFINE Taken(share) == AtMost(AtLeast(y, 1), AtLeast(AtMost(share, bond), 1))
  <2>6. SlashAt(bond, unfilled, low) = Taken(v) /\ SlashAt(bond, unfilled, high) = Taken(w)
    BY <1>2, <2>1, <2>2, <2>3, <2>5 DEF SlashAt
  <2>7. Taken(v) \in 1..bond /\ Taken(v) <= Taken(w)
    BY <1>2, <2>5 DEF AtMost, AtLeast
  <2> QED BY <2>6, <2>7
<1> QED BY <1>1, <1>2

LEMMA WindowsGrow ==
  ASSUME NEW tier \in Nat, NEW window \in Nat
  PROVE  TierFillWindow(tier + 1, window) >= TierFillWindow(tier, window)
<1>1. PICK j \in Nat, k \in Nat :
        j = RowOf(WindowBonus, tier) /\ k = RowOf(WindowBonus, tier + 1) /\ j <= k
  BY BonusRows
<1>2. PICK d \in Nat \ {0} : d = Parts
  BY PricingAssumption DEF PricingAssumption
<1>3. /\ (d + j) * window <= (d + k) * window
      /\ (d + j) * window = window * (d + j) /\ (d + k) * window = window * (d + k)
  BY <1>1, ProductRises
<1>4. PICK x \in Nat, y \in Nat : x = window * (d + j) /\ y = window * (d + k) /\ x <= y
  BY <1>3, ProductNat
<1>5. x \div d <= y \div d /\ x \div d \in Nat /\ y \div d \in Nat
  BY <1>4, QuotientRises, Quotient
<1>6. TierFillWindow(tier, window) = x \div d /\ TierFillWindow(tier + 1, window) = y \div d
  BY <1>1, <1>2, <1>4 DEF TierFillWindow
<1> QED BY <1>5, <1>6

LEMMA TiersAreFair ==
  ASSUME quote \in Quotes
  PROVE  TiersNeverHurt
<1>1. PICK bond \in Int, amount \in Int, tier \in Nat :
        bond = quote.bond /\ amount = quote.amount /\ tier = quote.tier
  BY QuoteTypes
<1> DEFINE At(t) == ComputeSlashAmountTiered(bond, amount, t)
<1>2. bond > 0 => At(tier) \in 1..bond
  BY SlashRows, SlashInBond DEF ComputeSlashAmountTiered
<1>3. At(tier + 1) <= At(tier)
  <2>1. PICK low \in Nat, high \in Nat :
          low = RowOf(SlashRate, tier + 1) /\ high = RowOf(SlashRate, tier) /\ low <= high
    <3>1. RowOf(SlashRate, tier) \in Nat /\ RowOf(SlashRate, tier + 1) \in 0..RowOf(SlashRate, tier)
      BY SlashRows
    <3>2. PICK high : high = RowOf(SlashRate, tier)
      OBVIOUS
    <3> QED BY <3>1, <3>2
  <2> QED BY <2>1, SlashInBond DEF ComputeSlashAmountTiered
<1>4. At(tier) <= ComputeSlashAmount(bond, amount)
  BY SlashRows, SlashInBond DEF ComputeSlashAmountTiered, ComputeSlashAmount
<1>5. ASSUME NEW window \in 1..LastTime
      PROVE  TierFillWindow(tier + 1, window) >= TierFillWindow(tier, window)
  <2>1. window \in Nat
    BY ClockAssumption DEF ClockAssumption
  <2> QED BY <2>1, WindowsGrow
<1>6. ASSUME NEW answered \in BOOLEAN
      PROVE  /\ SolverTier(answered, tier) \in Nat
             /\ SolverTier(answered, tier) < Len(WindowBonus)
             /\ answered => RowOf(SlashRate, SolverTier(answered, tier)) = RowOf(SlashRate, tier)
  <2>1. PICK m \in Nat \ {0}, n \in Nat \ {0} :
          m = Len(SlashRate) /\ n = Len(WindowBonus) /\ m <= n
    <3>1. Len(SlashRate) \in Nat /\ Len(WindowBonus) \in Nat
      BY PricingAssumption DEF PricingAssumption
    <3>2. Len(SlashRate) > 0 /\ Len(WindowBonus) > 0 /\ Len(SlashRate) <= Len(WindowBonus)
      BY PricingAssumption, TablesFavourTiers DEF PricingAssumption, TablesFavourTiers
    <3> QED BY <3>1, <3>2
  <2>2. SolverTier(answered, tier) \in 0..(m - 1)
    BY <2>1 DEF SolverTier, AtMost
  <2>3. answered => AtMost(SolverTier(answered, tier) + 1, m) = AtMost(tier + 1, m)
    BY <2>1 DEF SolverTier, AtMost
  <2>4. answered => RowOf(SlashRate, SolverTier(answered, tier)) = RowOf(SlashRate, tier)
    BY <2>1, <2>3, Zenon DEF RowOf
  <2> QED BY <2>1, <2>2, <2>4
<1>7. ASSUME NEW answered \in BOOLEAN, NEW window
      PROVE  EntryFillWindow(SolverTier(answered, tier), window)
               = TierFillWindow(SolverTier(answered, tier), window)
  <2>1. PICK t \in Nat : t = SolverTier(answered, tier) /\ t < Len(WindowBonus)
    BY <1>6
  <2>2. RowOf(WindowBonus, t) = WindowBonus[t + 1]
    <3>1. WindowBonus \in Seq(Nat) /\ Len(WindowBonus) > 0
      BY PricingAssumption DEF PricingAssumption
    <3> QED BY <2>1, <3>1, RowsInOrder
  <2>3. EntryFillWindow(t, window) = TierFillWindow(t, window)
    BY <2>1, <2>2, Zenon DEF EntryFillWindow, TierFillWindow
  <2> QED BY <2>1, <2>3
<1>8. ASSUME NEW answered \in BOOLEAN
      PROVE  answered => At(SolverTier(answered, tier)) = At(tier)
  BY <1>6, Zenon DEF ComputeSlashAmountTiered
<1> HIDE DEF At
<1> QED BY <1>1, <1>2, <1>3, <1>4, <1>5, <1>7, <1>8 DEF TiersNeverHurt, At

-----------------------------------------------------------------------------
(* Scores.                                                                 *)

\* The two factors of a score.
SuccessShare(c, f) == (c * Parts) \div (c + f)

VolumeWeight(v) ==
  Parts - ((ScoreScale * Parts) \div (ScoreScale + AtLeast(v, 0) + 1)) \div 10

LEMMA WeightsRise ==
  ASSUME NEW v \in Int, NEW w \in Int, v <= w
  PROVE  VolumeWeight(v) \in 0..Parts /\ VolumeWeight(w) \in VolumeWeight(v)..Parts
<1>1. PICK d \in Nat \ {0}, s \in Nat \ {0} : d = Parts /\ s = ScoreScale
  BY PricingAssumption DEF PricingAssumption
<1>2. PICK m \in Nat \ {0}, n \in Nat \ {0} :
        /\ m = s + AtLeast(v, 0) + 1 /\ n = s + AtLeast(w, 0) + 1
        /\ m <= n /\ s <= m
  BY DEF AtLeast
<1>3. PICK x \in Nat : x = s * d /\ x = d * s
  BY ProductNat
<1>4. PICK y \in Nat, z \in Nat : y = x \div m /\ z = x \div n /\ z <= y /\ y <= d
  <2>1. x \div m \in 0..d
    BY <1>2, <1>3, PartOfWhole
  <2> QED BY <1>2, <2>1, Quotient, QuotientFalls
<1>5. PICK g \in Nat, h \in Nat : g = y \div 10 /\ h = z \div 10 /\ h <= g /\ g <= y
  <2>1. y \div 10 \in Nat /\ z \div 10 \in Nat
    BY Quotient
  <2>2. z \div 10 <= y \div 10
    BY <1>4, QuotientRises
  <2>3. y \div 10 <= y
    OBVIOUS
  <2> QED BY <2>1, <2>2, <2>3
<1>6. VolumeWeight(v) = d - g /\ VolumeWeight(w) = d - h
  BY <1>1, <1>2, <1>3, <1>4, <1>5 DEF VolumeWeight
<1> QED BY <1>1, <1>4, <1>5, <1>6

\* A score is a part of the share of fills that succeeded, and rises with both factors.
LEMMA PartsOfShare ==
  ASSUME NEW a \in Nat, NEW b \in Nat, a <= b, NEW x \in 0..Parts, NEW y \in 0..Parts, x <= y
  PROVE  /\ (a * x) \div Parts \in 0..a /\ (b * y) \div Parts \in 0..b
         /\ (a * x) \div Parts <= (b * y) \div Parts
<1>1. PICK d \in Nat \ {0} : d = Parts
  BY PricingAssumption DEF PricingAssumption
<1>2. x \in Nat /\ y \in Nat /\ x <= d /\ y <= d
  BY <1>1
<1>3. PICK m \in Nat, n \in Nat : m = a * x /\ n = b * y /\ m <= n
  BY <1>2, ProductNat, ProductsRise
<1>4. m \div d \in 0..a /\ n \div d \in 0..b
  BY <1>2, <1>3, PartOfWhole
<1>5. m \div d <= n \div d
  BY <1>3, QuotientRises
<1> QED BY <1>1, <1>3, <1>4, <1>5

LEMMA RecordFields ==
  ASSUME NEW r \in Record
  PROVE  r.fills_completed \in Nat /\ r.fills_failed \in Nat /\ r.total_volume \in Int
BY DEF Record

LEMMA ScoreOfShare ==
  ASSUME NEW r \in Record
  PROVE  ComputeReputationScore(r) =
           IF r.fills_completed + r.fills_failed = 0 THEN 0
           ELSE (SuccessShare(r.fills_completed, r.fills_failed) * VolumeWeight(r.total_volume))
                  \div Parts
BY Zenon DEF ComputeReputationScore, SuccessShare, VolumeWeight

\* A record that succeeded in no smaller a share with no less volume scores no less.
LEMMA ScoresRise ==
  ASSUME NEW r \in Record, NEW s \in Record, r.total_volume <= s.total_volume,
         r.fills_completed + r.fills_failed # 0, s.fills_completed + s.fills_failed # 0,
         SuccessShare(r.fills_completed, r.fills_failed)
           \in 0..SuccessShare(s.fills_completed, s.fills_failed),
         SuccessShare(s.fills_completed, s.fills_failed) \in 0..Parts
  PROVE  ComputeReputationScore(r) \in 0..ComputeReputationScore(s)
<1>1. PICK a \in Nat, b \in Nat :
        /\ a = SuccessShare(r.fills_completed, r.fills_failed)
        /\ b = SuccessShare(s.fills_completed, s.fills_failed) /\ a <= b
  BY PricingAssumption DEF PricingAssumption
<1>2. PICK x \in 0..Parts, y \in 0..Parts :
        x = VolumeWeight(r.total_volume) /\ y = VolumeWeight(s.total_volume) /\ x <= y
  <2>1. PICK v \in Int, w \in Int : v = r.total_volume /\ w = s.total_volume /\ v <= w
    BY RecordFields
  <2>2. VolumeWeight(v) \in 0..Parts /\ VolumeWeight(w) \in VolumeWeight(v)..Parts
    BY <2>1, WeightsRise
  <2>3. Parts \in Nat
    BY PricingAssumption DEF PricingAssumption
  <2>4. VolumeWeight(w) \in 0..Parts /\ VolumeWeight(v) <= VolumeWeight(w)
    BY <2>2, <2>3
  <2> QED BY <2>1, <2>2, <2>4
<1>3. (a * x) \div Parts \in 0..a /\ (b * y) \div Parts \in 0..b
      /\ (a * x) \div Parts <= (b * y) \div Parts
  BY <1>1, <1>2, PartsOfShare
<1>4. ComputeReputationScore(r) = (a * x) \div Parts
  BY <1>1, <1>2, ScoreOfShare, Zenon
<1>5. ComputeReputationScore(s) = (b * y) \div Parts
  BY <1>1, <1>2, ScoreOfShare, Zenon
<1> QED BY <1>3, <1>4, <1>5

LEMMA SharesOfParts ==
  ASSUME NEW c \in Nat, NEW f \in Nat, c + f # 0
  PROVE  /\ SuccessShare(c, f) \in 0..Parts /\ SuccessShare(c, f + 1) \in 0..SuccessShare(c, f)
         /\ SuccessShare(c + 1, f) \in SuccessShare(c, f)..Parts
<1>1. PICK d \in Nat \ {0} : d = Parts
  BY PricingAssumption DEF PricingAssumption
<1>2. /\ (c * d) \div (c + f) \in 0..d
      /\ (c * d) \div (c + (f + 1)) <= (c * d) \div (c + f)
      /\ (c * d) \div (c + f) <= ((c + 1) * d) \div ((c + 1) + f)
  BY ShareOfWhole
<1>3. (c * d) \div (c + (f + 1)) \in 0..d
  <2>1. f + 1 \in Nat /\ c + (f + 1) # 0
    OBVIOUS
  <2> QED BY <2>1, ShareOfWhole
<1>4. ((c + 1) * d) \div ((c + 1) + f) \in 0..d
  <2>1. c + 1 \in Nat /\ (c + 1) + f # 0
    OBVIOUS
  <2> QED BY <2>1, ShareOfWhole
<1>5. /\ SuccessShare(c, f) = (c * d) \div (c + f)
      /\ SuccessShare(c, f + 1) = (c * d) \div (c + (f + 1))
      /\ SuccessShare(c + 1, f) = ((c + 1) * d) \div ((c + 1) + f)
  BY <1>1, Zenon DEF SuccessShare
<1>6. PICK q \in 0..d, q1 \in 0..d, q2 \in 0..d :
        /\ q = SuccessShare(c, f) /\ q1 = SuccessShare(c, f + 1) /\ q2 = SuccessShare(c + 1, f)
        /\ q1 <= q /\ q <= q2
  BY <1>2, <1>3, <1>4, <1>5
<1> QED BY <1>1, <1>6

LEMMA ScoreInParts ==
  ASSUME NEW r \in Record
  PROVE  ComputeReputationScore(r) \in 0..Parts
<1>1. PICK c \in Nat, f \in Nat, v \in Int :
        c = r.fills_completed /\ f = r.fills_failed /\ v = r.total_volume
  BY RecordFields
<1>2. PICK d \in Nat \ {0} : d = Parts
  BY PricingAssumption DEF PricingAssumption
<1>3. CASE c + f = 0
  BY <1>1, <1>2, <1>3, ScoreOfShare
<1>4. CASE c + f # 0
  <2>1. PICK a \in 0..d : a = SuccessShare(c, f)
    BY <1>2, <1>4, SharesOfParts
  <2>2. PICK x \in 0..Parts : x = VolumeWeight(v)
    BY WeightsRise
  <2>3. (a * x) \div Parts \in 0..a
    BY <1>2, <2>1, <2>2, PartsOfShare
  <2>4. ComputeReputationScore(r) = (a * x) \div Parts
    BY <1>1, <1>4, <2>1, <2>2, ScoreOfShare, Zenon
  <2> QED BY <1>2, <2>1, <2>3, <2>4
<1> QED BY <1>3, <1>4

\* A record with one of its counts changed.
LEMMA OneMore ==
  ASSUME NEW r \in Record, NEW c \in Nat, NEW f \in Nat, NEW v \in Int,
         c = r.fills_completed, f = r.fills_failed, v = r.total_volume
  PROVE  /\ \E failed \in Record :
              /\ failed = [r EXCEPT !.fills_failed = @ + 1]
              /\ failed.fills_completed = c /\ failed.fills_failed = f + 1
              /\ failed.total_volume = v
         /\ \E completed \in Record :
              /\ completed = [r EXCEPT !.fills_completed = @ + 1]
              /\ completed.fills_completed = c + 1 /\ completed.fills_failed = f
              /\ completed.total_volume = v
         /\ \A more \in Nat : \E larger \in Record :
              /\ larger = [r EXCEPT !.total_volume = @ + more]
              /\ larger.fills_completed = c /\ larger.fills_failed = f
              /\ larger.total_volume = v + more
<1>1. r = [fills_completed |-> c, fills_failed |-> f, total_volume |-> v]
  BY DEF Record
<1>2. /\ [r EXCEPT !.fills_failed = @ + 1]
           = [fills_completed |-> c, fills_failed |-> f + 1, total_volume |-> v]
      /\ [r EXCEPT !.fills_completed = @ + 1]
           = [fills_completed |-> c + 1, fills_failed |-> f, total_volume |-> v]
      /\ \A more \in Nat : [r EXCEPT !.total_volume = @ + more]
           = [fills_completed |-> c, fills_failed |-> f, total_volume |-> v + more]
  BY <1>1
<1>3. /\ [fills_completed |-> c, fills_failed |-> f + 1, total_volume |-> v] \in Record
      /\ [fills_completed |-> c + 1, fills_failed |-> f, total_volume |-> v] \in Record
      /\ \A more \in Nat :
           [fills_completed |-> c, fills_failed |-> f, total_volume |-> v + more] \in Record
  BY DEF Record
<1>4. \E failed \in Record :
        /\ failed = [r EXCEPT !.fills_failed = @ + 1]
        /\ failed.fills_completed = c /\ failed.fills_failed = f + 1
        /\ failed.total_volume = v
  <2>1. PICK x \in Record : x = [fills_completed |-> c, fills_failed |-> f + 1, total_volume |-> v]
    BY <1>3
  <2> QED BY <1>2, <2>1
<1>5. \E completed \in Record :
        /\ completed = [r EXCEPT !.fills_completed = @ + 1]
        /\ completed.fills_completed = c + 1 /\ completed.fills_failed = f
        /\ completed.total_volume = v
  <2>1. PICK x \in Record : x = [fills_completed |-> c + 1, fills_failed |-> f, total_volume |-> v]
    BY <1>3
  <2> QED BY <1>2, <2>1
<1>6. ASSUME NEW more \in Nat
      PROVE  \E larger \in Record :
               /\ larger = [r EXCEPT !.total_volume = @ + more]
               /\ larger.fills_completed = c /\ larger.fills_failed = f
               /\ larger.total_volume = v + more
  <2>1. PICK x \in Record :
          x = [fills_completed |-> c, fills_failed |-> f, total_volume |-> v + more]
    BY <1>3
  <2> QED BY <1>2, <2>1
<1> QED BY <1>4, <1>5, <1>6

LEMMA ScoresFollow ==
  ASSUME NEW r \in Record
  PROVE  /\ [r EXCEPT !.fills_failed = @ + 1] \in Record
         /\ [r EXCEPT !.fills_completed = @ + 1] \in Record
         /\ [r EXCEPT !.total_volume = @ + ScoreScale] \in Record
         /\ ComputeReputationScore([r EXCEPT !.fills_failed = @ + 1])
              <= ComputeReputationScore(r)
         /\ ComputeReputationScore(r)
              <= ComputeReputationScore([r EXCEPT !.fills_completed = @ + 1])
         /\ ComputeReputationScore(r)
              <= ComputeReputationScore([r EXCEPT !.total_volume = @ + ScoreScale])
<1>1. PICK c \in Nat, f \in Nat, v \in Int :
        c = r.fills_completed /\ f = r.fills_failed /\ v = r.total_volume
  BY RecordFields
<1>2. PICK d \in Nat \ {0}, s \in Nat \ {0} : d = Parts /\ s = ScoreScale
  BY PricingAssumption DEF PricingAssumption
<1>3. PICK failed \in Record :
        /\ failed = [r EXCEPT !.fills_failed = @ + 1]
        /\ failed.fills_completed = c /\ failed.fills_failed = f + 1 /\ failed.total_volume = v
  BY <1>1, OneMore
<1>4. PICK completed \in Record :
        /\ completed = [r EXCEPT !.fills_completed = @ + 1]
        /\ completed.fills_completed = c + 1 /\ completed.fills_failed = f
        /\ completed.total_volume = v
  BY <1>1, OneMore
<1>5. PICK larger \in Record :
        /\ larger = [r EXCEPT !.total_volume = @ + ScoreScale]
        /\ larger.fills_completed = c /\ larger.fills_failed = f /\ larger.total_volume = v + s
  BY <1>1, <1>2, OneMore
<1>6. /\ ComputeReputationScore(r) \in 0..d /\ ComputeReputationScore(completed) \in 0..d
      /\ ComputeReputationScore(failed) \in 0..d
  BY <1>2, ScoreInParts
<1>7. CASE c + f = 0
  <2>1. ComputeReputationScore(r) = 0 /\ ComputeReputationScore(larger) = 0
    BY <1>1, <1>5, <1>7, ScoreOfShare
  <2>2. ComputeReputationScore(failed) <= 0
    <3>1. c = 0 /\ f + 1 = 1 /\ c + (f + 1) # 0
      BY <1>7
    <3>2. SuccessShare(c, f + 1) = 0
      <4>1. 0 * d = 0 /\ 0 + 1 = 1
        OBVIOUS
      <4>2. 0 \div 1 = 0
        BY Quotient
      <4> QED BY <1>2, <3>1, <4>1, <4>2 DEF SuccessShare
    <3>3. PICK x \in 0..Parts : x = VolumeWeight(v)
      BY WeightsRise
    <3>4. (0 * x) \div Parts \in 0..0
      BY <1>2, <3>3, PartsOfShare
    <3>5. ComputeReputationScore(failed) = (0 * x) \div Parts
      BY <1>3, <3>1, <3>2, <3>3, ScoreOfShare, Zenon
    <3> QED BY <3>4, <3>5
  <2> QED BY <1>3, <1>4, <1>5, <1>6, <2>1, <2>2
<1>8. CASE c + f # 0
  <2>1. PICK a, b, e :
          /\ a = SuccessShare(c, f) /\ b = SuccessShare(c, f + 1) /\ e = SuccessShare(c + 1, f)
          /\ a \in 0..d
          /\ b \in 0..a /\ e \in a..d
    <3>1. /\ SuccessShare(c, f) \in 0..d /\ SuccessShare(c, f + 1) \in 0..SuccessShare(c, f)
          /\ SuccessShare(c + 1, f) \in SuccessShare(c, f)..d
      BY <1>2, <1>8, SharesOfParts
    <3> QED BY <3>1
  <2>2. /\ a \in 0..Parts /\ e \in 0..Parts /\ a \in 0..a /\ a \in 0..e /\ b \in 0..a
        /\ c + (f + 1) # 0 /\ (c + 1) + f # 0 /\ v <= v /\ v <= v + s
    BY <1>2, <1>8, <2>1
  <2>3. ComputeReputationScore(failed) \in 0..ComputeReputationScore(r)
    <3>1. failed.total_volume <= r.total_volume
      BY <1>1, <1>3, <2>2
    <3>2. /\ SuccessShare(failed.fills_completed, failed.fills_failed) = b
          /\ SuccessShare(r.fills_completed, r.fills_failed) = a
      BY <1>1, <1>3, <2>1
    <3>3. /\ failed.fills_completed + failed.fills_failed # 0
          /\ r.fills_completed + r.fills_failed # 0
      BY <1>1, <1>3, <1>8, <2>2
    <3> QED BY <2>2, <3>1, <3>2, <3>3, ScoresRise
  <2>4. ComputeReputationScore(r) \in 0..ComputeReputationScore(completed)
    <3>1. r.total_volume <= completed.total_volume
      BY <1>1, <1>4, <2>2
    <3>2. /\ SuccessShare(completed.fills_completed, completed.fills_failed) = e
          /\ SuccessShare(r.fills_completed, r.fills_failed) = a
      BY <1>1, <1>4, <2>1
    <3>3. /\ completed.fills_completed + completed.fills_failed # 0
          /\ r.fills_completed + r.fills_failed # 0
      BY <1>1, <1>4, <1>8, <2>2
    <3> QED BY <2>2, <3>1, <3>2, <3>3, ScoresRise
  <2>5. ComputeReputationScore(r) \in 0..ComputeReputationScore(larger)
    <3>1. r.total_volume <= larger.total_volume
      BY <1>1, <1>5, <2>2
    <3>2. /\ SuccessShare(larger.fills_completed, larger.fills_failed) = a
          /\ SuccessShare(r.fills_completed, r.fills_failed) = a
      BY <1>1, <1>5, <2>1
    <3>3. /\ larger.fills_completed + larger.fills_failed # 0
          /\ r.fills_completed + r.fills_failed # 0
      BY <1>1, <1>5, <1>8
    <3> QED BY <2>2, <3>1, <3>2, <3>3, ScoresRise
  <2> QED BY <1>3, <1>4, <1>5, <2>3, <2>4, <2>5
<1> QED BY <1>7, <1>8

\* The least of the rows that a record earned is the one its cap is taken from.
Percent(r) ==
  IF Earned(r) = {} THEN 100
  ELSE ExtensionTable[CHOOSE k \in Earned(r) : \A j \in Earned(r) : k <= j].percent

LEMMA BestRow ==
  ASSUME NEW r, Earned(r) # {}
  PROVE  \E k \in Earned(r) : /\ \A j \in Earned(r) : k <= j
                              /\ Percent(r) = ExtensionTable[k].percent
<1> DEFINE First(k) == \A j \in Earned(r) : k <= j
<1>1. Earned(r) \in SUBSET Nat
  <2>1. DOMAIN ExtensionTable \subseteq Nat
    BY PricingAssumption DEF PricingAssumption
  <2> QED BY <2>1 DEF Earned
<1>2. \E k \in Earned(r) : First(k)
  BY <1>1, LeastNatural
<1> HIDE DEF First
<1>3. PICK k : k = CHOOSE m \in Earned(r) : First(m)
  OBVIOUS
<1>4. k \in Earned(r) /\ First(k)
  BY <1>2, <1>3
<1>5. Percent(r) = ExtensionTable[k].percent
  BY <1>3, Zenon DEF Percent, First
<1> QED BY <1>4, <1>5 DEF First

LEMMA PercentsRise ==
  ASSUME NEW r, NEW s, Earned(r) \subseteq Earned(s)
  PROVE  Percent(r) \in Nat /\ Percent(s) \in Nat /\ 100 <= Percent(r) /\ Percent(r) <= Percent(s)
<1>1. \A x : \A k \in Earned(x) : k \in DOMAIN ExtensionTable
  BY DEF Earned
<1>2. \A k \in DOMAIN ExtensionTable : ExtensionTable[k].percent \in Nat
  <2>1. \A row \in ExtensionRow : row.percent \in Nat
    BY DEF ExtensionRow
  <2>2. \A k \in DOMAIN ExtensionTable : ExtensionTable[k] \in ExtensionRow
    BY PricingAssumption DEF PricingAssumption
  <2> QED BY <2>1, <2>2
<1>3. \A j, k \in DOMAIN ExtensionTable :
        j <= k => ExtensionTable[k].percent \in 100..ExtensionTable[j].percent
  BY TablesFavourTiers DEF TablesFavourTiers
<1>4. DOMAIN ExtensionTable \subseteq Nat
  BY PricingAssumption DEF PricingAssumption
<1>5. CASE Earned(s) = {}
  <2>1. Percent(r) = 100 /\ Percent(s) = 100
    BY <1>5 DEF Percent
  <2> QED BY <2>1
<1>6. CASE Earned(s) # {}
  <2>1. PICK k \in Earned(s) :
          (\A j \in Earned(s) : k <= j) /\ Percent(s) = ExtensionTable[k].percent
    BY <1>6, BestRow
  <2>2. k \in DOMAIN ExtensionTable /\ k <= k
    BY <1>1, <1>4
  <2>3. Percent(s) \in Nat /\ 100 <= Percent(s)
    BY <1>2, <1>3, <2>1, <2>2
  <2>4. CASE Earned(r) = {}
    BY <2>3, <2>4 DEF Percent
  <2>5. CASE Earned(r) # {}
    <3>1. PICK j \in Earned(r) : Percent(r) = ExtensionTable[j].percent
      BY <2>5, BestRow
    <3>2. j \in DOMAIN ExtensionTable /\ k <= j
      BY <1>1, <2>1, <3>1
    <3>3. Percent(r) \in 100..Percent(s) /\ Percent(r) \in Nat
      BY <1>2, <1>3, <2>1, <2>2, <3>1, <3>2
    <3> QED BY <2>3, <3>3
  <2> QED BY <2>4, <2>5
<1> QED BY <1>5, <1>6

LEMMA CapsRise ==
  ASSUME NEW r \in Record, NEW s \in Record, r.fills_completed <= s.fills_completed,
         ComputeReputationScore(r) <= ComputeReputationScore(s)
  PROVE  /\ ExtensionCapSecs(r) <= ExtensionCapSecs(s)
         /\ ExtensionCapSecs(r) \in AtMost(OneExtension, MostExtension)..MostExtension
<1>1. Earned(r) \subseteq Earned(s)
  <2> SUFFICES ASSUME NEW k \in Earned(r) PROVE k \in Earned(s)
    OBVIOUS
  <2>1. /\ k \in DOMAIN ExtensionTable /\ r.fills_completed >= ExtensionTable[k].fills
        /\ ComputeReputationScore(r) >= ExtensionTable[k].score
    BY DEF Earned
  <2>2. ExtensionTable[k] \in ExtensionRow
    BY <2>1, PricingAssumption DEF PricingAssumption
  <2>3. PICK m \in Nat, n \in Nat : m = ExtensionTable[k].fills /\ n = ExtensionTable[k].score
    BY <2>2 DEF ExtensionRow
  <2>4. PICK x \in Int, y \in Int :
          x = ComputeReputationScore(r) /\ y = ComputeReputationScore(s)
    BY ScoreInParts
  <2>5. s.fills_completed >= m /\ y >= n
    BY <2>1, <2>3, <2>4, RecordFields
  <2> QED BY <2>1, <2>3, <2>4, <2>5 DEF Earned
<1>2. PICK p \in Nat, q \in Nat : p = Percent(r) /\ q = Percent(s) /\ 100 <= p /\ p <= q
  BY <1>1, PercentsRise
<1>3. PICK one \in Nat, most \in Nat : one = OneExtension /\ most = MostExtension
  BY PricingAssumption DEF PricingAssumption
<1>4. /\ p * one <= q * one /\ 100 * one <= p * one /\ p * one = one * p /\ q * one = one * q
      /\ 100 * one = one * 100
  BY <1>2, ProductRises
<1>5. PICK x \in Nat, y \in Nat : x = one * p /\ y = one * q /\ x <= y /\ one * 100 <= x
  BY <1>4, ProductNat
<1>6. PICK m \in Nat, n \in Nat : m = x \div 100 /\ n = y \div 100 /\ m <= n /\ one <= m
  BY <1>5, Quotient, QuotientRises, QuotientIsMost
<1>7. ExtensionCapSecs(r) = AtMost((OneExtension * Percent(r)) \div 100, MostExtension)
  BY Zenon DEF ExtensionCapSecs, Percent
<1>8. ExtensionCapSecs(s) = AtMost((OneExtension * Percent(s)) \div 100, MostExtension)
  BY Zenon DEF ExtensionCapSecs, Percent
<1>9. ExtensionCapSecs(r) = AtMost(m, most) /\ ExtensionCapSecs(s) = AtMost(n, most)
  BY <1>2, <1>3, <1>5, <1>6, <1>7, <1>8
<1> QED BY <1>3, <1>6, <1>9 DEF AtMost

LEMMA ScoresAreFair ==
  ASSUME quote \in Quotes
  PROVE  ScoresFollowOutcomes
<1>1. PICK r \in Record : r = quote.record
  BY QuoteTypes
<1>2. PICK failed \in Record, completed \in Record, larger \in Record :
        /\ failed = [r EXCEPT !.fills_failed = @ + 1]
        /\ completed = [r EXCEPT !.fills_completed = @ + 1]
        /\ larger = [r EXCEPT !.total_volume = @ + ScoreScale]
  BY ScoresFollow
<1>3. /\ ComputeReputationScore(failed) <= ComputeReputationScore(r)
      /\ ComputeReputationScore(r) <= ComputeReputationScore(completed)
      /\ ComputeReputationScore(r) <= ComputeReputationScore(larger)
  BY <1>2, ScoresFollow
<1>4. /\ failed.fills_completed = r.fills_completed
      /\ completed.fills_completed = r.fills_completed + 1
      /\ larger.fills_completed = r.fills_completed
  BY <1>2 DEF Record
<1>5. /\ r.fills_completed \in Nat /\ failed.fills_completed <= r.fills_completed
      /\ r.fills_completed <= completed.fills_completed
      /\ r.fills_completed <= larger.fills_completed
  BY <1>4, RecordFields
<1>6. /\ ExtensionCapSecs(failed) <= ExtensionCapSecs(r)
      /\ ExtensionCapSecs(r) <= ExtensionCapSecs(completed)
      /\ ExtensionCapSecs(r) <= ExtensionCapSecs(larger)
      /\ ExtensionCapSecs(r) \in AtMost(OneExtension, MostExtension)..MostExtension
  BY <1>3, <1>5, CapsRise
<1>7. ComputeReputationScore(r) \in 0..Parts
  BY ScoreInParts
<1> QED BY <1>1, <1>2, <1>3, <1>6, <1>7 DEF ScoresFollowOutcomes

-----------------------------------------------------------------------------
\* Whatever the arguments and the time, the contract's arithmetic is sound: the price of
\* an auction falls between its ends, roundings are what they are called, no exchange there
\* and back gains, no tier is worse than a lower one, and scores follow outcomes.
THEOREM QuotesAreSound == PricingSpec => []QuotesSound
<1> DEFINE Given == quote \in Quotes /\ ledger_time \in Nat
<1>1. PricingInit => Given
  BY ClockAssumption DEF PricingInit, ClockInit, ClockAssumption
<1>2. Given /\ [PricingNext]_<<ledger_time, quote>> => Given'
  BY DEF PricingNext, Later
<1>3. Given => QuotesSound
  BY AuctionsFall, RoundingsAreRight, RatesAreFair, TiersAreFair, ScoresAreFair DEF QuotesSound
<1> QED BY <1>1, <1>2, <1>3, PTL DEF PricingSpec
=============================================================================
