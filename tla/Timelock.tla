------------------------------ MODULE Timelock ------------------------------
(***************************************************************************)
(* The timelock contract: operations scheduled under a hash that commits   *)
(* to their calls and their predecessor, cancelled, or executed inside a   *)
(* window.  Each handler asks whether the contract's own address has the   *)
(* role, so a guard is about the contract's roles and not about a caller.  *)
(* The contracts it calls are external: a call has its effect or reverts   *)
(* the whole execution, and a call to the timelock itself always reverts,  *)
(* as a contract of this platform is not entered twice.                    *)
(***************************************************************************)
EXTENDS Integers, FiniteSets

CONSTANTS
  Ops,           \* operation ids
  Predecessor,   \* the predecessor an id commits to, or NoOp for the zero hash
  NoOp,
  SelfCalls,     \* operations with a call to the timelock itself
  FirstRoles,    \* what the constructor grants the timelock itself
  FirstDelay,
  Delays,        \* delays asked for in schedule and update_delay
  GracePeriod,
  Horizon        \* bound: the time after which nothing happens

Roles == {"Proposer", "Executor", "Canceller", "Admin"}

ASSUME TimelockAssumption ==
  /\ NoOp \notin Ops /\ Predecessor \in [Ops -> Ops \cup {NoOp}]
  /\ SelfCalls \subseteq Ops /\ FirstRoles \subseteq Roles
  /\ FirstDelay \in Nat /\ Delays \subseteq Nat /\ GracePeriod \in Nat

VARIABLES
  now,
  min_delay,     \* MIN_DELAY
  roles,         \* the roles of the contract's own address
  operation,     \* the stored Operation, known or not
  performed      \* external: how often the calls of an operation took effect

vars == <<now, min_delay, roles, operation, performed>>

Operation == [known: BOOLEAN, ready_at: Nat, expires_at: Nat, executed: BOOLEAN]

NoOperation == [known |-> FALSE, ready_at |-> 0, expires_at |-> 0, executed |-> FALSE]

Known(o) == operation[o].known

Unknown(o) == ~Known(o)

LongEnough(delay) == delay >= min_delay

PredecessorDone(o) ==
  Predecessor[o] # NoOp =>
    Known(Predecessor[o]) /\ operation[Predecessor[o]].executed

\* Mutant: an operation can be executed again inside its window.
AgainInWindow(o) == operation[o].ready_at <= now /\ now <= operation[o].expires_at

InWindow(o) ==
  /\ ~operation[o].executed
  /\ operation[o].ready_at <= now /\ now <= operation[o].expires_at

\* An expired operation reads as done.
GetOperationState(o) ==
  IF ~Known(o) THEN "Unset"
  ELSE IF operation[o].executed \/ now > operation[o].expires_at THEN "Done"
  ELSE IF now < operation[o].ready_at THEN "Waiting" ELSE "Ready"

-----------------------------------------------------------------------------
Tick ==
  /\ now < Horizon
  /\ now' = now + 1
  /\ UNCHANGED <<min_delay, roles, operation, performed>>

\* schedule and schedule_batch: to the rest, a batch is one operation.
Schedule(o, delay) ==
  /\ "Proposer" \in roles
  /\ LongEnough(delay)
  /\ Unknown(o)
  /\ Predecessor[o] # NoOp => Known(Predecessor[o])
  /\ operation' = [operation EXCEPT ![o] =
       [known |-> TRUE, ready_at |-> now + delay,
        expires_at |-> now + delay + GracePeriod, executed |-> FALSE]]
  /\ UNCHANGED <<now, min_delay, roles, performed>>

\* A cancelled operation is marked executed.
Cancel(o) ==
  /\ "Canceller" \in roles
  /\ Known(o) /\ ~operation[o].executed
  /\ operation' = [operation EXCEPT ![o].executed = TRUE]
  /\ UNCHANGED <<now, min_delay, roles, performed>>

\* Marks the operation and makes its calls, in one transaction.
Execute(o) ==
  /\ "Executor" \in roles
  /\ Known(o) /\ InWindow(o) /\ PredecessorDone(o)
  /\ o \notin SelfCalls
  /\ operation' = [operation EXCEPT ![o].executed = TRUE]
  /\ performed' = [performed EXCEPT ![o] = @ + 1]
  /\ UNCHANGED <<now, min_delay, roles>>

UpdateDelay(delay) ==
  /\ "Admin" \in roles
  /\ min_delay' = delay
  /\ UNCHANGED <<now, roles, operation, performed>>

GrantRole(role) ==
  /\ "Admin" \in roles
  /\ roles' = roles \cup {role}
  /\ UNCHANGED <<now, min_delay, operation, performed>>

RevokeRole(role) ==
  /\ "Admin" \in roles
  /\ roles' = roles \ {role}
  /\ UNCHANGED <<now, min_delay, operation, performed>>

Init ==
  /\ now = 1
  /\ min_delay = FirstDelay
  /\ roles = FirstRoles
  /\ operation = [o \in Ops |-> NoOperation]
  /\ performed = [o \in Ops |-> 0]

OperationCall(o) ==
  \/ \E delay \in Delays : Schedule(o, delay)
  \/ Cancel(o)
  \/ Execute(o)

AdminCall ==
  \/ \E delay \in Delays : UpdateDelay(delay)
  \/ \E role \in Roles : GrantRole(role) \/ RevokeRole(role)

Next == Tick \/ AdminCall \/ \E o \in Ops : OperationCall(o)

Spec == Init /\ [][Next]_vars

-----------------------------------------------------------------------------
(* Properties.                                                             *)

\* Every variable keeps its type, what is not stored is blank, and a window has
\* its full length.
TypeOK ==
  /\ {now, min_delay} \subseteq Nat /\ roles \subseteq Roles
  /\ operation \in [Ops -> Operation] /\ performed \in [Ops -> Nat]
  /\ \A o \in Ops :
       IF operation[o].known
       THEN operation[o].expires_at = operation[o].ready_at + GracePeriod
       ELSE operation[o] = NoOperation

\* Whatever is scheduled, cancelled, expired or tried again, the calls of an
\* operation take effect at most once, and then it is done.
PerformedOnce ==
  \A o \in Ops : performed[o] <= 1 /\ (performed[o] = 1 => operation[o].executed)

\* What was not executed in its window, whose length is fixed, never takes effect:
\* no change of the delay, no second scheduling and no predecessor's delay moves it.
LateNeverRuns ==
  [][\A o \in Ops :
       operation[o].known /\ now > operation[o].ready_at + GracePeriod =>
         performed'[o] = performed[o] /\ operation'[o].ready_at = operation[o].ready_at]_vars

StageOf(o) ==
  IF ~Known(o) THEN "unset"
  ELSE IF performed[o] > 1 THEN "ran again"
  ELSE IF performed[o] > 0 THEN "ran"
  ELSE IF operation[o].executed THEN "dropped" ELSE "waiting"

Stage == [o \in Ops |-> StageOf(o)]
ReadyAt == [o \in Ops |-> operation[o].ready_at]

Queue == INSTANCE DelayedCalls WITH
  After <- Predecessor, Lifespan <- GracePeriod,
  floor <- min_delay, stage <- Stage, due <- ReadyAt

\* A change of the minimum delay changes nothing for what is scheduled: each
\* operation waits as long as was asked for and for its predecessor, takes effect in
\* its window or never, and once: no second scheduling brings it back.
ImplementsDelayedCalls == Queue!Spec
=============================================================================
