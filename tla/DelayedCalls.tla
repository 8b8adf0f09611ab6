---------------------------- MODULE DelayedCalls ----------------------------
(***************************************************************************)
(* What a timelock promises of each operation: it waits at least as long   *)
(* as the shortest delay asked for when it was scheduled and no longer than its   *)
(* window, it runs only after the operation it waits for is settled, and   *)
(* it runs once or is dropped.                                             *)
(***************************************************************************)
EXTENDS Integers

CONSTANTS
  Ops,
  After,       \* the operation an operation waits for, or NoOp
  NoOp,
  Lifespan     \* how long an operation may be run once it is due

VARIABLES
  now,
  floor,       \* the shortest delay that may be asked for now
  stage,       \* where each operation stands
  due          \* when it may run at the earliest

queueVars == <<stage, due>>

Stages == {"unset", "waiting", "ran", "dropped"}
Settled(o) == stage[o] \in {"ran", "dropped"}

QueueInit ==
  /\ stage = [o \in Ops |-> "unset"]
  /\ due = [o \in Ops |-> 0]

Schedule(o, t) ==
  /\ stage[o] = "unset"
  /\ After[o] # NoOp => stage[After[o]] # "unset"
  /\ t >= now + floor
  /\ stage' = [stage EXCEPT ![o] = "waiting"]
  /\ due' = [due EXCEPT ![o] = t]

Drop(o) ==
  /\ stage[o] = "waiting"
  /\ stage' = [stage EXCEPT ![o] = "dropped"]
  /\ UNCHANGED due

Run(o) ==
  /\ stage[o] = "waiting"
  /\ now \in due[o]..(due[o] + Lifespan)
  /\ After[o] # NoOp => Settled(After[o])
  /\ stage' = [stage EXCEPT ![o] = "ran"]
  /\ UNCHANGED due

Next ==
  \/ now' = now + 1 /\ UNCHANGED <<floor, queueVars>>
  \/ floor' \in Nat /\ UNCHANGED <<now, queueVars>>
  \/ /\ UNCHANGED <<now, floor>>
     /\ \E o \in Ops : Drop(o) \/ Run(o) \/ Schedule(o, due'[o])

Spec == now \in Nat /\ floor \in Nat /\ QueueInit /\ [][Next]_<<now, floor, queueVars>>
=============================================================================
