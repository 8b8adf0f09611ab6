------------------------------ MODULE Disputes ------------------------------
(***************************************************************************)
(* What a settlement contract promises an arbiter about each case: it is   *)
(* raised at most once, answered at most once, by a ruling or, not before  *)
(* the arbiter's window has passed, by a timeout.  The arbiter panel is    *)
(* composed with this board, and the settlement contract implements it.    *)
(***************************************************************************)
EXTENDS Integers

CONSTANTS Cases, ArbiterWindow

VARIABLES
  now,        \* the ledger clock
  phase,      \* where each case stands
  raised_at   \* when a raised case was raised, 0 otherwise

boardVars == <<phase, raised_at>>

Rulings == {"upheld", "dismissed"}
Phases  == {"none", "raised", "lapsed", "gone"} \cup Rulings

BoardInit ==
  /\ phase = [c \in Cases |-> "none"]
  /\ raised_at = [c \in Cases |-> 0]

Raise(c) ==
  /\ phase[c] = "none"
  /\ phase' = [phase EXCEPT ![c] = "raised"]
  /\ raised_at' = [raised_at EXCEPT ![c] = now]

Close(c, p) ==
  /\ phase[c] = "raised"
  /\ phase' = [phase EXCEPT ![c] = p]
  /\ raised_at' = [raised_at EXCEPT ![c] = 0]

Rule(c, ruling) == ruling \in Rulings /\ Close(c, ruling)

TimedOut(c) == now >= raised_at[c] + ArbiterWindow

Lapse(c) == TimedOut(c) /\ Close(c, "lapsed")

\* The case is forgotten once its intent is pruned.
Forget(c) ==
  /\ phase[c] # "raised"
  /\ phase' = [phase EXCEPT ![c] = "gone"]
  /\ UNCHANGED raised_at

Next ==
  \/ now' = now + 1 /\ UNCHANGED boardVars
  \/ /\ UNCHANGED now
     /\ \E c \in Cases :
          \/ Raise(c) \/ Lapse(c) \/ Forget(c)
          \/ \E ruling \in Rulings : Rule(c, ruling)

Spec == now \in Nat /\ BoardInit /\ [][Next]_<<now, boardVars>>
=============================================================================
