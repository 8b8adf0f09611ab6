--------------------------- MODULE IntentLifecycle ---------------------------
(***************************************************************************)
(* What the settlement contract promises about who holds an intent,        *)
(* without clocks, amounts or counters: an intent on offer is claimed by   *)
(* at most one member, a member claims no more than MaxHeld at a time and  *)
(* cannot leave while it holds one, an intent whose output is in escrow    *)
(* goes back on offer no more, and an ended intent is only forgotten.      *)
(***************************************************************************)
EXTENDS Naturals, FiniteSets

CONSTANTS Solvers, Intents, Nobody, MaxHeld

VARIABLES members, phase, holder

lifecycleVars == <<members, phase, holder>>

Phases == {"none", "offered", "held", "secured", "contested", "ended", "forgotten"}

InHand == {"held", "secured", "contested"}

Claims(s) == {i \in Intents : phase[i] \in InHand /\ holder[i] = s}

Init ==
  /\ members = {}
  /\ phase = [i \in Intents |-> "none"]
  /\ holder = [i \in Intents |-> Nobody]

Join(s) ==
  /\ members' = members \cup {s}
  /\ UNCHANGED <<phase, holder>>

Leave(s) ==
  /\ s \in members
  /\ Claims(s) = {}
  /\ members' = members \ {s}
  /\ UNCHANGED <<phase, holder>>

Move(i, from, to, by) ==
  /\ phase[i] \in from
  /\ phase' = [phase EXCEPT ![i] = to]
  /\ holder' = [holder EXCEPT ![i] = by]
  /\ UNCHANGED members

Offer(i) == Move(i, {"none"}, "offered", Nobody)

Claim(s, i) ==
  /\ s \in members
  /\ Cardinality(Claims(s)) < MaxHeld
  /\ Move(i, {"offered"}, "held", s)

\* A part was delivered, or the holder was slashed: the rest is on offer again.
Return(i) == Move(i, {"held"}, "offered", Nobody)

Secure(i) == Move(i, {"held"}, "secured", holder[i])

Contest(i) == Move(i, {"secured"}, "contested", holder[i])

Settle(i) == Move(i, InHand, "ended", Nobody)

Retract(S) ==
  /\ \A i \in S : phase[i] = "offered"
  /\ phase' = [i \in Intents |-> IF i \in S THEN "ended" ELSE phase[i]]
  /\ UNCHANGED <<members, holder>>

Forget(i) == Move(i, {"ended"}, "forgotten", Nobody)

Next ==
  \/ \E s \in Solvers : Join(s) \/ Leave(s) \/ \E i \in Intents : Claim(s, i)
  \/ \E i \in Intents : Offer(i) \/ Return(i) \/ Secure(i) \/ Contest(i)
                          \/ Settle(i) \/ Forget(i)
  \/ \E S \in SUBSET Intents : Retract(S)

Spec == Init /\ [][Next]_lifecycleVars

\* The promise the counters and guards of the contract exist for: whoever holds
\* an intent is still a member, and holds no more than the cap.
HoldersAreMembers ==
  /\ \A i \in Intents : phase[i] \in InHand => holder[i] \in members
  /\ \A s \in Solvers : Cardinality(Claims(s)) <= MaxHeld
=============================================================================
