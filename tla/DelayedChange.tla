--------------------------- MODULE DelayedChange ---------------------------
(***************************************************************************)
(* What two-step administration promises: nothing that is changed by       *)
(* notice changes before the notice has stood for the whole delay, and one *)
(* notice makes one change.  A notice may be replaced, and then the new    *)
(* one stands for the whole delay again, or withdrawn.                     *)
(***************************************************************************)
EXTENDS Integers

CONSTANTS
  Delay,
  Lapsing,        \* matters that may also end at once, without notice
  Ended,          \* what is in force when they have, and before they began
  FirstAtOnce     \* matters that may begin at once

VARIABLES
  now,
  in_force,       \* what holds, by matter
  notices         \* the notices that stand: [matter, value, since]

Give(matter, value) ==
  /\ \E dropped \in SUBSET {n \in notices : n.matter = matter} :
       notices' = (notices \ dropped)
                    \cup {[matter |-> matter, value |-> value, since |-> now]}
  /\ UNCHANGED in_force

Withdraw(n) ==
  /\ notices' = notices \ {n}
  /\ UNCHANGED in_force

TakeEffect(n) ==
  /\ now >= n.since + Delay
  /\ in_force' = [in_force EXCEPT ![n.matter] = n.value]
  /\ notices' = notices \ {n}

Lapse(matter) ==
  /\ in_force' = [in_force EXCEPT ![matter] = Ended]
  /\ UNCHANGED notices

Begin(matter) ==
  /\ in_force[matter] = Ended
  /\ in_force' = [in_force EXCEPT ![matter] = in_force'[matter]]
  /\ UNCHANGED notices

Changes ==
  \/ \E n \in notices : Withdraw(n) \/ TakeEffect(n)
  \/ \E n \in notices' : Give(n.matter, n.value)
  \/ \E matter \in Lapsing : Lapse(matter)
  \/ \E matter \in FirstAtOnce : Begin(matter)

Next ==
  \/ now' >= now /\ UNCHANGED <<in_force, notices>>
  \/ now' = now /\ Changes

changeVars == <<now, in_force, notices>>

Spec == notices = {} /\ [][Next]_changeVars
=============================================================================
