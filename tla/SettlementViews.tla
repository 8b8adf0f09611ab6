-------------------------- MODULE SettlementViews --------------------------
(***************************************************************************)
(* The reads of intent_settlement that solvers act on before they call:    *)
(* each repeats, in code of its own, a part of what the call will check.   *)
(***************************************************************************)
EXTENDS Settlement

\* An open intent past its deadline is shown as expired before anyone expires it.
GetEffectiveIntentState(i) ==
  IF intent[i].state \in OpenStates /\ now >= intent[i].deadline THEN "Expired"
  ELSE intent[i].state

GetSolverExposure(s) ==
  [used |-> exposure[s],
   capacity |-> IF s \in registered THEN bond[s][DefaultToken] * CoverageMultiplier ELSE 0]

SlashCooldownOver(s) ==
  solver[s].last_slash_time = 0 \/ now >= solver[s].last_slash_time + SlashCooldown

\* Looks at the bond in the default token alone.
IsSolverEligible(s) ==
  /\ s \in registered
  /\ solver[s].is_active
  /\ bond[s][DefaultToken] >= MinBond[DefaultToken]
  /\ solver[s].active_intents < MaxActive
  /\ SlashCooldownOver(s)

CheckFillGuards(i, s) ==
  now < intent[i].deadline /\ intent[i].state = "Accepted" /\ intent[i].solver = s

TakenOn(i) == intent[i].state # "Accepted" /\ intent'[i].state = "Accepted"

\* The views never send a solver away from a call that would have worked: whoever takes
\* an intent on with a bond in the default token was shown as eligible, and the intent as
\* open; what it is then exposed for is shown within its capacity; and a fill is made
\* only where the guards that are shared with the view hold.  A minimum bond that the
\* token's multiplier lowers is not looked at by the view.
ViewsForetell ==
  [][\A i \in Intents :
       /\ (intent[i].state # "Absent" /\ GetEffectiveIntentState(i) = "Expired") =>
            intent'[i].state \in OpenStates \cup {"Expired", "Cancelled", "Tombstone"}
       /\ TakenOn(i) => GetEffectiveIntentState(i) \in OpenStates
       /\ \A s \in Solvers : intent'[i].solver = s =>
            /\ (TakenOn(i) /\ intent'[i].bond_token = DefaultToken
                  /\ RequiredBond(DefaultToken) >= MinBond[DefaultToken]) =>
                 /\ IsSolverEligible(s)
                 /\ GetSolverExposure(s)'.used <= GetSolverExposure(s)'.capacity
            /\ (intent[i].state = "Accepted"
                  /\ intent'[i].fill_amount > intent[i].fill_amount) =>
                 CheckFillGuards(i, s)]_vars
=============================================================================
