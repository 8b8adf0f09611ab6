------------------------------ MODULE DailyCap ------------------------------
(***************************************************************************)
(* policy_daily_cap, the reference policy that settlement may ask before   *)
(* it takes a submission: a cap on what a user submits per window.  The    *)
(* window starts with the first intent in it and does not roll.  Nothing   *)
(* in check_intent asks who calls it.                                      *)
(***************************************************************************)
EXTENDS LedgerClock, Sequences, Functions

CONSTANTS
  Submitters,          \* users
  Day,                 \* DAY_SECS
  Caps,                \* bound: caps the admin sets
  FirstCap,
  MaxAdmitted          \* bound: entries of a user's log

ASSUME CapAssumption ==
  /\ Day \in Nat \ {0} /\ Caps \subseteq Nat \ {0} /\ FirstCap \in Caps /\ MaxAdmitted \in Nat
  /\ \E most \in Caps : \A cap \in Caps : cap <= most

VARIABLES
  daily_cap,
  user_volume,         \* [since, total], or Unused
  admitted             \* ghost: what was allowed for each user, [at, amount] in order

capVars == <<daily_cap, user_volume, admitted>>

Unused == [since |-> 0, total |-> -1]

WindowOver(volume, now) == volume = Unused \/ now >= volume.since + Day

\* get_user_volume, and what check_intent starts from.
GetUserVolume(volume, now) ==
  IF WindowOver(volume, now) THEN [since |-> now, total |-> 0] ELSE volume

\* Mutant: the total starts again and the window keeps its old start.
StartKept(volume, amount, now) ==
  [since |-> IF volume = Unused THEN now ELSE volume.since,
   total |-> GetUserVolume(volume, now).total + amount]

Counted(volume, amount, now) ==
  [since |-> GetUserVolume(volume, now).since,
   total |-> GetUserVolume(volume, now).total + amount]

\* What is stored after each of a batch of amounts that are checked one after another.
After(volume, amounts, now) ==
  LET after[k \in 0..Len(amounts)] ==
        IF k = 0 THEN volume ELSE Counted(after[k - 1], amounts[k], now)
  IN  after

\* check_intent says yes to each of them; the first refusal is final.
Allowed(volume, amounts, now) ==
  \A k \in 1..Len(amounts) :
    amounts[k] > 0 /\ After(volume, amounts, now)[k].total <= daily_cap

CheckIntents(u, amounts) ==
  /\ Len(admitted[u]) + Len(amounts) <= MaxAdmitted
  /\ Allowed(user_volume[u], amounts, ledger_time)
  /\ user_volume' = [user_volume EXCEPT ![u] = After(@, amounts, ledger_time)[Len(amounts)]]
  /\ admitted' = [admitted EXCEPT
       ![u] = @ \o [k \in 1..Len(amounts) |-> [at |-> ledger_time, amount |-> amounts[k]]]]
  /\ UNCHANGED daily_cap

\* Deployed without a user's volume in it; initialize sets the first cap.
CapInit ==
  /\ daily_cap = FirstCap
  /\ user_volume = [u \in Submitters |-> Unused]
  /\ admitted = [u \in Submitters |-> << >>]

SetDailyCap(cap) ==
  /\ daily_cap' = cap
  /\ UNCHANGED <<user_volume, admitted>>

-----------------------------------------------------------------------------
(* Properties.                                                             *)

\* The sum of what was allowed from the second lo to the second hi.
Spent(log, lo, hi) ==
  SumFunctionOnSet([k \in DOMAIN log |-> log[k].amount], {k \in DOMAIN log : log[k].at \in lo..hi})

Within(u, from) == Spent(admitted[u], from, from + Day - 1)

LargestCap == CHOOSE cap \in Caps : \A other \in Caps : other <= cap

\* What the policy allows a user in its window is what it has on record, and no period
\* of a day, wherever it begins, sees more than two full windows' worth: all that is left
\* of "a rolling 24-hour window", as the window does not roll.
DailyCapHolds ==
  \A u \in Submitters :
    /\ user_volume[u] # Unused =>
         Within(u, user_volume[u].since) = user_volume[u].total
    /\ \A from \in 0..LastTime : Within(u, from) <= 2 * LargestCap
=============================================================================
