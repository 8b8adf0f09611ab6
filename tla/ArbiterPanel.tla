---------------------------- MODULE ArbiterPanel ----------------------------
(***************************************************************************)
(* The arbiter_panel contract composed with the settlement contract it     *)
(* rules for: bonded arbiters, one round of public votes per disputed      *)
(* intent, the tally that settles the round and rules on the dispute.      *)
(* The settlement contract's side is the board of Disputes; its admin may  *)
(* give the arbiter's role to the panel or take it back at any time.       *)
(***************************************************************************)
EXTENDS Integers, FiniteSets, Functions

CONSTANTS
  Arbiters,                \* addresses that may become arbiters
  Cases,                   \* intents that may come under dispute
  Parties,                 \* per case, those of Arbiters that are its user or solver
  BondAmount,              \* DataKey::BondAmount
  PanelSize, Threshold,    \* n and m
  VoteWindow, ArbiterWindow,
  Bps, SlashBps,
  Switches,                \* bound: what the admin's set_arbiter calls may do
  Horizon                  \* bound: the last time of a call, save keepers' calls

ASSUME PanelAssumption ==
  /\ IsFiniteSet(Arbiters) /\ IsFiniteSet(Cases)
  /\ Parties \in [Cases -> SUBSET Arbiters]
  /\ BondAmount \in Nat \ {0}
  /\ PanelSize \in Nat /\ Threshold \in 1..PanelSize /\ 2 * Threshold > PanelSize
  /\ {VoteWindow, ArbiterWindow, Horizon} \subseteq Nat
  /\ Bps \in Nat \ {0} /\ SlashBps \in 0..Bps
  /\ Switches \subseteq BOOLEAN

VARIABLES
  now, phase, raised_at,   \* the settlement contract, as Disputes shows it
  installed,               \* is the panel the settlement's arbiter?
  members,                 \* DataKey::Arbiters, those with an ArbiterRecord
  bond, open_votes,        \* ArbiterRecord
  round,                   \* DataKey::Round(c)
  balance                  \* the contract's balance of the bond token

recordVars == <<members, bond, open_votes>>
settlementVars == <<phase, raised_at, installed>>
vars == <<now, settlementVars, recordVars, round, balance>>

Board == INSTANCE Disputes

Ballots == {"none"} \cup Board!Rulings

Round ==
  [opened: BOOLEAN, panel: SUBSET Arbiters, threshold: Nat, opened_at: Nat,
   votes: [Arbiters -> Ballots], settled: BOOLEAN]

NoRound ==
  [opened |-> FALSE, panel |-> {}, threshold |-> 0, opened_at |-> 0,
   votes |-> [a \in Arbiters |-> "none"], settled |-> FALSE]

BeforeHorizon == now <= Horizon

-----------------------------------------------------------------------------
(* Helpers of the handlers.                                                *)

\* The threshold of a panel of k: m * k / n, rounded up, at least 1.
ScaledThreshold(k) ==
  LET scaled == (Threshold * k + PanelSize - 1) \div PanelSize
  IN  IF scaled >= 1 THEN scaled ELSE 1

\* Mutant: the case's own user and solver may sit on its panel.
EligibleOrParty(c) == {a \in members : bond[a] >= BondAmount}

Eligible(c) == {a \in members : a \notin Parties[c] /\ bond[a] >= BondAmount}

VotesFor(c, ruling) == {a \in round[c].panel : round[c].votes[a] = ruling}

HasQuorum(c, ruling) == Cardinality(VotesFor(c, ruling)) >= round[c].threshold

Pending(c) == round[c].opened /\ ~round[c].settled

\* The quorum was reached and the settlement contract no longer takes the ruling.
Overtaken(c) ==
  /\ \E ruling \in Board!Rulings : HasQuorum(c, ruling)
  /\ phase[c] # "raised" \/ ~installed

VotingOpen(c) == now < round[c].opened_at + VoteWindow

OpenRounds(a) == {c \in Cases : Pending(c) /\ a \in round[c].panel}

\* Mutant: only those who voted get their selection lock back.
UnlockedVoters(c) ==
  [a \in Arbiters |-> IF a \in round[c].panel /\ round[c].votes[a] # "none"
                      THEN open_votes[a] - 1 ELSE open_votes[a]]

\* The selection locks of a panel given back, saturating.
Unlocked(c) ==
  [a \in Arbiters |-> IF a \in round[c].panel /\ open_votes[a] > 0
                      THEN open_votes[a] - 1 ELSE open_votes[a]]

Cut(a) == (bond[a] * SlashBps) \div Bps

\* Mutant: the absent are spared, and those who voted are not.
LosersAmongVoters(c, ruling) == {a \in round[c].panel : round[c].votes[a] # "none"}

\* Those who voted against the outcome or did not vote.
Losers(c, ruling) == round[c].panel \ VotesFor(c, ruling)

\* Mutant: the dust stays with the contract.
DustKept(slashed, winners) == 0

\* What is left when the slashed bonds are shared equally.
Dust(slashed, winners) == slashed - (slashed \div winners) * winners

-----------------------------------------------------------------------------
(* The settlement contract, its users and its admin.                       *)

\* The ledger clock, as long as calls may come or something is due.
Tick ==
  /\ \/ BeforeHorizon
     \/ \E c \in Cases : Pending(c) /\ VotingOpen(c)
     \/ \E c \in Cases : phase[c] = "raised" /\ ~Board!TimedOut(c)
  /\ now' = now + 1
  /\ UNCHANGED <<settlementVars, recordVars, round, balance>>

RaiseDispute(c) ==
  /\ BeforeHorizon
  /\ Board!Raise(c)
  /\ UNCHANGED <<now, installed, recordVars, round, balance>>

\* set_arbiter and set_arbiter_panel of the settlement contract.
SetArbiter(p) ==
  /\ BeforeHorizon
  /\ installed # p
  /\ installed' = p
  /\ UNCHANGED <<now, phase, raised_at, recordVars, round, balance>>

\* The arbiter the admin put in the panel's place rules on a case itself.
RuleWithoutPanel(c, ruling) ==
  /\ BeforeHorizon
  /\ ~installed
  /\ Board!Rule(c, ruling)
  /\ UNCHANGED <<now, installed, recordVars, round, balance>>

\* release_fill of a dispute nobody answered.  Permissionless.
ReleaseFill(c) ==
  /\ Board!Lapse(c)
  /\ UNCHANGED <<now, installed, recordVars, round, balance>>

\* close_intent of an intent whose dispute is over; one that never was disputed
\* and is pruned stays a case that is never raised.  Permissionless.
CloseIntent(c) ==
  /\ BeforeHorizon
  /\ phase[c] \notin {"none", "gone"} /\ Board!Forget(c)
  /\ UNCHANGED <<now, installed, recordVars, round, balance>>

-----------------------------------------------------------------------------
(* The panel.                                                              *)

RegisterArbiter(a) ==
  /\ BeforeHorizon
  /\ a \notin members
  /\ members' = members \cup {a}
  /\ bond' = [bond EXCEPT ![a] = BondAmount]
  /\ open_votes' = [open_votes EXCEPT ![a] = 0]
  /\ balance' = balance + BondAmount
  /\ UNCHANGED <<now, settlementVars, round>>

DeregisterArbiter(a) ==
  /\ BeforeHorizon
  /\ a \in members
  /\ open_votes[a] = 0
  /\ bond[a] <= balance
  /\ members' = members \ {a}
  /\ bond' = [bond EXCEPT ![a] = 0]
  /\ balance' = balance - bond[a]
  /\ UNCHANGED <<now, settlementVars, open_votes, round>>

\* Permissionless.  The generator may draw any panel of the right size.
OpenVote(c, panel) ==
  /\ BeforeHorizon
  /\ ~round[c].opened
  /\ phase[c] = "raised"
  /\ Eligible(c) # {} /\ panel \subseteq Eligible(c)
  /\ LET k == Cardinality(Eligible(c))
     IN  Cardinality(panel) = IF PanelSize <= k THEN PanelSize ELSE k
  /\ round' = [round EXCEPT ![c] =
       [NoRound EXCEPT !.opened = TRUE, !.panel = panel, !.opened_at = now,
                       !.threshold = ScaledThreshold(Cardinality(panel))]]
  /\ open_votes' = [a \in Arbiters |-> IF a \in panel THEN open_votes[a] + 1
                                                      ELSE open_votes[a]]
  /\ UNCHANGED <<now, settlementVars, members, bond, balance>>

Vote(a, c, ruling) ==
  /\ BeforeHorizon
  /\ Pending(c) /\ VotingOpen(c)
  /\ a \in round[c].panel /\ round[c].votes[a] = "none"
  /\ round' = [round EXCEPT ![c].votes[a] = ruling]
  /\ UNCHANGED <<now, settlementVars, recordVars, balance>>

\* A quorum, at any time: losers pay a cut of their bonds, winners share it, the
\* first of them on the panel gets the dust, and the settlement gets the ruling.
\* If the settlement refuses it, nothing happens at all.  Permissionless.
TallyRuling(c, ruling) ==
  LET winners == VotesFor(c, ruling)
      slashed == SumFunctionOnSet([a \in Arbiters |-> Cut(a)], Losers(c, ruling))
      share   == slashed \div Cardinality(winners)
  IN
  /\ Pending(c) /\ HasQuorum(c, ruling)
  /\ ruling = "dismissed" => ~HasQuorum(c, "upheld")
  /\ installed /\ Board!Rule(c, ruling)
  /\ round' = [round EXCEPT ![c].settled = TRUE]
  /\ open_votes' = Unlocked(c)
  /\ \E first \in winners :
       bond' = [a \in Arbiters |->
         CASE a \in Losers(c, ruling) -> bond[a] - Cut(a)
           [] a = first   -> bond[a] + share + Dust(slashed, Cardinality(winners))
           [] a \in winners \ {first} -> bond[a] + share
           [] OTHER       -> bond[a]]
  /\ UNCHANGED <<now, installed, members, balance>>

\* Mutant: a round with votes in it is not closed.
CloseIfNobodyVoted(c) ==
  /\ Pending(c) /\ ~VotingOpen(c)
  /\ \A a \in round[c].panel : round[c].votes[a] = "none"
  /\ round' = [round EXCEPT ![c].settled = TRUE]
  /\ open_votes' = Unlocked(c)
  /\ UNCHANGED <<now, settlementVars, members, bond, balance>>

\* No quorum by the end of the window: the round closes, nobody pays.
TallyNothing(c) ==
  /\ Pending(c) /\ ~VotingOpen(c)
  /\ \A ruling \in Board!Rulings : ~HasQuorum(c, ruling)
  /\ round' = [round EXCEPT ![c].settled = TRUE]
  /\ open_votes' = Unlocked(c)
  /\ UNCHANGED <<now, settlementVars, members, bond, balance>>

-----------------------------------------------------------------------------
Init ==
  /\ now = 1
  /\ Board!BoardInit
  /\ installed = FALSE
  /\ members = {}
  /\ bond = [a \in Arbiters |-> 0]
  /\ open_votes = [a \in Arbiters |-> 0]
  /\ round = [c \in Cases |-> NoRound]
  /\ balance = 0

ArbiterCall(a) ==
  \/ RegisterArbiter(a)
  \/ DeregisterArbiter(a)
  \/ \E c \in Cases, ruling \in Board!Rulings : Vote(a, c, ruling)

SettlementCall(c) ==
  \/ RaiseDispute(c)
  \/ \E ruling \in Board!Rulings : RuleWithoutPanel(c, ruling)
  \/ ReleaseFill(c)
  \/ CloseIntent(c)

Tally(c) == TallyNothing(c) \/ \E ruling \in Board!Rulings : TallyRuling(c, ruling)

Next ==
  \/ Tick
  \/ \E p \in Switches : SetArbiter(p)
  \/ \E a \in Arbiters : ArbiterCall(a)
  \/ \E c \in Cases :
       \/ SettlementCall(c)
       \/ \E panel \in SUBSET Arbiters : OpenVote(c, panel)
       \/ Tally(c)

Spec == Init /\ [][Next]_vars

\* Time passes, and some keeper makes a tally that stays possible.
FairSpec == Spec /\ WF_vars(Tick) /\ \A c \in Cases : WF_vars(Tally(c))

-----------------------------------------------------------------------------
(* Properties.                                                             *)

\* Every variable keeps its type; no bond goes negative.
TypeOK ==
  /\ now \in Nat /\ installed \in BOOLEAN
  /\ phase \in [Cases -> Board!Phases] /\ raised_at \in [Cases -> Nat]
  /\ members \subseteq Arbiters
  /\ bond \in [Arbiters -> Nat] /\ open_votes \in [Arbiters -> Nat]
  /\ round \in [Cases -> Round]
  /\ balance \in Nat

\* open_votes, which alone keeps an arbiter's bond in the contract, counts the
\* unsettled rounds it sits on; its decrement saturates.
OpenVotesExact ==
  \A a \in Arbiters : open_votes[a] = Cardinality(OpenRounds(a))

\* Whoever sits on an unsettled round still has a record, so a tally never traps
\* on a panelist that left, which would leave the round open for ever.
PanelistsStay == \A a \in Arbiters : OpenRounds(a) # {} => a \in members

\* The bonds are there: slashing moves them between arbiters to the last unit.
BondsBacked == balance = SumFunctionOnSet(bond, members)

\* However few arbiters were eligible, no votes make both outcomes reach the
\* quorum, so the order in which tally looks at them never decides a dispute.
OneOutcome ==
  \A c \in Cases : round[c].opened => ~(HasQuorum(c, "upheld") /\ HasQuorum(c, "dismissed"))

\* A settled round that reached a quorum decided its dispute, the way more than
\* half of the panel voted, and neither the user nor the solver was on it.
PanelsMajorityRules ==
  \A c \in Cases, ruling \in Board!Rulings :
    (round[c].settled /\ HasQuorum(c, ruling)) =>
      /\ phase[c] \in {ruling, "gone"}
      /\ 2 * Cardinality(VotesFor(c, ruling)) > Cardinality(round[c].panel)
      /\ round[c].panel \cap Parties[c] = {}

\* An arbiter has less than the bond it put up only if it lost a vote since.
OnlyLosersPay ==
  \A a \in members :
    bond[a] < BondAmount =>
      \E c \in Cases, ruling \in Board!Rulings :
        /\ round[c].settled /\ HasQuorum(c, ruling)
        /\ a \in round[c].panel /\ round[c].votes[a] # ruling

\* Every round is settled and lets its arbiters go, unless its quorum was
\* reached and the dispute was answered without it: by the timeout, or by
\* another arbiter.  Those rounds no tally can settle.
RoundsSettle ==
  \A c \in Cases : Pending(c) ~> ~Pending(c) \/ Overtaken(c)
=============================================================================
