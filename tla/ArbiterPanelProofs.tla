------------------------- MODULE ArbiterPanelProofs -------------------------
(***************************************************************************)
(* Proofs about the arbiter panel, for any number of arbiters and cases    *)
(* and any panel size, threshold and share of a slash that the constructor *)
(* accepts.                                                                *)
(***************************************************************************)
EXTENDS ArbiterPanel, Sums

\* The types the proofs need: all of TypeOK but the bonds and their balance.
Types ==
  /\ now \in Nat
  /\ phase \in [Cases -> Board!Phases]
  /\ members \subseteq Arbiters
  /\ open_votes \in [Arbiters -> Nat]
  /\ round \in [Cases -> Round]

\* How a round looks once it is opened, and a case once it is ruled on.
RoundsFormed ==
  \A c \in Cases :
    /\ round[c].settled => round[c].opened
    /\ round[c].opened =>
         /\ round[c].panel # {} /\ round[c].panel \cap Parties[c] = {}
         /\ round[c].threshold = ScaledThreshold(Cardinality(round[c].panel))

SettledAsVoted ==
  \A c \in Cases, ruling \in Board!Rulings :
    round[c].settled /\ HasQuorum(c, ruling) => phase[c] \in {ruling, "gone"}

Inv == Types /\ RoundsFormed /\ SettledAsVoted /\ PanelistsStay /\ OpenVotesExact

-----------------------------------------------------------------------------
(* The arithmetic of the quorum.                                           *)

\* A threshold scaled to a panel of k is more than half of k.
LEMMA ScaledIsMajority ==
  ASSUME NEW k \in Nat \ {0}
  PROVE  ScaledThreshold(k) \in Nat /\ 2 * ScaledThreshold(k) > k
<1> DEFINE t == Threshold * k
           scaled == (t + PanelSize - 1) \div PanelSize
<1>1. PanelSize \in Nat \ {0} /\ Threshold \in Nat \ {0} /\ 2 * Threshold >= PanelSize + 1
  BY PanelAssumption
<1>2. t \in Nat /\ 2 * t >= (PanelSize + 1) * k
  <2>1. (2 * Threshold) * k >= (PanelSize + 1) * k
    BY <1>1, Z3
  <2>2. (2 * Threshold) * k = 2 * t /\ t \in Nat
    BY <1>1, Z3
  <2> QED BY <2>1, <2>2
<1> HIDE DEF t
<1>3. scaled \in Nat /\ PanelSize * scaled >= t
  BY <1>1, <1>2, Z3
<1>4. 2 * scaled > k
  <2>1. SUFFICES ASSUME 2 * scaled <= k PROVE FALSE
    BY <1>3
  <2>2. PanelSize * (2 * scaled) <= PanelSize * k
    BY <2>1, <1>1, <1>3, Z3
  <2>3. PanelSize * (2 * scaled) = 2 * (PanelSize * scaled)
    BY <1>1, <1>3, Z3
  <2>4. (PanelSize + 1) * k = PanelSize * k + k
    BY <1>1, Z3
  <2>5. PanelSize * scaled \in Nat /\ PanelSize * k \in Nat
    BY <1>1, <1>3, Z3
  <2> HIDE DEF scaled
  <2> QED BY <2>2, <2>3, <2>4, <2>5, <1>2, <1>3
<1> QED BY <1>3, <1>4 DEF ScaledThreshold, t

\* Votes for a ruling are members of the panel, which is finite.
LEMMA VotesFinite ==
  ASSUME Types, NEW c \in Cases, NEW ruling
  PROVE  /\ IsFiniteSet(round[c].panel) /\ Cardinality(round[c].panel) \in Nat
         /\ IsFiniteSet(VotesFor(c, ruling)) /\ Cardinality(VotesFor(c, ruling)) \in Nat
         /\ VotesFor(c, ruling) \subseteq round[c].panel
<1>1. round[c].panel \subseteq Arbiters
  BY DEF Types, Round
<1>2. VotesFor(c, ruling) \subseteq round[c].panel
  BY DEF VotesFor
<1> QED BY <1>1, <1>2, FS_Subset, FS_CardinalityType, PanelAssumption

\* A round that reached the quorum for one ruling did not reach it for another.
LEMMA QuorumsExclude ==
  ASSUME Types, RoundsFormed, NEW c \in Cases, round[c].opened,
         NEW r1, NEW r2, r1 # r2, HasQuorum(c, r1)
  PROVE  ~HasQuorum(c, r2)
<1> DEFINE k == Cardinality(round[c].panel)
<1>1. IsFiniteSet(round[c].panel) /\ k \in Nat \ {0}
  BY VotesFinite, FS_EmptySet DEF RoundsFormed
<1>2. round[c].threshold = ScaledThreshold(k) /\ 2 * ScaledThreshold(k) > k
        /\ ScaledThreshold(k) \in Nat
  BY <1>1, ScaledIsMajority DEF RoundsFormed
<1>3. VotesFor(c, r1) \cap VotesFor(c, r2) = {}
  BY DEF VotesFor
<1>4. /\ IsFiniteSet(VotesFor(c, r1)) /\ IsFiniteSet(VotesFor(c, r2))
      /\ Cardinality(VotesFor(c, r1)) \in Nat /\ Cardinality(VotesFor(c, r2)) \in Nat
      /\ VotesFor(c, r1) \cup VotesFor(c, r2) \subseteq round[c].panel
  BY VotesFinite
<1>5. Cardinality(VotesFor(c, r1) \cup VotesFor(c, r2))
        = Cardinality(VotesFor(c, r1)) + Cardinality(VotesFor(c, r2))
  <2>1. Cardinality(VotesFor(c, r1) \cap VotesFor(c, r2)) = 0
    BY <1>3, FS_EmptySet
  <2>2. Cardinality(VotesFor(c, r1) \cup VotesFor(c, r2))
          = Cardinality(VotesFor(c, r1)) + Cardinality(VotesFor(c, r2))
              - Cardinality(VotesFor(c, r1) \cap VotesFor(c, r2))
    BY <1>4, FS_Union
  <2> QED BY <1>4, <2>1, <2>2
<1>6. Cardinality(VotesFor(c, r1)) + Cardinality(VotesFor(c, r2)) <= k
  BY <1>1, <1>4, <1>5, FS_Subset
<1>7. Cardinality(VotesFor(c, r1)) >= round[c].threshold
  BY DEF HasQuorum
<1> HIDE DEF k
<1> QED BY <1>1, <1>2, <1>4, <1>6, <1>7 DEF HasQuorum


-----------------------------------------------------------------------------
(* The selection locks.                                                    *)

\* An arbiter's open rounds are finitely many.
LEMMA OpenRoundsFinite ==
  \A a : IsFiniteSet(OpenRounds(a)) /\ Cardinality(OpenRounds(a)) \in Nat
<1>1. TAKE a
<1>2. OpenRounds(a) \subseteq Cases
  BY DEF OpenRounds
<1> QED BY <1>2, FS_Subset, FS_CardinalityType, PanelAssumption

\* A round that opens on a panel with the panel's locks taken keeps the count.
LEMMA LockTaken ==
  ASSUME Inv, NEW c \in Cases, ~Pending(c), Pending(c)',
         \A d \in Cases \ {c} : round'[d] = round[d],
         open_votes' = [a \in Arbiters |-> IF a \in round'[c].panel THEN open_votes[a] + 1
                                                                  ELSE open_votes[a]]
  PROVE  OpenVotesExact'
<1>1. SUFFICES ASSUME NEW a \in Arbiters
               PROVE  open_votes'[a] = Cardinality(OpenRounds(a)')
  BY DEF OpenVotesExact
<1>2. open_votes[a] = Cardinality(OpenRounds(a)) /\ IsFiniteSet(OpenRounds(a))
        /\ Cardinality(OpenRounds(a)) \in Nat
  BY OpenRoundsFinite DEF Inv, OpenVotesExact
<1>3. CASE a \in round'[c].panel
  <2>1. OpenRounds(a)' = OpenRounds(a) \cup {c} /\ c \notin OpenRounds(a)
    BY <1>3 DEF OpenRounds, Pending
  <2>2. Cardinality(OpenRounds(a)') = Cardinality(OpenRounds(a)) + 1
    BY <1>2, <2>1, FS_AddElement
  <2> QED BY <1>2, <1>3, <2>2
<1>4. CASE a \notin round'[c].panel
  <2>1. OpenRounds(a)' = OpenRounds(a)
    BY <1>4 DEF OpenRounds, Pending
  <2> QED BY <1>2, <1>4, <2>1
<1> QED BY <1>3, <1>4

\* A round that is settled with its locks given back keeps the count; the
\* decrement never saturates.
LEMMA LockGiven ==
  ASSUME Inv, NEW c \in Cases, Pending(c),
         round' = [round EXCEPT ![c].settled = TRUE],
         open_votes' = Unlocked(c)
  PROVE  OpenVotesExact'
<1>1. SUFFICES ASSUME NEW a \in Arbiters
               PROVE  open_votes'[a] = Cardinality(OpenRounds(a)')
  BY DEF OpenVotesExact
<1>2. open_votes[a] = Cardinality(OpenRounds(a)) /\ IsFiniteSet(OpenRounds(a))
        /\ Cardinality(OpenRounds(a)) \in Nat
  BY OpenRoundsFinite DEF Inv, OpenVotesExact
<1>3. /\ \A d \in Cases \ {c} : round'[d] = round[d]
      /\ round'[c].settled
  BY DEF Inv, Types, Round
<1>4. CASE a \in round[c].panel
  <2>1. OpenRounds(a)' = OpenRounds(a) \ {c} /\ c \in OpenRounds(a)
    BY <1>3, <1>4 DEF OpenRounds, Pending
  <2>2. Cardinality(OpenRounds(a)') = Cardinality(OpenRounds(a)) - 1
    BY <1>2, <2>1, FS_RemoveElement
  <2>3. Cardinality(OpenRounds(a)) # 0
    BY <1>2, <2>1, FS_EmptySet
  <2> QED BY <1>2, <1>4, <2>2, <2>3 DEF Unlocked
<1>5. CASE a \notin round[c].panel
  <2>1. OpenRounds(a)' = OpenRounds(a)
    BY <1>3, <1>5 DEF OpenRounds, Pending
  <2> QED BY <1>2, <1>5, <2>1 DEF Unlocked
<1> QED BY <1>4, <1>5

-----------------------------------------------------------------------------
(* What each kind of step does to the invariant.                           *)

\* Steps of the settlement contract and its clock.
LEMMA SettlementSteps ==
  ASSUME Inv, UNCHANGED <<members, open_votes, round>>,
         now' \in Nat, phase' \in [Cases -> Board!Phases],
         \A c \in Cases : phase[c] \in Board!Rulings \cup {"gone"} =>
           phase'[c] \in {phase[c], "gone"}
  PROVE  Inv'
<1>1. Types' /\ RoundsFormed' /\ PanelistsStay'
  BY DEF Inv, Types, RoundsFormed, PanelistsStay, OpenRounds, Pending
<1>2. SettledAsVoted'
  BY DEF Inv, SettledAsVoted, HasQuorum, VotesFor
<1>3. OpenVotesExact'
  <2>1. \A a \in Arbiters : OpenRounds(a)' = OpenRounds(a)
    BY DEF OpenRounds, Pending
  <2> QED BY <2>1 DEF Inv, OpenVotesExact
<1> QED BY <1>1, <1>2, <1>3 DEF Inv

\* A settled round: its locks are given back, and a quorum decided its case.
LEMMA SettlingSteps ==
  ASSUME Inv, NEW c \in Cases, Pending(c), UNCHANGED <<now, members>>,
         round' = [round EXCEPT ![c].settled = TRUE],
         open_votes' = Unlocked(c),
         phase' \in [Cases -> Board!Phases],
         \A d \in Cases \ {c} : phase'[d] = phase[d],
         \A ruling \in Board!Rulings : HasQuorum(c, ruling) => phase'[c] \in {ruling, "gone"}
  PROVE  Inv'
<1>1. /\ \A d \in Cases \ {c} : round'[d] = round[d]
      /\ round'[c] = [round[c] EXCEPT !.settled = TRUE]
      /\ round[c] \in Round
  BY DEF Inv, Types
<1>2. Types'
  <2>1. round' \in [Cases -> Round]
    BY <1>1 DEF Inv, Types, Round
  <2>2. open_votes' \in [Arbiters -> Nat]
    BY DEF Inv, Types, Unlocked
  <2> QED BY <2>1, <2>2 DEF Inv, Types
<1>3. /\ round'[c].settled /\ round'[c].opened = round[c].opened
      /\ round'[c].panel = round[c].panel /\ round'[c].votes = round[c].votes
      /\ round'[c].threshold = round[c].threshold
  BY <1>1 DEF Round
<1>4. RoundsFormed'
  <2>1. ASSUME NEW d \in Cases
        PROVE  /\ round'[d].settled => round'[d].opened
               /\ round'[d].opened =>
                    /\ round'[d].panel # {} /\ round'[d].panel \cap Parties[d] = {}
                    /\ round'[d].threshold = ScaledThreshold(Cardinality(round'[d].panel))
    BY <1>1, <1>3 DEF Inv, RoundsFormed, Pending
  <2> QED BY <2>1 DEF RoundsFormed
<1>5. \A d \in Cases : \A ruling : HasQuorum(d, ruling)' <=> HasQuorum(d, ruling)
  <2>1. \A d \in Cases : \A ruling : VotesFor(d, ruling)' = VotesFor(d, ruling)
    BY <1>1, <1>3 DEF VotesFor
  <2>2. \A d \in Cases : round'[d].threshold = round[d].threshold
    BY <1>1, <1>3
  <2> QED BY <2>1, <2>2 DEF HasQuorum
<1>6. SettledAsVoted'
  <2>1. ASSUME NEW d \in Cases, NEW ruling \in Board!Rulings,
               round'[d].settled, HasQuorum(d, ruling)'
        PROVE  phase'[d] \in {ruling, "gone"}
    BY <1>1, <1>5, <2>1 DEF Inv, SettledAsVoted
  <2> QED BY <2>1 DEF SettledAsVoted, Board!Rulings
<1>7. PanelistsStay'
  <2>1. \A a : OpenRounds(a)' \subseteq OpenRounds(a)
    BY <1>1, <1>3 DEF OpenRounds, Pending
  <2> QED BY <2>1 DEF Inv, PanelistsStay
<1>8. OpenVotesExact'
  BY LockGiven
<1> QED BY <1>2, <1>4, <1>6, <1>7, <1>8 DEF Inv
-----------------------------------------------------------------------------
(* The panel's own steps.                                                  *)

\* A new arbiter has no locks, because it sits on no unsettled round.
LEMMA RegisterStep ==
  ASSUME Inv, NEW a \in Arbiters, RegisterArbiter(a)
  PROVE  Inv'
<1>1. /\ a \notin members /\ members' = members \cup {a}
      /\ open_votes' = [open_votes EXCEPT ![a] = 0]
      /\ UNCHANGED <<now, phase, round>>
  BY DEF RegisterArbiter, settlementVars
<1>2. \A b : OpenRounds(b)' = OpenRounds(b)
  BY <1>1 DEF OpenRounds, Pending
<1>3. OpenRounds(a) = {}
  BY <1>1 DEF Inv, PanelistsStay
<1>4. Types' /\ PanelistsStay'
  BY <1>1, <1>2 DEF Inv, Types, PanelistsStay
<1>5. RoundsFormed' /\ SettledAsVoted'
  BY <1>1 DEF Inv, RoundsFormed, SettledAsVoted, HasQuorum, VotesFor
<1>6. OpenVotesExact'
  BY <1>1, <1>2, <1>3, FS_EmptySet DEF Inv, Types, OpenVotesExact
<1> QED BY <1>4, <1>5, <1>6 DEF Inv

\* An arbiter that leaves has no locks, so it sits on no unsettled round.
LEMMA DeregisterStep ==
  ASSUME Inv, NEW a \in Arbiters, DeregisterArbiter(a)
  PROVE  Inv'
<1>1. /\ open_votes[a] = 0 /\ members' = members \ {a}
      /\ UNCHANGED <<now, phase, round, open_votes>>
  BY DEF DeregisterArbiter, settlementVars
<1>2. \A b : OpenRounds(b)' = OpenRounds(b)
  BY <1>1 DEF OpenRounds, Pending
<1>3. OpenRounds(a) = {}
  BY <1>1, OpenRoundsFinite, FS_EmptySet DEF Inv, OpenVotesExact
<1>4. Types' /\ PanelistsStay'
  BY <1>1, <1>2, <1>3 DEF Inv, Types, PanelistsStay
<1>5. RoundsFormed' /\ SettledAsVoted'
  BY <1>1 DEF Inv, RoundsFormed, SettledAsVoted, HasQuorum, VotesFor
<1>6. OpenVotesExact'
  BY <1>1, <1>2 DEF Inv, OpenVotesExact
<1> QED BY <1>4, <1>5, <1>6 DEF Inv

\* A vote is opened on arbiters that have records and are no party to the case.
LEMMA OpenVoteStep ==
  ASSUME Inv, NEW c \in Cases, NEW panel \in SUBSET Arbiters, OpenVote(c, panel)
  PROVE  Inv'
<1>1. /\ ~round[c].opened /\ panel \subseteq Eligible(c) /\ Eligible(c) # {}
      /\ UNCHANGED <<now, phase, members>>
      /\ round' = [round EXCEPT ![c] =
           [NoRound EXCEPT !.opened = TRUE, !.panel = panel, !.opened_at = now,
                           !.threshold = ScaledThreshold(Cardinality(panel))]]
      /\ open_votes' = [a \in Arbiters |-> IF a \in panel THEN open_votes[a] + 1
                                                          ELSE open_votes[a]]
      /\ Cardinality(panel) = IF PanelSize <= Cardinality(Eligible(c)) THEN PanelSize
                              ELSE Cardinality(Eligible(c))
  BY DEF OpenVote, settlementVars
<1>2. /\ \A d \in Cases \ {c} : round'[d] = round[d]
      /\ round'[c] = [NoRound EXCEPT !.opened = TRUE, !.panel = panel, !.opened_at = now,
                           !.threshold = ScaledThreshold(Cardinality(panel))]
  BY <1>1 DEF Inv, Types
<1>3. /\ round'[c].opened /\ ~round'[c].settled /\ round'[c].panel = panel
      /\ round'[c].threshold = ScaledThreshold(Cardinality(panel))
  BY <1>2 DEF NoRound
<1>4. IsFiniteSet(panel) /\ Cardinality(panel) \in Nat \ {0}
  <2>1. IsFiniteSet(panel) /\ IsFiniteSet(Eligible(c))
    BY PanelAssumption, FS_Subset DEF Eligible, Inv, Types
  <2>2. Cardinality(Eligible(c)) # 0
    BY <1>1, <2>1, FS_EmptySet
  <2> QED BY <1>1, <2>1, <2>2, FS_CardinalityType, PanelAssumption
<1>5. panel \subseteq members /\ panel \cap Parties[c] = {} /\ panel # {}
  BY <1>1, <1>4, FS_EmptySet DEF Eligible
<1>6. Types'
  <2>1. round'[c] \in Round
    <3>1. NoRound \in Round
      BY DEF NoRound, Round, Ballots
    <3>2. ScaledThreshold(Cardinality(panel)) \in Nat /\ now \in Nat
      BY <1>4, ScaledIsMajority DEF Inv, Types
    <3> QED BY <1>2, <3>1, <3>2 DEF Round
  <2>2. round' \in [Cases -> Round]
    BY <1>1, <1>2, <2>1 DEF Inv, Types
  <2>3. open_votes' \in [Arbiters -> Nat]
    BY <1>1 DEF Inv, Types
  <2> QED BY <1>1, <2>2, <2>3 DEF Inv, Types
<1>7. RoundsFormed'
  BY <1>2, <1>3, <1>5 DEF Inv, RoundsFormed
<1>8. SettledAsVoted'
  <2>1. ASSUME NEW d \in Cases, NEW ruling \in Board!Rulings,
               round'[d].settled, HasQuorum(d, ruling)'
        PROVE  phase'[d] \in {ruling, "gone"}
    <3>1. d # c /\ round'[d] = round[d]
      BY <1>2, <1>3, <2>1
    <3>2. HasQuorum(d, ruling)
      BY <2>1, <3>1 DEF HasQuorum, VotesFor
    <3> QED BY <1>1, <2>1, <3>1, <3>2 DEF Inv, SettledAsVoted
  <2> QED BY <2>1 DEF SettledAsVoted, Board!Rulings
<1>9. ~Pending(c) /\ Pending(c)'
  BY <1>1, <1>3 DEF Pending
<1>10. PanelistsStay'
  <2>1. \A a : OpenRounds(a)' \subseteq
               IF a \in panel THEN OpenRounds(a) \cup {c} ELSE OpenRounds(a)
    BY <1>2, <1>3 DEF OpenRounds, Pending
  <2> QED BY <1>1, <1>5, <2>1 DEF Inv, PanelistsStay
<1>11. OpenVotesExact'
  BY <1>1, <1>2, <1>3, <1>9, LockTaken
<1> QED BY <1>6, <1>7, <1>8, <1>10, <1>11 DEF Inv

\* A vote goes to an unsettled round and changes nothing else about it.
LEMMA VoteStep ==
  ASSUME Inv, NEW a \in Arbiters, NEW c \in Cases, NEW ruling \in Board!Rulings,
         Vote(a, c, ruling)
  PROVE  Inv'
<1>1. /\ Pending(c) /\ round' = [round EXCEPT ![c].votes[a] = ruling]
      /\ UNCHANGED <<now, phase, members, open_votes>>
  BY DEF Vote, settlementVars, recordVars
<1>2. /\ \A d \in Cases \ {c} : round'[d] = round[d]
      /\ round'[c] = [round[c] EXCEPT !.votes = [@ EXCEPT ![a] = ruling]]
      /\ round[c] \in Round
  BY <1>1 DEF Inv, Types
<1>3. /\ round'[c].opened = round[c].opened /\ round'[c].settled = round[c].settled
      /\ round'[c].panel = round[c].panel /\ round'[c].threshold = round[c].threshold
  BY <1>2 DEF Round
<1>4. Types'
  <2>1. round'[c] \in Round
    BY <1>2 DEF Round, Ballots
  <2>2. Types
    BY DEF Inv
  <2>3. round' \in [Cases -> Round]
    <3>1. round \in [Cases -> Round]
      BY <2>2 DEF Types
    <3>2. round' = [round EXCEPT ![c] = round'[c]]
      BY <1>1, <3>1
    <3> QED BY <2>1, <3>1, <3>2
  <2> QED BY <1>1, <2>2, <2>3 DEF Types
<1>5. RoundsFormed'
  <2>1. RoundsFormed
    BY DEF Inv
  <2>2. \A d \in Cases :
          /\ round'[d].opened = round[d].opened /\ round'[d].settled = round[d].settled
          /\ round'[d].panel = round[d].panel /\ round'[d].threshold = round[d].threshold
    BY <1>2, <1>3
  <2> QED BY <2>1, <2>2 DEF RoundsFormed
<1>6. SettledAsVoted'
  <2>1. ASSUME NEW d \in Cases, NEW r \in Board!Rulings,
               round'[d].settled, HasQuorum(d, r)'
        PROVE  phase'[d] \in {r, "gone"}
    <3>1. d # c /\ round'[d] = round[d]
      BY <1>1, <1>2, <1>3, <2>1 DEF Pending
    <3>2. HasQuorum(d, r)
      BY <2>1, <3>1 DEF HasQuorum, VotesFor
    <3> QED BY <1>1, <2>1, <3>1, <3>2 DEF Inv, SettledAsVoted
  <2> QED BY <2>1 DEF SettledAsVoted, Board!Rulings
<1>7. \A b : OpenRounds(b)' = OpenRounds(b)
  BY <1>2, <1>3 DEF OpenRounds, Pending
<1>8. PanelistsStay' /\ OpenVotesExact'
  BY <1>1, <1>7 DEF Inv, PanelistsStay, OpenVotesExact
<1> QED BY <1>4, <1>5, <1>6, <1>8 DEF Inv

\* A tally settles its round; with a quorum it rules, and there is only one.
LEMMA TallyStep ==
  ASSUME Inv, NEW c \in Cases, Tally(c)
  PROVE  Inv'
<1>1. CASE TallyNothing(c)
  <2>1. /\ Pending(c) /\ UNCHANGED <<now, members, phase>>
        /\ round' = [round EXCEPT ![c].settled = TRUE] /\ open_votes' = Unlocked(c)
        /\ \A ruling \in Board!Rulings : ~HasQuorum(c, ruling)
    BY <1>1 DEF TallyNothing, settlementVars
  <2> QED BY <2>1, SettlingSteps DEF Inv, Types
<1>2. ASSUME NEW ruling \in Board!Rulings, TallyRuling(c, ruling)
      PROVE  Inv'
  <2>1. /\ Pending(c) /\ HasQuorum(c, ruling) /\ Board!Rule(c, ruling)
        /\ round' = [round EXCEPT ![c].settled = TRUE] /\ open_votes' = Unlocked(c)
        /\ UNCHANGED <<now, members>>
    BY <1>2, Zenon DEF TallyRuling
  <2>2. phase' = [phase EXCEPT ![c] = ruling]
    BY <2>1 DEF Board!Rule, Board!Close
  <2>3. /\ phase' \in [Cases -> Board!Phases] /\ phase'[c] = ruling
        /\ \A d \in Cases \ {c} : phase'[d] = phase[d]
    BY <2>2 DEF Inv, Types, Board!Phases
  <2>4. \A other : HasQuorum(c, other) => other = ruling
    BY <2>1, QuorumsExclude DEF Inv, Pending
  <2> QED BY <2>1, <2>3, <2>4, SettlingSteps
<1> QED BY <1>1, <1>2 DEF Tally

\* Every step keeps the invariant.
LEMMA InvKept == Inv /\ [Next]_vars => Inv'
<1> SUFFICES ASSUME Inv, [Next]_vars PROVE Inv'
  OBVIOUS
<1>1. CASE UNCHANGED vars
  BY <1>1, SettlementSteps DEF vars, settlementVars, recordVars, Inv, Types
<1>2. CASE Tick
  BY <1>2, SettlementSteps DEF Tick, settlementVars, recordVars, Inv, Types
<1>3. CASE \E p \in Switches : SetArbiter(p)
  BY <1>3, SettlementSteps DEF SetArbiter, recordVars, Inv, Types
<1>4. ASSUME NEW c \in Cases, SettlementCall(c)
      PROVE  Inv'
  <2>1. UNCHANGED <<now, members, open_votes, round>>
    BY <1>4 DEF SettlementCall, RaiseDispute, RuleWithoutPanel, ReleaseFill, CloseIntent,
         recordVars
  <2>2. \E p \in Board!Phases :
          /\ phase' = [phase EXCEPT ![c] = p]
          /\ phase[c] \in {"none", "raised"} \/ p = "gone"
    BY <1>4 DEF SettlementCall, RaiseDispute, RuleWithoutPanel, ReleaseFill, CloseIntent,
         Board!Raise, Board!Rule, Board!Lapse, Board!Close, Board!Forget, Board!Phases
  <2> QED BY <2>1, <2>2, SettlementSteps DEF Inv, Types, Board!Rulings, Board!Phases
<1>5. ASSUME NEW a \in Arbiters, ArbiterCall(a)
      PROVE  Inv'
  BY <1>5, RegisterStep, DeregisterStep, VoteStep DEF ArbiterCall
<1> QED
  BY <1>1, <1>2, <1>3, <1>4, <1>5, OpenVoteStep, TallyStep DEF Next

\* The empty panel satisfies the invariant.
LEMMA InvStart == Init => Inv
<1> SUFFICES ASSUME Init PROVE Inv
  OBVIOUS
<1>1. Types
  BY DEF Init, Types, Board!BoardInit, Board!Phases, NoRound, Round, Ballots
<1>2. RoundsFormed /\ SettledAsVoted
  BY DEF Init, RoundsFormed, SettledAsVoted, NoRound
<1>3. \A a : OpenRounds(a) = {}
  BY DEF Init, OpenRounds, Pending, NoRound
<1> QED
  BY <1>1, <1>2, <1>3, FS_EmptySet DEF Init, Inv, PanelistsStay, OpenVotesExact

\* The invariant holds in every reachable state.
LEMMA Invariance == Spec => []Inv
  BY InvStart, InvKept, PTL DEF Spec

-----------------------------------------------------------------------------
(* The bonds.                                                              *)

Money == bond \in [Arbiters -> Nat] /\ balance \in Nat /\ BondsBacked

\* An arbiter cannot lose more than its bond.
LEMMA CutWithinBond ==
  ASSUME bond \in [Arbiters -> Nat], NEW a \in Arbiters
  PROVE  Cut(a) \in Nat /\ Cut(a) <= bond[a]
<1>1. Bps \in Nat \ {0} /\ SlashBps \in Nat /\ SlashBps <= Bps /\ bond[a] \in Nat
  BY PanelAssumption
<1> DEFINE b == bond[a]
           product == b * SlashBps
           cut == product \div Bps
<1>2. product \in Nat /\ product <= b * Bps
  BY <1>1, Z3
<1> HIDE DEF product
<1>3. cut \in Nat /\ Bps * cut <= product
  BY <1>1, <1>2, Z3
<1>4. cut <= b
  <2>1. SUFFICES ASSUME cut >= b + 1 PROVE FALSE
    BY <1>1, <1>3
  <2>2. Bps * cut >= Bps * (b + 1)
    BY <1>1, <1>3, <2>1, Z3
  <2>3. Bps * (b + 1) = b * Bps + Bps /\ b * Bps \in Nat
    BY <1>1, Z3
  <2>4. Bps * cut \in Nat
    BY <1>1, <1>3, Z3
  <2> HIDE DEF cut, b
  <2> QED BY <1>1, <1>2, <1>3, <2>2, <2>3, <2>4
<1> QED BY <1>3, <1>4 DEF Cut, product

\* The members of a panel are finitely many.
LEMMA MembersFinite ==
  ASSUME Types
  PROVE  IsFiniteSet(members)
BY FS_Subset, PanelAssumption DEF Types

\* A bond that comes in, or that goes out, is what the balance changes by.
LEMMA BondComesOrGoes ==
  ASSUME Types, Money, NEW a \in Arbiters, RegisterArbiter(a) \/ DeregisterArbiter(a)
  PROVE  Money'
<1>1. IsFiniteSet(members) /\ members \subseteq Arbiters /\ BondAmount \in Nat
  BY MembersFinite, PanelAssumption DEF Types
<1>2. SumFunctionOnSet(bond, members) = balance
  BY DEF Money, BondsBacked
<1>3. CASE RegisterArbiter(a)
  <2>1. /\ a \notin members /\ members' = members \cup {a}
        /\ bond' = [bond EXCEPT ![a] = BondAmount] /\ balance' = balance + BondAmount
    BY <1>3 DEF RegisterArbiter
  <2>2. bond' \in [Arbiters -> Nat] /\ bond'[a] = BondAmount /\ \A b \in members : bond'[b] = bond[b]
    BY <1>1, <2>1 DEF Money
  <2>3. SumFunctionOnSet(bond', members) = SumFunctionOnSet(bond, members)
    BY <1>1, <2>2, SumOfSame
  <2>4. SumFunctionOnSet(bond', members \cup {a}) = SumFunctionOnSet(bond', members) + bond'[a]
    <3>1. \A b \in members \cup {a} : bond'[b] \in Int
      BY <1>1, <2>2
    <3> QED BY <1>1, <2>1, <3>1, SumGrows
  <2>5. SumFunctionOnSet(bond', members') = SumFunctionOnSet(bond', members \cup {a})
    BY <2>1, Zenon
  <2>6. balance' = SumFunctionOnSet(bond', members')
    BY <1>2, <2>1, <2>2, <2>3, <2>4, <2>5
  <2> QED BY <1>1, <2>1, <2>2, <2>6 DEF Money, BondsBacked
<1>4. CASE DeregisterArbiter(a)
  <2>1. /\ a \in members /\ members' = members \ {a} /\ bond[a] <= balance
        /\ bond' = [bond EXCEPT ![a] = 0] /\ balance' = balance - bond[a]
    BY <1>4 DEF DeregisterArbiter
  <2>2. bond' \in [Arbiters -> Nat] /\ \A b \in members \ {a} : bond'[b] = bond[b]
    BY <1>1, <2>1 DEF Money
  <2>3. IsFiniteSet(members \ {a}) /\ \A b \in members : bond[b] \in Int
    BY <1>1, FS_RemoveElement DEF Money
  <2>4. SumFunctionOnSet(bond', members \ {a}) = SumFunctionOnSet(bond, members \ {a})
    BY <2>2, <2>3, SumOfSame
  <2>5. SumFunctionOnSet(bond, members) = bond[a] + SumFunctionOnSet(bond, members \ {a})
    BY <1>1, <2>1, <2>3, SumSplits
  <2>6. SumFunctionOnSet(bond, members \ {a}) \in Int /\ bond[a] \in Nat /\ balance \in Nat
    BY <2>3, SumIsInt DEF Money
  <2>7. balance' = SumFunctionOnSet(bond', members')
    BY <1>2, <2>1, <2>4, <2>5, <2>6
  <2> QED BY <2>1, <2>2, <2>6, <2>7 DEF Money, BondsBacked
<1> QED BY <1>3, <1>4

\* What the losers lose is what the winners share, to the last unit: a tally
\* leaves the sum of the bonds as it is.
LEMMA SlashIsShared ==
  ASSUME Inv, Money, NEW c \in Cases, NEW ruling \in Board!Rulings, TallyRuling(c, ruling)
  PROVE  /\ bond' \in [Arbiters -> Nat]
         /\ SumFunctionOnSet(bond', members) = SumFunctionOnSet(bond, members)
         /\ \A a \in members : bond'[a] < bond[a] => a \in Losers(c, ruling)
<1> DEFINE winners == VotesFor(c, ruling)
           losers  == Losers(c, ruling)
           others  == members \ (winners \cup losers)
           cut     == [a \in Arbiters |-> Cut(a)]
           slashed == SumFunctionOnSet(cut, losers)
           n       == Cardinality(winners)
           share   == slashed \div n
           dust    == Dust(slashed, n)
<1>1. /\ Pending(c) /\ HasQuorum(c, ruling)
      /\ \E first \in winners :
           bond' = [a \in Arbiters |->
             CASE a \in losers -> bond[a] - Cut(a)
               [] a = first   -> bond[a] + share + dust
               [] a \in winners \ {first} -> bond[a] + share
               [] OTHER       -> bond[a]]
  BY Zenon DEF TallyRuling
<1>2. PICK first \in winners :
        bond' = [a \in Arbiters |->
          CASE a \in losers -> bond[a] - Cut(a)
            [] a = first   -> bond[a] + share + dust
            [] a \in winners \ {first} -> bond[a] + share
            [] OTHER       -> bond[a]]
  BY <1>1
<1>3. /\ round[c].panel \subseteq members /\ members \subseteq Arbiters /\ IsFiniteSet(members)
      /\ bond \in [Arbiters -> Nat]
  <2>1. \A a \in round[c].panel : a \in Arbiters /\ OpenRounds(a) # {}
    BY <1>1 DEF OpenRounds, Inv, Types, Round
  <2> QED BY <2>1, MembersFinite DEF Inv, Types, PanelistsStay, Money
<1>4. /\ winners \subseteq members /\ losers \subseteq members /\ winners \cap losers = {}
      /\ IsFiniteSet(winners) /\ IsFiniteSet(losers) /\ IsFiniteSet(others)
  <2>1. winners \subseteq round[c].panel /\ losers \subseteq round[c].panel /\ winners \cap losers = {}
    BY DEF VotesFor, Losers
  <2> QED BY <1>3, <2>1, FS_Subset
<1>5. n \in Nat \ {0}
  BY <1>2, <1>4, FS_CardinalityType, FS_EmptySet
<1>6. \A a \in Arbiters : cut[a] = Cut(a) /\ cut[a] \in Nat /\ cut[a] <= bond[a]
  BY CutWithinBond DEF Money
<1>7. slashed \in Nat
  BY <1>3, <1>4, <1>6, SumOfPart
<1> HIDE DEF winners, losers, cut, slashed, n
<1>8. share \in Nat /\ dust \in Nat /\ share * n + dust = slashed
  <2>1. share \in Nat /\ n * share <= slashed
    BY <1>5, <1>7, Z3
  <2>2. share * n \in Nat /\ share * n = n * share
    BY <1>5, <2>1, Z3
  <2> QED BY <1>7, <2>1, <2>2 DEF Dust
<1> HIDE DEF share, dust
<1>9. /\ \A a \in losers : bond'[a] = bond[a] - cut[a]
      /\ bond'[first] = bond[first] + share + dust
      /\ \A a \in winners \ {first} : bond'[a] = bond[a] + share
      /\ \A a \in Arbiters : a \notin losers /\ a \notin winners => bond'[a] = bond[a]
  BY <1>2, <1>3, <1>4, <1>6
<1>10. \A a \in Arbiters : /\ bond'[a] \in Nat /\ bond[a] \in Nat
                           /\ bond'[a] < bond[a] => a \in losers
  <2> SUFFICES ASSUME NEW a \in Arbiters
               PROVE  bond'[a] \in Nat /\ bond[a] \in Nat /\ (bond'[a] < bond[a] => a \in losers)
    OBVIOUS
  <2>1. bond[a] \in Nat
    BY <1>3
  <2>2. a \in losers \/ a = first \/ a \in winners \ {first} \/ (a \notin losers /\ a \notin winners)
    OBVIOUS
  <2> QED BY <1>6, <1>8, <1>9, <2>1, <2>2
<1>11. bond' \in [Arbiters -> Nat]
  BY <1>2, <1>10
<1>12. SumFunctionOnSet(bond, losers) = SumFunctionOnSet(bond', losers) + slashed
  BY <1>3, <1>4, <1>6, <1>9, <1>10, SumAdds DEF slashed
<1>13. SumFunctionOnSet(bond', winners) = SumFunctionOnSet(bond, winners) + slashed
  <2> DEFINE equal == [a \in winners |-> share]
             shared == [a \in winners |-> bond[a] + share]
  <2>1. SumFunctionOnSet(equal, winners) = share * n
    BY <1>4, <1>8, SumOfEqual DEF n
  <2>2. \A a \in winners : bond[a] \in Int /\ equal[a] \in Int /\ shared[a] = bond[a] + equal[a]
    BY <1>3, <1>4, <1>8
  <2> HIDE DEF equal
  <2>3. SumFunctionOnSet(shared, winners)
          = SumFunctionOnSet(bond, winners) + SumFunctionOnSet(equal, winners)
    BY <1>4, <2>2, SumAdds
  <2>4. /\ \A a \in winners : shared[a] \in Int /\ bond'[a] \in Int
        /\ \A a \in winners \ {first} : shared[a] = bond'[a]
        /\ bond'[first] = shared[first] + dust
    BY <1>3, <1>4, <1>8, <1>9, <1>10
  <2> HIDE DEF shared
  <2>5. SumFunctionOnSet(bond', winners)
          = SumFunctionOnSet(shared, winners) + bond'[first] - shared[first]
    BY <1>4, <2>4, SumChanges
  <2>6. SumFunctionOnSet(bond, winners) \in Int /\ shared[first] \in Int /\ share * n \in Int
    BY <1>4, <1>5, <1>8, <2>2, <2>4, SumIsInt, Z3
  <2> QED BY <1>7, <1>8, <2>1, <2>3, <2>4, <2>5, <2>6
<1>14. SumFunctionOnSet(bond', others) = SumFunctionOnSet(bond, others)
  BY <1>3, <1>4, <1>9, SumOfSame
<1>15. ASSUME NEW f, \A a \in members : f[a] \in Int
       PROVE  /\ SumFunctionOnSet(f, losers) \in Int /\ SumFunctionOnSet(f, winners) \in Int
              /\ SumFunctionOnSet(f, others) \in Int
              /\ SumFunctionOnSet(f, members)
                   = SumFunctionOnSet(f, losers) + SumFunctionOnSet(f, winners)
                       + SumFunctionOnSet(f, others)
  <2> DEFINE panel == losers \cup winners
  <2>1. IsFiniteSet(panel) /\ panel \cap others = {} /\ panel \cup others = members
    BY <1>4, FS_Union
  <2>2. SumFunctionOnSet(f, panel) = SumFunctionOnSet(f, losers) + SumFunctionOnSet(f, winners)
    BY <1>4, <1>15, SumOfUnion
  <2> HIDE DEF panel
  <2>3. SumFunctionOnSet(f, panel \cup others) = SumFunctionOnSet(f, panel) + SumFunctionOnSet(f, others)
    BY <1>4, <1>15, <2>1, SumOfUnion
  <2>4. SumFunctionOnSet(f, panel \cup others) = SumFunctionOnSet(f, members)
    BY <2>1, Zenon
  <2>5. /\ SumFunctionOnSet(f, losers) \in Int /\ SumFunctionOnSet(f, winners) \in Int
        /\ SumFunctionOnSet(f, others) \in Int
    BY <1>4, <1>15, SumIsInt
  <2> QED BY <2>2, <2>3, <2>4, <2>5
<1>16. SumFunctionOnSet(bond', members) = SumFunctionOnSet(bond, members)
  <2>1. \A a \in members : bond[a] \in Int /\ bond'[a] \in Int
    BY <1>3, <1>10
  <2>2. /\ SumFunctionOnSet(bond, losers) \in Int /\ SumFunctionOnSet(bond, winners) \in Int
        /\ SumFunctionOnSet(bond, others) \in Int
        /\ SumFunctionOnSet(bond, members)
             = SumFunctionOnSet(bond, losers) + SumFunctionOnSet(bond, winners)
                 + SumFunctionOnSet(bond, others)
    BY <1>15, <2>1
  <2>3. /\ SumFunctionOnSet(bond', losers) \in Int /\ SumFunctionOnSet(bond', winners) \in Int
        /\ SumFunctionOnSet(bond', others) \in Int
        /\ SumFunctionOnSet(bond', members)
             = SumFunctionOnSet(bond', losers) + SumFunctionOnSet(bond', winners)
                 + SumFunctionOnSet(bond', others)
    BY <1>15, <2>1
  <2> QED BY <1>7, <1>12, <1>13, <1>14, <2>2, <2>3
<1> QED BY <1>3, <1>10, <1>11, <1>16 DEF losers

\* The types, the bonds and the rounds together are inductive.
FullInv == Inv /\ Money /\ OnlyLosersPay /\ installed \in BOOLEAN /\ raised_at \in [Cases -> Nat]

\* Every step leaves the bonds backed.
LEMMA MoneyKept == Inv /\ Money /\ [Next]_vars => Money'
<1> SUFFICES ASSUME Inv, Money, [Next]_vars PROVE Money'
  OBVIOUS
<1>1. CASE UNCHANGED <<members, bond, balance>>
  BY <1>1 DEF Money, BondsBacked
<1>2. ASSUME NEW a \in Arbiters, RegisterArbiter(a) \/ DeregisterArbiter(a)
      PROVE  Money'
  BY <1>2, BondComesOrGoes DEF Inv
<1>3. ASSUME NEW c \in Cases, NEW ruling \in Board!Rulings, TallyRuling(c, ruling)
      PROVE  Money'
  <2>1. UNCHANGED <<members, balance>>
    BY <1>3 DEF TallyRuling
  <2>2. bond' \in [Arbiters -> Nat] /\ SumFunctionOnSet(bond', members) = SumFunctionOnSet(bond, members)
    BY <1>3, SlashIsShared
  <2> QED BY <2>1, <2>2 DEF Money, BondsBacked
<1>4. \/ UNCHANGED <<members, bond, balance>>
      \/ \E a \in Arbiters : RegisterArbiter(a) \/ DeregisterArbiter(a)
      \/ \E c \in Cases, ruling \in Board!Rulings : TallyRuling(c, ruling)
  BY DEF Next, vars, recordVars, Tick, SetArbiter, ArbiterCall, Vote, SettlementCall, RaiseDispute,
         RuleWithoutPanel, ReleaseFill, CloseIntent, OpenVote, Tally, TallyNothing
<1> QED BY <1>1, <1>2, <1>3, <1>4

\* A lost vote is on record for ever: nothing changes a settled round.
LEMMA LossesStay ==
  ASSUME Inv, [Next]_vars, NEW c \in Cases, NEW ruling \in Board!Rulings,
         round[c].settled, HasQuorum(c, ruling)
  PROVE  round'[c] = round[c] /\ HasQuorum(c, ruling)'
<1>1. round[c].opened /\ ~Pending(c)
  BY DEF Inv, RoundsFormed, Pending
<1>2. round'[c] = round[c]
  BY <1>1 DEF Next, vars, recordVars, Tick, SetArbiter, ArbiterCall, Vote, SettlementCall, RaiseDispute,
         RuleWithoutPanel, ReleaseFill, CloseIntent, OpenVote, Tally, TallyNothing, TallyRuling,
         RegisterArbiter, DeregisterArbiter, Inv, Types
<1> QED BY <1>2 DEF HasQuorum, VotesFor

\* Only a tally takes from a bond, and only from those it ruled against.
LEMMA LosersKept == Inv /\ Money /\ OnlyLosersPay /\ [Next]_vars => OnlyLosersPay'
<1> SUFFICES ASSUME Inv, Money, OnlyLosersPay, [Next]_vars,
                    NEW a \in members', bond'[a] < BondAmount
             PROVE  \E c \in Cases, ruling \in Board!Rulings :
                      /\ round'[c].settled /\ HasQuorum(c, ruling)'
                      /\ a \in round'[c].panel /\ round'[c].votes[a] # ruling
  BY DEF OnlyLosersPay
<1> DEFINE Lost(c, ruling) == /\ round[c].settled /\ HasQuorum(c, ruling)
                              /\ a \in round[c].panel /\ round[c].votes[a] # ruling
<1>1. CASE a \in members /\ bond[a] < BondAmount
  <2>1. PICK c \in Cases, ruling \in Board!Rulings : Lost(c, ruling)
    BY <1>1 DEF OnlyLosersPay
  <2>2. round'[c] = round[c] /\ HasQuorum(c, ruling)'
    BY <2>1, LossesStay
  <2> QED BY <2>1, <2>2
<1>2. ASSUME NEW c \in Cases, NEW ruling \in Board!Rulings, TallyRuling(c, ruling),
             a \in members, ~(bond[a] < BondAmount)
      PROVE  /\ round'[c].settled /\ HasQuorum(c, ruling)'
             /\ a \in round'[c].panel /\ round'[c].votes[a] # ruling
  <2>1. bond'[a] < bond[a]
    BY <1>2, SlashIsShared, PanelAssumption DEF Money, Inv, Types
  <2>2. a \in Losers(c, ruling)
    BY <1>2, <2>1, SlashIsShared
  <2>3. /\ round' = [round EXCEPT ![c].settled = TRUE] /\ HasQuorum(c, ruling)
        /\ round[c] \in Round
    BY <1>2, Zenon DEF TallyRuling, Inv, Types
  <2>4. /\ round'[c].settled /\ round'[c].panel = round[c].panel /\ round'[c].votes = round[c].votes
        /\ round'[c].threshold = round[c].threshold
    BY <2>3 DEF Inv, Types, Round
  <2> QED BY <2>2, <2>3, <2>4 DEF Losers, VotesFor, HasQuorum
<1>3. CASE ~(a \in members /\ bond[a] < BondAmount)
  <2>1. \/ bond' = bond /\ members' = members
        \/ \E b \in Arbiters : RegisterArbiter(b) \/ DeregisterArbiter(b)
        \/ \E c \in Cases, ruling \in Board!Rulings : TallyRuling(c, ruling)
    BY DEF Next, vars, recordVars, Tick, SetArbiter, ArbiterCall, Vote, SettlementCall, RaiseDispute,
           RuleWithoutPanel, ReleaseFill, CloseIntent, OpenVote, Tally, TallyNothing
  <2>2. CASE bond' = bond /\ members' = members
    BY <1>3, <2>2
  <2>3. ASSUME NEW b \in Arbiters, RegisterArbiter(b)
        PROVE  FALSE
    <3>1. a \in members \cup {b} /\ bond' = [bond EXCEPT ![b] = BondAmount]
      BY <2>3 DEF RegisterArbiter
    <3>2. bond'[a] = IF a = b THEN BondAmount ELSE bond[a]
      BY <3>1 DEF Money, Inv, Types
    <3> QED BY <1>3, <3>1, <3>2, PanelAssumption
  <2>4. ASSUME NEW b \in Arbiters, DeregisterArbiter(b)
        PROVE  FALSE
    <3>1. a \in members \ {b} /\ bond' = [bond EXCEPT ![b] = 0]
      BY <2>4 DEF DeregisterArbiter
    <3>2. bond'[a] = bond[a]
      BY <3>1 DEF Money, Inv, Types
    <3> QED BY <1>3, <3>1, <3>2
  <2>5. ASSUME NEW c \in Cases, NEW ruling \in Board!Rulings, TallyRuling(c, ruling)
        PROVE  a \in members /\ ~(bond[a] < BondAmount)
    <3>1. members' = members
      BY <2>5 DEF TallyRuling
    <3> QED BY <1>3, <3>1
  <2> QED BY <1>2, <2>1, <2>2, <2>3, <2>4, <2>5
<1> QED BY <1>1, <1>3

\* Times and the panel's appointment keep their types.
LEMMA BoardTypes ==
  ASSUME Inv, installed \in BOOLEAN, raised_at \in [Cases -> Nat], [Next]_vars
  PROVE  installed' \in BOOLEAN /\ raised_at' \in [Cases -> Nat]
<1>1. installed' = installed \/ installed' \in Switches
  BY DEF Next, vars, settlementVars, Tick, SetArbiter, ArbiterCall, Vote, SettlementCall, RaiseDispute,
         RuleWithoutPanel, ReleaseFill, CloseIntent, OpenVote, Tally, TallyNothing, TallyRuling,
         RegisterArbiter, DeregisterArbiter
<1>2. raised_at' = raised_at \/ \E c \in Cases, t \in {0, now} : raised_at' = [raised_at EXCEPT ![c] = t]
  BY DEF Next, vars, settlementVars, Tick, SetArbiter, ArbiterCall, Vote, SettlementCall, RaiseDispute,
         RuleWithoutPanel, ReleaseFill, CloseIntent, OpenVote, Tally, TallyNothing, TallyRuling,
         RegisterArbiter, DeregisterArbiter, Board!Raise, Board!Rule, Board!Lapse, Board!Close,
         Board!Forget
<1> QED BY <1>1, <1>2, PanelAssumption DEF Inv, Types

\* The invariant holds in every reachable state.
LEMMA FullInvariance == Spec => []FullInv
<1>1. Init => FullInv
  <2> SUFFICES ASSUME Init PROVE FullInv
    OBVIOUS
  <2>1. BondsBacked
    BY SumOfNone DEF Init, BondsBacked
  <2>2. installed \in BOOLEAN /\ raised_at \in [Cases -> Nat]
    BY DEF Init, Board!BoardInit
  <2> QED BY <2>1, <2>2, InvStart DEF Init, FullInv, Money, OnlyLosersPay
<1>2. FullInv /\ [Next]_vars => FullInv'
  BY InvKept, MoneyKept, LosersKept, BoardTypes DEF FullInv
<1> QED BY <1>1, <1>2, PTL DEF Spec

-----------------------------------------------------------------------------
(* The theorems.                                                           *)

\* An arbiter's lock counts the unsettled rounds it sits on.
THEOREM OpenVotesAreExact == Spec => []OpenVotesExact
  BY Invariance, PTL DEF Inv

\* Whoever sits on an unsettled round has a record, so a tally finds it.
THEOREM PanelistsDoStay == Spec => []PanelistsStay
  BY Invariance, PTL DEF Inv

\* No set of votes reaches the quorum for both outcomes, on any scaled panel.
THEOREM OnlyOneOutcome == Spec => []OneOutcome
<1>1. Inv => OneOutcome
  BY QuorumsExclude DEF Inv, OneOutcome
<1> QED BY <1>1, Invariance, PTL

\* A quorum that settled its round decided the dispute, with more than half of a
\* panel without the parties to it.
THEOREM MajorityRules == Spec => []PanelsMajorityRules
<1>1. ASSUME Inv PROVE PanelsMajorityRules
  <2>1. SUFFICES ASSUME NEW c \in Cases, NEW ruling \in Board!Rulings,
                        round[c].settled, HasQuorum(c, ruling)
                 PROVE  /\ phase[c] \in {ruling, "gone"}
                        /\ 2 * Cardinality(VotesFor(c, ruling)) > Cardinality(round[c].panel)
                        /\ round[c].panel \cap Parties[c] = {}
    BY DEF PanelsMajorityRules, Board!Rulings
  <2>2. phase[c] \in {ruling, "gone"}
    BY <1>1, <2>1 DEF Inv, SettledAsVoted
  <2>3. round[c].panel # {} /\ round[c].panel \cap Parties[c] = {}
          /\ round[c].threshold = ScaledThreshold(Cardinality(round[c].panel))
    BY <1>1, <2>1 DEF Inv, RoundsFormed
  <2>4. Cardinality(round[c].panel) \in Nat \ {0} /\ Cardinality(VotesFor(c, ruling)) \in Nat
    BY <1>1, <2>3, VotesFinite, FS_EmptySet DEF Inv
  <2>5. 2 * round[c].threshold > Cardinality(round[c].panel) /\ round[c].threshold \in Nat
    BY <2>3, <2>4, ScaledIsMajority
  <2>6. Cardinality(VotesFor(c, ruling)) >= round[c].threshold
    BY <2>1 DEF HasQuorum
  <2> QED BY <2>2, <2>3, <2>4, <2>5, <2>6
<1> QED BY <1>1, Invariance, PTL

\* Every variable keeps its type; in particular no bond goes negative.
THEOREM TypeCorrect == Spec => []TypeOK
<1>1. FullInv => TypeOK
  BY DEF FullInv, Inv, Types, Money, TypeOK
<1> QED BY <1>1, FullInvariance, PTL

\* The contract holds the sum of the bonds, whatever was slashed and shared.
THEOREM BondsAreBacked == Spec => []BondsBacked
  BY FullInvariance, PTL DEF FullInv, Money

\* Whoever has less than the bond it put up lost a vote.
THEOREM LosersOnlyPay == Spec => []OnlyLosersPay
  BY FullInvariance, PTL DEF FullInv
=============================================================================
