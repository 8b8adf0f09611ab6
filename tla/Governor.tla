------------------------------ MODULE Governor ------------------------------
(***************************************************************************)
(* The governor contract: voting power from bonds the voters checkpoint    *)
(* themselves, proposals voted on with the power of their snapshot, and    *)
(* the queue and execution of those that pass, through a timelock.         *)
(* The solver registry, whose bonds are read, and the timelock are         *)
(* external: a bond is any number at any time, and a call to the timelock  *)
(* succeeds or reverts the whole handler.                                  *)
(***************************************************************************)
EXTENDS Integers, Sequences, FiniteSets, Functions

CONSTANTS
  Accounts,          \* addresses that vote and propose
  ProposalIds,       \* the first proposal ids, 0 and up
  Bonds,             \* bonds the registry may report
  FirstConfig,       \* the GovernorConfig of initialize
  Configs,           \* those set_config may install, which it does not validate
  MaxCheckpoints,    \* MAX_CHECKPOINTS
  Horizon            \* bound: the ledger after which nothing happens

Config == [voting_delay: Nat, voting_period: Nat, proposal_threshold: Int, quorum: Int]

ASSUME GovernorAssumption ==
  /\ IsFiniteSet(Accounts) /\ ProposalIds \subseteq Nat /\ Bonds \subseteq Nat
  /\ FirstConfig \in Config /\ Configs \subseteq Config
  /\ FirstConfig.voting_delay > 0 /\ FirstConfig.voting_period > 0
  /\ FirstConfig.proposal_threshold > 0 /\ FirstConfig.quorum > 0
  /\ MaxCheckpoints \in Nat \ {0}

VARIABLES
  now,               \* the ledger sequence number
  config,            \* "config"
  checkpoints,       \* per account, oldest first
  count,             \* "count", the next proposal id
  proposal,          \* Proposal(id); its target, function and calldata are no concern
  vote,              \* the power recorded under the vote key, 0 if there is none
  scheduled,         \* external: how often the timelock was asked to schedule it
  performed          \* external: how often the timelock was asked to execute it

pollVars == <<count, proposal, vote>>
timelockVars == <<scheduled, performed>>
vars == <<now, config, checkpoints, pollVars, timelockVars>>

VoteType == {"Against", "For", "Abstain"}

Checkpoint == [ledger: Nat, power: Nat]

Proposal ==
  [proposer: Accounts \cup {"none"}, snapshot: Nat, deadline: Nat, eta: Nat,
   tally: [VoteType -> Nat], canceled: BOOLEAN, executed: BOOLEAN]

NoProposal ==
  [proposer |-> "none", snapshot |-> 0, deadline |-> 0, eta |-> 0,
   tally |-> [v \in VoteType |-> 0], canceled |-> FALSE, executed |-> FALSE]

Exists(p) == p < count

-----------------------------------------------------------------------------
(* Checkpoints.                                                            *)

\* The latest checkpoint of a list in ledger order that is not after ledger.
IsLatest(list, ledger, k) ==
  list[k].ledger <= ledger /\ \A j \in (k + 1)..Len(list) : list[j].ledger > ledger

PowerIn(list, ledger) ==
  IF \E k \in 1..Len(list) : IsLatest(list, ledger, k)
  THEN list[CHOOSE k \in 1..Len(list) : IsLatest(list, ledger, k)].power
  ELSE 0

PowerAt(a, ledger) == PowerIn(checkpoints[a], ledger)

\* Mutant: an entry of the snapshot's own ledger is skipped.
GoRightStrictly(entry, ledger) == entry.ledger < ledger

GoRight(entry, ledger) == entry.ledger <= ledger

\* The loop of search: from the bounds low and high, the place it ends at.
SearchFrom(list, ledger) ==
  LET loop[bounds \in (0..Len(list)) \X (0..Len(list))] ==
        LET low == bounds[1]
            high == bounds[2]
            mid == (low + high) \div 2
        IN  IF low >= high THEN low
            ELSE IF GoRight(list[mid + 1], ledger) THEN loop[<<mid + 1, high>>]
            ELSE loop[<<low, mid>>]
  IN  loop[<<0, Len(list)>>]

BinarySearch(list, ledger) ==
  LET low == SearchFrom(list, ledger) IN IF low = 0 THEN 0 ELSE list[low].power

\* Mutant: a full history loses its latest entry.
KeepOldest(list) ==
  IF Len(list) > MaxCheckpoints
  THEN SubSeq(list, 1, Len(list) - 2) \o <<list[Len(list)]>> ELSE list

\* A history that grew too long loses its oldest entry.
Capped(list) == IF Len(list) > MaxCheckpoints THEN Tail(list) ELSE list

WriteCheckpoint(a, power) == Capped(Append(checkpoints[a], [ledger |-> now, power |-> power]))

-----------------------------------------------------------------------------
(* The state of a proposal.                                                *)

VotingStart(p) == proposal[p].snapshot + config.voting_delay

TotalVotes(p) ==
  proposal[p].tally["For"] + proposal[p].tally["Against"] + proposal[p].tally["Abstain"]

Carried(p) ==
  proposal[p].tally["For"] > proposal[p].tally["Against"] /\ TotalVotes(p) >= config.quorum

\* Mutant: a proposal stays queueable once it is queued.
StillSucceeded(p) ==
  /\ ~proposal[p].canceled /\ ~proposal[p].executed
  /\ now >= VotingStart(p) /\ now > proposal[p].deadline
  /\ Carried(p)

\* state_of(p) = Succeeded.
Succeeded(p) ==
  /\ ~proposal[p].canceled /\ ~proposal[p].executed
  /\ now >= VotingStart(p) /\ now > proposal[p].deadline
  /\ proposal[p].eta = 0
  /\ Carried(p)

\* Mutant: the deadline follows the configuration.
VotingOpenByConfig(p) == VotingStart(p) <= now /\ now <= VotingStart(p) + config.voting_period

VotingOpen(p) == VotingStart(p) <= now /\ now <= proposal[p].deadline

HasNotVoted(a, p) == vote[p][a] = 0

-----------------------------------------------------------------------------
(* The entry points.                                                       *)

Tick ==
  /\ now < Horizon
  /\ now' = now + 1
  /\ UNCHANGED <<config, checkpoints, pollVars, timelockVars>>

\* Takes whatever bond the registry reports for the account.
SyncPower(a, power) ==
  /\ checkpoints' = [checkpoints EXCEPT ![a] = WriteCheckpoint(a, power)]
  /\ UNCHANGED <<now, config, pollVars, timelockVars>>

Propose(a) ==
  /\ count \in ProposalIds
  /\ PowerAt(a, now) >= config.proposal_threshold
  /\ proposal' = [proposal EXCEPT ![count] =
       [NoProposal EXCEPT !.proposer = a, !.snapshot = now,
                          !.deadline = now + config.voting_delay + config.voting_period]]
  /\ count' = count + 1
  /\ UNCHANGED <<now, config, checkpoints, vote, timelockVars>>

\* By the proposer before voting starts, by the timelock at any time.
Cancel(p, byTimelock) ==
  /\ Exists(p)
  /\ ~proposal[p].executed /\ ~proposal[p].canceled
  /\ byTimelock \/ now < VotingStart(p)
  /\ proposal' = [proposal EXCEPT ![p].canceled = TRUE]
  /\ UNCHANGED <<now, config, checkpoints, count, vote, timelockVars>>

CastVote(a, p, support) ==
  LET power == PowerAt(a, proposal[p].snapshot) IN
  /\ Exists(p)
  /\ ~proposal[p].canceled
  /\ VotingOpen(p) /\ HasNotVoted(a, p)
  /\ power > 0
  /\ proposal' = [proposal EXCEPT ![p].tally[support] = @ + power]
  /\ vote' = [vote EXCEPT ![p][a] = power]
  /\ UNCHANGED <<now, config, checkpoints, count, timelockVars>>

\* Permissionless.
Queue(p) ==
  /\ Exists(p) /\ Succeeded(p)
  /\ scheduled' = [scheduled EXCEPT ![p] = @ + 1]
  /\ proposal' = [proposal EXCEPT ![p].eta = now + config.voting_delay]
  /\ UNCHANGED <<now, config, checkpoints, count, vote, performed>>

\* Whether execute finds the proposal queued and its time come.
Due(p) == ~proposal[p].executed /\ proposal[p].eta # 0 /\ now >= proposal[p].eta

\* Permissionless.
Execute(p) ==
  /\ Exists(p) /\ Due(p)
  /\ performed' = [performed EXCEPT ![p] = @ + 1]
  /\ proposal' = [proposal EXCEPT ![p].executed = TRUE]
  /\ UNCHANGED <<now, config, checkpoints, count, vote, scheduled>>

\* The admin's call; update_config needs a proposal on the governor itself, which
\* propose refuses.
SetConfig(c) ==
  /\ config' = c
  /\ UNCHANGED <<now, checkpoints, pollVars, timelockVars>>

-----------------------------------------------------------------------------
Init ==
  /\ now = 1
  /\ config = FirstConfig
  /\ checkpoints = [a \in Accounts |-> <<>>]
  /\ count = 0
  /\ proposal = [p \in ProposalIds |-> NoProposal]
  /\ vote = [p \in ProposalIds |-> [a \in Accounts |-> 0]]
  /\ scheduled = [p \in ProposalIds |-> 0]
  /\ performed = [p \in ProposalIds |-> 0]

VoterCall(a) ==
  \/ \E power \in Bonds : SyncPower(a, power)
  \/ Propose(a)
  \/ \E p \in ProposalIds, support \in VoteType : CastVote(a, p, support)

ProposalCall(p) ==
  \/ \E byTimelock \in BOOLEAN : Cancel(p, byTimelock)
  \/ Queue(p)
  \/ Execute(p)

Next ==
  \/ Tick
  \/ \E a \in Accounts : VoterCall(a)
  \/ \E p \in ProposalIds : ProposalCall(p)
  \/ \E c \in Configs : SetConfig(c)

Spec == Init /\ [][Next]_vars

-----------------------------------------------------------------------------
(* Properties.                                                             *)

\* Every variable keeps its type, and only proposals below count are written.
TypeOK ==
  /\ now \in Nat /\ count \in Nat /\ config \in Config
  /\ checkpoints \in [Accounts -> Seq(Checkpoint)]
  /\ proposal \in [ProposalIds -> Proposal]
  /\ vote \in [ProposalIds -> [Accounts -> Nat]]
  /\ {scheduled, performed} \subseteq [ProposalIds -> Nat]
  /\ \A p \in ProposalIds : p >= count => proposal[p] = NoProposal

\* The loop of search finds the latest checkpoint that is not after the ledger
\* asked for, in every history that sync_power can leave behind: also one full
\* of entries of one ledger, and one that has lost its oldest.
SearchFindsLatest ==
  \A a \in Accounts, ledger \in 0..now :
    BinarySearch(checkpoints[a], ledger) = PowerAt(a, ledger)

\* A tally is the sum of the powers its voters are on record with.
TallyIsVotes ==
  \A p \in ProposalIds : TotalVotes(p) = SumFunctionOnSet(vote[p], Accounts)

\* What is queued or executed was carried in a vote that is over.
QueuedWasCarried ==
  \A p \in ProposalIds :
    proposal[p].eta # 0 \/ proposal[p].executed =>
      /\ proposal[p].tally["For"] > proposal[p].tally["Against"]
      /\ proposal[p].deadline < now

\* The timelock is asked once to schedule what was queued, and at most once to
\* execute it, and never to execute what it was not asked to schedule.
TimelockAskedOnce ==
  \A p \in ProposalIds :
    /\ scheduled[p] = IF proposal[p].eta # 0 THEN 1 ELSE 0
    /\ performed[p] = IF proposal[p].executed THEN 1 ELSE 0
    /\ performed[p] <= scheduled[p]

\* Once a proposal's deadline has passed its votes are final, whatever the admin
\* does to the delay and the period.
VotesFinal ==
  [][\A p \in ProposalIds :
       Exists(p) /\ now > proposal[p].deadline =>
         proposal'[p].tally = proposal[p].tally /\ vote'[p] = vote[p]]_vars

\* A power read at a past ledger does not grow and does not become another one:
\* it stays, until enough later checkpoints push it out and it is 0.
PastPowerKept ==
  [][\A a \in Accounts : \A ledger \in 0..(now - 1) :
       PowerAt(a, ledger)' \in {0, PowerAt(a, ledger)}]_vars

\* "The timelock (acting as the guardian/admin) may cancel at any point before
\* execution": what was canceled is not executed.
CanceledNotExecuted == \A p \in ProposalIds : ~(proposal[p].canceled /\ proposal[p].executed)
=============================================================================
