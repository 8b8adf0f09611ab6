-------------------------- MODULE TreasuryStreams --------------------------
(***************************************************************************)
(* The treasury_streams contract: payments that vest between a start and   *)
(* an end, escrowed at once, withdrawn as they vest, and adjusted or       *)
(* cancelled by the governor, whose office changes hands in two steps.     *)
(* The token is external: a transfer that the escrow cannot pay reverts    *)
(* the call.  Streams of different tokens share nothing: one is modelled.  *)
(***************************************************************************)
EXTENDS LedgerClock, Sequences, FiniteSets, FiniteSetsExt, Functions

CONSTANTS
  Governors, FirstGovernor, NoGovernor,
  Senders, Recipients,
  StreamIds,             \* bound: ids that are given out, from 0
  Schedules,             \* [start, cliff, end] that are asked for, sound or not
  Totals, TopUps,        \* amounts that are asked for
  NewEnds,
  MaxTotal               \* bound: top-ups stop there

Schedule == [start: Nat, cliff: Nat, end: Nat]

ASSUME StreamsAssumption ==
  /\ FirstGovernor \in Governors /\ NoGovernor \notin Governors
  /\ StreamIds \subseteq Nat /\ IsFiniteSet(StreamIds)
  /\ Schedules \subseteq Schedule
  /\ Totals \subseteq Int /\ TopUps \subseteq Int /\ NewEnds \subseteq Nat
  /\ MaxTotal \in Nat

VARIABLES
  governor, pending_governor,
  streams_paused,
  next_id,               \* DataKey::NextId, and StreamCount, which moves with it
  stream,                \* DataKey::Stream(id)
  sender_streams,        \* DataKey::SenderStreams(sender)
  recipient_streams,     \* DataKey::RecipientStreams(recipient)
  escrow                 \* external: the contract's balance of the token

governorVars == <<governor, pending_governor>>
listVars == <<sender_streams, recipient_streams>>
streamsVars == <<governorVars, streams_paused, next_id, stream, listVars, escrow>>

Stream ==
  [sender: Senders, recipient: Recipients, total: Int,
   start: Nat, cliff: Nat, end: Nat, withdrawn: Int, cancelled: BOOLEAN]

Ids == DOMAIN stream

\* vested_amount: from the current total and end, cancelled or not.
Vested(s) ==
  IF ledger_time < s.cliff THEN 0
  ELSE IF ledger_time >= s.end THEN s.total
  ELSE (s.total * (ledger_time - s.start)) \div (s.end - s.start)

\* balance_of.
BalanceOf(s) == Vested(s) - s.withdrawn

-----------------------------------------------------------------------------
(* The governor.                                                           *)

ProposeGovernorTransfer(who) ==
  /\ pending_governor' = who
  /\ UNCHANGED <<ledger_time, governor, streams_paused, next_id, stream, listVars, escrow>>

AcceptGovernorTransfer ==
  /\ pending_governor # NoGovernor
  /\ governor' = pending_governor
  /\ pending_governor' = NoGovernor
  /\ UNCHANGED <<ledger_time, streams_paused, next_id, stream, listVars, escrow>>

PauseStreams ==
  /\ ~streams_paused
  /\ streams_paused' = TRUE
  /\ UNCHANGED <<ledger_time, governorVars, next_id, stream, listVars, escrow>>

UnpauseStreams ==
  /\ streams_paused
  /\ streams_paused' = FALSE
  /\ UNCHANGED <<ledger_time, governorVars, next_id, stream, listVars, escrow>>

SoundSchedule(when) ==
  when.end > when.start /\ when.cliff >= when.start /\ when.cliff <= when.end

CreateStream(sender, recipient, total, when) ==
  /\ next_id \in StreamIds
  /\ ~streams_paused
  /\ total > 0 /\ SoundSchedule(when)
  /\ escrow' = escrow + total
  /\ stream' = [id \in Ids \cup {next_id} |->
       IF id = next_id
       THEN [sender |-> sender, recipient |-> recipient, total |-> total,
             start |-> when.start, cliff |-> when.cliff, end |-> when.end,
             withdrawn |-> 0, cancelled |-> FALSE]
       ELSE stream[id]]
  /\ next_id' = next_id + 1
  /\ sender_streams' = [sender_streams EXCEPT ![sender] = Append(@, next_id)]
  /\ recipient_streams' = [recipient_streams EXCEPT ![recipient] = Append(@, next_id)]
  /\ UNCHANGED <<ledger_time, governorVars, streams_paused>>

\* By the recipient.
WithdrawVested(id) ==
  LET amount == BalanceOf(stream[id]) IN
  /\ ~streams_paused
  /\ amount > 0 /\ amount <= escrow
  /\ stream' = [stream EXCEPT ![id].withdrawn = Vested(stream[id])]
  /\ escrow' = escrow - amount
  /\ UNCHANGED <<ledger_time, governorVars, streams_paused, next_id, listVars>>

\* Mutant: what has not vested stays in the escrow.
RefundForgotten(id) == UNCHANGED escrow

\* What has not vested goes back to the sender.
Refund(id) ==
  LET unvested == stream[id].total - Vested(stream[id]) IN
  IF unvested > 0 THEN unvested <= escrow /\ escrow' = escrow - unvested
                  ELSE UNCHANGED escrow

\* The total becomes what has vested; the end stays.
CancelStream(id) ==
  /\ ~stream[id].cancelled
  /\ stream' = [stream EXCEPT ![id].cancelled = TRUE, ![id].total = Vested(stream[id])]
  /\ Refund(id)
  /\ UNCHANGED <<ledger_time, governorVars, streams_paused, next_id, listVars>>

TopUp(id, amount) ==
  /\ ~stream[id].cancelled
  /\ amount > 0 /\ stream[id].total + amount <= MaxTotal
  /\ stream' = [stream EXCEPT ![id].total = @ + amount]
  /\ escrow' = escrow + amount
  /\ UNCHANGED <<ledger_time, governorVars, streams_paused, next_id, listVars>>

Extend(id, new_end) ==
  /\ ~stream[id].cancelled
  /\ new_end > stream[id].start /\ new_end >= stream[id].end
  /\ stream' = [stream EXCEPT ![id].end = new_end]
  /\ UNCHANGED <<ledger_time, governorVars, streams_paused, next_id, listVars, escrow>>

-----------------------------------------------------------------------------
(* The lists of ids by sender and by recipient, in pages.                  *)

Paginate(ids, start, limit) == SubSeq(ids, start + 1, Min({start + limit, Len(ids)}))

ListStreamsBySender(who, start, limit) == Paginate(sender_streams[who], start, limit)

ListStreamsByRecipient(who, start, limit) == Paginate(recipient_streams[who], start, limit)

-----------------------------------------------------------------------------
StreamsInit ==
  /\ ClockInit
  /\ governor = FirstGovernor /\ pending_governor = NoGovernor
  /\ streams_paused = FALSE
  /\ next_id = 0 /\ stream = << >>
  /\ sender_streams = [who \in Senders |-> << >>]
  /\ recipient_streams = [who \in Recipients |-> << >>]
  /\ escrow = 0

StreamCall(id) ==
  \/ WithdrawVested(id) \/ CancelStream(id)
  \/ \E amount \in TopUps : TopUp(id, amount)
  \/ \E new_end \in NewEnds : Extend(id, new_end)

StreamsNext ==
  \/ Later /\ UNCHANGED <<governorVars, streams_paused, next_id, stream, listVars, escrow>>
  \/ \E who \in Governors : ProposeGovernorTransfer(who)
  \/ AcceptGovernorTransfer \/ PauseStreams \/ UnpauseStreams
  \/ \E sender \in Senders, recipient \in Recipients, total \in Totals,
        when \in Schedules : CreateStream(sender, recipient, total, when)
  \/ \E id \in Ids : StreamCall(id)

StreamsSpec == StreamsInit /\ [][StreamsNext]_<<ledger_time, streamsVars>>

-----------------------------------------------------------------------------
(* Properties.                                                             *)

\* Every variable keeps its type, and every stream its sound schedule.
StreamsTypeOK ==
  /\ governor \in Governors /\ pending_governor \in Governors \cup {NoGovernor}
  /\ streams_paused \in BOOLEAN
  /\ next_id \in Nat /\ Ids = {id \in StreamIds : id < next_id}
  /\ stream \in [Ids -> Stream] /\ \A id \in Ids : SoundSchedule(stream[id])
  /\ sender_streams \in [Senders -> Seq(Nat)] /\ recipient_streams \in [Recipients -> Seq(Nat)]
  /\ escrow \in Nat

Unpaid(s) == s.total - s.withdrawn

\* What is read off in pages of so many, to the end.
SentIn(limit) ==
  UNION {Range(ListStreamsBySender(who, page * limit, limit)) :
           who \in Senders, page \in 0..next_id}

ReceivedIn(limit) ==
  UNION {Range(ListStreamsByRecipient(who, page * limit, limit)) :
           who \in Recipients, page \in 0..next_id}

\* The escrow holds what the streams have not paid out, to the unit, through top-ups,
\* extensions and cancellations, also of a stream that paid more than it vests now (its
\* term is negative, and the others' escrow stands in for it); and whoever reads the
\* senders' or the recipients' pages, of any length, finds all of it.
EscrowExact ==
  \A limit \in 1..Cardinality(StreamIds) : \A shown \in {SentIn(limit), ReceivedIn(limit)} :
    escrow = SumFunctionOnSet([id \in Ids |-> Unpaid(stream[id])], shown)

\* "already-vested funds can never be un-vested", and "vested funds stay withdrawable by
\* the recipient": what has vested of a stream does not become less.
VestedStays ==
  [][\A id \in Ids : Vested(stream[id])' >= Vested(stream[id])]_<<ledger_time, streamsVars>>
=============================================================================
