---------------------------- MODULE Submissions ----------------------------
(***************************************************************************)
(* How intents enter intent_settlement: what a submission must pass, the   *)
(* nonce and the id it is given, and the paged history of its user, from   *)
(* which close_intent prunes it; and outbound intents, which share the     *)
(* nonces.  What becomes of an intent in between is in Settlement, changes *)
(* of the allowlists in SettlementAdmin.  A hash is the tuple of what is   *)
(* hashed.                                                                 *)
(***************************************************************************)
EXTENDS DailyCap, FiniteSets

CONSTANTS
  DstTokens,
  SrcChains,
  Family,              \* "evm", "solana" or "other", by chain
  Formats,             \* what a source token's address looks like
  ListedDst,           \* DataKey::AllowedDstToken
  ListedSrc,           \* DataKey::AllowedSrcChain
  Plausible,           \* MAX_WHOLE_UNITS in a token's own units, by token
  MaxAmount,           \* MAX_AMOUNT
  Minimum,             \* bound: minimum outputs asked for
  Lives,               \* bound: lifetimes asked for, Default among them
  Default,             \* no deadline given
  FirstExpiry,         \* intent_expiry at the start
  Settings,            \* bound: [fill_window, intent_expiry] the admin sets
  BucketSize,          \* USER_INTENT_BUCKET_SIZE
  MaxPageSize,         \* MAX_PAGE_SIZE
  MaxBatchSize,        \* MAX_BATCH_SIZE
  Batches, Singles,    \* bound: batches, and intents alone, that are sent
  Switched,            \* bound: switches that are thrown
  MaxNonce             \* bound: submissions of a user

ASSUME SubmissionAssumption ==
  /\ BucketSize \in Nat \ {0} /\ MaxPageSize \in Nat \ {0} /\ MaxBatchSize \in Nat
  /\ MaxAmount \in Nat /\ MaxNonce \in Nat /\ Minimum \subseteq Int
  /\ \A batch \in Batches : Len(batch) \in Nat
  /\ Switched \subseteq {"paused", "dst_allowlist", "src_allowlist", "policy"}

VARIABLES
  switches,            \* of "paused", "dst_allowlist", "src_allowlist", "policy"
  intent_expiry,       \* of the configuration
  user_nonce,          \* DataKey::UserNonce
  ids,                 \* keys of intents and tombstones: an id once used stays used
  pruned,              \* DataKey::IntentTombstone: those of ids that have no intent
  buckets,             \* DataKey::UserIntents(u, bucket): an id or None in each slot
  intent_count,        \* DataKey::UserIntentCount
  total_intents,       \* DataKey::TotalIntents
  outbound,            \* outbound intents: [id, state, deadline]
  user_outbound        \* DataKey::UserOutboundIntents

settingVars == <<switches, intent_expiry>>
historyVars == <<user_nonce, ids, pruned, buckets, intent_count, total_intents>>
outboundVars == <<outbound, user_outbound>>
submissionVars == <<settingVars, historyVars, outboundVars, capVars>>

-----------------------------------------------------------------------------
(* What a submission must pass.                                            *)

ValidateSrcToken(chain, format) == Family[chain] = "other" \/ format = Family[chain]

CheckPolicy(u, amounts) ==
  IF "policy" \in switches THEN CheckIntents(u, amounts) ELSE UNCHANGED capVars

\* The deadline, counted from now.
Expiry(life) == IF life = Default THEN intent_expiry ELSE life

Passes(asked) ==
  /\ asked.min_dst \in 1..MaxAmount
  /\ "dst_allowlist" \in switches => asked.dst_token \in ListedDst
  /\ "src_allowlist" \in switches => asked.src_chain \in ListedSrc
  /\ ValidateSrcToken(asked.src_chain, asked.format)
  /\ asked.min_dst <= Plausible[asked.dst_token]
  /\ Expiry(asked.life) > 0

-----------------------------------------------------------------------------
(* Ids and history.                                                        *)

\* The addresses, the network and the contract are the same for all.
ComputeIntentId(u, asked, nonce) ==
  <<"vortex-intent-v1", u, nonce, asked.src_chain, asked.dst_token, asked.min_dst>>

PreviewIntentId(u, asked) == ComputeIntentId(u, asked, user_nonce[u])

NewIds(u, batch) ==
  [k \in 1..Len(batch) |-> ComputeIntentId(u, batch[k], user_nonce[u] + k - 1)]

BucketOf(count) == count \div BucketSize

\* Mutant: a last bucket that is not full is not counted.
FullBuckets(count) == count \div BucketSize

BucketsOf(count) == (count + BucketSize - 1) \div BucketSize

\* What the slot of an intent holds after close_intent.
None == << >>

UserIntentsAppend(history, id) ==
  [count |-> history.count + 1,
   pages |-> [history.pages EXCEPT ![BucketOf(history.count)] = Append(@, id)]]

\* The history after each of the new ids.
HistoryAfter(history, new) ==
  LET after[k \in 0..Len(new)] ==
        IF k = 0 THEN history ELSE UserIntentsAppend(after[k - 1], new[k])
  IN  after

\* close_intent looks through the buckets, from the first on, for the slot of the id.
Holds(pages, flat, id) ==
  LET page == pages[BucketOf(flat)] IN
  flat % BucketSize < Len(page) /\ page[(flat % BucketSize) + 1] = id

Found(history, id) ==
  {flat \in 0..(BucketsOf(history.count) * BucketSize - 1) : Holds(history.pages, flat, id)}

UserIntentsClear(history, id) ==
  LET found == Found(history, id)
      first == CHOOSE flat \in found : \A other \in found : flat <= other
  IN  IF found = {} THEN history.pages
      ELSE [history.pages EXCEPT ![BucketOf(first)][(first % BucketSize) + 1] = None]

\* list_intents_by_user: what a page at a time shows of the history.
ListIntentsByUser(u, start, limit) ==
  LET capped == IF limit < MaxPageSize THEN limit ELSE MaxPageSize
      end == IF start + capped < intent_count[u] THEN start + capped ELSE intent_count[u]
      size == IF start < end THEN end - start ELSE 0
      result[n \in 0..size] ==
        LET flat == start + n - 1
            page == buckets[u][flat \div BucketSize]
            slot == (flat % BucketSize) + 1
        IN  IF n = 0 THEN << >>
            ELSE IF slot <= Len(page) /\ page[slot] # None
                 THEN Append(result[n - 1], page[slot])
                 ELSE result[n - 1]
  IN  result[size]

-----------------------------------------------------------------------------
(* Submissions.                                                            *)

NonceUsed(u) == [user_nonce EXCEPT ![u] = @ + 1]

\* What new intents of u leave behind.  An id that has been used, among the new ones or
\* before them, reverts them all.
Recorded(u, new) ==
  LET history == HistoryAfter([count |-> intent_count[u], pages |-> buckets[u]], new)[Len(new)]
  IN
  /\ IsInjective(new) /\ Range(new) \cap ids = {}
  /\ ids' = ids \cup Range(new)
  /\ buckets' = [buckets EXCEPT ![u] = history.pages]
  /\ intent_count' = [intent_count EXCEPT ![u] = history.count]
  /\ total_intents' = total_intents + Len(new)
  /\ UNCHANGED pruned

\* One item that is refused reverts the batch, with what the policy had counted.
BatchSubmitIntent(u, batch) ==
  /\ Len(batch) <= MaxBatchSize /\ user_nonce[u] + Len(batch) <= MaxNonce
  /\ "paused" \notin switches
  /\ \A k \in 1..Len(batch) : Passes(batch[k])
  /\ CheckPolicy(u, [k \in 1..Len(batch) |-> batch[k].min_dst])
  /\ user_nonce' = [user_nonce EXCEPT ![u] = @ + Len(batch)]
  /\ Recorded(u, NewIds(u, batch))
  /\ UNCHANGED <<ledger_time, settingVars, outboundVars>>

\* The user signs for one: the same body, without the limit on batches.
SubmitIntent(u, asked) ==
  /\ user_nonce[u] < MaxNonce
  /\ "paused" \notin switches
  /\ Passes(asked)
  /\ CheckPolicy(u, <<asked.min_dst>>)
  /\ user_nonce' = NonceUsed(u)
  /\ Recorded(u, NewIds(u, <<asked>>))
  /\ UNCHANGED <<ledger_time, settingVars, outboundVars>>

ComputeOutboundIntentId(u, token, amount, now, nonce) == <<u, token, amount, now, nonce>>

OutboundIntentRecord(id, deadline) ==
  [id |-> id, state |-> "EscrowLocked", deadline |-> deadline]

\* Not halted by a pause, not put to the policy; moves no tokens.
SubmitOutboundIntent(u, token, amount, life) ==
  LET id == ComputeOutboundIntentId(u, token, amount, ledger_time, user_nonce[u]) IN
  /\ user_nonce[u] < MaxNonce
  /\ amount \in 1..MaxAmount /\ Expiry(life) > 0
  /\ \A o \in outbound : o.id # id
  /\ user_nonce' = NonceUsed(u)
  /\ outbound' = outbound \cup {OutboundIntentRecord(id, ledger_time + Expiry(life))}
  /\ user_outbound' = [user_outbound EXCEPT ![u] = Append(@, id)]
  /\ UNCHANGED <<ledger_time, settingVars, capVars, ids, pruned, buckets, intent_count,
                 total_intents>>

\* The bond is a number that is compared with the minimum: none is taken.
AcceptOutboundIntent(o) ==
  /\ o.state = "EscrowLocked" /\ ledger_time < o.deadline
  /\ outbound' = (outbound \ {o}) \cup {[o EXCEPT !.state = "SolverAccepted"]}
  /\ UNCHANGED <<ledger_time, settingVars, capVars, historyVars, user_outbound>>

\* What close_intent leaves of an intent here: a tombstone, and an empty slot in the history
\* of its user.  It may come at any time: Settlement says when an intent is over, and the
\* retention after that, which may be none, is the admin's.
CloseIntent(id) ==
  LET u == id[2]
      history == [count |-> intent_count[u], pages |-> buckets[u]]
  IN
  /\ buckets' = [buckets EXCEPT ![u] = UserIntentsClear(history, id)]
  /\ pruned' = pruned \cup {id}
  /\ UNCHANGED <<ledger_time, settingVars, capVars, outboundVars, user_nonce, ids,
                 intent_count, total_intents>>

-----------------------------------------------------------------------------
(* Settings.                                                               *)

\* pause, unpause, set_dst_allowlist_enabled, set_src_chain_allowlist_enabled and
\* execute_set_policy: one switch each.
Switch(flag) ==
  /\ \/ switches' = switches \cup {flag}
     \/ switches' = switches \ {flag}
  /\ UNCHANGED <<ledger_time, intent_expiry, historyVars, outboundVars, capVars>>

\* The other fields of the configuration are constants of Settlement.
SetSettlementConfig(cfg) ==
  /\ cfg.intent_expiry > cfg.fill_window
  /\ intent_expiry' = cfg.intent_expiry
  /\ UNCHANGED <<ledger_time, switches, historyVars, outboundVars, capVars>>

SubmissionsInit ==
  /\ ClockInit /\ CapInit
  /\ switches = {} /\ intent_expiry = FirstExpiry
  /\ user_nonce = [u \in Submitters |-> 0] /\ ids = {} /\ pruned = {}
  /\ buckets = [u \in Submitters |-> [b \in 0..MaxNonce |-> << >>]]
  /\ intent_count = [u \in Submitters |-> 0] /\ total_intents = 0
  /\ outbound = {} /\ user_outbound = [u \in Submitters |-> << >>]

SubmissionsNext ==
  \/ Later /\ UNCHANGED submissionVars
  \/ \E u \in Submitters :
       \/ \E batch \in Batches : BatchSubmitIntent(u, batch)
       \/ \E asked \in Singles : SubmitIntent(u, asked)
       \/ \E t \in DstTokens, amount \in Minimum, life \in Lives :
            SubmitOutboundIntent(u, t, amount, life)
  \/ \E o \in outbound : AcceptOutboundIntent(o)
  \/ \E id \in ids \ pruned : CloseIntent(id)
  \/ \E flag \in Switched : Switch(flag)
  \/ \E cfg \in Settings : SetSettlementConfig(cfg)
  \* Anyone's call to the policy, and its admin's.
  \/ /\ \/ \E u \in Submitters, amount \in Minimum : CheckIntents(u, <<amount>>)
        \/ \E cap \in Caps : SetDailyCap(cap)
     /\ UNCHANGED <<ledger_time, settingVars, historyVars, outboundVars>>

SubmissionsSpec == SubmissionsInit /\ [][SubmissionsNext]_<<ledger_time, submissionVars>>

-----------------------------------------------------------------------------
(* Properties.                                                             *)

NonceIn(id) == id[3]

\* A nonce of a user names one intent, inbound or outbound, and none is skipped: a client
\* that knows the nonce knows the id before it submits.
NoncesNameOne ==
  \A u \in Submitters :
    LET named == {NonceIn(id) : id \in {x \in ids : x[2] = u}}
        named_outbound == {o.id[5] : o \in {x \in outbound : x.id[1] = u}}
    IN /\ named \cap named_outbound = {}
       /\ named \cup named_outbound = 0..(user_nonce[u] - 1)
       /\ Cardinality({x \in ids : x[2] = u}) + Cardinality({x \in outbound : x.id[1] = u})
            = user_nonce[u]

\* Whoever pages through a user's history, with pages of any size up to the largest, sees
\* every intent that the user submitted, alone or in a batch, and that has not been pruned,
\* once and in the order of submission, and no other: a slot that was emptied on an earlier
\* page, or in a bucket that is not full yet, hides none and shifts none.  The nonces name
\* all that were submitted, and the total of get_stats counts them, pruned or not.
HistoryComplete ==
  /\ NoncesNameOne
  /\ total_intents = Cardinality(ids)
  /\ \A u \in Submitters, limit \in 1..MaxPageSize :
       LET pages == 0..intent_count[u]
           page == [k \in pages |-> ListIntentsByUser(u, k * limit, limit)]
       IN /\ UNION {Range(page[k]) : k \in pages} = {id \in ids \ pruned : id[2] = u}
          /\ \A j, k \in pages : \A m \in DOMAIN page[j], n \in DOMAIN page[k] :
               j < k \/ (j = k /\ m < n) => NonceIn(page[j][m]) < NonceIn(page[k][n])
=============================================================================
