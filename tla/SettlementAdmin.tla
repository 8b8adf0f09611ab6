-------------------------- MODULE SettlementAdmin --------------------------
(***************************************************************************)
(* The administration of intent_settlement that takes two steps: offices   *)
(* that are handed over, the allowlist of destination tokens and its       *)
(* enumerable list, and the chains that are onboarded.  Who the admin is   *)
(* changes nothing in a proposal, which outlives the admin who made it, so *)
(* "by the admin" is no guard here.  Tokens, wasm and the proof registry   *)
(* are external: a call of theirs that fails reverts the handler.          *)
(***************************************************************************)
EXTENDS PagedList, LedgerClock, FiniteSets

CONSTANTS
  Parties,             \* who may be proposed for an office
  Deployer,            \* who holds the offices that are never empty at the start
  Nobody,              \* an office that is not filled
  Chains,
  AdminTimelockDelay,  \* ADMIN_TIMELOCK_DELAY
  MaxPending           \* bound: proposals that stand at once

Tokens == Members

ASSUME AdminAssumption ==
  /\ AdminTimelockDelay \in Nat \ {0} /\ MaxPending \in Nat
  /\ Deployer \in Parties /\ Nobody \notin Parties

\* DataKey::Admin, FeeRecipient, PolicyContract and OracleAddr, and the wasm itself.
Offices == {"admin", "fee_recipient", "policy", "oracle", "wasm"}

VARIABLES
  office,              \* who or what holds each office
  allowed_dst,         \* tokens with DataKey::AllowedDstToken
  chain_live,          \* chains with DataKey::ChainConfig
  allowed_src,         \* chains with DataKey::AllowedSrcChain
  pending              \* DataKey::Pending...: what is proposed, with its eta

allowVars == <<allowed_dst, chain_live, allowed_src>>
adminVars == <<office, allowVars, pending, listVars>>

\* What a proposal is about: an office, a token (two keys) or a chain.
Keys ==
  ({"office"} \X Offices) \cup ({"dst_token_add", "dst_token_remove"} \X Tokens)
    \cup ({"chain"} \X Chains)

\* Mutant: a proposal that is replaced keeps the time of the first.
EtaKept(key) ==
  IF \E p \in pending : p.key = key
  THEN (CHOOSE p \in pending : p.key = key).eta
  ELSE ledger_time + AdminTimelockDelay

EtaOf(key) == ledger_time + AdminTimelockDelay

Others(key) == {p \in pending : p.key # key}

\* A proposal overwrites the one before it under its key, and starts the wait again.
Propose(key, value) ==
  /\ Cardinality(Others(key)) < MaxPending
  /\ pending' = Others(key) \cup {[key |-> key, value |-> value, eta |-> EtaOf(key)]}
  /\ UNCHANGED <<ledger_time, office, allowVars, listVars>>

Due(p) == ledger_time >= p.eta

\* The proposal under the key stands and is due; its removal is part of every use.
Use(key, value) ==
  \E p \in pending :
    /\ p.key = key /\ p.value = value /\ Due(p)
    /\ pending' = pending \ {p}

CancelPending(key) ==
  /\ \E p \in pending : p.key = key
  /\ pending' = Others(key)
  /\ UNCHANGED <<ledger_time, office, allowVars, listVars>>

Fill(name, who) ==
  /\ Use(<<"office", name>>, who)
  /\ office' = [office EXCEPT ![name] = who]
  /\ UNCHANGED <<ledger_time, allowVars, listVars>>

-----------------------------------------------------------------------------
(* Offices.                                                                *)

ProposeFeeRecipient(who) == Propose(<<"office", "fee_recipient">>, who)

\* Signed by the party that was proposed.
AcceptFeeRecipient(who) == Fill("fee_recipient", who)

ProposeAdminTransfer(who) == Propose(<<"office", "admin">>, who)

AcceptAdminTransfer(who) == Fill("admin", who)

ProposeUpgrade(hash) == Propose(<<"office", "wasm">>, hash)

ExecuteUpgrade(hash) == Fill("wasm", hash)

\* None clears the hook.
ProposeSetPolicy(policy) == Propose(<<"office", "policy">>, policy)

ExecuteSetPolicy(policy) == Fill("policy", policy)

ProposeOracle(oracle) == Propose(<<"office", "oracle">>, oracle)

ExecuteOracle(oracle) == Fill("oracle", oracle)

-----------------------------------------------------------------------------
(* Destination tokens.  A token may be proposed for both changes at once.  *)

ProposeAddDstToken(t) == Propose(<<"dst_token_add", t>>, TRUE)

\* Anyone's call.
ExecuteAddDstToken(t) ==
  /\ Use(<<"dst_token_add", t>>, TRUE)
  /\ allowed_dst' = allowed_dst \cup {t}
  /\ Add(t)
  /\ UNCHANGED <<ledger_time, office, chain_live, allowed_src>>

CancelPendingDstTokenAdd(t) == CancelPending(<<"dst_token_add", t>>)

ProposeRemoveDstToken(t) == Propose(<<"dst_token_remove", t>>, FALSE)

ExecuteRemoveDstToken(t) ==
  /\ Use(<<"dst_token_remove", t>>, FALSE)
  /\ allowed_dst' = allowed_dst \ {t}
  /\ Remove(t)
  /\ UNCHANGED <<ledger_time, office, chain_live, allowed_src>>

CancelPendingDstTokenRemove(t) == CancelPending(<<"dst_token_remove", t>>)

-----------------------------------------------------------------------------
(* Source chains: by hand and at once, or onboarded by notice.             *)

AddAllowedSrcChain(c) ==
  /\ allowed_src' = allowed_src \cup {c}
  /\ UNCHANGED <<ledger_time, office, allowed_dst, chain_live, pending, listVars>>

RemoveAllowedSrcChain(c) ==
  /\ allowed_src' = allowed_src \ {c}
  /\ UNCHANGED <<ledger_time, office, allowed_dst, chain_live, pending, listVars>>

ProposeChainOnboarding(c) == Propose(<<"chain", c>>, TRUE)

\* A live chain keeps its proposal until it is offboarded.
ExecuteChainOnboarding(c) ==
  /\ c \notin chain_live
  /\ Use(<<"chain", c>>, TRUE)
  /\ allowed_src' = allowed_src \cup {c}
  /\ chain_live' = chain_live \cup {c}
  /\ UNCHANGED <<ledger_time, office, allowed_dst, listVars>>

ExecuteChainOffboarding(c) ==
  /\ c \in chain_live
  /\ allowed_src' = allowed_src \ {c}
  /\ chain_live' = chain_live \ {c}
  /\ UNCHANGED <<ledger_time, office, allowed_dst, pending, listVars>>

-----------------------------------------------------------------------------
AdminInit ==
  /\ ClockInit
  /\ office = [name \in Offices |->
                 IF name \in {"policy", "oracle"} THEN Nobody ELSE Deployer]
  /\ allowed_dst = {} /\ chain_live = {} /\ allowed_src = {}
  /\ pending = {}
  /\ ListInit

OfficeStep(who) ==
  \/ ProposeFeeRecipient(who) \/ AcceptFeeRecipient(who)
  \/ ProposeAdminTransfer(who) \/ AcceptAdminTransfer(who)
  \/ ProposeUpgrade(who) \/ ExecuteUpgrade(who)
  \/ ProposeOracle(who) \/ ExecuteOracle(who)

TokenStep(t) ==
  \/ ProposeAddDstToken(t) \/ ExecuteAddDstToken(t) \/ CancelPendingDstTokenAdd(t)
  \/ ProposeRemoveDstToken(t) \/ ExecuteRemoveDstToken(t)
  \/ CancelPendingDstTokenRemove(t)

ChainStep(c) ==
  \/ AddAllowedSrcChain(c) \/ RemoveAllowedSrcChain(c)
  \/ ProposeChainOnboarding(c) \/ ExecuteChainOnboarding(c)
  \/ ExecuteChainOffboarding(c)

AdminNext ==
  \/ Later /\ UNCHANGED <<office, allowVars, pending, listVars>>
  \/ \E who \in Parties : OfficeStep(who)
  \/ \E policy \in Parties \cup {Nobody} :
       ProposeSetPolicy(policy) \/ ExecuteSetPolicy(policy)
  \/ \E t \in Tokens : TokenStep(t)
  \/ \E c \in Chains : ChainStep(c)

AdminSpec == AdminInit /\ [][AdminNext]_<<ledger_time, adminVars>>

-----------------------------------------------------------------------------
(* Properties.                                                             *)

\* Every variable keeps its type, and no two proposals share a key.
AdminTypeOK ==
  /\ ledger_time \in Nat
  /\ office \in [Offices -> Parties \cup {Nobody}]
  /\ allowed_dst \subseteq Tokens
  /\ chain_live \subseteq Chains /\ allowed_src \subseteq Chains
  /\ pending \subseteq [key: Keys, value: Parties \cup {Nobody, TRUE, FALSE}, eta: Nat]
  /\ \A p, q \in pending : p.key = q.key => p = q

\* Matters that notices are about: the two keys of a token are one.
MatterOf(key) ==
  IF key[1] \in {"dst_token_add", "dst_token_remove"} THEN <<"dst_token", key[2]>> ELSE key

Matters ==
  ({"office"} \X Offices) \cup ({"dst_token"} \X Tokens) \cup ({"chain"} \X Chains)

InForce ==
  [m \in Matters |->
     CASE m[1] = "office"    -> office[m[2]]
       [] m[1] = "dst_token" -> m[2] \in allowed_dst
       [] OTHER              -> m[2] \in chain_live]

Notices ==
  {[matter |-> MatterOf(p.key), value |-> p.value, since |-> p.eta - AdminTimelockDelay] :
     p \in pending}

Change == INSTANCE DelayedChange WITH
  Delay <- AdminTimelockDelay, Lapsing <- {"chain"} \X Chains, Ended <- FALSE,
  FirstAtOnce <- {},
  now <- ledger_time, in_force <- InForce, notices <- Notices

\* Offices, the token allowlist and live chains change by notice: after the whole delay
\* since the last proposal, once, whatever is proposed, replaced, cancelled or proposed
\* both ways.
ImplementsDelayedChanges == Change!Spec
=============================================================================
