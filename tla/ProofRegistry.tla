--------------------------- MODULE ProofRegistry ---------------------------
(***************************************************************************)
(* The proof_registry contract: deposits on other chains, attested by      *)
(* messages of two bridges, and the settlement's check of a fill against   *)
(* them.  The bridges are external: a message they attest may be delivered *)
(* at any time, by anyone, in any order, often or never, and one they do   *)
(* not attest reverts.  The Axelar gateway is stored and not asked.        *)
(***************************************************************************)
EXTENDS LedgerClock, FiniteSets

CONSTANTS
  IntentIds,
  ChainIds,              \* chain numbers, and MaxChainId: u16::MAX
  MaxChainId,
  AxelarChains,
  Emitters, NoEmitter,   \* emitters and Axelar sources; none authorized
  Vaas,                  \* what the Guardians signed
  AxelarMessages,
  Terms,                 \* of each intent: its src_chain and src_amount
  ValidityWindow         \* PROOF_VALIDITY_WINDOW

\* wormhole_chain_id, and src_chain_to_wormhole_id, which has the same table.
WormholeChainId ==
  [solana |-> 1, ethereum |-> 2, bsc |-> 4, polygon |-> 5, avalanche |-> 6,
   arbitrum |-> 23, optimism |-> 24, base |-> 30]

Payload ==
  [sound: BOOLEAN, intent: IntentIds, src_chain: Nat, src_amount: Int]

ASSUME ProofAssumption ==
  /\ ChainIds \subseteq Nat /\ MaxChainId \in Nat /\ NoEmitter \notin Emitters
  /\ Vaas \subseteq [chain: ChainIds, emitter: Emitters, sequence: Nat, payload: Payload]
  /\ AxelarMessages \subseteq [chain: AxelarChains, source: Emitters, payload: Payload]
  /\ Terms \in [IntentIds -> [src_chain: STRING, src_amount: Int]]
  /\ ValidityWindow \in Nat

VARIABLES
  emitter,               \* ProofKey::AuthorizedEmitter(chain)
  axelar_source,         \* ProofKey::AuthorizedAxelarSource(chain)
  proof,                 \* ProofKey::Proof(intent), a partial function
  seen_vaa,              \* ProofKey::SeenVaa(chain, sequence)
  gated                  \* external: intents whose fill asked for a proof

sourceVars == <<emitter, axelar_source>>
proofVars == <<sourceVars, proof, seen_vaa, gated>>

ProofRecord ==
  [src_chain_id: Nat, src_amount: Int, vaa_sequence: Nat, received_at: Nat]

Proved == DOMAIN proof

-----------------------------------------------------------------------------
SetAuthorizedEmitter(c, e) ==
  /\ c <= MaxChainId
  /\ emitter' = [emitter EXCEPT ![c] = e]
  /\ UNCHANGED <<ledger_time, axelar_source, proof, seen_vaa, gated>>

RemoveAuthorizedEmitter(c) ==
  /\ emitter' = [emitter EXCEPT ![c] = NoEmitter]
  /\ UNCHANGED <<ledger_time, axelar_source, proof, seen_vaa, gated>>

SetAuthorizedAxelarSource(c, e) ==
  /\ axelar_source' = [axelar_source EXCEPT ![c] = e]
  /\ UNCHANGED <<ledger_time, emitter, proof, seen_vaa, gated>>

RemoveAuthorizedAxelarSource(c) ==
  /\ axelar_source' = [axelar_source EXCEPT ![c] = NoEmitter]
  /\ UNCHANGED <<ledger_time, emitter, proof, seen_vaa, gated>>

\* Mutant: the last message about an intent counts.
Unasked(i) == TRUE

Unproved(i) == i \notin Proved

Store(payload, sequence) ==
  proof' = [i \in Proved \cup {payload.intent} |->
    IF i = payload.intent
    THEN [src_chain_id |-> payload.src_chain, src_amount |-> payload.src_amount,
          vaa_sequence |-> sequence, received_at |-> ledger_time]
    ELSE proof[i]]

\* Mutant: a message is remembered by its intent only.
AnySequence(vaa) == TRUE

\* Sequences are an emitter's; what is remembered is the chain's.
NewSequence(vaa) == <<vaa.chain, vaa.sequence>> \notin seen_vaa

ReceiveMessage(vaa) ==
  /\ emitter[vaa.chain] = vaa.emitter
  /\ vaa.payload.sound /\ vaa.payload.src_chain = vaa.chain
  /\ Unproved(vaa.payload.intent) /\ NewSequence(vaa)
  /\ Store(vaa.payload, vaa.sequence)
  /\ seen_vaa' = seen_vaa \cup {<<vaa.chain, vaa.sequence>>}
  /\ UNCHANGED <<ledger_time, sourceVars, gated>>

\* The chain that the payload names is taken as it is.
ReceiveMessageAxelar(m) ==
  /\ m.payload.sound
  /\ axelar_source[m.chain] = m.source
  /\ Unproved(m.payload.intent)
  /\ Store(m.payload, 0)
  /\ UNCHANGED <<ledger_time, sourceVars, seen_vaa, gated>>

\* get_fresh_proof: the last second of the window counts.
Fresh(i) == i \in Proved /\ ledger_time - proof[i].received_at <= ValidityWindow

\* The settlement's validate_proof, which reads the proof whatever its age.
ValidateProof(i) ==
  /\ i \in Proved /\ Terms[i].src_chain \in DOMAIN WormholeChainId
  /\ proof[i].src_chain_id = WormholeChainId[Terms[i].src_chain]
  /\ proof[i].src_amount >= Terms[i].src_amount

\* fill_intent with require_proof, as the registry sees it.
GatedFill(i) ==
  /\ i \notin gated /\ ValidateProof(i)
  /\ gated' = gated \cup {i}
  /\ UNCHANGED <<ledger_time, sourceVars, proof, seen_vaa>>

-----------------------------------------------------------------------------
ProofInit ==
  /\ ClockInit
  /\ emitter = [c \in ChainIds |-> NoEmitter]
  /\ axelar_source = [c \in AxelarChains |-> NoEmitter]
  /\ proof = << >> /\ seen_vaa = {} /\ gated = {}

SourceStep ==
  \/ \E c \in ChainIds :
       RemoveAuthorizedEmitter(c) \/ \E e \in Emitters : SetAuthorizedEmitter(c, e)
  \/ \E c \in AxelarChains :
       \/ RemoveAuthorizedAxelarSource(c)
       \/ \E e \in Emitters : SetAuthorizedAxelarSource(c, e)

ProofNext ==
  \/ Later /\ UNCHANGED <<sourceVars, proof, seen_vaa, gated>>
  \/ SourceStep
  \/ \E vaa \in Vaas : ReceiveMessage(vaa)
  \/ \E m \in AxelarMessages : ReceiveMessageAxelar(m)
  \/ \E i \in IntentIds : GatedFill(i)

ProofSpec == ProofInit /\ [][ProofNext]_<<ledger_time, proofVars>>

-----------------------------------------------------------------------------
(* Properties.                                                             *)

\* Every variable keeps its type.
ProofTypeOK ==
  /\ ledger_time \in Nat
  /\ emitter \in [ChainIds -> Emitters \cup {NoEmitter}]
  /\ axelar_source \in [AxelarChains -> Emitters \cup {NoEmitter}]
  /\ Proved \subseteq IntentIds /\ proof \in [Proved -> ProofRecord]
  /\ seen_vaa \subseteq ChainIds \X Nat /\ gated \subseteq IntentIds

\* No later message of either bridge, no other emitter and no repetition touches what was
\* proved: a fill that was gated stays backed by a proof of its intent's chain and amount,
\* and a proof that has gone stale is not made fresh.
ProofsStand ==
  [][/\ \A i \in gated' : ValidateProof(i)'
     /\ \A i \in Proved : ~Fresh(i) => ~Fresh(i)']_<<ledger_time, proofVars>>

\* A signed message proves one intent: no two proofs share a chain and a sequence (other
\* than 0, which Axelar's proofs have), and what was used is remembered.
MessagesUsedOnce ==
  \A i \in Proved :
    LET used == <<proof[i].src_chain_id, proof[i].vaa_sequence>> IN
    used[2] # 0 =>
      /\ used \in seen_vaa
      /\ \A j \in Proved :
           <<proof[j].src_chain_id, proof[j].vaa_sequence>> = used => j = i
=============================================================================
