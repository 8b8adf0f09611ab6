----------------------------- MODULE Periphery -----------------------------
(***************************************************************************)
(* The intent_periphery contract: a pointer to the settlement core that    *)
(* its views are read from, set once at once and moved in two steps, with  *)
(* a handshake when a core is named.  The cores are external: an upgrade   *)
(* may change the version that one answers with.                           *)
(***************************************************************************)
EXTENDS Integers

CONSTANTS
  Cores, NoCore        \* deployed cores; none

ASSUME PeripheryAssumption == NoCore \notin Cores

VARIABLES
  settlement,          \* DataKey::Settlement; the Admin is set with the first
  pending_settlement,  \* DataKey::PendingSettlement
  speaking             \* external: cores that answer with INTERFACE_VERSION

peripheryVars == <<settlement, pending_settlement, speaking>>

VerifyInterfaceVersion(core) == core \in speaking

\* get_settlement and load_settlement, which every view begins with.
Configured == settlement # NoCore

InitializePeriphery(core) ==
  /\ ~Configured
  /\ VerifyInterfaceVersion(core)
  /\ settlement' = core
  /\ UNCHANGED <<pending_settlement, speaking>>

ProposeSettlement(core) ==
  /\ Configured
  /\ VerifyInterfaceVersion(core)
  /\ pending_settlement' = core
  /\ UNCHANGED <<settlement, speaking>>

\* Mutant: the proposal can be accepted again.
Remembered == pending_settlement

Forgotten == NoCore

\* The core is not asked again.
AcceptSettlement ==
  /\ Configured
  /\ pending_settlement # NoCore
  /\ settlement' = pending_settlement
  /\ pending_settlement' = Forgotten
  /\ UNCHANGED <<speaking>>

\* The wasm of a core is replaced.
UpgradeCore(core) ==
  /\ \E answering \in BOOLEAN :
       speaking' = IF answering THEN speaking \cup {core} ELSE speaking \ {core}
  /\ UNCHANGED <<settlement, pending_settlement>>

-----------------------------------------------------------------------------
PeripheryInit ==
  /\ settlement = NoCore /\ pending_settlement = NoCore
  /\ speaking \in SUBSET Cores

PeripheryNext ==
  \/ AcceptSettlement
  \/ \E core \in Cores :
       InitializePeriphery(core) \/ ProposeSettlement(core) \/ UpgradeCore(core)

PeripherySpec == PeripheryInit /\ [][PeripheryNext]_peripheryVars

-----------------------------------------------------------------------------
(* Properties.                                                             *)

\* No delay: the time is always 0.
Pointer == INSTANCE DelayedChange WITH
  Delay <- 0, Lapsing <- {}, Ended <- NoCore, FirstAtOnce <- {"settlement"},
  now <- 0,
  in_force <- [matter \in {"settlement"} |-> settlement],
  notices <- {[matter |-> "settlement", value |-> core, since |-> 0] :
                core \in {pending_settlement} \ {NoCore}}

\* The pointer, once set, moves only to the core proposed last, once for each proposal,
\* whatever the cores are upgraded to in between.
ImplementsTwoSteps == Pointer!Spec
=============================================================================
