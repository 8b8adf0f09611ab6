--------------------------- MODULE RegistryRoles ---------------------------
(***************************************************************************)
(* The two roles of solver_registry: the admin, and the writer, which is   *)
(* the settlement contract that reports outcomes and locks obligations.    *)
(* The first writer is appointed at once; everything after that takes a    *)
(* proposal and a delay.  Here calls name who signs them.                  *)
(***************************************************************************)
EXTENDS LedgerClock

CONSTANTS
  Holders,             \* addresses that may hold a role
  FirstAdmin,
  NoHolder,            \* None
  RoleDelay            \* ADMIN_TIMELOCK_DELAY and WRITER_TIMELOCK_DELAY

ASSUME RolesAssumption ==
  RoleDelay \in Nat \ {0} /\ FirstAdmin \in Holders /\ NoHolder \notin Holders

VARIABLES
  admin,
  writer,
  pending_admin,       \* [who, eta], who being NoHolder when nothing is pending
  pending_writer

rolesVars == <<admin, writer, pending_admin, pending_writer>>

Nothing == [who |-> NoHolder, eta |-> 0]

RequireAdmin(caller) == caller = admin

RequireWriter(caller) == writer # NoHolder /\ caller = writer

RequireWriterOrAdmin(caller) == caller = admin \/ RequireWriter(caller)

\* Mutant: the writer can be replaced the way the first one was set.
WriterReplaceable == TRUE

WriterMissing == writer = NoHolder

SetWriter(caller, who) ==
  /\ RequireAdmin(caller)
  /\ WriterMissing
  /\ writer' = who
  /\ UNCHANGED <<ledger_time, admin, pending_admin, pending_writer>>

NewPending(who) == [who |-> who, eta |-> ledger_time + RoleDelay]

Ripe(pending, who) == pending.who = who /\ ledger_time >= pending.eta

ProposeAdmin(caller, who) ==
  /\ RequireAdmin(caller)
  /\ pending_admin' = NewPending(who)
  /\ UNCHANGED <<ledger_time, admin, writer, pending_writer>>

\* Signed by the party that was proposed.
AcceptAdmin(who) ==
  /\ Ripe(pending_admin, who)
  /\ admin' = who
  /\ pending_admin' = Nothing
  /\ UNCHANGED <<ledger_time, writer, pending_writer>>

CancelAdminTransfer(caller) ==
  /\ RequireAdmin(caller)
  /\ pending_admin # Nothing
  /\ pending_admin' = Nothing
  /\ UNCHANGED <<ledger_time, admin, writer, pending_writer>>

ProposeWriter(caller, who) ==
  /\ RequireAdmin(caller)
  /\ pending_writer' = NewPending(who)
  /\ UNCHANGED <<ledger_time, admin, writer, pending_admin>>

ExecuteWriter(caller, who) ==
  /\ RequireAdmin(caller)
  /\ Ripe(pending_writer, who)
  /\ writer' = who
  /\ pending_writer' = Nothing
  /\ UNCHANGED <<ledger_time, admin, pending_admin>>

CancelWriter(caller) ==
  /\ RequireAdmin(caller)
  /\ pending_writer # Nothing
  /\ pending_writer' = Nothing
  /\ UNCHANGED <<ledger_time, admin, writer, pending_admin>>

-----------------------------------------------------------------------------
RolesInit ==
  /\ ClockInit
  /\ admin = FirstAdmin /\ writer = NoHolder
  /\ pending_admin = Nothing /\ pending_writer = Nothing

RolesNext ==
  \/ Later /\ UNCHANGED rolesVars
  \/ \E who \in Holders : AcceptAdmin(who)
  \/ \E caller \in Holders :
       \/ CancelAdminTransfer(caller) \/ CancelWriter(caller)
       \/ \E who \in Holders :
            \/ SetWriter(caller, who)
            \/ ProposeAdmin(caller, who)
            \/ ProposeWriter(caller, who) \/ ExecuteWriter(caller, who)

RolesSpec == RolesInit /\ [][RolesNext]_<<ledger_time, rolesVars>>

-----------------------------------------------------------------------------
(* Properties.                                                             *)

RolesTypeOK ==
  /\ ledger_time \in Nat
  /\ admin \in Holders /\ writer \in Holders \cup {NoHolder}
  /\ {pending_admin, pending_writer} \subseteq
       [who: Holders \cup {NoHolder}, eta: Nat]

NoticeOf(role, pending) ==
  IF pending.who = NoHolder THEN {}
  ELSE {[matter |-> role, value |-> pending.who, since |-> pending.eta - RoleDelay]}

Handover == INSTANCE DelayedChange WITH
  Delay <- RoleDelay, Lapsing <- {}, Ended <- NoHolder, FirstAtOnce <- {"writer"},
  now <- ledger_time,
  in_force <- [role \in {"admin", "writer"} |-> IF role = "admin" THEN admin ELSE writer],
  notices <- NoticeOf("admin", pending_admin) \cup NoticeOf("writer", pending_writer)

\* The admin and the writer change by notice, after the whole delay since the last
\* proposal and once, save the first writer, and only a registry without one takes a
\* writer at once: no order of proposals, cancellations and handovers of the admin's own
\* role gets around the wait.
ImplementsRoleChanges == Handover!Spec
=============================================================================
