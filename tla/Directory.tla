----------------------------- MODULE Directory -----------------------------
(***************************************************************************)
(* The directory of the protocol's addresses: entries under names, and a   *)
(* list of the names in the order they were registered.  Its admin role    *)
(* is handed over in two steps without a delay.                            *)
(***************************************************************************)
EXTENDS Lists, FiniteSets, Functions

CONSTANTS
  EntryNames,
  Addresses,           \* of entries, and of admins
  NoAddress            \* None

ASSUME DirectoryAssumption == NoAddress \notin Addresses

VARIABLES
  entry,               \* DataKey::Entry(name)
  names,               \* DataKey::Names
  keeper,              \* DataKey::Admin, NoAddress before initialize
  next_keeper          \* DataKey::PendingAdmin

directoryVars == <<entry, names, keeper, next_keeper>>

FindAddress(name) == entry[name]

\* Anyone's call, once.
Initialize(who) ==
  /\ keeper = NoAddress
  /\ keeper' = who
  /\ UNCHANGED <<entry, names, next_keeper>>

\* Mutant: the name is listed with every update.
ListedAgain(name) == Append(names, name)

NamesWith(name) == IF entry[name] = NoAddress THEN Append(names, name) ELSE names

SetAddress(caller, name, addr) ==
  /\ caller = keeper
  /\ names' = NamesWith(name)
  /\ entry' = [entry EXCEPT ![name] = addr]
  /\ UNCHANGED <<keeper, next_keeper>>

RemoveAddress(caller, name) ==
  /\ caller = keeper
  /\ FindAddress(name) # NoAddress
  /\ entry' = [entry EXCEPT ![name] = NoAddress]
  /\ names' = Without(names, name)
  /\ UNCHANGED <<keeper, next_keeper>>

ProposeKeeper(caller, who) ==
  /\ caller = keeper
  /\ next_keeper' = who
  /\ UNCHANGED <<entry, names, keeper>>

AcceptKeeper(who) ==
  /\ next_keeper = who
  /\ keeper' = who
  /\ next_keeper' = NoAddress
  /\ UNCHANGED <<entry, names>>

DirectoryInit ==
  /\ entry = [name \in EntryNames |-> NoAddress]
  /\ names = << >>
  /\ keeper = NoAddress /\ next_keeper = NoAddress

DirectoryNext ==
  \E who \in Addresses :
    \/ Initialize(who) \/ AcceptKeeper(who)
    \/ \E name \in EntryNames, addr \in Addresses : SetAddress(who, name, addr)
    \/ \E name \in EntryNames : RemoveAddress(who, name)
    \/ \E other \in Addresses : ProposeKeeper(who, other)

DirectorySpec == DirectoryInit /\ [][DirectoryNext]_directoryVars

\* The list names exactly what can be looked up, each name once, after
\* any updates, removals and registrations anew.
NamesExact ==
  /\ Range(names) = {name \in EntryNames : FindAddress(name) # NoAddress}
  /\ Len(names) = Cardinality(Range(names))
=============================================================================
