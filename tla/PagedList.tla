----------------------------- MODULE PagedList -----------------------------
(***************************************************************************)
(* The enumerable sets of intent_settlement, kept as pages of a fixed      *)
(* size, an index from member to flat position, and a count.  The code has *)
(* it twice, word for word, for destination tokens and for solvers.  A     *)
(* read or write outside a page traps and reverts.                         *)
(***************************************************************************)
EXTENDS Integers, Sequences, Functions

CONSTANTS
  Members,
  PageSize,          \* PAGED_SET_PAGE_SIZE
  Pages,             \* bound: page numbers in use
  Gap,               \* None in a page
  MaxSlots           \* bound: entries a page may grow to

ASSUME ListAssumption ==
  /\ PageSize \in Nat \ {0} /\ Pages \subseteq Nat /\ Gap \notin Members
  /\ MaxSlots \in Nat

VARIABLES
  page,              \* SolverListPage(pg), DstTokenListPage(pg); empty when not stored
  index,             \* SolverListIdx, DstTokenListIdx: a partial function
  count              \* SolverListCount, DstTokenListCount

listVars == <<page, index, count>>

PageOf(flat) == flat \div PageSize
SlotOf(flat) == (flat % PageSize) + 1

InPage(flat) == SlotOf(flat) <= Len(page[PageOf(flat)])

EntryAt(flat) == page[PageOf(flat)][SlotOf(flat)]

WithEntry(pages, flat, entry) ==
  [pages EXCEPT ![PageOf(flat)][SlotOf(flat)] = entry]

LastFlat == IF count > 0 THEN count - 1 ELSE 0

\* Mutant: a new page is begun one entry late.
BegunLate(x) ==
  LET pg == PageOf(IF count > 0 THEN count - 1 ELSE 0) IN
  page' = [page EXCEPT ![pg] = Append(@, x)]

\* The entry goes to the end of its page, which is not always its slot.
PushBack(x) == page' = [page EXCEPT ![PageOf(count)] = Append(@, x)]

Add(x) ==
  \/ /\ x \in DOMAIN index
     /\ UNCHANGED listVars
  \/ /\ x \notin DOMAIN index
     /\ PageOf(count) \in Pages /\ Len(page[PageOf(count)]) < MaxSlots
     /\ PushBack(x)
     /\ index' = [y \in DOMAIN index \cup {x} |-> IF y = x THEN count ELSE index[y]]
     /\ count' = count + 1

\* Both pages are read before either is written, the last one after the target's: when
\* they are one page, the swap is lost and only the gap is kept.
SwapOut(flat) ==
  [WithEntry(page, flat, EntryAt(LastFlat)) EXCEPT
     ![PageOf(LastFlat)] = WithEntry(page, LastFlat, Gap)[PageOf(LastFlat)]]

PagesWithout(flat) ==
  IF flat # LastFlat THEN SwapOut(flat) ELSE WithEntry(page, flat, Gap)

\* The moved entry is indexed anew, a member or not.
Reindexed(flat) ==
  LET moved == EntryAt(LastFlat) IN
  IF flat # LastFlat /\ moved # Gap
  THEN [y \in DOMAIN index \cup {moved} |-> IF y = moved THEN flat ELSE index[y]]
  ELSE index

Remove(x) ==
  \/ /\ x \notin DOMAIN index
     /\ UNCHANGED listVars
  \/ /\ x \in DOMAIN index
     /\ InPage(index[x]) /\ InPage(LastFlat)
     /\ page' = PagesWithout(index[x])
     /\ index' = Restrict(Reindexed(index[x]), DOMAIN Reindexed(index[x]) \ {x})
     /\ count' = LastFlat

\* list_solvers: the entries up to the count.
Listed ==
  {EntryAt(flat) : flat \in {f \in 0..(count - 1) : InPage(f)}} \ {Gap}

\* list_allowed_dst_tokens: all entries of as many pages as the count fills.
ListedByPage ==
  UNION {Range(page[pg]) : pg \in {p \in Pages : p * PageSize < count}} \ {Gap}

-----------------------------------------------------------------------------
ListInit ==
  /\ page = [pg \in Pages |-> << >>]
  /\ index = << >>
  /\ count = 0

ListNext == \E x \in Members : Add(x) \/ Remove(x)

ListSpec == ListInit /\ [][ListNext]_listVars

\* Every variable keeps its type.
ListTypeOK ==
  /\ page \in [Pages -> Seq(Members \cup {Gap})]
  /\ DOMAIN index \subseteq Members /\ index \in [DOMAIN index -> Nat]
  /\ count \in Nat

\* Whoever is indexed can be taken off: neither of the two entries that a removal reads
\* is outside its page.  A deregistration that trapped here would keep the bond.
RemovalNeverTraps ==
  \A x \in DOMAIN index : InPage(index[x]) /\ InPage(LastFlat)
=============================================================================
