--------------------------- MODULE GovernorProofs ---------------------------
(***************************************************************************)
(* Proofs about the governor, for any accounts, configurations, number of  *)
(* proposals and length of the history: what the binary search returns,    *)
(* that a tally is the sum of its votes and final after its deadline, and  *)
(* what the timelock is asked.                                             *)
(***************************************************************************)
EXTENDS Governor, Sums

Inv == now > 0 /\ TypeOK /\ QueuedWasCarried /\ TimelockAskedOnce

-----------------------------------------------------------------------------
(* Checkpoints.                                                            *)

\* A power is a natural number.
LEMMA PowerType ==
  ASSUME NEW list \in Seq(Checkpoint), NEW ledger
  PROVE  PowerIn(list, ledger) \in Nat
<1>1. \A k \in 1..Len(list) : list[k] \in Checkpoint
  OBVIOUS
<1>2. \A entry \in Checkpoint : entry.power \in Nat
  BY DEF Checkpoint
<1>3. \A k \in 1..Len(list) : list[k].power \in Nat
  BY <1>1, <1>2
<1> QED BY <1>3 DEF PowerIn

\* There is one latest checkpoint, if any, and its power is the one read.
LEMMA PowerOfLatest ==
  ASSUME NEW list \in Seq(Checkpoint), NEW ledger \in Nat,
         NEW k \in 1..Len(list), IsLatest(list, ledger, k)
  PROVE  PowerIn(list, ledger) = list[k].power
<1> DEFINE c == CHOOSE j \in 1..Len(list) : IsLatest(list, ledger, j)
<1>1. c \in 1..Len(list) /\ IsLatest(list, ledger, c)
  OBVIOUS
<1>2. \A j \in 1..Len(list) : list[j].ledger \in Nat
  <2>1. \A j \in 1..Len(list) : list[j] \in Checkpoint
    OBVIOUS
  <2>2. \A entry \in Checkpoint : entry.ledger \in Nat
    BY DEF Checkpoint
  <2> QED BY <2>1, <2>2
<1> HIDE DEF c
<1>3. c = k
  <2>1. ~(c < k)
    BY <1>1, <1>2 DEF IsLatest
  <2>2. ~(k < c)
    BY <1>1, <1>2 DEF IsLatest
  <2> QED BY <1>1, <2>1, <2>2
<1> QED BY <1>1, <1>3 DEF PowerIn, c

\* A later checkpoint changes no earlier reading.
LEMMA AppendKeeps ==
  ASSUME NEW list \in Seq(Checkpoint), NEW entry \in Checkpoint, NEW ledger \in Nat,
         entry.ledger > ledger
  PROVE  PowerIn(Append(list, entry), ledger) = PowerIn(list, ledger)
<1> DEFINE longer == Append(list, entry)
<1>1. /\ longer \in Seq(Checkpoint) /\ Len(longer) = Len(list) + 1
      /\ \A k \in 1..Len(list) : longer[k] = list[k]
      /\ longer[Len(list) + 1] = entry /\ entry.ledger \in Nat
  BY DEF Checkpoint
<1> HIDE DEF longer
<1>2. \A k \in 1..Len(list) : IsLatest(longer, ledger, k) <=> IsLatest(list, ledger, k)
  <2> SUFFICES ASSUME NEW k \in 1..Len(list)
               PROVE  IsLatest(longer, ledger, k) <=> IsLatest(list, ledger, k)
    OBVIOUS
  <2>1. PICK n \in Nat : n = Len(list)
    OBVIOUS
  <2>2. \A j \in (k + 1)..(n + 1) : j \in (k + 1)..n \/ j = n + 1
    BY <2>1
  <2>3. \A j \in (k + 1)..n : j \in (k + 1)..(n + 1) /\ longer[j] = list[j]
    BY <1>1, <2>1
  <2>4. longer[k] = list[k] /\ longer[n + 1].ledger > ledger /\ Len(longer) = n + 1
    BY <1>1, <2>1
  <2> QED BY <2>1, <2>2, <2>3, <2>4 DEF IsLatest
<1>3. ~IsLatest(longer, ledger, Len(list) + 1)
  BY <1>1 DEF IsLatest
<1>4. CASE \E k \in 1..Len(list) : IsLatest(list, ledger, k)
  <2>1. PICK k \in 1..Len(list) : IsLatest(list, ledger, k)
    BY <1>4
  <2>2. k \in 1..Len(longer) /\ IsLatest(longer, ledger, k)
    BY <1>1, <1>2, <2>1
  <2>3. PowerIn(longer, ledger) = longer[k].power
    BY <1>1, <2>2, PowerOfLatest
  <2>4. PowerIn(list, ledger) = list[k].power
    BY <2>1, PowerOfLatest
  <2>5. longer[k] = list[k]
    BY <1>1
  <2> QED BY <2>3, <2>4, <2>5 DEF longer
<1>5. CASE ~\E k \in 1..Len(list) : IsLatest(list, ledger, k)
  <2>1. ~\E k \in 1..Len(longer) : IsLatest(longer, ledger, k)
    BY <1>1, <1>2, <1>3, <1>5
  <2> QED BY <1>5, <2>1 DEF PowerIn, longer
<1> QED BY <1>4, <1>5

\* Without its oldest checkpoint a history answers as before, or has no answer.
LEMMA TailKeeps ==
  ASSUME NEW list \in Seq(Checkpoint), list # <<>>, NEW ledger \in Nat
  PROVE  PowerIn(Tail(list), ledger) \in {0, PowerIn(list, ledger)}
<1> DEFINE rest == Tail(list)
<1>1. /\ rest \in Seq(Checkpoint) /\ Len(rest) = Len(list) - 1 /\ Len(list) \in Nat
      /\ \A k \in 1..Len(rest) : rest[k] = list[k + 1]
  OBVIOUS
<1> HIDE DEF rest
<1>2. CASE \E k \in 1..Len(rest) : IsLatest(rest, ledger, k)
  <2>1. PICK k \in 1..Len(rest) : IsLatest(rest, ledger, k)
    BY <1>2
  <2>2. \A j \in (k + 2)..Len(list) : list[j].ledger > ledger
    <3>1. ASSUME NEW j \in (k + 2)..Len(list)
          PROVE  list[j].ledger > ledger
      <4>1. j - 1 \in (k + 1)..Len(rest) /\ j - 1 \in 1..Len(rest) /\ (j - 1) + 1 = j
        BY <1>1
      <4> QED BY <1>1, <2>1, <4>1 DEF IsLatest
    <3> QED BY <3>1
  <2>3. k + 1 \in 1..Len(list) /\ IsLatest(list, ledger, k + 1)
    BY <1>1, <2>1, <2>2 DEF IsLatest
  <2>4. PowerIn(list, ledger) = list[k + 1].power
    BY <2>3, PowerOfLatest
  <2>5. PowerIn(rest, ledger) = rest[k].power
    BY <1>1, <2>1, PowerOfLatest
  <2> QED BY <1>1, <2>4, <2>5 DEF rest
<1>3. CASE ~\E k \in 1..Len(rest) : IsLatest(rest, ledger, k)
  BY <1>3 DEF PowerIn, rest
<1> QED BY <1>2, <1>3

-----------------------------------------------------------------------------
(* The binary search.  Its loop is a recursive function of two bounds, and *)
(* so defined only if some function satisfies its equation: on a history   *)
(* in order that is the split of the history, clamped between the bounds.  *)

\* The ledgers of a history do not go down and are not in the future.
InOrder(list) ==
  \A j \in 1..Len(list) :
    list[j].ledger <= now /\ \A i \in 1..j : list[i].ledger <= list[j].ledger

\* The entries up to k, and no later one, are not after the ledger.
SplitsAt(list, ledger, k) ==
  /\ \A i \in 1..k : list[i].ledger <= ledger
  /\ \A i \in (k + 1)..Len(list) : ledger < list[i].ledger

\* The ledger of an entry is a number.
LEMMA LedgersAreNumbers ==
  ASSUME NEW list \in Seq(Checkpoint)
  PROVE  Len(list) \in Nat /\ \A i \in 1..Len(list) : list[i].ledger \in Nat
<1>1. \A i \in 1..Len(list) : list[i] \in Checkpoint
  OBVIOUS
<1>2. \A entry \in Checkpoint : entry.ledger \in Nat
  BY DEF Checkpoint
<1> QED BY <1>1, <1>2

\* A history in order splits at some place.
LEMMA SplitExists ==
  ASSUME NEW list \in Seq(Checkpoint), InOrder(list), NEW ledger \in Nat
  PROVE  \E k \in 0..Len(list) : SplitsAt(list, ledger, k)
<1> DEFINE T == {k \in 0..Len(list) : \A i \in (k + 1)..Len(list) : ledger < list[i].ledger}
<1>1. Len(list) \in Nat /\ \A i \in 1..Len(list) : list[i].ledger \in Nat
  BY LedgersAreNumbers
<1>2. Len(list) \in T /\ T \in SUBSET Nat
  BY <1>1
<1>3. PICK k \in T : \A m \in T : k <= m
  BY <1>2, LeastNatural
<1>4. k \in 0..Len(list) /\ \A i \in (k + 1)..Len(list) : ledger < list[i].ledger
  BY <1>3
<1>5. \A i \in 1..k : list[i].ledger <= ledger
  <2> SUFFICES ASSUME NEW i \in 1..k PROVE list[i].ledger <= ledger
    OBVIOUS
  <2>1. k - 1 \in 0..Len(list) /\ k - 1 \notin T
    <3>1. k \in Nat /\ k >= 1 /\ k <= Len(list)
      BY <1>1, <1>4
    <3> HIDE DEF T
    <3> QED BY <1>1, <1>3, <3>1
  <2>2. PICK j \in ((k - 1) + 1)..Len(list) : ~(ledger < list[j].ledger)
    BY <2>1
  <2>3. j = k
    BY <1>1, <1>4, <2>2
  <2>4. list[i].ledger <= list[k].ledger /\ i \in 1..Len(list) /\ k \in 1..Len(list)
    BY <1>1, <1>4 DEF InOrder
  <2> QED BY <1>1, <2>2, <2>3, <2>4
<1> QED BY <1>4, <1>5 DEF SplitsAt

\* What one turn of the loop makes of the later ones.
LoopStep(list, ledger, f, low, high) ==
  LET mid == (low + high) \div 2
  IN  IF low >= high THEN low
      ELSE IF GoRight(list[mid + 1], ledger) THEN f[<<mid + 1, high>>]
      ELSE f[<<low, mid>>]

\* The function that the loop's equation picks.
Loop(list, ledger) ==
  CHOOSE f : f = [bounds \in (0..Len(list)) \X (0..Len(list)) |->
                    LoopStep(list, ledger, f, bounds[1], bounds[2])]

LEMMA SearchIsLoop ==
  ASSUME NEW list, NEW ledger
  PROVE  SearchFrom(list, ledger) = Loop(list, ledger)[<<0, Len(list)>>]
  BY Zenon DEF SearchFrom, Loop, LoopStep

\* Where the loop ends, begun at low and high.
Clamp(k, low, high) == IF low >= high \/ k < low THEN low ELSE IF k > high THEN high ELSE k

\* The middle lies between the bounds, and the test there tells on which side of it
\* the split is: the clamped split satisfies the equation of the loop.
LEMMA ClampSteps ==
  ASSUME NEW list \in Seq(Checkpoint), NEW ledger \in Nat, NEW k \in 0..Len(list),
         SplitsAt(list, ledger, k), NEW low \in 0..Len(list), NEW high \in 0..Len(list),
         low < high
  PROVE  LET mid == (low + high) \div 2 IN
         /\ mid \in low..(high - 1)
         /\ Clamp(k, low, high) = IF GoRight(list[mid + 1], ledger)
                                  THEN Clamp(k, mid + 1, high) ELSE Clamp(k, low, mid)
<1> DEFINE mid == (low + high) \div 2
<1>1. Len(list) \in Nat /\ \A i \in 1..Len(list) : list[i].ledger \in Nat
  BY LedgersAreNumbers
<1>2. mid \in low..(high - 1)
  BY <1>1
<1> HIDE DEF mid
<1>3. mid + 1 \in 1..Len(list)
  BY <1>1, <1>2
<1>4. CASE mid + 1 <= k
  <2>1. GoRight(list[mid + 1], ledger)
    BY <1>1, <1>3, <1>4 DEF SplitsAt, GoRight
  <2>2. Clamp(k, low, high) = Clamp(k, mid + 1, high)
    BY <1>1, <1>2, <1>4 DEF Clamp
  <2> QED BY <1>2, <2>1, <2>2 DEF mid
<1>5. CASE ~(mid + 1 <= k)
  <2>1. mid + 1 \in (k + 1)..Len(list)
    BY <1>1, <1>2, <1>3, <1>5
  <2>2. ~GoRight(list[mid + 1], ledger)
    BY <1>1, <1>3, <2>1 DEF SplitsAt, GoRight
  <2>3. Clamp(k, low, high) = Clamp(k, low, mid)
    BY <1>1, <1>2, <1>5 DEF Clamp
  <2> QED BY <1>2, <2>2, <2>3 DEF mid
<1> QED BY <1>4, <1>5

\* So the loop satisfies its equation.
LEMMA LoopIsDefined ==
  ASSUME NEW list \in Seq(Checkpoint), NEW ledger \in Nat, NEW k \in 0..Len(list),
         SplitsAt(list, ledger, k), NEW low \in 0..Len(list), NEW high \in 0..Len(list)
  PROVE  Loop(list, ledger)[<<low, high>>]
           = LoopStep(list, ledger, Loop(list, ledger), low, high)
<1> DEFINE D == 0..Len(list)
           g == [b \in D \X D |-> Clamp(k, b[1], b[2])]
           Solves(f) == f = [b \in D \X D |-> LoopStep(list, ledger, f, b[1], b[2])]
<1>1. Len(list) \in Nat
  BY LedgersAreNumbers
<1>2. \A l \in D, h \in D : g[<<l, h>>] = Clamp(k, l, h)
  OBVIOUS
<1> HIDE DEF g
<1>3. ASSUME NEW l \in D, NEW h \in D
      PROVE  LoopStep(list, ledger, g, l, h) = Clamp(k, l, h)
  <2>1. CASE l >= h
    BY <2>1 DEF LoopStep, Clamp
  <2>2. CASE ~(l >= h)
    <3> DEFINE mid == (l + h) \div 2
    <3>1. l < h
      BY <1>1, <2>2
    <3>2. /\ mid \in l..(h - 1)
          /\ Clamp(k, l, h) = IF GoRight(list[mid + 1], ledger)
                              THEN Clamp(k, mid + 1, h) ELSE Clamp(k, l, mid)
      BY <3>1, ClampSteps
    <3>3. LoopStep(list, ledger, g, l, h)
            = IF GoRight(list[mid + 1], ledger) THEN g[<<mid + 1, h>>] ELSE g[<<l, mid>>]
      BY <2>2 DEF LoopStep
    <3> HIDE DEF mid
    <3>4. mid \in D /\ mid + 1 \in D
      BY <1>1, <3>1, <3>2
    <3>5. g[<<mid + 1, h>>] = Clamp(k, mid + 1, h) /\ g[<<l, mid>>] = Clamp(k, l, mid)
      BY <1>2, <3>4
    <3> QED BY <3>2, <3>3, <3>5
  <2> QED BY <2>1, <2>2
<1>4. \A b \in D \X D : LoopStep(list, ledger, g, b[1], b[2]) = Clamp(k, b[1], b[2])
  BY <1>3
<1>5. Solves(g)
  BY <1>4 DEF g
<1>6. Solves(Loop(list, ledger))
  <2>1. Loop(list, ledger) = CHOOSE f : Solves(f)
    BY Zenon DEF Loop
  <2> HIDE DEF Solves
  <2> QED BY <1>5, <2>1
<1> QED BY <1>6, Zenon

\* The loop ends at the split, by induction on the distance of the bounds.
LEMMA LoopFindsSplit ==
  ASSUME NEW list \in Seq(Checkpoint), NEW ledger \in Nat, NEW k \in 0..Len(list),
         SplitsAt(list, ledger, k)
  PROVE  Loop(list, ledger)[<<0, Len(list)>>] = k
<1> DEFINE D == 0..Len(list)
           loop == Loop(list, ledger)
           Bad(n) == \E l \in D, h \in D : h = l + n /\ loop[<<l, h>>] # Clamp(k, l, h)
           Wrong == {n \in Nat : Bad(n)}
<1>1. Len(list) \in Nat
  BY LedgersAreNumbers
<1>2. Wrong = {}
  <2> SUFFICES ASSUME Wrong # {} PROVE FALSE
    OBVIOUS
  <2> HIDE DEF Bad
  <2>1. PICK n \in Wrong : \A m \in Wrong : n <= m
    <3>1. Wrong \in SUBSET Nat
      OBVIOUS
    <3> HIDE DEF Wrong
    <3> QED BY <3>1, LeastNatural
  <2>2. n \in Nat /\ Bad(n) /\ \A m \in Nat : m < n => ~Bad(m)
    BY <2>1
  <2>3. PICK l \in D, h \in D : h = l + n /\ loop[<<l, h>>] # Clamp(k, l, h)
    BY <2>2 DEF Bad
  <2>4. loop[<<l, h>>] = LoopStep(list, ledger, loop, l, h)
    BY LoopIsDefined, Zenon
  <2> HIDE DEF loop
  <2>5. ASSUME NEW i \in D, NEW j \in D, i <= j, j - i < n
        PROVE  loop[<<i, j>>] = Clamp(k, i, j)
    <3>1. j - i \in Nat /\ j = i + (j - i)
      BY <1>1, <2>5
    <3> QED BY <2>2, <2>5, <3>1 DEF Bad
  <2>6. CASE l >= h
    BY <2>3, <2>4, <2>6 DEF LoopStep, Clamp
  <2>7. CASE ~(l >= h)
    <3> DEFINE mid == (l + h) \div 2
    <3>1. l < h
      BY <1>1, <2>7
    <3>2. /\ mid \in l..(h - 1)
          /\ Clamp(k, l, h) = IF GoRight(list[mid + 1], ledger)
                              THEN Clamp(k, mid + 1, h) ELSE Clamp(k, l, mid)
      BY <3>1, ClampSteps
    <3>3. LoopStep(list, ledger, loop, l, h)
            = IF GoRight(list[mid + 1], ledger) THEN loop[<<mid + 1, h>>] ELSE loop[<<l, mid>>]
      BY <2>7 DEF LoopStep
    <3> HIDE DEF mid
    <3>4. /\ mid \in D /\ mid + 1 \in D /\ mid + 1 <= h /\ l <= mid
          /\ h - (mid + 1) < n /\ mid - l < n
      BY <1>1, <2>2, <2>3, <3>1, <3>2
    <3>5. loop[<<mid + 1, h>>] = Clamp(k, mid + 1, h) /\ loop[<<l, mid>>] = Clamp(k, l, mid)
      BY <2>5, <3>4
    <3> QED BY <2>3, <2>4, <3>2, <3>3, <3>5
  <2> QED BY <2>6, <2>7
<1>3. ~Bad(Len(list))
  <2> HIDE DEF Bad
  <2> QED BY <1>1, <1>2
<1>4. loop[<<0, Len(list)>>] = Clamp(k, 0, Len(list))
  <2>1. 0 \in D /\ Len(list) \in D /\ Len(list) = 0 + Len(list)
    BY <1>1
  <2> HIDE DEF D, loop
  <2> QED BY <1>3, <2>1
<1> HIDE DEF loop
<1>5. Clamp(k, 0, Len(list)) = k
  BY <1>1 DEF Clamp
<1> QED BY <1>4, <1>5 DEF loop

\* What is at the split is the latest checkpoint that is not after the ledger.
LEMMA SearchIsRight ==
  ASSUME NEW list \in Seq(Checkpoint), InOrder(list), NEW ledger \in Nat
  PROVE  BinarySearch(list, ledger) = PowerIn(list, ledger)
<1>1. Len(list) \in Nat /\ \A i \in 1..Len(list) : list[i].ledger \in Nat
  BY LedgersAreNumbers
<1>2. PICK k \in 0..Len(list) : SplitsAt(list, ledger, k)
  BY SplitExists
<1>3. SearchFrom(list, ledger) = k
  BY <1>2, LoopFindsSplit, SearchIsLoop
<1>4. CASE k = 0
  <2>1. ~\E j \in 1..Len(list) : IsLatest(list, ledger, j)
    BY <1>1, <1>2, <1>4 DEF SplitsAt, IsLatest
  <2> QED BY <1>3, <1>4, <2>1 DEF BinarySearch, PowerIn
<1>5. CASE k # 0
  <2>1. k \in 1..Len(list) /\ IsLatest(list, ledger, k)
    BY <1>1, <1>2, <1>5 DEF SplitsAt, IsLatest
  <2>2. PowerIn(list, ledger) = list[k].power
    BY <2>1, PowerOfLatest
  <2> QED BY <1>3, <1>5, <2>2 DEF BinarySearch
<1> QED BY <1>4, <1>5

-----------------------------------------------------------------------------
(* The invariant.                                                          *)

\* sync_power and set_config leave proposals alone.
LEMMA QuietSteps ==
  ASSUME Inv, UNCHANGED <<count, proposal, vote, scheduled, performed>>,
         now' \in {now, now + 1}, config' \in Config,
         checkpoints' \in [Accounts -> Seq(Checkpoint)]
  PROVE  Inv'
<1>1. now' \in Nat /\ now' >= now /\ now' > 0
  BY DEF Inv, TypeOK
<1>2. TypeOK'
  BY <1>1 DEF Inv, TypeOK
<1>3. QueuedWasCarried'
  BY <1>1 DEF Inv, TypeOK, QueuedWasCarried, Proposal
<1>4. TimelockAskedOnce'
  BY DEF Inv, TimelockAskedOnce
<1> QED BY <1>1, <1>2, <1>3, <1>4 DEF Inv

\* sync_power keeps a list of checkpoints.
LEMMA SyncType ==
  ASSUME Inv, NEW a \in Accounts, NEW power \in Bonds, SyncPower(a, power)
  PROVE  checkpoints' \in [Accounts -> Seq(Checkpoint)]
<1> DEFINE longer == Append(checkpoints[a], [ledger |-> now, power |-> power])
<1>1. [ledger |-> now, power |-> power] \in Checkpoint
  BY GovernorAssumption DEF Inv, TypeOK, Checkpoint
<1>2. longer \in Seq(Checkpoint) /\ longer # <<>>
  <2>1. checkpoints[a] \in Seq(Checkpoint)
    BY DEF Inv, TypeOK
  <2> QED BY <1>1, <2>1
<1> HIDE DEF longer
<1>3. Capped(longer) \in Seq(Checkpoint)
  BY <1>2 DEF Capped
<1>4. checkpoints' = [checkpoints EXCEPT ![a] = Capped(longer)]
  BY DEF SyncPower, WriteCheckpoint, longer
<1> QED BY <1>3, <1>4 DEF Inv, TypeOK

\* What the invariant says of one proposal.
CarriedIfQueued(p) ==
  proposal[p].eta # 0 \/ proposal[p].executed =>
    /\ proposal[p].tally["For"] > proposal[p].tally["Against"]
    /\ proposal[p].deadline < now

AskedOnce(p) ==
  /\ scheduled[p] = IF proposal[p].eta # 0 THEN 1 ELSE 0
  /\ performed[p] = IF proposal[p].executed THEN 1 ELSE 0
  /\ performed[p] <= scheduled[p]

\* The calls that change one proposal and its place in the timelock.
LEMMA OneProposal ==
  ASSUME Inv, NEW p \in ProposalIds, UNCHANGED <<now, config, checkpoints>>,
         count' \in Nat, count' >= count, p < count',
         proposal' \in [ProposalIds -> Proposal],
         vote' \in [ProposalIds -> [Accounts -> Nat]],
         scheduled' \in [ProposalIds -> Nat], performed' \in [ProposalIds -> Nat],
         \A q \in ProposalIds \ {p} :
           /\ proposal'[q] = proposal[q]
           /\ scheduled'[q] = scheduled[q] /\ performed'[q] = performed[q],
         CarriedIfQueued(p)', AskedOnce(p)'
  PROVE  Inv'
<1>1. TypeOK'
  <2>1. \A q \in ProposalIds : q >= count' => q \in Nat /\ q >= count /\ q # p
    BY GovernorAssumption DEF Inv, TypeOK
  <2>2. \A q \in ProposalIds : q >= count' => proposal'[q] = NoProposal
    BY <2>1 DEF Inv, TypeOK
  <2> QED BY <2>2 DEF Inv, TypeOK
<1>2. QueuedWasCarried'
  BY DEF Inv, QueuedWasCarried, CarriedIfQueued
<1>3. TimelockAskedOnce'
  <2>1. ASSUME NEW q \in ProposalIds
        PROVE  AskedOnce(q)'
    <3>1. CASE q # p
      <4>1. AskedOnce(q)
        BY DEF Inv, TimelockAskedOnce, AskedOnce
      <4>2. /\ proposal'[q] = proposal[q]
            /\ scheduled'[q] = scheduled[q] /\ performed'[q] = performed[q]
        BY <3>1
      <4> QED BY <4>1, <4>2, Zenon DEF AskedOnce
    <3> QED BY <3>1
  <2> QED BY <2>1, Zenon DEF TimelockAskedOnce, AskedOnce
<1> QED BY <1>1, <1>2, <1>3 DEF Inv

\* A new proposal is one the timelock knows nothing of.
LEMMA ProposeStep ==
  ASSUME Inv, NEW a \in Accounts, Propose(a)
  PROVE  Inv'
<1> DEFINE d == now + config.voting_delay + config.voting_period
           r == [NoProposal EXCEPT !.proposer = a, !.snapshot = now, !.deadline = d]
<1>1. /\ count \in ProposalIds /\ count' = count + 1 /\ count \in Nat
      /\ proposal' = [proposal EXCEPT ![count] = r]
      /\ UNCHANGED <<now, config, checkpoints, vote, scheduled, performed>>
  BY DEF Propose, timelockVars, Inv, TypeOK
<1>2. d \in Nat /\ now \in Nat
  BY DEF Inv, TypeOK, Config
<1> HIDE DEF d
<1>3. NoProposal \in Proposal /\ NoProposal.eta = 0 /\ NoProposal.executed = FALSE
  BY DEF NoProposal, Proposal, VoteType
<1>4. r \in Proposal /\ r.eta = 0 /\ r.executed = FALSE
  BY <1>2, <1>3 DEF Proposal
<1> HIDE DEF r
<1>5. PICK p \in ProposalIds : p = count
  BY <1>1
<1>6. /\ proposal' \in [ProposalIds -> Proposal] /\ proposal'[p] = r
      /\ \A q \in ProposalIds \ {p} : proposal'[q] = proposal[q]
  BY <1>1, <1>4, <1>5 DEF Inv, TypeOK
<1>7. scheduled[p] = 0 /\ performed[p] = 0
  BY <1>5 DEF Inv, TypeOK, TimelockAskedOnce, NoProposal
<1>8. AskedOnce(p)' /\ CarriedIfQueued(p)'
  BY <1>1, <1>4, <1>6, <1>7 DEF AskedOnce, CarriedIfQueued
<1>9. p < count' /\ count' >= count /\ count' \in Nat
  BY <1>1, <1>5
<1>10. /\ vote' \in [ProposalIds -> [Accounts -> Nat]]
       /\ scheduled' \in [ProposalIds -> Nat] /\ performed' \in [ProposalIds -> Nat]
  BY <1>1 DEF Inv, TypeOK
<1> QED BY <1>1, <1>6, <1>8, <1>9, <1>10, OneProposal

\* A cancellation changes neither a vote nor the timelock.
LEMMA CancelStep ==
  ASSUME Inv, NEW p \in ProposalIds, NEW byTimelock \in BOOLEAN, Cancel(p, byTimelock)
  PROVE  Inv'
<1>1. /\ p < count /\ proposal' = [proposal EXCEPT ![p].canceled = TRUE]
      /\ UNCHANGED <<now, config, checkpoints, count, vote, scheduled, performed>>
  BY DEF Cancel, Exists, timelockVars
<1>2. /\ proposal' \in [ProposalIds -> Proposal]
      /\ \A q \in ProposalIds \ {p} : proposal'[q] = proposal[q]
      /\ proposal'[p].eta = proposal[p].eta
      /\ proposal'[p].executed = proposal[p].executed
      /\ proposal'[p].tally = proposal[p].tally
      /\ proposal'[p].deadline = proposal[p].deadline
  <2>1. proposal \in [ProposalIds -> Proposal]
    BY DEF Inv, TypeOK
  <2>2. proposal' = [proposal EXCEPT ![p] = [@ EXCEPT !.canceled = TRUE]]
    BY <1>1, <2>1
  <2>3. [proposal[p] EXCEPT !.canceled = TRUE] \in Proposal
    BY <2>1 DEF Proposal
  <2> QED BY <2>1, <2>2, <2>3 DEF Proposal
<1>3. AskedOnce(p) /\ CarriedIfQueued(p)
  BY DEF Inv, AskedOnce, TimelockAskedOnce, CarriedIfQueued, QueuedWasCarried
<1>4. AskedOnce(p)' /\ CarriedIfQueued(p)'
  BY <1>1, <1>2, <1>3, Zenon DEF AskedOnce, CarriedIfQueued
<1>5. /\ count' \in Nat /\ count' >= count /\ p < count'
      /\ vote' \in [ProposalIds -> [Accounts -> Nat]]
      /\ scheduled' \in [ProposalIds -> Nat] /\ performed' \in [ProposalIds -> Nat]
  BY <1>1 DEF Inv, TypeOK
<1> QED BY <1>1, <1>2, <1>4, <1>5, OneProposal

\* A vote is cast by the deadline, so on nothing that is queued.
LEMMA CastVoteStep ==
  ASSUME Inv, NEW a \in Accounts, NEW p \in ProposalIds, NEW support \in VoteType,
         CastVote(a, p, support)
  PROVE  Inv'
<1> DEFINE power == PowerAt(a, proposal[p].snapshot)
<1>1. power \in Nat
  BY PowerType DEF PowerAt, Inv, TypeOK
<1>2. /\ p < count /\ now <= proposal[p].deadline
      /\ proposal' = [proposal EXCEPT ![p].tally[support] = @ + power]
      /\ vote' = [vote EXCEPT ![p][a] = power]
      /\ UNCHANGED <<now, config, checkpoints, count, scheduled, performed>>
  BY DEF CastVote, Exists, VotingOpen, timelockVars
<1> HIDE DEF power
<1>3. proposal[p] \in Proposal /\ proposal[p].tally \in [VoteType -> Nat]
  BY DEF Inv, TypeOK, Proposal
<1>4. [proposal[p].tally EXCEPT ![support] = @ + power] \in [VoteType -> Nat]
  BY <1>1, <1>3
<1>5. /\ proposal' \in [ProposalIds -> Proposal]
      /\ \A q \in ProposalIds \ {p} : proposal'[q] = proposal[q]
      /\ proposal'[p].eta = proposal[p].eta
      /\ proposal'[p].executed = proposal[p].executed
  BY <1>2, <1>3, <1>4 DEF Inv, TypeOK, Proposal
<1>6. proposal[p].eta = 0 /\ ~proposal[p].executed
  <2>1. ~(proposal[p].deadline < now)
    BY <1>2, <1>3 DEF Inv, TypeOK, Proposal
  <2>2. CarriedIfQueued(p)
    BY DEF Inv, CarriedIfQueued, QueuedWasCarried
  <2> QED BY <2>1, <2>2, Zenon DEF CarriedIfQueued
<1>7. CarriedIfQueued(p)'
  BY <1>5, <1>6, Zenon DEF CarriedIfQueued
<1>8. AskedOnce(p)
  BY DEF Inv, AskedOnce, TimelockAskedOnce
<1>9. AskedOnce(p)'
  BY <1>2, <1>5, <1>8, Zenon DEF AskedOnce
<1>10. /\ count' \in Nat /\ count' >= count /\ p < count'
       /\ vote' \in [ProposalIds -> [Accounts -> Nat]]
       /\ scheduled' \in [ProposalIds -> Nat] /\ performed' \in [ProposalIds -> Nat]
  BY <1>1, <1>2 DEF Inv, TypeOK
<1> QED BY <1>2, <1>5, <1>7, <1>9, <1>10, OneProposal

\* A carried proposal is scheduled for the first time.
LEMMA QueueStep ==
  ASSUME Inv, NEW p \in ProposalIds, Queue(p)
  PROVE  Inv'
<1> DEFINE e == now + config.voting_delay
<1>1. /\ p < count /\ proposal' = [proposal EXCEPT ![p].eta = e]
      /\ scheduled' = [scheduled EXCEPT ![p] = @ + 1]
      /\ UNCHANGED <<now, config, checkpoints, count, vote, performed>>
  BY DEF Queue, Exists
<1>2. /\ proposal[p].eta = 0 /\ ~proposal[p].executed /\ now > proposal[p].deadline
      /\ proposal[p].tally["For"] > proposal[p].tally["Against"]
  BY DEF Queue, Succeeded, Carried
<1>3. e \in Nat /\ e # 0
  BY DEF Inv, TypeOK, Config
<1> HIDE DEF e
<1>4. /\ proposal' \in [ProposalIds -> Proposal] /\ proposal'[p].eta = e
      /\ \A q \in ProposalIds \ {p} : proposal'[q] = proposal[q]
      /\ proposal'[p].executed = proposal[p].executed
      /\ proposal'[p].tally = proposal[p].tally
      /\ proposal'[p].deadline = proposal[p].deadline /\ proposal[p].deadline \in Nat
  <2>1. proposal \in [ProposalIds -> Proposal]
    BY DEF Inv, TypeOK
  <2>2. proposal' = [proposal EXCEPT ![p] = [@ EXCEPT !.eta = e]]
    BY <1>1, <2>1
  <2>3. [proposal[p] EXCEPT !.eta = e] \in Proposal
    BY <1>3, <2>1 DEF Proposal
  <2> QED BY <2>1, <2>2, <2>3 DEF Proposal
<1>5. scheduled[p] = 0 /\ performed[p] = 0
  BY <1>2 DEF Inv, TimelockAskedOnce
<1>6. /\ scheduled' \in [ProposalIds -> Nat] /\ scheduled'[p] = 1 /\ performed'[p] = 0
      /\ \A q \in ProposalIds \ {p} : scheduled'[q] = scheduled[q]
  BY <1>1, <1>5 DEF Inv, TypeOK
<1>7. AskedOnce(p)'
  BY <1>2, <1>3, <1>4, <1>6 DEF AskedOnce
<1>8. now' > proposal'[p].deadline /\ now' \in Nat
  BY <1>1, <1>2, <1>4 DEF Inv, TypeOK
<1>9. CarriedIfQueued(p)'
  BY <1>2, <1>4, <1>8 DEF CarriedIfQueued
<1>10. /\ count' \in Nat /\ count' >= count /\ p < count'
       /\ vote' \in [ProposalIds -> [Accounts -> Nat]]
       /\ performed' \in [ProposalIds -> Nat]
  BY <1>1 DEF Inv, TypeOK
<1> QED BY <1>1, <1>4, <1>6, <1>7, <1>9, <1>10, OneProposal

\* A queued proposal is executed for the first time.
LEMMA ExecuteStep ==
  ASSUME Inv, NEW p \in ProposalIds, Execute(p)
  PROVE  Inv'
<1>1. /\ p < count /\ proposal' = [proposal EXCEPT ![p].executed = TRUE]
      /\ performed' = [performed EXCEPT ![p] = @ + 1]
      /\ proposal[p].eta # 0 /\ ~proposal[p].executed
      /\ UNCHANGED <<now, config, checkpoints, count, vote, scheduled>>
  BY DEF Execute, Exists, Due
<1>2. /\ proposal' \in [ProposalIds -> Proposal] /\ proposal'[p].executed = TRUE
      /\ \A q \in ProposalIds \ {p} : proposal'[q] = proposal[q]
      /\ proposal'[p].eta = proposal[p].eta
      /\ proposal'[p].tally = proposal[p].tally
      /\ proposal'[p].deadline = proposal[p].deadline
  BY <1>1 DEF Inv, TypeOK, Proposal
<1>3. scheduled[p] = 1 /\ performed[p] = 0
  BY <1>1 DEF Inv, TimelockAskedOnce
<1>4. /\ performed' \in [ProposalIds -> Nat] /\ scheduled'[p] = 1 /\ performed'[p] = 1
      /\ \A q \in ProposalIds \ {p} : performed'[q] = performed[q]
  BY <1>1, <1>3 DEF Inv, TypeOK
<1>5. AskedOnce(p)'
  BY <1>1, <1>2, <1>4 DEF AskedOnce
<1>6. CarriedIfQueued(p)'
  BY <1>1, <1>2 DEF CarriedIfQueued, Inv, QueuedWasCarried
<1>7. /\ count' \in Nat /\ count' >= count /\ p < count'
      /\ vote' \in [ProposalIds -> [Accounts -> Nat]]
      /\ scheduled' \in [ProposalIds -> Nat]
  BY <1>1 DEF Inv, TypeOK
<1> QED BY <1>1, <1>2, <1>4, <1>5, <1>6, <1>7, OneProposal

\* Every step keeps the invariant.
LEMMA InvKept == Inv /\ [Next]_vars => Inv'
<1> SUFFICES ASSUME Inv, [Next]_vars PROVE Inv'
  OBVIOUS
<1> USE DEF pollVars, timelockVars
<1>1. CASE Tick \/ UNCHANGED vars
  BY <1>1, QuietSteps DEF Tick, vars, Inv, TypeOK
<1>2. ASSUME NEW c \in Configs, SetConfig(c)
      PROVE  Inv'
  BY <1>2, QuietSteps, GovernorAssumption DEF SetConfig, Inv, TypeOK
<1>3. ASSUME NEW a \in Accounts, NEW power \in Bonds, SyncPower(a, power)
      PROVE  Inv'
  <2>1. checkpoints' \in [Accounts -> Seq(Checkpoint)]
    BY <1>3, SyncType
  <2>2. UNCHANGED <<now, config, count, proposal, vote, scheduled, performed>>
    BY <1>3 DEF SyncPower
  <2> QED BY <2>1, <2>2, QuietSteps DEF Inv, TypeOK
<1> QED
  BY <1>1, <1>2, <1>3, ProposeStep, CancelStep, CastVoteStep, QueueStep, ExecuteStep
     DEF Next, VoterCall, ProposalCall

\* Nothing is proposed yet.
LEMMA InvStart == Init => Inv
<1> SUFFICES ASSUME Init PROVE Inv
  OBVIOUS
<1>1. TypeOK
  <2>1. NoProposal \in Proposal
    BY DEF NoProposal, Proposal, VoteType
  <2>2. checkpoints \in [Accounts -> Seq(Checkpoint)]
    BY DEF Init
  <2> QED BY <2>1, <2>2, GovernorAssumption DEF Init, TypeOK
<1>2. QueuedWasCarried /\ TimelockAskedOnce
  BY DEF Init, QueuedWasCarried, TimelockAskedOnce, NoProposal
<1> QED BY <1>1, <1>2 DEF Init, Inv

\* The invariant holds in every reachable state.
LEMMA Invariance == Spec => []Inv
  BY InvStart, InvKept, PTL DEF Spec

-----------------------------------------------------------------------------
(* The theorems.                                                           *)

\* Every variable keeps its type.
THEOREM TypeCorrect == Spec => []TypeOK
  BY Invariance, PTL DEF Inv

\* What is queued or executed was carried in a vote that is over.
THEOREM OnlyCarriedIsQueued == Spec => []QueuedWasCarried
  BY Invariance, PTL DEF Inv

\* The timelock is asked once for each queued proposal, and once to execute it.
THEOREM TimelockIsAskedOnce == Spec => []TimelockAskedOnce
  BY Invariance, PTL DEF Inv

Ordered == \A a \in Accounts : InOrder(checkpoints[a])

\* A checkpoint is written at the end with the current ledger, and the oldest leaves.
LEMMA SyncKeepsOrder ==
  ASSUME Inv, Ordered, NEW a \in Accounts, NEW power \in Bonds, SyncPower(a, power)
  PROVE  Ordered'
<1> DEFINE entry == [ledger |-> now, power |-> power]
           list == checkpoints[a]
           longer == Append(list, entry)
           rest == Tail(longer)
<1>1. now \in Nat /\ list \in Seq(Checkpoint) /\ now' = now
  BY DEF Inv, TypeOK, SyncPower
<1>2. entry \in Checkpoint /\ entry.ledger = now
  BY <1>1, GovernorAssumption DEF Checkpoint
<1>3. checkpoints' = [checkpoints EXCEPT ![a] = Capped(longer)]
  BY DEF SyncPower, WriteCheckpoint
<1>4. InOrder(list)
  BY DEF Ordered
<1>5. Len(list) \in Nat /\ \A i \in 1..Len(list) : list[i].ledger \in Nat
  BY <1>1, LedgersAreNumbers
<1> HIDE DEF entry
<1>6. /\ longer \in Seq(Checkpoint) /\ longer # <<>> /\ Len(longer) = Len(list) + 1
      /\ \A i \in 1..Len(list) : longer[i] = list[i]
      /\ longer[Len(list) + 1] = entry
  BY <1>1, <1>2
<1> HIDE DEF list, longer
<1>7. InOrder(longer)
  BY <1>1, <1>2, <1>4, <1>5, <1>6 DEF InOrder
<1>8. InOrder(rest)
  <2>1. Len(rest) = Len(longer) - 1 /\ \A i \in 1..Len(rest) : rest[i] = longer[i + 1]
    BY <1>6
  <2> HIDE DEF rest
  <2> SUFFICES ASSUME NEW j \in 1..Len(rest), NEW i \in 1..j
               PROVE  rest[j].ledger <= now /\ rest[i].ledger <= rest[j].ledger
    BY DEF InOrder
  <2>2. j + 1 \in 1..Len(longer) /\ i + 1 \in 1..(j + 1) /\ i \in 1..Len(rest)
    BY <1>5, <1>6, <2>1
  <2>3. longer[j + 1].ledger <= now /\ longer[i + 1].ledger <= longer[j + 1].ledger
    BY <1>7, <2>2 DEF InOrder
  <2> QED BY <2>1, <2>2, <2>3
<1>9. InOrder(Capped(longer))
  BY <1>7, <1>8 DEF Capped
<1>10. ASSUME NEW b \in Accounts
       PROVE  InOrder(checkpoints'[b])
  BY <1>3, <1>9 DEF Ordered, Inv, TypeOK
<1> QED BY <1>1, <1>10 DEF Ordered, InOrder

\* Every step keeps the histories in order.
LEMMA OrderKept == Inv /\ Ordered /\ [Next]_vars => Ordered'
<1> SUFFICES ASSUME Inv, Ordered, [Next]_vars PROVE Ordered'
  OBVIOUS
<1>1. CASE UNCHANGED checkpoints /\ now' \in {now, now + 1}
  <2> SUFFICES ASSUME NEW a \in Accounts PROVE InOrder(checkpoints[a])'
    BY DEF Ordered
  <2>1. checkpoints[a] \in Seq(Checkpoint) /\ now \in Nat /\ InOrder(checkpoints[a])
    BY DEF Inv, TypeOK, Ordered
  <2>2. PICK list : list = checkpoints[a]
    OBVIOUS
  <2>3. \A i \in 1..Len(list) : list[i].ledger \in Nat
    BY <2>1, <2>2, LedgersAreNumbers
  <2>4. checkpoints'[a] = list
    BY <1>1, <2>2
  <2> QED BY <1>1, <2>1, <2>2, <2>3, <2>4 DEF InOrder
<1>2. CASE \E a \in Accounts, power \in Bonds : SyncPower(a, power)
  BY <1>2, SyncKeepsOrder
<1> QED
  BY <1>1, <1>2 DEF Next, VoterCall, ProposalCall, Tick, Propose, CastVote, Cancel, Queue,
     Execute, SetConfig, vars

\* The binary search finds the latest checkpoint that is not after the ledger asked for.
THEOREM SearchIsExact == Spec => []SearchFindsLatest
<1>1. Init => Ordered
  BY DEF Init, Ordered, InOrder
<1>2. Inv /\ Ordered => SearchFindsLatest
  BY SearchIsRight DEF Inv, TypeOK, Ordered, SearchFindsLatest, PowerAt
<1> QED BY <1>1, <1>2, OrderKept, Invariance, PTL DEF Spec

\* A vote adds its power to the tally and to its voter's record, where none was.
LEMMA TallyKept == Inv /\ TallyIsVotes /\ [Next]_vars => TallyIsVotes'
<1> SUFFICES ASSUME Inv, TallyIsVotes, [Next]_vars, NEW p \in ProposalIds
             PROVE  (TotalVotes(p) = SumFunctionOnSet(vote[p], Accounts))'
  BY DEF TallyIsVotes
<1>1. /\ proposal \in [ProposalIds -> Proposal] /\ count \in Nat
      /\ vote \in [ProposalIds -> [Accounts -> Nat]]
      /\ TotalVotes(p) = SumFunctionOnSet(vote[p], Accounts)
  BY DEF Inv, TypeOK, TallyIsVotes
<1>2. CASE proposal'[p].tally = proposal[p].tally /\ vote'[p] = vote[p]
  BY <1>1, <1>2 DEF TotalVotes
<1>3. ASSUME NEW a \in Accounts, Propose(a)
      PROVE  proposal'[p].tally = proposal[p].tally /\ vote'[p] = vote[p]
  <2>1. CASE p = count
    <3>1. proposal[p] = NoProposal
      BY <1>1, <2>1 DEF Inv, TypeOK
    <3>2. proposal'[p].tally = NoProposal.tally
      BY <1>1, <1>3, <2>1 DEF Propose, NoProposal
    <3> QED BY <1>3, <3>1, <3>2 DEF Propose
  <2>2. CASE p # count
    BY <1>1, <1>3, <2>2 DEF Propose
  <2> QED BY <2>1, <2>2
<1>4. ASSUME NEW a \in Accounts, NEW support \in VoteType, CastVote(a, p, support)
      PROVE  (TotalVotes(p) = SumFunctionOnSet(vote[p], Accounts))'
  <2> DEFINE power == PowerAt(a, proposal[p].snapshot)
             tally == proposal[p].tally
  <2>1. power \in Nat
    BY PowerType DEF PowerAt, Inv, TypeOK
  <2>2. tally \in [VoteType -> Nat]
    BY <1>1 DEF Proposal
  <2>3. /\ proposal' = [proposal EXCEPT ![p].tally[support] = @ + power]
        /\ vote' = [vote EXCEPT ![p][a] = power] /\ vote[p][a] = 0
    BY <1>4 DEF CastVote, HasNotVoted
  <2> HIDE DEF power
  <2>4. proposal'[p].tally = [tally EXCEPT ![support] = @ + power]
    BY <1>1, <2>3 DEF Proposal
  <2> HIDE DEF tally
  <2>5. TotalVotes(p)' = TotalVotes(p) + power
    BY <2>1, <2>2, <2>4 DEF TotalVotes, VoteType, tally
  <2>6. PICK f, g : f = vote[p] /\ g = vote'[p]
    OBVIOUS
  <2>7. \A b \in Accounts : f[b] \in Int /\ g[b] \in Int /\ (b # a => g[b] = f[b])
    BY <1>1, <2>1, <2>3, <2>6
  <2>8. g[a] = power /\ f[a] = 0
    BY <1>1, <2>3, <2>6
  <2>9. SumFunctionOnSet(g, Accounts) = SumFunctionOnSet(f, Accounts) + g[a] - f[a]
    BY <2>7, SumChanges, GovernorAssumption
  <2>10. SumFunctionOnSet(f, Accounts) \in Int
    BY <2>7, SumIsInt, GovernorAssumption
  <2> QED BY <1>1, <2>1, <2>5, <2>6, <2>8, <2>9, <2>10
<1>5. ASSUME NEW a \in Accounts, NEW q \in ProposalIds, NEW support \in VoteType,
             CastVote(a, q, support), q # p
      PROVE  proposal'[p].tally = proposal[p].tally /\ vote'[p] = vote[p]
  BY <1>1, <1>5 DEF CastVote
<1>6. ASSUME NEW q \in ProposalIds, ProposalCall(q)
      PROVE  proposal'[p].tally = proposal[p].tally /\ vote'[p] = vote[p]
  <2>1. vote' = vote /\ \A r \in ProposalIds \ {q} : proposal'[r] = proposal[r]
    BY <1>1, <1>6 DEF ProposalCall, Cancel, Queue, Execute, pollVars, timelockVars
  <2>2. proposal'[q].tally = proposal[q].tally
    BY <1>1, <1>6 DEF ProposalCall, Cancel, Queue, Execute, Proposal
  <2> QED BY <2>1, <2>2
<1>7. CASE proposal' = proposal /\ vote' = vote
  BY <1>2, <1>7
<1>8. ASSUME NEW a \in Accounts, VoterCall(a)
      PROVE  (TotalVotes(p) = SumFunctionOnSet(vote[p], Accounts))'
  BY <1>2, <1>3, <1>4, <1>5, <1>7, <1>8 DEF VoterCall, SyncPower, pollVars
<1> QED
  BY <1>2, <1>6, <1>7, <1>8 DEF Next, Tick, SetConfig, vars, pollVars

\* The tally of a proposal is the sum of the powers recorded for its voters.
THEOREM TalliesAreVotes == Spec => []TallyIsVotes
<1>1. Init => TallyIsVotes
  <2> SUFFICES ASSUME Init, NEW p \in ProposalIds
               PROVE  TotalVotes(p) = SumFunctionOnSet(vote[p], Accounts)
    BY DEF TallyIsVotes
  <2>1. TotalVotes(p) = 0
    BY DEF Init, TotalVotes, NoProposal, VoteType
  <2>2. SumFunctionOnSet(vote[p], Accounts) = 0 * Cardinality(Accounts)
    BY SumOfEqual, GovernorAssumption DEF Init
  <2>3. Cardinality(Accounts) \in Nat
    BY FS_CardinalityType, GovernorAssumption
  <2> QED BY <2>1, <2>2, <2>3
<1> QED BY <1>1, TallyKept, Invariance, PTL DEF Spec

VotesFinalStep ==
  \A p \in ProposalIds :
    Exists(p) /\ now > proposal[p].deadline =>
      proposal'[p].tally = proposal[p].tally /\ vote'[p] = vote[p]

\* After its deadline a proposal's votes are final.
THEOREM VotesAreFinal == Spec => VotesFinal
<1>1. ASSUME Inv, [Next]_vars PROVE VotesFinalStep
  <2> SUFFICES ASSUME NEW p \in ProposalIds, p < count, now > proposal[p].deadline
               PROVE  proposal'[p].tally = proposal[p].tally /\ vote'[p] = vote[p]
    BY DEF VotesFinalStep, Exists
  <2> USE DEF pollVars, timelockVars
  <2>1. /\ proposal \in [ProposalIds -> Proposal] /\ now \in Nat /\ count \in Nat
        /\ vote \in [ProposalIds -> [Accounts -> Nat]]
    BY <1>1 DEF Inv, TypeOK
  <2>2. CASE Tick \/ UNCHANGED vars \/ \E c \in Configs : SetConfig(c)
    BY <2>2 DEF Tick, vars, SetConfig
  <2>3. ASSUME NEW a \in Accounts, NEW power \in Bonds, SyncPower(a, power)
        PROVE  proposal' = proposal /\ vote' = vote
    BY <2>3 DEF SyncPower
  <2>4. ASSUME NEW a \in Accounts, Propose(a)
        PROVE  proposal'[p] = proposal[p] /\ vote' = vote
    BY <2>1, <2>4 DEF Propose
  <2>5. ASSUME NEW a \in Accounts, NEW q \in ProposalIds, NEW support \in VoteType,
               CastVote(a, q, support)
        PROVE  proposal'[p] = proposal[p] /\ vote'[p] = vote[p]
    <3>1. now <= proposal[q].deadline /\ proposal[q].deadline \in Nat
          /\ proposal[p].deadline \in Nat
      BY <2>1, <2>5 DEF CastVote, VotingOpen, Proposal
    <3>2. q # p
      BY <2>1, <3>1
    <3> QED BY <2>1, <2>5, <3>2 DEF CastVote
  <2>6. ASSUME NEW q \in ProposalIds, ProposalCall(q)
        PROVE  proposal'[p].tally = proposal[p].tally /\ vote' = vote
    <3>1. vote' = vote /\ \A r \in ProposalIds \ {q} : proposal'[r] = proposal[r]
      BY <2>1, <2>6 DEF ProposalCall, Cancel, Queue, Execute
    <3>2. proposal'[q].tally = proposal[q].tally
      BY <2>1, <2>6 DEF ProposalCall, Cancel, Queue, Execute, Proposal
    <3> QED BY <3>1, <3>2
  <2> QED
    BY <1>1, <2>2, <2>3, <2>4, <2>5, <2>6 DEF Next, VoterCall
<1> QED BY <1>1, Invariance, PTL DEF Spec, VotesFinal, VotesFinalStep

PastPowerKeptStep ==
  \A a \in Accounts : \A ledger \in 0..(now - 1) :
    PowerAt(a, ledger)' \in {0, PowerAt(a, ledger)}

\* A power read at a past ledger stays, or is forgotten.
THEOREM PastPowerIsKept == Spec => PastPowerKept
<1>1. ASSUME Inv, [Next]_vars PROVE PastPowerKeptStep
  <2> SUFFICES ASSUME NEW a \in Accounts, NEW ledger \in 0..(now - 1)
               PROVE  PowerIn(checkpoints'[a], ledger) \in {0, PowerIn(checkpoints[a], ledger)}
    BY DEF PastPowerKeptStep, PowerAt
  <2>1. checkpoints \in [Accounts -> Seq(Checkpoint)] /\ now \in Nat
    BY <1>1 DEF Inv, TypeOK
  <2>2. ASSUME NEW b \in Accounts, NEW power \in Bonds, SyncPower(b, power)
        PROVE  PowerIn(checkpoints'[a], ledger) \in {0, PowerIn(checkpoints[a], ledger)}
    <3> DEFINE entry == [ledger |-> now, power |-> power]
               longer == Append(checkpoints[b], entry)
    <3>1. entry \in Checkpoint /\ entry.ledger > ledger /\ ledger \in Nat
      BY <2>1, GovernorAssumption DEF Checkpoint
    <3>2. checkpoints[b] \in Seq(Checkpoint)
      BY <2>1
    <3>3. checkpoints' = [checkpoints EXCEPT ![b] = Capped(longer)]
      BY <2>2 DEF SyncPower, WriteCheckpoint
    <3> HIDE DEF entry
    <3>4. longer \in Seq(Checkpoint) /\ longer # <<>>
      BY <3>1, <3>2
    <3>5. PowerIn(longer, ledger) = PowerIn(checkpoints[b], ledger)
      BY <3>1, <3>2, AppendKeeps
    <3> HIDE DEF longer
    <3>6. PowerIn(Tail(longer), ledger) \in {0, PowerIn(longer, ledger)}
      BY <3>1, <3>4, TailKeeps
    <3>7. PowerIn(Capped(longer), ledger) \in {0, PowerIn(longer, ledger)}
      BY <3>6 DEF Capped
    <3> QED BY <2>1, <3>3, <3>5, <3>7
  <2>3. CASE UNCHANGED checkpoints
    BY <2>3
  <2>4. UNCHANGED checkpoints \/ \E b \in Accounts, power \in Bonds : SyncPower(b, power)
    BY <1>1 DEF Next, VoterCall, ProposalCall, Tick, Propose, CastVote, Cancel, Queue,
         Execute, SetConfig, vars
  <2> QED BY <2>2, <2>3, <2>4
<1> QED BY <1>1, Invariance, PTL DEF Spec, PastPowerKept, PastPowerKeptStep
=============================================================================
