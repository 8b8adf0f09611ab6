----------------------- MODULE SolverRegistryProofs -----------------------
(***************************************************************************)
(* Proofs about the solver registry, for any table of tiers and any        *)
(* numbers of solvers and intents.                                         *)
(***************************************************************************)
EXTENDS SolverRegistry, Sums

Locks(s) == {i \in Intents : <<s, i>> \in obligations}

Increasing ==
  \A t, u \in Tiers : t < u =>
    /\ thresholds[t].min_bond < thresholds[u].min_bond
    /\ thresholds[t].min_score_bps < thresholds[u].min_score_bps

\* Who is not registered has the record that register_solver starts from, and no
\* record holds a volume that its score would divide by zero for.
RecordsKept ==
  \A s \in Solvers :
    /\ s \notin registered => record[s] = NewRecord
    /\ VolumeWord(record[s]) # 0

Inv == TypeOK /\ ObligationsExact /\ Increasing /\ RecordsKept

-----------------------------------------------------------------------------
(* Tiers and slashes.                                                      *)

\* The highest of some tiers, or the lowest there is.
LEMMA HighestTier ==
  ASSUME TopTier \in Nat, NEW M \in SUBSET Tiers
  PROVE  /\ Max({0} \cup M) \in Tiers /\ Max({0} \cup M) \in {0} \cup M
         /\ \A t \in M : t <= Max({0} \cup M)
<1> DEFINE S == {0} \cup M
           T == {k \in Nat : TopTier - k \in S}
<1>1. S \subseteq Tiers /\ 0 \in S
  BY DEF Tiers
<1>2. TopTier \in T /\ T \subseteq Nat
  BY <1>1
<1>3. PICK k \in T : \A j \in T : k <= j
  BY <1>2, LeastNatural
<1> DEFINE m == TopTier - k
<1>4. m \in S
  BY <1>3
<1>5. ASSUME NEW x \in S PROVE m >= x
  <2>1. x \in 0..TopTier
    BY <1>1 DEF Tiers
  <2>2. TopTier - x \in T
    BY <2>1, <1>1
  <2>3. k <= TopTier - x /\ k \in Nat
    BY <2>2, <1>2, <1>3
  <2> QED
    BY <2>1, <2>3
<1> HIDE DEF S, m
<1>6. Max(S) \in S /\ \A x \in S : Max(S) >= x
  BY <1>4, <1>5 DEF Max
<1>7. \A x \in S : x \in Nat
  BY <1>1 DEF Tiers
<1> QED
  BY <1>1, <1>6, <1>7 DEF S

\* The loop of tier_for ends with a tier, and with one whose row is met if it is not
\* the lowest.
LEMMA TierIsMet ==
  ASSUME TopTier \in Nat, NEW r
  PROVE  /\ TierOf(r) \in Tiers
         /\ TierOf(r) # 0 => Meets(r, TierOf(r))
<1> DEFINE M == {t \in Tiers : Meets(r, t)}
<1>1. M \in SUBSET Tiers /\ TierOf(r) = Max({0} \cup M)
  BY DEF TierOf
<1>2. TierOf(r) \in Tiers /\ TierOf(r) \in {0} \cup M
  BY <1>1, HighestTier
<1> QED
  BY <1>2

\* A slash takes no more than there is.
LEMMA SlashWithinBond ==
  ASSUME RegistryAssumption, NEW r \in SolverRecord
  PROVE  SlashAmount(r) \in Nat /\ SlashAmount(r) <= r.bond_amount
<1> DEFINE b == r.bond_amount
           p == SlashBps[TierOf(r)]
<1>1. b \in Nat /\ p \in 0..Bps /\ Bps \in Nat \ {0}
  BY TierIsMet DEF RegistryAssumption, SolverRecord
<1>2. b * p \in Nat /\ b * p <= b * Bps
  BY <1>1
<1>3. (b * p) \div Bps \in Nat /\ (b * p) \div Bps <= b
  BY <1>1, <1>2
<1>4. SlashAmount(r) = IF b > 0 THEN MaxOf((b * p) \div Bps, 1) ELSE 0
  BY DEF SlashAmount
<1> HIDE DEF b, p
<1>5. SlashAmount(r) \in Nat /\ SlashAmount(r) <= b
  BY <1>1, <1>3, <1>4 DEF MaxOf
<1> QED
  BY <1>5 DEF b

LEMMA AfterSlash ==
  ASSUME RegistryAssumption, NEW r \in SolverRecord, NEW q,
         q = [r EXCEPT !.bond_amount = @ - SlashAmount(r), !.fills_failed = @ + 1]
  PROVE  q \in SolverRecord /\ VolumeWord(q) = VolumeWord(r)
<1>1. r.bond_amount - SlashAmount(r) \in Nat
  BY SlashWithinBond DEF SolverRecord
<1>2. r.fills_failed + 1 \in Nat /\ q.total_volume = r.total_volume
  BY DEF SolverRecord
<1>3. q \in SolverRecord
  BY <1>1, <1>2 DEF SolverRecord
<1> QED
  BY <1>2, <1>3 DEF VolumeWord

LEMMA NewRecordKept ==
  ASSUME RegistryAssumption, NEW b \in Nat
  PROVE  LET q == [NewRecord EXCEPT !.bond_amount = b]
         IN q \in SolverRecord /\ VolumeWord(q) # 0 /\ q.bond_amount = b
<1>1. VolumeScale + 1 \in Nat /\ VolumeScale + 1 < Word /\ Word \in Nat
  BY DEF RegistryAssumption
<1>2. (VolumeScale + 1) % Word = VolumeScale + 1
  BY <1>1
<1>3. VolumeScale + 1 # 0
  BY DEF RegistryAssumption
<1> QED
  BY <1>2, <1>3 DEF NewRecord, SolverRecord, VolumeWord, RegistryAssumption

LEMMA NewRecordIsFresh ==
  ASSUME RegistryAssumption
  PROVE  NewRecord \in SolverRecord /\ VolumeWord(NewRecord) # 0 /\ NewRecord.bond_amount = 0
<1>1. NewRecord = [NewRecord EXCEPT !.bond_amount = 0]
  BY DEF NewRecord
<1> QED
  BY <1>1, NewRecordKept, 0 \in Nat

-----------------------------------------------------------------------------
(* Each part of the invariant.                                             *)

LEMMA InitInv ==
  ASSUME RegistryAssumption, Init
  PROVE  Inv
<1>1. TypeOK
  BY NewRecordIsFresh DEF Init, TypeOK, RegistryAssumption
<1>2. ObligationsExact
  BY FS_EmptySet DEF Init, ObligationsExact
<1>3. Increasing
  BY DEF Init, Increasing, RegistryAssumption
<1>4. RecordsKept
  BY NewRecordIsFresh DEF Init, RecordsKept
<1> QED
  BY <1>1, <1>2, <1>3, <1>4 DEF Inv

\* A step that changes one solver's record.
LEMMA RecordStep ==
  ASSUME Inv, NEW s \in Solvers, NEW q \in SolverRecord, VolumeWord(q) # 0,
         record' = [record EXCEPT ![s] = q],
         registered' \subseteq Solvers,
         \A z \in Solvers \ {s} : z \in registered' <=> z \in registered,
         s \notin registered' => q = NewRecord
  PROVE  RecordsKept' /\ record' \in [Solvers -> SolverRecord]
<1>1. record' \in [Solvers -> SolverRecord] /\ record'[s] = q
      /\ \A z \in Solvers \ {s} : record'[z] = record[z]
  BY DEF Inv, TypeOK
<1>2. \A z \in Solvers \ {s} : VolumeWord(record[z])' = VolumeWord(record[z])
  BY <1>1 DEF VolumeWord
<1>3. VolumeWord(record[s])' = VolumeWord(q)
  BY <1>1 DEF VolumeWord
<1> QED
  BY <1>1, <1>2, <1>3 DEF RecordsKept, Inv

\* Locking or releasing moves one solver's locks by one.
LEMMA LockStep ==
  ASSUME RegistryAssumption, Inv, NEW s \in Solvers, NEW i \in Intents,
         registered' = registered,
         \/ /\ s \in registered /\ <<s, i>> \notin obligations
            /\ obligations' = obligations \cup {<<s, i>>}
            /\ open_obligations' = [open_obligations EXCEPT ![s] = @ + 1]
         \/ /\ <<s, i>> \in obligations
            /\ obligations' = obligations \ {<<s, i>>}
            /\ open_obligations' = [open_obligations EXCEPT ![s] = MaxOf(@ - 1, 0)]
  PROVE  /\ ObligationsExact'
         /\ obligations' \subseteq Solvers \X Intents
         /\ open_obligations' \in [Solvers -> Nat]
<1>1. /\ obligations \subseteq Solvers \X Intents /\ open_obligations \in [Solvers -> Nat]
      /\ \A z \in Solvers : open_obligations[z] = Cardinality(Locks(z))
      /\ \A z \in Solvers : Locks(z) # {} => z \in registered
  BY DEF Inv, TypeOK, ObligationsExact, Locks
<1>2. IsFiniteSet(Locks(s)) /\ Cardinality(Locks(s)) \in Nat
  BY FS_Subset, FS_CardinalityType DEF Locks, RegistryAssumption
<1>3. \A z \in Solvers \ {s} : Locks(z)' = Locks(z)
                               /\ open_obligations'[z] = open_obligations[z]
  BY <1>1 DEF Locks
<1>4. open_obligations'[s] = Cardinality(Locks(s)') /\ (Locks(s)' # {} => s \in registered)
  <2>1. CASE <<s, i>> \notin obligations
    <3>1. Locks(s)' = Locks(s) \cup {i} /\ i \notin Locks(s)
      BY <2>1 DEF Locks
    <3>2. open_obligations'[s] = open_obligations[s] + 1 /\ s \in registered
      BY <2>1, <1>1
    <3> QED
      BY <3>1, <3>2, <1>1, <1>2, FS_AddElement
  <2>2. CASE <<s, i>> \in obligations
    <3>1. Locks(s)' = Locks(s) \ {i} /\ i \in Locks(s)
      BY <2>2 DEF Locks
    <3>2. open_obligations'[s] = MaxOf(open_obligations[s] - 1, 0) /\ s \in registered
      BY <2>2, <1>1, <3>1
    <3>3. Cardinality(Locks(s)') = Cardinality(Locks(s)) - 1 /\ Cardinality(Locks(s)') \in Nat
      BY <3>1, <1>2, FS_RemoveElement, FS_CardinalityType
    <3> QED
      BY <3>2, <3>3, <1>1, <1>2 DEF MaxOf
  <2> QED
    BY <2>1, <2>2
<1>5. ObligationsExact'
  BY <1>1, <1>3, <1>4 DEF ObligationsExact, Locks
<1>6. obligations' \subseteq Solvers \X Intents
  BY <1>1
<1>7. open_obligations' \in [Solvers -> Nat]
  BY <1>1 DEF MaxOf
<1> QED
  BY <1>5, <1>6, <1>7

\* A solver without obligations has no locks.
LEMMA UnobligedHasNoLocks ==
  ASSUME RegistryAssumption, ObligationsExact, NEW s \in Solvers, Unobliged(s)
  PROVE  Locks(s) = {}
<1>1. IsFiniteSet(Locks(s))
  BY FS_Subset DEF Locks, RegistryAssumption
<1> QED
  BY <1>1, FS_EmptySet DEF ObligationsExact, Unobliged, Locks

-----------------------------------------------------------------------------
(* Each call keeps the invariant.                                          *)

\* A tuned row stays between all rows below and all above it.
LEMMA TuningKeepsOrder ==
  ASSUME RegistryAssumption, Inv, NEW t \in Tiers, NEW row \in Rows, SetTierThreshold(t, row)
  PROVE  Inv'
<1>1. thresholds' \in [Tiers -> TierThreshold] /\ thresholds'[t] = row
      /\ \A u \in Tiers \ {t} : thresholds'[u] = thresholds[u]
  BY DEF SetTierThreshold, RegistryAssumption, Inv, TypeOK
<1>2. row.min_bond \in Nat /\ row.min_score_bps \in Nat
      /\ \A u \in Tiers : thresholds[u].min_bond \in Nat /\ thresholds[u].min_score_bps \in Nat
  BY DEF RegistryAssumption, TierThreshold, Inv, TypeOK
<1>3. t \in 1..TopTier /\ FitsBetween(t, row) /\ TopTier \in Nat
  BY DEF SetTierThreshold, RegistryAssumption
<1>4. Increasing'
  <2>1. ASSUME NEW u \in Tiers, u < t
        PROVE  thresholds[u].min_bond < row.min_bond
               /\ thresholds[u].min_score_bps < row.min_score_bps
    <3>1. t - 1 \in Tiers /\ (u = t - 1 \/ u < t - 1)
      BY <1>3, <2>1 DEF Tiers
    <3>2. u < t - 1 => thresholds[u].min_bond < thresholds[t-1].min_bond
                       /\ thresholds[u].min_score_bps < thresholds[t-1].min_score_bps
      BY <3>1 DEF Inv, Increasing
    <3>3. thresholds[t-1].min_bond < row.min_bond
          /\ thresholds[t-1].min_score_bps < row.min_score_bps
      BY <1>3 DEF FitsBetween
    <3> HIDE DEF Tiers
    <3> QED
      BY <3>1, <3>2, <3>3, <1>2
  <2>2. ASSUME NEW u \in Tiers, t < u
        PROVE  row.min_bond < thresholds[u].min_bond
               /\ row.min_score_bps < thresholds[u].min_score_bps
    <3>1. t < TopTier /\ t + 1 \in Tiers /\ (u = t + 1 \/ t + 1 < u)
      BY <1>3, <2>2 DEF Tiers
    <3>2. t + 1 < u => thresholds[t+1].min_bond < thresholds[u].min_bond
                       /\ thresholds[t+1].min_score_bps < thresholds[u].min_score_bps
      BY <3>1 DEF Inv, Increasing
    <3>3. row.min_bond < thresholds[t+1].min_bond
          /\ row.min_score_bps < thresholds[t+1].min_score_bps
      BY <1>3, <3>1 DEF FitsBetween
    <3> QED
      BY <3>1, <3>2, <3>3, <1>2
  <2> SUFFICES ASSUME NEW a \in Tiers, NEW b \in Tiers, a < b
               PROVE  /\ thresholds'[a].min_bond < thresholds'[b].min_bond
                      /\ thresholds'[a].min_score_bps < thresholds'[b].min_score_bps
    BY DEF Increasing, Tiers
  <2>3. CASE a # t /\ b # t
    BY <2>3, <1>1 DEF Inv, Increasing
  <2>4. CASE a = t
    <3>1. t < b /\ b # t
      BY <2>4 DEF Tiers
    <3> QED
      BY <3>1, <2>4, <2>2, <1>1
  <2>5. CASE b = t
    <3>1. a < t /\ a # t
      BY <2>5 DEF Tiers
    <3> QED
      BY <3>1, <2>5, <2>1, <1>1
  <2> QED
    BY <2>3, <2>4, <2>5
<1>5. TypeOK'
  BY <1>1 DEF SetTierThreshold, lockVars, Inv, TypeOK
<1>6. ObligationsExact' /\ RecordsKept'
  BY DEF SetTierThreshold, lockVars, Inv, ObligationsExact, RecordsKept, VolumeWord
<1> QED
  BY <1>4, <1>5, <1>6 DEF Inv

LEMMA SolverKeepsInv ==
  ASSUME RegistryAssumption, Inv, NEW s \in Solvers, SolverCall(s)
  PROVE  Inv'
<1>1. /\ record \in [Solvers -> SolverRecord] /\ record[s] \in SolverRecord
      /\ registered \subseteq Solvers /\ balance \in Nat /\ total_solvers \in Nat
      /\ VolumeWord(record[s]) # 0 /\ record[s].bond_amount \in Nat
  BY DEF Inv, TypeOK, RecordsKept, SolverRecord
<1>2. Increasing' /\ thresholds' = thresholds /\ UNCHANGED lockVars
  BY DEF SolverCall, RegisterSolver, Stake, Unstake, DeregisterSolver, Inv, Increasing
<1>3. ASSUME NEW amount \in Bonds, RegisterSolver(s, amount) PROVE Inv'
  <2> DEFINE q == [NewRecord EXCEPT !.bond_amount = amount]
  <2>1. amount \in Nat
    BY DEF RegistryAssumption
  <2>2. q \in SolverRecord /\ VolumeWord(q) # 0
    BY <2>1, NewRecordKept
  <2>3. record' = [record EXCEPT ![s] = q] /\ registered' = registered \cup {s}
    BY <1>3 DEF RegisterSolver
  <2> HIDE DEF q
  <2>4. RecordsKept' /\ record' \in [Solvers -> SolverRecord]
    BY <2>2, <2>3, <1>1, RecordStep
  <2>5. TypeOK'
    BY <1>3, <1>1, <2>1, <2>3, <2>4 DEF RegisterSolver, Inv, TypeOK, lockVars
  <2>6. ObligationsExact'
    BY <1>2, <2>3 DEF Inv, ObligationsExact, lockVars
  <2> QED
    BY <1>2, <2>4, <2>5, <2>6 DEF Inv
<1>4. ASSUME NEW amount \in Nat, NEW b \in Nat, s \in registered,
             record' = [record EXCEPT ![s].bond_amount = b], balance' \in Nat,
             UNCHANGED <<has_writer, registered, total_solvers, recorded>>
      PROVE Inv'
  <2> DEFINE q == [record[s] EXCEPT !.bond_amount = b]
  <2>1. q \in SolverRecord /\ q.total_volume = record[s].total_volume
    BY <1>1 DEF SolverRecord
  <2>2. VolumeWord(q) # 0
    BY <2>1, <1>1 DEF VolumeWord
  <2>3. record' = [record EXCEPT ![s] = q]
    BY <1>4, <1>1
  <2> HIDE DEF q
  <2>4. RecordsKept' /\ record' \in [Solvers -> SolverRecord]
    BY <2>1, <2>2, <2>3, <1>1, <1>4, RecordStep
  <2>5. TypeOK' /\ ObligationsExact'
    BY <1>2, <1>4, <2>4 DEF Inv, TypeOK, ObligationsExact, lockVars
  <2> QED
    BY <1>2, <2>4, <2>5 DEF Inv
<1>5. ASSUME NEW amount \in Amounts, Stake(s, amount) PROVE Inv'
  <2>1. amount \in Nat
    BY DEF RegistryAssumption
  <2>2. record[s].bond_amount + amount \in Nat /\ balance' \in Nat
    BY <2>1, <1>1, <1>5 DEF Stake
  <2>3. record' = [record EXCEPT ![s].bond_amount = record[s].bond_amount + amount]
    BY <1>5, <1>1 DEF Stake
  <2> QED
    BY <2>1, <2>2, <2>3, <1>5, <1>4 DEF Stake
<1>6. ASSUME NEW amount \in Amounts, Unstake(s, amount) PROVE Inv'
  <2>1. amount \in Nat
    BY DEF RegistryAssumption
  <2>2. record[s].bond_amount - amount \in Nat /\ balance' \in Nat
    BY <2>1, <1>1, <1>6 DEF Unstake
  <2>3. record' = [record EXCEPT ![s].bond_amount = record[s].bond_amount - amount]
    BY <1>6, <1>1 DEF Unstake
  <2> QED
    BY <2>1, <2>2, <2>3, <1>6, <1>4 DEF Unstake
<1>7. CASE DeregisterSolver(s)
  <2>1. record' = [record EXCEPT ![s] = NewRecord] /\ registered' = registered \ {s}
    BY <1>7 DEF DeregisterSolver
  <2>2. RecordsKept' /\ record' \in [Solvers -> SolverRecord]
    BY <2>1, <1>1, NewRecordIsFresh, RecordStep
  <2>3. balance' \in Nat /\ total_solvers' \in Nat
    BY <1>7, <1>1 DEF DeregisterSolver, MaxOf
  <2>4. TypeOK'
    BY <1>7, <1>1, <2>1, <2>2, <2>3 DEF DeregisterSolver, Inv, TypeOK, lockVars
  <2>5. Locks(s) = {}
    BY <1>7, UnobligedHasNoLocks DEF DeregisterSolver, Inv
  <2>6. ObligationsExact'
    BY <1>2, <2>1, <2>5 DEF Inv, ObligationsExact, Locks, lockVars
  <2> QED
    BY <1>2, <2>2, <2>4, <2>6 DEF Inv
<1> QED
  BY <1>3, <1>5, <1>6, <1>7 DEF SolverCall

LEMMA SettlementKeepsInv ==
  ASSUME RegistryAssumption, Inv, NEW s \in Solvers, NEW i \in Intents, SettlementCall(s, i)
  PROVE  Inv'
<1>1. /\ record \in [Solvers -> SolverRecord] /\ record[s] \in SolverRecord
      /\ registered \subseteq Solvers /\ balance \in Nat
      /\ VolumeWord(record[s]) # 0 /\ recorded \subseteq Actions \X Intents
  BY DEF Inv, TypeOK, RecordsKept
<1>2. Increasing' /\ UNCHANGED <<has_writer, thresholds, registered, total_solvers>>
  BY DEF SettlementCall, RecordFill, RecordFailure, Slash, LockObligation,
         ReleaseObligation, Inv, Increasing
<1>3. ASSUME NEW q \in SolverRecord, VolumeWord(q) # 0, s \in registered,
             record' = [record EXCEPT ![s] = q], balance' \in Nat,
             NEW a \in Actions, recorded' = recorded \cup {<<a, i>>},
             UNCHANGED lockVars
      PROVE Inv'
  <2>1. RecordsKept' /\ record' \in [Solvers -> SolverRecord]
    BY <1>1, <1>2, <1>3, RecordStep
  <2>2. recorded' \subseteq Actions \X Intents
    BY <1>1, <1>3
  <2>3. TypeOK' /\ ObligationsExact'
    BY <1>2, <1>3, <2>1, <2>2 DEF Inv, TypeOK, ObligationsExact, lockVars
  <2> QED
    BY <1>2, <2>1, <2>3 DEF Inv
<1>4. ASSUME NEW amount \in Volumes, RecordFill(s, i, amount) PROVE Inv'
  <2> DEFINE q == [record[s] EXCEPT !.fills_completed = @ + 1, !.total_volume = @ + amount]
  <2>1. amount \in Nat
    BY DEF RegistryAssumption
  <2>2. q \in SolverRecord
    <3>1. record[s].fills_completed + 1 \in Nat /\ record[s].total_volume + amount \in Nat
      BY <2>1, <1>1 DEF SolverRecord
    <3> QED
      BY <3>1, <1>1 DEF SolverRecord
  <2>3. VolumeWord(q) # 0 /\ record' = [record EXCEPT ![s] = q]
    BY <1>4 DEF RecordFill, Scorable
  <2> HIDE DEF q
  <2> QED
    BY <2>2, <2>3, <1>4, <1>3, <1>1 DEF RecordFill, Actions, lockVars
<1>5. CASE RecordFailure(s, i)
  <2> DEFINE q == [record[s] EXCEPT !.fills_failed = @ + 1]
  <2>1. q \in SolverRecord /\ q.total_volume = record[s].total_volume
    BY <1>1 DEF SolverRecord
  <2>2. VolumeWord(q) # 0
    BY <2>1, <1>1 DEF VolumeWord
  <2>3. record' = [record EXCEPT ![s] = q]
    BY <1>5, <1>1 DEF RecordFailure
  <2> HIDE DEF q
  <2> QED
    BY <2>1, <2>2, <2>3, <1>5, <1>3, <1>1 DEF RecordFailure, Actions, lockVars
<1>6. CASE Slash(s, i)
  <2> DEFINE r == record[s]
             q == [r EXCEPT !.bond_amount = @ - SlashAmount(r), !.fills_failed = @ + 1]
  <2>1. record' = [record EXCEPT ![s] = q]
    BY <1>6, <1>1 DEF Slash
  <2>2. q \in SolverRecord /\ VolumeWord(q) # 0
    BY <1>1, AfterSlash
  <2>3. balance' \in Nat
    BY <1>6, <1>1, SlashWithinBond DEF Slash
  <2> HIDE DEF q
  <2> QED
    BY <2>1, <2>2, <2>3, <1>6, <1>3 DEF Slash, Actions, lockVars
<1>7. CASE LockObligation(s, i) \/ ReleaseObligation(s, i)
  <2>1. /\ ObligationsExact'
        /\ obligations' \subseteq Solvers \X Intents
        /\ open_obligations' \in [Solvers -> Nat]
    BY <1>7, <1>2, LockStep DEF LockObligation, ReleaseObligation, Locked
  <2>2. UNCHANGED <<record, recorded, balance>>
    BY <1>7 DEF LockObligation, ReleaseObligation
  <2>3. RecordsKept'
    BY <1>2, <2>2 DEF Inv, RecordsKept, VolumeWord
  <2>4. TypeOK'
    BY <1>2, <2>1, <2>2 DEF Inv, TypeOK
  <2> QED
    BY <1>2, <2>1, <2>3, <2>4 DEF Inv
<1> QED
  BY <1>4, <1>5, <1>6, <1>7 DEF SettlementCall

LEMMA StepInv ==
  ASSUME RegistryAssumption, Inv, [Next]_vars
  PROVE  Inv'
<1>1. CASE SetWriter
  BY <1>1 DEF SetWriter, lockVars, Inv, TypeOK, ObligationsExact, Increasing, RecordsKept,
              VolumeWord
<1>2. CASE UNCHANGED vars
  BY <1>2 DEF vars, lockVars, Inv, TypeOK, ObligationsExact, Increasing, RecordsKept,
              VolumeWord
<1> QED
  BY <1>1, <1>2, TuningKeepsOrder, SolverKeepsInv, SettlementKeepsInv DEF Next, AdminCall

THEOREM Invariant == Spec => []Inv
<1>1. Init => Inv
  BY InitInv, RegistryAssumption
<1>2. Inv /\ [Next]_vars => Inv'
  BY StepInv, RegistryAssumption
<1> QED
  BY <1>1, <1>2, PTL DEF Spec

-----------------------------------------------------------------------------
(* The results.                                                            *)

\* Every reachable state is typed: no bond and no balance ever goes negative.
THEOREM TypeCorrect == Spec => []TypeOK
<1>1. Inv => TypeOK
  BY DEF Inv
<1> QED
  BY <1>1, Invariant, PTL

\* The count of a solver's obligations is the number of its locks, whatever the
\* settlement repeats, and who holds a lock has a record.
THEOREM ObligationsAreExact == Spec => []ObligationsExact
<1>1. Inv => ObligationsExact
  BY DEF Inv
<1> QED
  BY <1>1, Invariant, PTL

\* A score is a number, as the volume it divides by is never zero.
LEMMA ScoreIsInt ==
  ASSUME RegistryAssumption, NEW r \in SolverRecord, VolumeWord(r) # 0
  PROVE  ScoreOf(r) \in Int
<1>1. Bps \in Nat \ {0} /\ VolumeScale \in Nat /\ Word \in Nat \ {0}
  BY DEF RegistryAssumption
<1>2. r.fills_completed \in Nat /\ r.fills_failed \in Nat /\ r.total_volume \in Nat
  BY DEF SolverRecord
<1>3. VolumeWord(r) \in Nat \ {0}
  BY <1>1, <1>2 DEF VolumeWord
<1> DEFINE w == VolumeWord(r)
           a == VolumeScale * Bps
           b == r.fills_completed * Bps
           n == r.fills_completed + r.fills_failed
<1>4. a \in Nat /\ b \in Nat /\ n \in Nat
  BY <1>1, <1>2
<1>5. Decay(r) = (a \div w) \div 10
  BY DEF Decay
<1>6. SuccessRate(r) = b \div n
  BY DEF SuccessRate
<1>7. ScoreOf(r) = IF n = 0 THEN 0 ELSE (SuccessRate(r) * VolumeFactor(r)) \div Bps
  BY DEF ScoreOf
<1> HIDE DEF w, a, b, n
<1>8. w \in Nat \ {0}
  BY <1>3 DEF w
<1>9. a \div w \in Int
  BY <1>4, <1>8
<1>10. VolumeFactor(r) \in Int
  BY <1>1, <1>5, <1>9 DEF VolumeFactor
<1>11. n # 0 => SuccessRate(r) \in Int
  BY <1>4, <1>6
<1>12. n # 0 => SuccessRate(r) * VolumeFactor(r) \in Int
  BY <1>10, <1>11
<1> QED
  BY <1>1, <1>7, <1>12

\* Tiers are nested: who is in a tier meets the rows of the tiers below it, however the
\* admin tunes them and whatever the solver's score.
THEOREM TiersAreNested == Spec => []TiersNested
<1>1. Inv => TiersNested
  <2> SUFFICES ASSUME Inv, NEW s \in registered, NEW t \in 1..TierOf(record[s])
               PROVE  Meets(record[s], t)
    BY DEF TiersNested
  <2> DEFINE r == record[s]
             m == TierOf(r)
  <2>1. r \in SolverRecord /\ VolumeWord(r) # 0
    BY DEF Inv, TypeOK, RecordsKept
  <2>2. ScoreOf(r) \in Int /\ r.bond_amount \in Nat
    BY <2>1, ScoreIsInt, RegistryAssumption DEF SolverRecord
  <2>3. m \in Tiers /\ (m # 0 => Meets(r, m)) /\ TopTier \in Nat
    BY TierIsMet, RegistryAssumption DEF RegistryAssumption
  <2> HIDE DEF m, r
  <2>4. t \in 1..m
    BY DEF m, r
  <2>5. t \in Tiers /\ m # 0 /\ (t = m \/ t < m)
    BY <2>3, <2>4 DEF Tiers
  <2>6. \A u \in Tiers : thresholds[u].min_bond \in Nat /\ thresholds[u].min_score_bps \in Nat
    BY DEF Inv, TypeOK, TierThreshold
  <2>7. CASE t = m
    BY <2>3, <2>5, <2>7 DEF r
  <2>8. CASE t < m
    <3>1. /\ thresholds[t].min_bond < thresholds[m].min_bond
          /\ thresholds[t].min_score_bps < thresholds[m].min_score_bps
      BY <2>3, <2>5, <2>8 DEF Inv, Increasing
    <3>2. Meets(r, m)
      BY <2>3, <2>5
    <3>3. Meets(r, t)
      BY <3>1, <3>2, <2>2, <2>3, <2>5, <2>6 DEF Meets
    <3> QED
      BY <3>3 DEF r
  <2> QED
    BY <2>5, <2>7, <2>8
<1> QED
  BY <1>1, Invariant, PTL

-----------------------------------------------------------------------------
(* Tiers follow outcomes.                                                  *)

\* Of a record whose score can be computed the volume earns a part of the whole.
LEMMA FactorIsPart ==
  ASSUME RegistryAssumption, NEW r \in SolverRecord, Scorable(r)
  PROVE  VolumeFactor(r) \in 0..Bps /\ Decay(r) \in Nat /\ VolumeWord(r) \in Nat \ {0}
<1>1. Bps \in Nat \ {0} /\ VolumeScale \in Nat /\ Word \in Nat \ {0}
  BY DEF RegistryAssumption
<1>2. r.total_volume \in Nat
  BY DEF SolverRecord
<1>3. VolumeWord(r) \in Nat
  BY <1>1, <1>2 DEF VolumeWord
<1>4. VolumeWord(r) # 0 /\ Decay(r) <= Bps
  BY DEF Scorable
<1>5. VolumeScale * Bps \in Nat
  BY <1>1, ProductNat
<1>6. (VolumeScale * Bps) \div VolumeWord(r) \in Nat
  BY <1>3, <1>4, <1>5, Quotient
<1>7. Decay(r) \in Nat
  BY <1>6, 10 \in Nat \ {0}, Quotient DEF Decay
<1> QED
  BY <1>1, <1>3, <1>4, <1>7 DEF VolumeFactor

\* What is computed from the volume depends on it alone.
LEMMA SameVolume ==
  ASSUME NEW r, NEW q, q.total_volume = r.total_volume
  PROVE  (Scorable(q) <=> Scorable(r)) /\ VolumeFactor(q) = VolumeFactor(r)
BY DEF Scorable, VolumeFactor, Decay, VolumeWord

\* Of a record with outcomes the fills are a part of the whole.
LEMMA RateIsPart ==
  ASSUME RegistryAssumption, NEW r \in SolverRecord, r.fills_completed + r.fills_failed # 0
  PROVE  SuccessRate(r) \in 0..Bps
<1>1. PICK c \in Nat, f \in Nat : c = r.fills_completed /\ f = r.fills_failed
  BY DEF SolverRecord
<1>2. c + f # 0 /\ Bps \in Nat /\ SuccessRate(r) = (c * Bps) \div (c + f)
  BY <1>1 DEF SuccessRate, RegistryAssumption
<1> QED BY <1>2, ShareOfWhole

\* The score is the product of two parts of the whole, each of which may fall.
LEMMA ScoreFollows ==
  ASSUME RegistryAssumption, NEW r \in SolverRecord, NEW q \in SolverRecord,
         Scorable(r), Scorable(q), VolumeFactor(q) <= VolumeFactor(r),
         q.fills_completed + q.fills_failed # 0,
         r.fills_completed + r.fills_failed # 0 => SuccessRate(q) <= SuccessRate(r),
         r.fills_completed + r.fills_failed = 0 => SuccessRate(q) = 0
  PROVE  ScoreOf(q) <= ScoreOf(r)
<1>1. Bps \in Nat \ {0} /\ VolumeFactor(q) \in Nat /\ VolumeFactor(r) \in Nat
  BY FactorIsPart DEF RegistryAssumption
<1>2. /\ q.fills_completed \in Nat /\ q.fills_failed \in Nat
      /\ r.fills_completed \in Nat /\ r.fills_failed \in Nat
  BY DEF SolverRecord
<1>3. SuccessRate(q) \in Nat
  BY <1>1, RateIsPart
<1>4. CASE r.fills_completed + r.fills_failed = 0
  <2>1. SuccessRate(q) * VolumeFactor(q) = 0
    BY <1>1, <1>4
  <2>2. ScoreOf(q) = 0 \div Bps /\ ScoreOf(r) = 0
    BY <1>4, <2>1 DEF ScoreOf
  <2>3. 0 \div Bps <= 0
    <3>1. PICK z \in Nat : z = 0 \div Bps /\ z * Bps <= 0
      BY <1>1, Quotient
    <3> SUFFICES ASSUME 1 <= z PROVE FALSE
      BY <3>1
    <3>2. 1 * Bps <= z * Bps
      BY <1>1, ProductRises
    <3> QED BY <1>1, <3>1, <3>2
  <2> QED BY <2>2, <2>3
<1>5. CASE r.fills_completed + r.fills_failed # 0
  <2>1. SuccessRate(r) \in Nat
    BY <1>1, <1>5, RateIsPart
  <2>2. PICK a \in Nat, b \in Nat, c \in Nat, d \in Nat :
          a = SuccessRate(q) /\ b = SuccessRate(r) /\ c = VolumeFactor(q) /\ d = VolumeFactor(r)
    BY <1>1, <1>3, <2>1
  <2>3. a <= b /\ c <= d
    BY <1>5, <2>2
  <2>4. a * c <= b * c /\ c * b <= d * b /\ b * c = c * b /\ b * d = d * b
    BY <2>3, ProductRises
  <2>5. a * c \in Nat /\ b * c \in Nat /\ b * d \in Nat /\ a * c <= b * d
    BY <2>4, ProductNat
  <2>6. (a * c) \div Bps <= (b * d) \div Bps
    BY <1>1, <2>5, QuotientRises
  <2>7. ScoreOf(q) = (a * c) \div Bps /\ ScoreOf(r) = (b * d) \div Bps
    BY <1>5, <2>2 DEF ScoreOf
  <2> QED BY <2>6, <2>7
<1> QED BY <1>4, <1>5

\* One more failure, with the volume as it was.
LEMMA FailureLowersScore ==
  ASSUME RegistryAssumption, NEW r \in SolverRecord, NEW q \in SolverRecord, Scorable(r),
         q.fills_completed = r.fills_completed, q.fills_failed = r.fills_failed + 1,
         q.total_volume = r.total_volume
  PROVE  ScoreOf(q) <= ScoreOf(r)
<1>1. PICK c \in Nat, f \in Nat : c = r.fills_completed /\ f = r.fills_failed
  BY DEF SolverRecord
<1>2. q.fills_completed = c /\ q.fills_failed = f + 1 /\ c + (f + 1) # 0
  BY <1>1
<1>3. Scorable(q) /\ VolumeFactor(q) = VolumeFactor(r) /\ VolumeFactor(r) \in Int
  BY SameVolume, FactorIsPart, RegistryAssumption DEF RegistryAssumption
<1>4. Bps \in Nat \ {0}
  BY DEF RegistryAssumption
<1>5. c + f # 0 => SuccessRate(q) <= SuccessRate(r)
  BY <1>1, <1>2, <1>4, ShareOfWhole DEF SuccessRate
<1>6. c + f = 0 => SuccessRate(q) = 0
  <2> SUFFICES ASSUME c = 0 PROVE SuccessRate(q) = 0
    BY <1>1
  <2>1. 0 * Bps = 0 /\ f + 1 \in Nat \ {0} /\ 0 + (f + 1) = f + 1
    BY <1>1, <1>4
  <2>2. SuccessRate(q) = 0 \div (f + 1)
    BY <1>2, <2>1 DEF SuccessRate
  <2>3. 0 \div (f + 1) \in Nat /\ (0 \div (f + 1)) * (f + 1) <= 0
    BY <2>1, Quotient
  <2>4. PICK z \in Nat : z = 0 \div (f + 1) /\ z * (f + 1) <= 0
    BY <2>3
  <2>5. z * (f + 1) = z * f + z /\ z * f \in Nat
    BY <2>4, ProductNat
  <2> QED BY <2>2, <2>4, <2>5
<1>7. VolumeFactor(q) <= VolumeFactor(r)
  BY <1>3
<1> QED BY <1>1, <1>2, <1>3, <1>5, <1>6, <1>7, ScoreFollows

\* One more fill, with the volume it brings, while the sum keeps to its word.
LEMMA FillRaisesScore ==
  ASSUME RegistryAssumption, NEW r \in SolverRecord, NEW q \in SolverRecord, Scorable(r),
         Scorable(q), q.fills_completed = r.fills_completed + 1,
         q.fills_failed = r.fills_failed, r.total_volume <= q.total_volume,
         VolumeScale + q.total_volume + 1 < Word
  PROVE  ScoreOf(r) <= ScoreOf(q)
<1>1. PICK c \in Nat, f \in Nat : c = r.fills_completed /\ f = r.fills_failed
  BY DEF SolverRecord
<1>2. q.fills_completed = c + 1 /\ q.fills_failed = f
  BY <1>1
<1>3. Bps \in Nat \ {0} /\ VolumeScale \in Nat /\ Word \in Nat
  BY DEF RegistryAssumption
<1>4. PICK v \in Nat, w \in Nat : v = VolumeWord(r) /\ w = VolumeWord(q) /\ 0 < v /\ v <= w
  <2>1. r.total_volume \in Nat /\ q.total_volume \in Nat
    BY DEF SolverRecord
  <2>2. \A n \in Nat : n < Word => n % Word = n
    BY <1>3
  <2>3. /\ VolumeScale + r.total_volume + 1 \in Nat /\ VolumeScale + q.total_volume + 1 \in Nat
        /\ VolumeScale + r.total_volume + 1 < Word
    BY <1>3, <2>1
  <2>4. /\ VolumeWord(r) = VolumeScale + r.total_volume + 1
        /\ VolumeWord(q) = VolumeScale + q.total_volume + 1
    BY <2>2, <2>3 DEF VolumeWord
  <2> QED BY <1>3, <2>1, <2>3, <2>4
<1>5. PICK x \in Nat, y \in Nat : /\ x = (VolumeScale * Bps) \div w
                                  /\ y = (VolumeScale * Bps) \div v /\ x <= y
  <2>1. VolumeScale * Bps \in Nat /\ v \in Nat \ {0} /\ w \in Nat \ {0}
    BY <1>3, <1>4, ProductNat
  <2>2. PICK a \in Nat : a = VolumeScale * Bps
    BY <2>1
  <2>3. a \div w <= a \div v
    BY <1>4, <2>1, QuotientFalls
  <2>4. a \div w \in Nat /\ a \div v \in Nat
    BY <2>1, Quotient
  <2> QED BY <2>2, <2>3, <2>4
<1>6. Decay(q) <= Decay(r)
  BY <1>4, <1>5, 10 \in Nat \ {0}, QuotientRises DEF Decay
<1>7. VolumeFactor(r) <= VolumeFactor(q)
  BY <1>3, <1>6, FactorIsPart DEF VolumeFactor
<1>8. VolumeFactor(r) \in Nat /\ VolumeFactor(q) \in Nat
  BY <1>3, FactorIsPart
<1>9. CASE c + f = 0
  <2>1. ScoreOf(r) = 0
    BY <1>1, <1>9 DEF ScoreOf
  <2>2. SuccessRate(q) \in Nat /\ (c + 1) + f # 0
    BY <1>2, <1>3, c + 1 \in Nat, ShareOfWhole DEF SuccessRate
  <2>3. ScoreOf(q) = (SuccessRate(q) * VolumeFactor(q)) \div Bps
    BY <1>2, <2>2 DEF ScoreOf
  <2>4. ScoreOf(q) \in Nat
    BY <1>3, <1>8, <2>2, <2>3, ProductNat, Quotient
  <2> QED BY <2>1, <2>4
<1>10. CASE c + f # 0
  <2>1. SuccessRate(r) <= SuccessRate(q)
    BY <1>1, <1>2, <1>3, <1>10, ShareOfWhole DEF SuccessRate
  <2>2. r.fills_completed + r.fills_failed # 0 /\ q.fills_completed + q.fills_failed # 0
    BY <1>1, <1>2, <1>10
  <2> QED BY <1>7, <2>1, <2>2, ScoreFollows
<1> QED BY <1>9, <1>10

\* The score of every record can be computed: no call that needs one panics.
AllScorable == \A s \in Solvers : Scorable(record[s])

\* What a step may do to a solver's record.
Moved(s) ==
  \/ /\ record'[s].fills_completed = record[s].fills_completed
     /\ record'[s].fills_failed = record[s].fills_failed
     /\ record'[s].total_volume = record[s].total_volume
  \/ s \notin registered /\ record'[s].total_volume = 0
  \/ s \notin registered' /\ record'[s].total_volume = 0
  \/ \E i \in Intents : \/ \E amount \in Volumes : RecordFill(s, i, amount)
                        \/ RecordFailure(s, i) \/ Slash(s, i)

LEMMA RecordMoves ==
  ASSUME RegistryAssumption, Inv, [Next]_vars, NEW s \in Solvers
  PROVE  Moved(s)
<1>1. record \in [Solvers -> SolverRecord]
  BY DEF Inv, TypeOK
<1>2. CASE record' = record
  BY <1>2 DEF Moved
<1>3. CASE AdminCall \/ UNCHANGED vars
  BY <1>2, <1>3 DEF AdminCall, SetWriter, SetTierThreshold, vars
<1>4. ASSUME NEW z \in Solvers, NEW q, record' = [record EXCEPT ![z] = q], z # s
      PROVE  Moved(s)
  BY <1>1, <1>4 DEF Moved
<1>5. ASSUME NEW z \in Solvers, SolverCall(z)
      PROVE  Moved(s)
  <2>1. ASSUME NEW amount \in Bonds, RegisterSolver(z, amount) PROVE Moved(s)
    <3> DEFINE q == [NewRecord EXCEPT !.bond_amount = amount]
    <3>1. record' = [record EXCEPT ![z] = q] /\ z \notin registered /\ q.total_volume = 0
      BY <2>1 DEF RegisterSolver, NewRecord
    <3> HIDE DEF q
    <3>2. CASE z = s
      BY <1>1, <3>1, <3>2 DEF Moved
    <3> QED BY <1>4, <3>1, <3>2
  <2>2. ASSUME NEW b, record' = [record EXCEPT ![z].bond_amount = b] PROVE Moved(s)
    <3>1. record' = [record EXCEPT ![z] = [record[z] EXCEPT !.bond_amount = b]]
      BY <1>1, <2>2
    <3>2. CASE z = s
      <4>1. record'[s] = [record[s] EXCEPT !.bond_amount = b]
        BY <1>1, <3>1, <3>2
      <4> QED BY <1>1, <4>1 DEF Moved, SolverRecord
    <3> QED BY <1>4, <3>1, <3>2
  <2>3. ASSUME NEW amount \in Amounts, Stake(z, amount) \/ Unstake(z, amount) PROVE Moved(s)
    <3>1. \/ record' = [record EXCEPT ![z].bond_amount = record[z].bond_amount + amount]
          \/ record' = [record EXCEPT ![z].bond_amount = record[z].bond_amount - amount]
      BY <1>1, <2>3 DEF Stake, Unstake
    <3> QED BY <2>2, <3>1
  <2>4. CASE DeregisterSolver(z)
    <3>1. record' = [record EXCEPT ![z] = NewRecord] /\ registered' = registered \ {z}
      BY <2>4 DEF DeregisterSolver
    <3>2. CASE z = s
      <4>1. record'[s] = NewRecord /\ s \notin registered'
        BY <1>1, <3>1, <3>2
      <4> QED BY <4>1 DEF Moved, NewRecord
    <3> QED BY <1>4, <3>1, <3>2
  <2> QED BY <1>5, <2>1, <2>3, <2>4 DEF SolverCall
<1>6. ASSUME NEW z \in Solvers, NEW i \in Intents, SettlementCall(z, i)
      PROVE  Moved(s)
  <2>1. CASE LockObligation(z, i) \/ ReleaseObligation(z, i)
    BY <1>2, <2>1 DEF LockObligation, ReleaseObligation
  <2>2. CASE \E q : record' = [record EXCEPT ![z] = q] /\ z # s
    BY <1>4, <2>2
  <2>3. CASE (\E amount \in Volumes : RecordFill(z, i, amount)) \/ RecordFailure(z, i) \/ Slash(z, i)
    <3>1. CASE z = s
      BY <2>3, <3>1 DEF Moved
    <3>2. CASE z # s
      <4>1. record'[s] = record[s]
        BY <1>1, <2>3, <3>2 DEF RecordFill, RecordFailure, Slash
      <4> QED BY <4>1 DEF Moved
    <3> QED BY <3>1, <3>2
  <2> QED BY <1>6, <2>1, <2>3 DEF SettlementCall
<1> QED BY <1>3, <1>5, <1>6 DEF Next

\* What each outcome makes of the record.
LEMMA FillOf ==
  ASSUME RegistryAssumption, Inv, NEW s \in Solvers, NEW i, NEW amount \in Volumes,
         RecordFill(s, i, amount)
  PROVE  /\ record'[s].fills_completed = record[s].fills_completed + 1
         /\ record'[s].fills_failed = record[s].fills_failed
         /\ record'[s].total_volume = record[s].total_volume + amount
         /\ record'[s].bond_amount = record[s].bond_amount
         /\ thresholds' = thresholds /\ Scorable(record'[s]) /\ record'[s] \in SolverRecord
<1> DEFINE q == [record[s] EXCEPT !.fills_completed = @ + 1, !.total_volume = @ + amount]
<1>1. record \in [Solvers -> SolverRecord] /\ amount \in Nat
  BY DEF Inv, TypeOK, RegistryAssumption
<1>2. record' = [record EXCEPT ![s] = q] /\ Scorable(q) /\ thresholds' = thresholds
  BY Zenon DEF RecordFill
<1>3. record[s] \in SolverRecord
  BY <1>1
<1>4. q.fills_completed = record[s].fills_completed + 1 /\ q.fills_failed = record[s].fills_failed
      /\ q.total_volume = record[s].total_volume + amount
      /\ q.bond_amount = record[s].bond_amount /\ q \in SolverRecord
  <2>1. PICK x \in SolverRecord : x = record[s]
    BY <1>3
  <2>2. x.fills_completed + 1 \in Nat /\ x.total_volume + amount \in Nat
    BY <1>1 DEF SolverRecord
  <2> QED BY <2>1, <2>2 DEF SolverRecord
<1> HIDE DEF q
<1>5. record'[s] = q
  BY <1>1, <1>2
<1> QED BY <1>2, <1>4, <1>5

LEMMA FailureOf ==
  ASSUME RegistryAssumption, Inv, NEW s \in Solvers, NEW i, RecordFailure(s, i) \/ Slash(s, i)
  PROVE  /\ record'[s].fills_completed = record[s].fills_completed
         /\ record'[s].fills_failed = record[s].fills_failed + 1
         /\ record'[s].total_volume = record[s].total_volume
         /\ record'[s].bond_amount <= record[s].bond_amount
         /\ thresholds' = thresholds /\ record'[s] \in SolverRecord
<1>1. record \in [Solvers -> SolverRecord] /\ record[s] \in SolverRecord
  BY DEF Inv, TypeOK
<1>2. SlashAmount(record[s]) \in Nat /\ SlashAmount(record[s]) <= record[s].bond_amount
  BY <1>1, SlashWithinBond
<1>3. PICK a \in Nat : /\ a <= record[s].bond_amount /\ thresholds' = thresholds
                       /\ record'[s] = [record[s] EXCEPT !.bond_amount = @ - a,
                                                         !.fills_failed = @ + 1]
  <2>1. CASE RecordFailure(s, i)
    <3>1. record'[s] = [record[s] EXCEPT !.fills_failed = @ + 1] /\ thresholds' = thresholds
      BY <1>1, <2>1 DEF RecordFailure
    <3>2. record[s].bond_amount - 0 = record[s].bond_amount /\ 0 <= record[s].bond_amount
      BY <1>1 DEF SolverRecord
    <3>3. record'[s] = [record[s] EXCEPT !.bond_amount = @ - 0, !.fills_failed = @ + 1]
      BY <1>1, <3>1, <3>2 DEF SolverRecord
    <3> QED BY <3>1, <3>2, <3>3
  <2>2. CASE Slash(s, i)
    <3>1. /\ record' = [record EXCEPT ![s].bond_amount = @ - SlashAmount(record[s]),
                                      ![s].fills_failed = @ + 1]
          /\ thresholds' = thresholds
      BY Zenon, <2>2 DEF Slash
    <3> HIDE DEF SlashAmount
    <3>2. record'[s] = [record[s] EXCEPT !.bond_amount = @ - SlashAmount(record[s]),
                                         !.fills_failed = @ + 1]
      BY <1>1, <3>1
    <3> QED BY <1>2, <3>1, <3>2
  <2> QED BY <2>1, <2>2
<1>4. PICK x \in SolverRecord : x = record[s]
  BY <1>1
<1>5. x.bond_amount - a \in Nat /\ x.fills_failed + 1 \in Nat /\ x.bond_amount - a <= x.bond_amount
  BY <1>3, <1>4 DEF SolverRecord
<1>6. record'[s] = [x EXCEPT !.bond_amount = x.bond_amount - a, !.fills_failed = x.fills_failed + 1]
  BY <1>3, <1>4
<1>7. record'[s] \in SolverRecord
  BY <1>5, <1>6 DEF SolverRecord
<1> QED BY <1>3, <1>4, <1>5, <1>6, <1>7 DEF SolverRecord

\* No reachable record's score divides by zero or subtracts below it.
THEOREM ScoresComputable == Spec => []AllScorable
<1> USE RegistryAssumption
<1>1. ASSUME NEW r, r.total_volume = 0 PROVE Scorable(r)
  <2>1. VolumeScale \in Nat /\ Word \in Nat /\ VolumeScale + 1 < Word /\ Bps \in Nat \ {0}
    BY DEF RegistryAssumption
  <2>2. VolumeWord(r) = VolumeScale + 1
    <3>1. VolumeScale + 0 + 1 = VolumeScale + 1 /\ (VolumeScale + 1) % Word = VolumeScale + 1
      BY <2>1
    <3> QED BY <1>1, <3>1 DEF VolumeWord
  <2>3. PICK a \in Nat, w \in Nat \ {0}, x \in Nat :
          a = VolumeScale * Bps /\ w = VolumeScale + 1 /\ x = a \div w
    <3>1. VolumeScale * Bps \in Nat /\ VolumeScale + 1 \in Nat \ {0}
      BY <2>1, ProductNat
    <3> QED BY <3>1, Quotient
  <2>4. x <= Bps
    <3>1. x * w <= a /\ a \in Nat
      BY <2>3, Quotient
    <3>2. Bps * w = a + Bps
      BY <2>1, <2>3
    <3> SUFFICES ASSUME Bps + 1 <= x PROVE FALSE
      BY <2>1, <2>3
    <3>3. (Bps + 1) * w <= x * w /\ (Bps + 1) * w = Bps * w + w /\ x * w \in Nat
      BY <2>1, <2>3, ProductRises, ProductNat
    <3> QED BY <2>1, <2>3, <3>1, <3>2, <3>3
  <2>5. x \div 10 \in Nat /\ x \div 10 <= x
    BY <2>3
  <2>6. Decay(r) = x \div 10
    BY <2>2, <2>3 DEF Decay
  <2> QED BY <2>1, <2>2, <2>3, <2>4, <2>5, <2>6 DEF Scorable
<1>2. Init => AllScorable
  <2>1. NewRecord.total_volume = 0
    BY DEF NewRecord
  <2> QED BY <1>1, <2>1 DEF Init, AllScorable
<1>3. Inv /\ AllScorable /\ [Next]_vars => AllScorable'
  <2> SUFFICES ASSUME Inv, AllScorable, [Next]_vars, NEW s \in Solvers
               PROVE  Scorable(record'[s])
    BY DEF AllScorable, Scorable, Decay, VolumeWord
  <2>1. Scorable(record[s])
    BY DEF AllScorable
  <2>2. ASSUME record'[s].total_volume = record[s].total_volume PROVE Scorable(record'[s])
    BY <2>1, <2>2, SameVolume
  <2>3. Moved(s)
    BY RecordMoves
  <2>4. CASE \E i \in Intents : \E amount \in Volumes : RecordFill(s, i, amount)
    BY <2>4, FillOf
  <2>5. CASE \E i \in Intents : RecordFailure(s, i) \/ Slash(s, i)
    BY <2>2, <2>5, FailureOf
  <2> QED BY <1>1, <2>2, <2>3, <2>4, <2>5 DEF Moved
<1> QED BY <1>2, <1>3, Invariant, PTL DEF Spec

\* The tier of a record that moved, from one table.
LEMMA TierMoves ==
  ASSUME RegistryAssumption, Inv, NEW r \in SolverRecord, NEW q \in SolverRecord,
         VolumeWord(r) # 0, VolumeWord(q) # 0,
         r.bond_amount <= q.bond_amount, ScoreOf(r) <= ScoreOf(q)
  PROVE  TierOf(r) <= TierOf(q)
<1> DEFINE M(x) == {t \in Tiers : Meets(x, t)}
<1>1. TopTier \in Nat /\ TierOf(r) = Max({0} \cup M(r)) /\ TierOf(q) = Max({0} \cup M(q))
  BY DEF TierOf, RegistryAssumption
<1>2. M(r) \subseteq M(q)
  <2>1. \A t \in Tiers : thresholds[t].min_bond \in Nat /\ thresholds[t].min_score_bps \in Nat
    BY DEF Inv, TypeOK, TierThreshold
  <2>2. ScoreOf(r) \in Int /\ ScoreOf(q) \in Int
    BY ScoreIsInt
  <2>3. r.bond_amount \in Nat /\ q.bond_amount \in Nat
    BY DEF SolverRecord
  <2> QED BY <2>1, <2>2, <2>3 DEF Meets
<1>3. TierOf(r) \in {0} \cup M(r) /\ TierOf(q) \in Nat /\ \A t \in M(q) : t <= TierOf(q)
  <2>1. M(r) \in SUBSET Tiers /\ M(q) \in SUBSET Tiers
    OBVIOUS
  <2> HIDE DEF M
  <2>2. TierOf(q) \in Tiers
    BY <1>1, <2>1, HighestTier
  <2>3. TierOf(r) \in {0} \cup M(r) /\ \A t \in M(q) : t <= TierOf(q)
    BY <1>1, <2>1, HighestTier
  <2> QED BY <2>2, <2>3 DEF Tiers
<1> QED BY <1>2, <1>3

\* A failure or a slash never raises a solver's tier, and a fill never lowers it, through
\* two divisions that are rounded down, until the volume leaves its word.
THEOREM TiersFollowOutcomes == Spec => TierFollowsOutcomes
<1> USE RegistryAssumption
<1> DEFINE tier(s) == TierOf(record[s])
           counted(s) == VolumeScale + record'[s].total_volume + 1 < Word
           A == \A s \in registered \cap registered' :
                  /\ record'[s].fills_completed > record[s].fills_completed /\ counted(s)
                       => tier(s)' >= tier(s)
                  /\ record'[s].fills_failed > record[s].fills_failed => tier(s)' <= tier(s)
<1>1. Inv /\ Inv' /\ AllScorable /\ AllScorable' /\ [Next]_vars => A
  <2> SUFFICES ASSUME Inv, Inv', AllScorable, AllScorable', [Next]_vars,
                      NEW s \in registered \cap registered'
               PROVE  /\ record'[s].fills_completed > record[s].fills_completed /\ counted(s)
                           => tier(s)' >= tier(s)
                      /\ record'[s].fills_failed > record[s].fills_failed => tier(s)' <= tier(s)
    BY DEF A
  <2> DEFINE r == record[s]
             q == record'[s]
  <2>1. s \in Solvers /\ r \in SolverRecord /\ q \in SolverRecord
    BY DEF Inv, TypeOK
  <2>2. Scorable(r) /\ Scorable(q) /\ VolumeWord(r) # 0 /\ VolumeWord(q) # 0
    BY <2>1 DEF AllScorable, Scorable, Decay, VolumeWord
  <2>3. /\ r.fills_completed \in Nat /\ r.fills_failed \in Nat /\ r.total_volume \in Nat
        /\ r.bond_amount \in Nat
    BY <2>1 DEF SolverRecord
  <2>4. ASSUME thresholds' = thresholds
        PROVE  tier(s)' = TierOf(q)
    <3>1. ScoreOf(record[s])' = ScoreOf(q)
      BY DEF ScoreOf, SuccessRate, VolumeFactor, Decay, VolumeWord
    <3>2. \A t : Meets(record[s], t)' <=> Meets(q, t)
      BY <2>4, <3>1 DEF Meets
    <3> QED BY <3>2 DEF TierOf
  <2>5. TierOf(r) \in Nat
    BY TierIsMet DEF Tiers, RegistryAssumption
  <2>6. ASSUME NEW i \in Intents, NEW amount \in Volumes, RecordFill(s, i, amount), counted(s)
        PROVE  tier(s)' >= tier(s)
    <3>1. /\ q.fills_completed = r.fills_completed + 1 /\ q.fills_failed = r.fills_failed
          /\ q.total_volume = r.total_volume + amount /\ amount \in Nat
          /\ q.bond_amount = r.bond_amount /\ thresholds' = thresholds
      BY <2>1, <2>6, FillOf DEF RegistryAssumption
    <3>2. r.total_volume <= q.total_volume /\ r.bond_amount <= q.bond_amount
      BY <2>3, <3>1
    <3> HIDE DEF r, q
    <3>3. VolumeScale + q.total_volume + 1 < Word
      BY <2>6 DEF q
    <3>4. ScoreOf(r) <= ScoreOf(q)
      BY <2>1, <2>2, <3>1, <3>2, <3>3, FillRaisesScore
    <3>5. TierOf(r) <= TierOf(q)
      BY <2>1, <2>2, <3>2, <3>4, TierMoves
    <3>6. TierOf(q) \in Nat
      BY TierIsMet DEF Tiers, RegistryAssumption
    <3> QED BY <2>4, <2>5, <3>1, <3>5, <3>6 DEF r
  <2>7. ASSUME NEW i \in Intents, RecordFailure(s, i) \/ Slash(s, i)
        PROVE  tier(s)' <= tier(s)
    <3>1. /\ q.fills_completed = r.fills_completed /\ q.fills_failed = r.fills_failed + 1
          /\ q.total_volume = r.total_volume /\ q.bond_amount <= r.bond_amount
          /\ thresholds' = thresholds
      BY <2>1, <2>7, FailureOf
    <3> HIDE DEF r, q
    <3>2. ScoreOf(q) <= ScoreOf(r)
      BY <2>1, <2>2, <3>1, FailureLowersScore
    <3>3. TierOf(q) <= TierOf(r)
      BY <2>1, <2>2, <3>1, <3>2, TierMoves
    <3> QED BY <2>4, <3>1, <3>3 DEF r
  <2>8. Moved(s)
    BY <2>1, RecordMoves
  <2>9. CASE /\ q.fills_completed = r.fills_completed /\ q.fills_failed = r.fills_failed
             /\ q.total_volume = r.total_volume
    BY <2>3, <2>9
  <2>10. CASE \E i \in Intents : \E amount \in Volumes : RecordFill(s, i, amount)
    <3>1. ~ (q.fills_failed > r.fills_failed)
      BY <2>1, <2>3, <2>10, FillOf
    <3>2. counted(s) => tier(s)' >= tier(s)
      BY <2>6, <2>10
    <3> QED BY <3>1, <3>2
  <2>11. CASE \E i \in Intents : RecordFailure(s, i) \/ Slash(s, i)
    <3>1. ~ (q.fills_completed > r.fills_completed)
      BY <2>1, <2>3, <2>11, FailureOf
    <3>2. tier(s)' <= tier(s)
      BY <2>7, <2>11
    <3> QED BY <3>1, <3>2
  <2> QED BY <2>8, <2>9, <2>10, <2>11 DEF Moved
<1>2. Inv /\ Inv' /\ AllScorable /\ AllScorable' /\ [Next]_vars => [A]_vars
  BY <1>1
<1>3. Spec => [][A]_vars
  BY <1>2, Invariant, ScoresComputable, PTL DEF Spec
<1> QED
  BY <1>3 DEF TierFollowsOutcomes

\* A bond shrinks under an obligation only by a slash for an intent not slashed before.
THEOREM BondsStayLocked == Spec => BondLockedWhileObliged
<1> DEFINE A == \A s \in Solvers :
       record'[s].bond_amount < record[s].bond_amount =>
         \/ \A i \in Intents : <<s, i>> \notin obligations
         \/ \E i \in Intents : <<"slash", i>> \in recorded' \ recorded
<1>1. Inv /\ [Next]_vars => [A]_vars
  <2> SUFFICES ASSUME Inv, Next, NEW s \in Solvers,
                      record'[s].bond_amount < record[s].bond_amount
               PROVE  \/ \A i \in Intents : <<s, i>> \notin obligations
                      \/ \E i \in Intents : <<"slash", i>> \in recorded' \ recorded
    BY DEF A
  <2> USE RegistryAssumption
  <2>1. /\ record \in [Solvers -> SolverRecord] /\ registered \subseteq Solvers
        /\ \A z \in Solvers : record[z].bond_amount \in Nat
        /\ \A z \in Solvers : z \notin registered => record[z].bond_amount = 0
    BY NewRecordIsFresh DEF Inv, TypeOK, RecordsKept, SolverRecord
  <2>2. ASSUME NEW z \in Solvers, Unobliged(z) PROVE \A i \in Intents : <<z, i>> \notin obligations
    BY <2>2, UnobligedHasNoLocks DEF Inv, Locks
  <2>3. CASE AdminCall
    BY <2>1, <2>3 DEF AdminCall, SetWriter, SetTierThreshold
  <2>4. ASSUME NEW z \in Solvers, SolverCall(z)
        PROVE  \A i \in Intents : <<s, i>> \notin obligations
    <3>1. CASE \E amount \in Bonds : RegisterSolver(z, amount)
      <4>1. PICK amount \in Bonds : RegisterSolver(z, amount)
        BY <3>1
      <4>2. amount \in Nat /\ z \notin registered /\ record[z].bond_amount = 0
        BY <4>1, <2>1 DEF RegisterSolver, RegistryAssumption
      <4>3. record'[z].bond_amount = amount
            /\ \A y \in Solvers \ {z} : record'[y] = record[y]
        BY <4>1, <4>2, <2>1, NewRecordKept DEF RegisterSolver
      <4> QED
        BY <4>2, <4>3, <2>1
    <3>2. CASE \E amount \in Amounts : Stake(z, amount)
      <4>1. PICK amount \in Amounts : Stake(z, amount)
        BY <3>2
      <4>2. record'[z].bond_amount = record[z].bond_amount + amount /\ amount \in Nat
            /\ \A y \in Solvers \ {z} : record'[y] = record[y]
        BY <4>1, <2>1 DEF Stake, RegistryAssumption, SolverRecord
      <4> QED
        BY <4>2, <2>1
    <3>3. CASE DeregisterSolver(z) \/ \E amount \in Amounts : Unstake(z, amount)
      <4>1. Unobliged(z) /\ \A y \in Solvers \ {z} : record'[y] = record[y]
        BY <3>3, <2>1 DEF DeregisterSolver, Unstake
      <4>2. s = z
        BY <4>1, <2>1
      <4> QED
        BY <4>1, <4>2, <2>2
    <3> QED
      BY <2>4, <3>1, <3>2, <3>3 DEF SolverCall
  <2>5. ASSUME NEW z \in Solvers, NEW i \in Intents, SettlementCall(z, i)
        PROVE  <<"slash", i>> \in recorded' \ recorded
    <3>1. CASE Slash(z, i)
      BY <3>1 DEF Slash, NotRecorded
    <3>2. CASE \E amount \in Volumes : RecordFill(z, i, amount)
      <4>1. record'[s].bond_amount = record[s].bond_amount
        BY <3>2, <2>1 DEF RecordFill, SolverRecord
      <4> QED
        BY <4>1, <2>1
    <3>3. CASE RecordFailure(z, i)
      <4>1. record'[s].bond_amount = record[s].bond_amount
        BY <3>3, <2>1 DEF RecordFailure, SolverRecord
      <4> QED
        BY <4>1, <2>1
    <3>4. CASE LockObligation(z, i) \/ ReleaseObligation(z, i)
      BY <3>4, <2>1 DEF LockObligation, ReleaseObligation
    <3> QED
      BY <2>5, <3>1, <3>2, <3>3, <3>4 DEF SettlementCall
  <2> QED
    BY <2>3, <2>4, <2>5 DEF Next
<1>2. Spec => [][A]_vars
  BY <1>1, Invariant, PTL DEF Spec
<1> QED
  BY <1>2 DEF BondLockedWhileObliged

-----------------------------------------------------------------------------
(* Outcomes count once.                                                    *)

Outcomes(action) == {i \in Intents : <<action, i>> \in recorded}

Fills == [s \in Solvers |-> record[s].fills_completed]

Failures == [s \in Solvers |-> record[s].fills_failed]

\* What is written down of one member grows the sum by no more.
LEMMA SumGrowsBy ==
  ASSUME IsFiniteSet(Solvers), NEW f \in [Solvers -> Nat], NEW g \in [Solvers -> Nat],
         NEW s \in Solvers, \A z \in Solvers \ {s} : g[z] = f[z],
         NEW d \in Nat, g[s] <= f[s] + d,
         NEW n \in Nat, SumFunctionOnSet(f, Solvers) <= n
  PROVE  SumFunctionOnSet(g, Solvers) <= n + d
<1>1. \A z \in Solvers : f[z] \in Int /\ g[z] \in Int
  OBVIOUS
<1>2. SumFunctionOnSet(g, Solvers) = SumFunctionOnSet(f, Solvers) + g[s] - f[s]
  BY <1>1, SumChanges
<1>3. SumFunctionOnSet(f, Solvers) \in Int
  BY <1>1, SumIsInt
<1> QED
  BY <1>1, <1>2, <1>3

LEMMA OutcomesAreCounted ==
  ASSUME RegistryAssumption, NEW action
  PROVE  IsFiniteSet(Outcomes(action)) /\ Cardinality(Outcomes(action)) \in Nat
BY FS_Subset, FS_CardinalityType DEF RegistryAssumption, Outcomes

LEMMA CountsInit ==
  ASSUME RegistryAssumption, Init
  PROVE  CountedOnce
<1>1. IsFiniteSet(Solvers) /\ 0 \in Int
  BY DEF RegistryAssumption
<1>2. \A s \in Solvers : Fills[s] = 0 /\ Failures[s] = 0
  BY DEF Init, Fills, Failures, NewRecord
<1>3. SumFunctionOnSet(Fills, Solvers) = 0 * Cardinality(Solvers)
      /\ SumFunctionOnSet(Failures, Solvers) = 0 * Cardinality(Solvers)
  BY <1>1, <1>2, SumOfEqual
<1>4. Cardinality(Solvers) \in Nat
  BY <1>1, FS_CardinalityType
<1>5. SumFunctionOnSet(Fills, Solvers) = 0 /\ SumFunctionOnSet(Failures, Solvers) = 0
  BY <1>3, <1>4
<1>6. \A action \in Actions : Cardinality(Outcomes(action)) \in Nat
  BY OutcomesAreCounted
<1> QED
  BY <1>5, <1>6 DEF CountedOnce, Fills, Failures, Outcomes, Actions

\* A step that writes one solver's record may count as many more outcomes as it
\* writes down.
LEMMA CountsStep ==
  ASSUME RegistryAssumption, TypeOK, CountedOnce, record' \in [Solvers -> SolverRecord],
         NEW s \in Solvers, \A z \in Solvers \ {s} : record'[z] = record[z],
         NEW d \in Nat, NEW e \in Nat,
         record'[s].fills_completed <= record[s].fills_completed + d,
         record'[s].fills_failed <= record[s].fills_failed + e,
         Cardinality(Outcomes("fill")') = Cardinality(Outcomes("fill")) + d,
         Cardinality(Outcomes("failure")') + Cardinality(Outcomes("slash")')
           = Cardinality(Outcomes("failure")) + Cardinality(Outcomes("slash")) + e
  PROVE  CountedOnce'
<1> DEFINE n == Cardinality(Outcomes("fill"))
           m == Cardinality(Outcomes("failure")) + Cardinality(Outcomes("slash"))
<1>1. n \in Nat /\ m \in Nat /\ IsFiniteSet(Solvers)
  BY OutcomesAreCounted DEF RegistryAssumption
<1>2. \A z \in Solvers : /\ record[z].fills_completed \in Nat /\ record[z].fills_failed \in Nat
                         /\ record'[z].fills_completed \in Nat /\ record'[z].fills_failed \in Nat
  BY DEF TypeOK, SolverRecord
<1>3. Fills \in [Solvers -> Nat] /\ Failures \in [Solvers -> Nat]
  BY <1>2 DEF Fills, Failures
<1>4. PICK g : g = Fills'
  OBVIOUS
<1>5. PICK h : h = Failures'
  OBVIOUS
<1>6. g \in [Solvers -> Nat] /\ h \in [Solvers -> Nat]
  BY <1>2, <1>4, <1>5 DEF Fills, Failures
<1>7. /\ \A z \in Solvers \ {s} : g[z] = Fills[z] /\ h[z] = Failures[z]
      /\ g[s] <= Fills[s] + d /\ h[s] <= Failures[s] + e
  BY <1>4, <1>5 DEF Fills, Failures
<1>8. SumFunctionOnSet(Fills, Solvers) <= n /\ SumFunctionOnSet(Failures, Solvers) <= m
  BY DEF CountedOnce, Fills, Failures, Outcomes
<1>9. SumFunctionOnSet(g, Solvers) <= n + d
  BY <1>1, <1>3, <1>6, <1>7, <1>8, SumGrowsBy
<1>10. SumFunctionOnSet(h, Solvers) <= m + e
  BY <1>1, <1>3, <1>6, <1>7, <1>8, SumGrowsBy
<1>11. /\ SumFunctionOnSet(Fills', Solvers) <= Cardinality(Outcomes("fill")')
       /\ SumFunctionOnSet(Failures', Solvers)
            <= Cardinality(Outcomes("failure")') + Cardinality(Outcomes("slash")')
  BY <1>4, <1>5, <1>9, <1>10
<1> QED
  BY <1>11 DEF CountedOnce, Fills, Failures, Outcomes

\* Writing an outcome down adds one to its action's, and nothing to the others'.
LEMMA Recording ==
  ASSUME RegistryAssumption, NEW a, NEW i \in Intents,
         <<a, i>> \notin recorded, recorded' = recorded \cup {<<a, i>>}
  PROVE  /\ Cardinality(Outcomes(a)') = Cardinality(Outcomes(a)) + 1
         /\ \A b : b # a => Outcomes(b)' = Outcomes(b)
<1>1. Outcomes(a)' = Outcomes(a) \cup {i} /\ i \notin Outcomes(a)
  BY DEF Outcomes
<1>2. Cardinality(Outcomes(a) \cup {i}) = Cardinality(Outcomes(a)) + 1
  BY <1>1, OutcomesAreCounted, FS_AddElement
<1>3. \A b : b # a => Outcomes(b)' = Outcomes(b)
  BY DEF Outcomes
<1> QED
  BY <1>1, <1>2, <1>3

LEMMA CountsKept ==
  ASSUME RegistryAssumption, Inv, Inv', CountedOnce, Next
  PROVE  CountedOnce'
<1>1. /\ TypeOK /\ record' \in [Solvers -> SolverRecord]
      /\ record \in [Solvers -> SolverRecord]
      /\ \A z \in Solvers : record[z].fills_completed \in Nat /\ record[z].fills_failed \in Nat
  BY DEF Inv, TypeOK, SolverRecord
<1>2. \A a \in Actions : Cardinality(Outcomes(a)) \in Nat
  BY OutcomesAreCounted
<1>3. ASSUME NEW s \in Solvers, recorded' = recorded,
             \A z \in Solvers \ {s} : record'[z] = record[z],
             record'[s].fills_completed <= record[s].fills_completed,
             record'[s].fills_failed <= record[s].fills_failed
      PROVE  CountedOnce'
  <2>1. \A a \in Actions : Outcomes(a)' = Outcomes(a)
    BY <1>3 DEF Outcomes
  <2>2. /\ Cardinality(Outcomes("fill")') = Cardinality(Outcomes("fill")) + 0
        /\ Cardinality(Outcomes("failure")') + Cardinality(Outcomes("slash")')
             = Cardinality(Outcomes("failure")) + Cardinality(Outcomes("slash")) + 0
    BY <1>2, <2>1 DEF Actions
  <2>3. /\ record'[s].fills_completed <= record[s].fills_completed + 0
        /\ record'[s].fills_failed <= record[s].fills_failed + 0
    BY <1>1, <1>3
  <2> QED
    BY <1>1, <1>3, <2>2, <2>3, 0 \in Nat, CountsStep
<1>4. ASSUME UNCHANGED <<record, recorded>> PROVE CountedOnce'
  BY <1>4 DEF CountedOnce
<1>5. CASE AdminCall
  BY <1>4, <1>5 DEF AdminCall, SetWriter, SetTierThreshold
<1>6. ASSUME NEW s \in Solvers, SolverCall(s) PROVE CountedOnce'
  <2>1. recorded' = recorded /\ \A z \in Solvers \ {s} : record'[z] = record[z]
    BY <1>1, <1>6 DEF SolverCall, RegisterSolver, Stake, Unstake, DeregisterSolver
  <2>2. \/ record'[s].fills_completed = 0 /\ record'[s].fills_failed = 0
        \/ /\ record'[s].fills_completed = record[s].fills_completed
           /\ record'[s].fills_failed = record[s].fills_failed
    <3>1. CASE DeregisterSolver(s)
      BY <1>1, <3>1 DEF DeregisterSolver, NewRecord
    <3>2. CASE \E amount \in Bonds : RegisterSolver(s, amount)
      BY <1>1, <3>2 DEF RegisterSolver, NewRecord
    <3>3. CASE \E amount \in Amounts : Stake(s, amount) \/ Unstake(s, amount)
      BY <1>1, <3>3 DEF Stake, Unstake, SolverRecord
    <3> QED
      BY <1>6, <3>1, <3>2, <3>3 DEF SolverCall
  <2>3. /\ record'[s].fills_completed <= record[s].fills_completed
        /\ record'[s].fills_failed <= record[s].fills_failed
    BY <1>1, <2>2
  <2> QED
    BY <1>3, <2>1, <2>3
<1>7. ASSUME NEW s \in Solvers, NEW i \in Intents, SettlementCall(s, i) PROVE CountedOnce'
  <2>1. CASE \E amount \in Volumes : RecordFill(s, i, amount)
    <3>1. /\ <<"fill", i>> \notin recorded /\ recorded' = recorded \cup {<<"fill", i>>}
          /\ \A z \in Solvers \ {s} : record'[z] = record[z]
          /\ record'[s].fills_completed = record[s].fills_completed + 1
          /\ record'[s].fills_failed = record[s].fills_failed
      BY <1>1, <2>1 DEF RecordFill, NotRecorded, SolverRecord
    <3>2. /\ Cardinality(Outcomes("fill")') = Cardinality(Outcomes("fill")) + 1
          /\ \A b : b # "fill" => Outcomes(b)' = Outcomes(b)
      BY <3>1, Recording
    <3>3. Cardinality(Outcomes("failure")') + Cardinality(Outcomes("slash")')
            = Cardinality(Outcomes("failure")) + Cardinality(Outcomes("slash")) + 0
      BY <1>2, <3>2 DEF Actions
    <3>4. /\ record'[s].fills_completed <= record[s].fills_completed + 1
          /\ record'[s].fills_failed <= record[s].fills_failed + 0
      BY <1>1, <3>1
    <3> QED
      BY <1>1, <3>1, <3>2, <3>3, <3>4, 0 \in Nat, 1 \in Nat, CountsStep
  <2>2. CASE RecordFailure(s, i) \/ Slash(s, i)
    <3>1. PICK a \in {"failure", "slash"} :
            <<a, i>> \notin recorded /\ recorded' = recorded \cup {<<a, i>>}
      BY <2>2 DEF RecordFailure, Slash, NotRecorded
    <3>2. /\ \A z \in Solvers \ {s} : record'[z] = record[z]
          /\ record'[s].fills_completed = record[s].fills_completed
          /\ record'[s].fills_failed = record[s].fills_failed + 1
      BY <1>1, <2>2 DEF RecordFailure, Slash, SolverRecord
    <3>3. /\ Cardinality(Outcomes(a)') = Cardinality(Outcomes(a)) + 1
          /\ \A b : b # a => Outcomes(b)' = Outcomes(b)
      BY <3>1, Recording
    <3>4. Cardinality(Outcomes("fill")') = Cardinality(Outcomes("fill")) + 0
      BY <1>2, <3>3 DEF Actions
    <3>5. Cardinality(Outcomes("failure")') + Cardinality(Outcomes("slash")')
            = Cardinality(Outcomes("failure")) + Cardinality(Outcomes("slash")) + 1
      BY <1>2, <3>3 DEF Actions
    <3>6. /\ record'[s].fills_completed <= record[s].fills_completed + 0
          /\ record'[s].fills_failed <= record[s].fills_failed + 1
      BY <1>1, <3>2
    <3> QED
      BY <1>1, <3>2, <3>4, <3>5, <3>6, 0 \in Nat, 1 \in Nat, CountsStep
  <2>3. CASE LockObligation(s, i) \/ ReleaseObligation(s, i)
    BY <1>4, <2>3 DEF LockObligation, ReleaseObligation
  <2> QED
    BY <1>7, <2>1, <2>2, <2>3 DEF SettlementCall
<1> QED
  BY <1>5, <1>6, <1>7 DEF Next

\* All solvers' records together hold no more fills than fills were recorded, and no
\* more failures than failures and slashes: a repeated or misdirected report counts
\* nothing, and a new record after deregistering brings nothing back.
THEOREM OutcomesCountOnce == Spec => []CountedOnce
<1>1. Init => CountedOnce
  BY CountsInit, RegistryAssumption
<1>2. Inv /\ Inv' /\ CountedOnce /\ [Next]_vars => CountedOnce'
  <2>1. ASSUME CountedOnce, UNCHANGED vars PROVE CountedOnce'
    BY <2>1 DEF vars, CountedOnce
  <2> QED
    BY <2>1, CountsKept, RegistryAssumption
<1> QED
  BY <1>1, <1>2, Invariant, PTL DEF Spec
===========================================================================
