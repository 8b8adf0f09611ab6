----------------------------- MODULE PoolProofs -----------------------------
(***************************************************************************)
(* Proofs about the contracts that pool tokens of others or keep accounts  *)
(* of amounts: the backstop vault, for any LPs, amounts, covers, incomes   *)
(* and configurations, and any seeds of virtual shares and assets; the fee *)
(* router, for any sinks and weights; the treasury's streams, for any      *)
(* schedules and amounts; and the settlement's submissions: the daily      *)
(* policy, for any batches and caps, and the paged history of a user, for  *)
(* any sizes of its pages.                                                 *)
(***************************************************************************)
EXTENDS BackstopVault, FeeRouter, TreasuryStreams, Submissions, Sums

(***************************************************************************)
(* The backstop vault.                                                     *)
(***************************************************************************)

\* Every share but the virtual ones is an LP's.
SharesExact == total_shares = VirtualShares + SumFunctionOnSet(shares, LPs)

Inv == VaultTypeOK /\ AssetsBacked /\ SharesExact

-----------------------------------------------------------------------------
(* Counting shares.                                                        *)

LEMMA SharesAdd ==
  ASSUME VaultAssumption, NEW f \in [LPs -> Nat], NEW g \in [LPs -> Nat],
         NEW lp \in LPs, NEW n \in Int, g[lp] = f[lp] + n,
         \A x \in LPs \ {lp} : f[x] = g[x]
  PROVE  SumFunctionOnSet(g, LPs) = SumFunctionOnSet(f, LPs) + n
<1>1. IsFiniteSet(LPs)
  BY DEF VaultAssumption
<1>2. \A x \in LPs : f[x] \in Int /\ g[x] \in Int
  OBVIOUS
<1>3. SumFunctionOnSet(g, LPs) = SumFunctionOnSet(f, LPs) + g[lp] - f[lp]
  BY <1>1, <1>2, SumChanges
<1>4. SumFunctionOnSet(f, LPs) \in Int
  BY <1>1, <1>2, SumIsInt
<1> QED
  BY <1>2, <1>3, <1>4

-----------------------------------------------------------------------------
(* What the parts of a step do.                                            *)

LEMMA InvFacts ==
  ASSUME VaultAssumption, Inv
  PROVE  /\ total_shares \in Nat \ {0} /\ total_assets \in Nat \ {0} /\ vault_balance \in Nat
         /\ VirtualShares \in Nat \ {0} /\ VirtualAssets \in Nat \ {0}
         /\ shares \in [LPs -> Nat] /\ IsFiniteSet(LPs)
         /\ SumFunctionOnSet(shares, LPs) \in Nat
<1>1. shares \in [LPs -> Nat] /\ IsFiniteSet(LPs) /\ \A lp \in LPs : shares[lp] \in Nat
  BY DEF Inv, VaultTypeOK, VaultAssumption
<1>2. SumFunctionOnSet(shares, LPs) \in Nat
  BY <1>1, SumOfPart
<1> QED
  BY <1>1, <1>2 DEF Inv, VaultTypeOK, SharesExact, VaultAssumption

LEMMA WorthIsNat ==
  ASSUME VaultAssumption, Inv, NEW n \in Nat
  PROVE  Worth(n) \in Nat /\ Worth(n) * total_shares <= n * total_assets
<1>1. n * total_assets \in Nat /\ total_shares \in Nat \ {0}
  BY InvFacts
<1> QED
  BY <1>1, Quotient DEF Worth

LEMMA MintedIsNat ==
  ASSUME VaultAssumption, Inv, NEW amount \in Nat
  PROVE  /\ Minted(amount) \in Nat \ {0}
         /\ \/ Minted(amount) * total_assets <= amount * total_shares
            \/ (Minted(amount) = 1 /\ amount * total_shares < total_assets)
<1> DEFINE q == (amount * total_shares) \div total_assets
<1>1. amount * total_shares \in Nat /\ total_assets \in Nat \ {0}
  BY InvFacts
<1>2. q \in Nat /\ q * total_assets <= amount * total_shares
      /\ amount * total_shares < q * total_assets + total_assets
  BY <1>1, Quotient
<1>3. Minted(amount) = IF q >= 1 THEN q ELSE 1
  BY DEF Minted, Larger
<1> HIDE DEF q
<1>4. CASE q >= 1
  BY <1>2, <1>3, <1>4
<1>5. CASE q = 0
  BY <1>1, <1>2, <1>3, <1>5
<1> QED
  BY <1>2, <1>4, <1>5

\* A payment leaves at least the virtual assets.
LEMMA PayEffect ==
  ASSUME VaultAssumption, Inv, NEW amount \in Nat, Pay(amount)
  PROVE  AssetsBacked' /\ total_assets' \in Nat \ {0} /\ vault_balance' \in Nat
<1>1. vault_balance = total_assets - VirtualAssets
  BY DEF Inv, AssetsBacked
<1> QED
  BY <1>1, InvFacts DEF Pay, AssetsBacked

LEMMA BurnEffect ==
  ASSUME VaultAssumption, Inv, NEW lp \in LPs, NEW n \in Nat, n <= shares[lp], Burn(lp, n)
  PROVE  SharesExact' /\ shares' \in [LPs -> Nat] /\ total_shares' \in Nat
<1>1. PICK g : g = shares'
  OBVIOUS
<1>2. /\ shares[lp] - n \in Nat /\ 0 - n \in Int
      /\ shares' = [shares EXCEPT ![lp] = shares[lp] - n]
  BY InvFacts DEF Burn
<1>3. /\ g \in [LPs -> Nat] /\ g[lp] = shares[lp] + (0 - n)
      /\ \A x \in LPs \ {lp} : shares[x] = g[x]
  BY <1>1, <1>2, InvFacts
<1>4. SumFunctionOnSet(g, LPs) = SumFunctionOnSet(shares, LPs) + (0 - n)
  BY <1>2, <1>3, InvFacts, SharesAdd
<1>5. SumFunctionOnSet(g, LPs) \in Nat
  <2>1. \A x \in LPs : g[x] \in Nat
    BY <1>3
  <2> QED
    BY <2>1, InvFacts, SumOfPart
<1>6. total_shares' = VirtualShares + SumFunctionOnSet(g, LPs)
  BY <1>4, InvFacts DEF Burn, Inv, SharesExact
<1>7. SumFunctionOnSet(shares', LPs) = SumFunctionOnSet(g, LPs)
  BY <1>1
<1> QED
  BY <1>1, <1>5, <1>6, <1>7, <1>3, InvFacts DEF SharesExact

\* Nothing about shares changes.
LEMMA SharesKept ==
  ASSUME Inv, UNCHANGED <<shares, total_shares>>
  PROVE  SharesExact' /\ shares' \in [LPs -> Nat] /\ total_shares' \in Nat
BY DEF Inv, VaultTypeOK, SharesExact

-----------------------------------------------------------------------------
(* The invariant.                                                          *)

LEMMA InitInv ==
  ASSUME VaultAssumption, VaultInit
  PROVE  Inv
<1> DEFINE zero == [lp \in LPs |-> 0]
<1>0. zero \in [LPs -> Nat] /\ FirstConfig \in Configs
      /\ VirtualShares \in Nat \ {0} /\ VirtualAssets \in Nat \ {0}
  BY DEF VaultAssumption
<1>1. VaultTypeOK /\ AssetsBacked
  <2>1. shares = zero /\ cooldown = zero /\ queue = zero
    BY DEF VaultInit, ClockInit
  <2> HIDE DEF zero
  <2>2. /\ ledger_time \in Nat /\ config \in Configs /\ total_shares \in Nat
        /\ total_assets \in Nat \ {0} /\ vault_balance \in Nat /\ total_queued \in Int
        /\ AssetsBacked
    BY <1>0 DEF VaultInit, ClockInit, AssetsBacked
  <2>3. emergency \in BOOLEAN
    BY DEF VaultInit, ClockInit
  <2> QED
    BY <1>0, <2>1, <2>2, <2>3 DEF VaultTypeOK
<1>2. IsFiniteSet(LPs) /\ (\A lp \in LPs : shares[lp] = 0) /\ Cardinality(LPs) \in Nat
  BY FS_CardinalityType DEF VaultInit, VaultAssumption
<1>3. SumFunctionOnSet(shares, LPs) = 0 * Cardinality(LPs)
  BY <1>2, SumOfEqual, 0 \in Int
<1>4. SharesExact
  BY <1>0, <1>2, <1>3 DEF SharesExact, VaultInit
<1> QED
  BY <1>1, <1>4 DEF Inv

LEMMA LPKeepsInv ==
  ASSUME VaultAssumption, Inv, NEW lp \in LPs, LPCall(lp)
  PROVE  Inv'
<1> USE InvFacts
<1>1. /\ ledger_time \in Nat /\ config \in BackstopConfig /\ cooldown \in [LPs -> Nat]
      /\ queue \in [LPs -> Nat] /\ total_queued \in Int
      /\ Deposits \subseteq Nat /\ Redemptions \subseteq Nat
  BY DEF Inv, VaultTypeOK, VaultAssumption
<1>2. ASSUME NEW amount \in Deposits, Deposit(lp, amount) PROVE Inv'
  <2> DEFINE m == Minted(amount)
  <2>1. amount \in Nat /\ m \in Nat
    BY <1>1, MintedIsNat
  <2>2. /\ shares' = [shares EXCEPT ![lp] = @ + m] /\ total_shares' = total_shares + m
        /\ total_assets' = total_assets + amount /\ vault_balance' = vault_balance + amount
    BY <1>2 DEF Deposit
  <2> HIDE DEF m
  <2>3. shares' \in [LPs -> Nat] /\ total_shares' \in Nat
    BY <2>1, <2>2
  <2>4. SharesExact'
    <3>1. PICK g : g = shares'
      OBVIOUS
    <3>2. SumFunctionOnSet(g, LPs) = SumFunctionOnSet(shares, LPs) + m
      <4>1. g \in [LPs -> Nat] /\ g[lp] = shares[lp] + m /\ m \in Int
            /\ \A x \in LPs \ {lp} : shares[x] = g[x]
        BY <2>1, <2>2, <2>3, <3>1
      <4> QED
        BY <4>1, SharesAdd
    <3>3. SumFunctionOnSet(shares', LPs) = SumFunctionOnSet(g, LPs)
      BY <3>1
    <3> QED
      BY <3>2, <3>3, <2>1, <2>2 DEF SharesExact, Inv
  <2>5. AssetsBacked' /\ total_assets' \in Nat \ {0} /\ vault_balance' \in Nat
    BY <2>1, <2>2 DEF Inv, AssetsBacked
  <2>6. cooldown' \in [LPs -> Nat]
    <3>1. ledger_time + config.withdrawal_cooldown_secs \in Nat
      BY <1>1 DEF BackstopConfig
    <3> QED
      BY <3>1, <1>1, <1>2 DEF Deposit
  <2>7. VaultTypeOK'
    BY <1>2, <2>3, <2>5, <2>6 DEF Deposit, Inv, VaultTypeOK, queueVars
  <2> QED
    BY <2>4, <2>5, <2>7 DEF Inv
<1>3. ASSUME NEW n \in Redemptions, Withdraw(lp, n) PROVE Inv'
  <2>1. n \in Nat /\ n <= shares[lp] /\ Burn(lp, n) /\ Pay(Worth(n))
    BY <1>1, <1>3 DEF Withdraw, MayRedeem
  <2>2. Worth(n) \in Nat
    BY <2>1, WorthIsNat
  <2>3. SharesExact' /\ shares' \in [LPs -> Nat] /\ total_shares' \in Nat
    BY <2>1, BurnEffect
  <2>4. AssetsBacked' /\ total_assets' \in Nat \ {0} /\ vault_balance' \in Nat
    BY <2>1, <2>2, PayEffect
  <2>5. VaultTypeOK'
    BY <1>3, <2>3, <2>4 DEF Withdraw, Inv, VaultTypeOK, queueVars
  <2> QED
    BY <2>3, <2>4, <2>5 DEF Inv
<1>4. ASSUME NEW n \in Redemptions, QueueWithdrawal(lp, n) PROVE Inv'
  <2>1. n \in Nat /\ n <= shares[lp] /\ Burn(lp, n)
    BY <1>1, <1>4 DEF QueueWithdrawal, MayRedeem
  <2>2. Worth(n) \in Nat
    BY <2>1, WorthIsNat
  <2>3. SharesExact' /\ shares' \in [LPs -> Nat] /\ total_shares' \in Nat
    BY <2>1, BurnEffect
  <2>4. queue' \in [LPs -> Nat] /\ total_queued' \in Int
    BY <1>1, <1>4, <2>2 DEF QueueWithdrawal
  <2>5. VaultTypeOK' /\ AssetsBacked'
    BY <1>4, <2>3, <2>4 DEF QueueWithdrawal, Inv, VaultTypeOK, AssetsBacked
  <2> QED
    BY <2>3, <2>5 DEF Inv
<1>5. CASE ProcessQueuedWithdrawal(lp)
  <2> DEFINE paid == Smaller(queue[lp], total_assets)
  <2>1. paid \in Nat /\ Pay(paid)
    BY <1>1, <1>5 DEF ProcessQueuedWithdrawal, Smaller
  <2>2. AssetsBacked' /\ total_assets' \in Nat \ {0} /\ vault_balance' \in Nat
    BY <2>1, PayEffect
  <2>3. SharesExact' /\ shares' \in [LPs -> Nat] /\ total_shares' \in Nat
    BY <1>5, SharesKept DEF ProcessQueuedWithdrawal
  <2>4. queue' \in [LPs -> Nat] /\ total_queued' \in Int
    BY <1>1, <1>5 DEF ProcessQueuedWithdrawal
  <2>5. VaultTypeOK'
    BY <1>5, <2>2, <2>3, <2>4 DEF ProcessQueuedWithdrawal, Inv, VaultTypeOK
  <2> QED
    BY <2>2, <2>3, <2>5 DEF Inv
<1> QED
  BY <1>2, <1>3, <1>4, <1>5 DEF LPCall

LEMMA OthersKeepInv ==
  ASSUME VaultAssumption, Inv,
         \/ VaultTick \/ UNCHANGED <<ledger_time, vaultVars>>
         \/ \E amount \in Covers : Cover(amount)
         \/ \E amount \in Incomes : ReceiveIncome(amount)
         \/ \E enabled \in BOOLEAN : SetEmergencyMode(enabled)
         \/ \E c \in Configs : SetConfig(c)
  PROVE  Inv'
<1> USE InvFacts
<1>1. UNCHANGED <<shares, total_shares>>
  BY DEF VaultTick, Later, vaultVars, Cover, ReceiveIncome, SetEmergencyMode, SetConfig
<1>2. SharesExact' /\ shares' \in [LPs -> Nat] /\ total_shares' \in Nat
  BY <1>1, SharesKept
<1>3. ASSUME NEW amount \in Covers, Cover(amount) PROVE Inv'
  <2>1. amount \in Nat
    BY DEF VaultAssumption
  <2>2. Smaller(amount, total_assets) \in Nat /\ Pay(Smaller(amount, total_assets))
    BY <1>3, <2>1 DEF Cover, Smaller
  <2>3. AssetsBacked' /\ total_assets' \in Nat \ {0} /\ vault_balance' \in Nat
    BY <2>2, PayEffect
  <2>4. VaultTypeOK'
    BY <1>2, <1>3, <2>3 DEF Cover, Inv, VaultTypeOK, queueVars
  <2> QED
    BY <1>2, <2>3, <2>4 DEF Inv
<1>4. ASSUME NEW amount \in Incomes, ReceiveIncome(amount) PROVE Inv'
  <2>1. amount \in Nat
    BY DEF VaultAssumption
  <2>2. AssetsBacked' /\ total_assets' \in Nat \ {0} /\ vault_balance' \in Nat
    BY <1>4, <2>1 DEF ReceiveIncome, Inv, AssetsBacked
  <2>3. VaultTypeOK'
    BY <1>2, <1>4, <2>2 DEF ReceiveIncome, Inv, VaultTypeOK, queueVars
  <2> QED
    BY <1>2, <2>2, <2>3 DEF Inv
<1>5. CASE VaultTick
  BY <1>2, <1>5 DEF VaultTick, Later, Inv, VaultTypeOK, AssetsBacked, queueVars
<1>6. ASSUME NEW enabled \in BOOLEAN, SetEmergencyMode(enabled) PROVE Inv'
  BY <1>2, <1>6 DEF SetEmergencyMode, Inv, VaultTypeOK, AssetsBacked, queueVars
<1>7. ASSUME NEW c \in Configs, SetConfig(c) PROVE Inv'
  BY <1>2, <1>7 DEF SetConfig, Inv, VaultTypeOK, AssetsBacked, queueVars
<1>8. CASE UNCHANGED <<ledger_time, vaultVars>>
  BY <1>2, <1>8 DEF vaultVars, Inv, VaultTypeOK, AssetsBacked, queueVars
<1> QED
  BY <1>3, <1>4, <1>5, <1>6, <1>7, <1>8

THEOREM Invariant == VaultSpec => []Inv
<1>1. VaultInit => Inv
  BY InitInv, VaultAssumption
<1>2. Inv /\ [VaultNext]_<<ledger_time, vaultVars>> => Inv'
  BY LPKeepsInv, OthersKeepInv, VaultAssumption DEF VaultNext
<1> QED
  BY <1>1, <1>2, PTL DEF VaultSpec

-----------------------------------------------------------------------------
(* The results.                                                            *)

\* Every reachable state is typed, and the pool always has an asset to divide by.
THEOREM TypeCorrect == VaultSpec => []VaultTypeOK
<1>1. Inv => VaultTypeOK
  BY DEF Inv
<1> QED
  BY <1>1, Invariant, PTL

\* All assets of the pool but the virtual ones are tokens in the vault.
THEOREM AssetsAreBacked == VaultSpec => []AssetsBacked
<1>1. Inv => AssetsBacked
  BY DEF Inv
<1> QED
  BY <1>1, Invariant, PTL

\* The arithmetic of a redemption that is paid: what is left is worth as much per share.
LEMMA RedemptionKeepsPrice ==
  ASSUME NEW ta \in Nat, NEW ts \in Nat, NEW n \in Nat, NEW w \in Nat, w * ts <= n * ta
  PROVE  (ta - w) * ts >= ta * (ts - n)
<1>1. (ta - w) * ts = ta * ts - w * ts /\ ta * (ts - n) = ta * ts - n * ta
  OBVIOUS
<1>2. ta * ts \in Int /\ w * ts \in Int /\ n * ta \in Int
  OBVIOUS
<1> QED
  BY <1>1, <1>2

\* The arithmetic of a deposit.
LEMMA DepositKeepsPrice ==
  ASSUME NEW ta \in Nat, NEW ts \in Nat, NEW a \in Nat, NEW m \in Nat, m * ta <= a * ts
  PROVE  (ta + a) * ts >= ta * (ts + m)
<1>1. (ta + a) * ts = ta * ts + a * ts /\ ta * (ts + m) = ta * ts + m * ta
  OBVIOUS
<1>2. ta * ts \in Int /\ a * ts \in Int /\ m * ta \in Int
  OBVIOUS
<1> QED
  BY <1>1, <1>2

\* Whoever joins or leaves does not lower the price of a share for the others, but by
\* a deposit that is worth less than one.
THEOREM NobodyDilutes == VaultSpec => NoDilution
<1> DEFINE A == total_shares' # total_shares =>
       \/ total_assets' * total_shares >= total_assets * total_shares'
       \/ /\ total_shares' = total_shares + 1
          /\ (total_assets' - total_assets) * total_shares < total_assets
<1>1. Inv /\ [VaultNext]_<<ledger_time, vaultVars>> => [A]_<<ledger_time, vaultVars>>
  <2> SUFFICES ASSUME Inv, VaultNext, total_shares' # total_shares
               PROVE  A
    OBVIOUS
  <2> USE VaultAssumption, InvFacts
  <2>1. PICK lp \in LPs : LPCall(lp)
    BY DEF VaultNext, VaultTick, Later, Cover, ReceiveIncome, SetEmergencyMode, SetConfig
  <2>2. ASSUME NEW amount \in Deposits, Deposit(lp, amount) PROVE A
    <3> DEFINE m == Minted(amount)
    <3>1. amount \in Nat
      BY DEF VaultAssumption
    <3>2. /\ m \in Nat
          /\ \/ m * total_assets <= amount * total_shares
             \/ (m = 1 /\ amount * total_shares < total_assets)
      BY <3>1, MintedIsNat
    <3>3. total_shares' = total_shares + m /\ total_assets' = total_assets + amount
      BY <2>2 DEF Deposit
    <3> HIDE DEF m
    <3>4. CASE m * total_assets <= amount * total_shares
      BY <3>1, <3>2, <3>3, <3>4, DepositKeepsPrice
    <3>5. CASE m = 1 /\ amount * total_shares < total_assets
      <4>1. total_assets' - total_assets = amount
        BY <3>1, <3>3
      <4> QED
        BY <3>3, <3>5, <4>1
    <3> QED
      BY <3>2, <3>4, <3>5
  <2>3. ASSUME NEW n \in Redemptions, Withdraw(lp, n) PROVE A
    <3>1. n \in Nat
      BY DEF VaultAssumption
    <3>2. Worth(n) \in Nat /\ Worth(n) * total_shares <= n * total_assets
      BY <3>1, WorthIsNat
    <3>3. total_shares' = total_shares - n /\ total_assets' = total_assets - Worth(n)
      BY <2>3 DEF Withdraw, Burn, Pay
    <3> QED
      BY <3>1, <3>2, <3>3, RedemptionKeepsPrice
  <2>4. ASSUME NEW n \in Redemptions, QueueWithdrawal(lp, n) PROVE A
    <3>1. n \in Nat /\ 0 \in Nat /\ 0 * total_shares <= n * total_assets
      BY DEF VaultAssumption
    <3>2. (total_assets - 0) * total_shares >= total_assets * (total_shares - n)
      BY <3>1, RedemptionKeepsPrice
    <3>3. total_shares' = total_shares - n /\ total_assets' = total_assets
      BY <2>4 DEF QueueWithdrawal, Burn
    <3> QED
      BY <3>2, <3>3
  <2>5. CASE ProcessQueuedWithdrawal(lp)
    BY <2>5 DEF ProcessQueuedWithdrawal
  <2> QED
    BY <2>1, <2>2, <2>3, <2>4, <2>5 DEF LPCall
<1>2. VaultSpec => [][A]_<<ledger_time, vaultVars>>
  BY <1>1, Invariant, PTL DEF VaultSpec
<1> QED
  BY <1>2 DEF NoDilution

-----------------------------------------------------------------------------
(* Redemption.                                                             *)

\* A pool of more assets per share than the virtual ones can pay w for n shares.
LEMMA ParCovers ==
  ASSUME NEW ta \in Nat, NEW ts \in Nat \ {0}, NEW va \in Nat, NEW vs \in Nat,
         ta * vs >= va * ts,
         NEW n \in Nat, ts = vs + n,
         NEW w \in Nat, w * ts <= n * ta
  PROVE  w <= ta - va
<1>1. n * ta = ts * ta - vs * ta
  BY n = ts - vs
<1>2. vs * ta = ta * vs /\ va * ts = ts * va
  OBVIOUS
<1>3. ts * ta \in Int /\ ts * va \in Int /\ ta * vs \in Int /\ w * ts \in Int
  OBVIOUS
<1>4. w * ts <= ts * ta - ts * va
  BY <1>1, <1>2, <1>3
<1>5. ts * ta - ts * va = ts * (ta - va)
  OBVIOUS
<1>6. PICK d \in Int : d = w - (ta - va)
  OBVIOUS
<1>7. ts * d = w * ts - ts * (ta - va)
  BY <1>6
<1>8. ts * d <= 0
  BY <1>3, <1>4, <1>5, <1>7
<1>9. d <= 0
  BY <1>8
<1> QED
  BY <1>6, <1>9

\* All shares but the virtual ones can be redeemed together from the tokens in the vault,
\* as long as a share is worth its first price.
THEOREM SharesAreRedeemable == VaultSpec => []RedeemableAtPar
<1>1. Inv => RedeemableAtPar
  <2> DEFINE W == [lp \in LPs |-> Worth(shares[lp])]
             P == [lp \in LPs |-> W[lp] * total_shares]
             Q == [lp \in LPs |-> shares[lp] * total_assets]
  <2> SUFFICES ASSUME Inv, total_assets * VirtualShares >= VirtualAssets * total_shares
               PROVE  SumFunctionOnSet(W, LPs) <= vault_balance
    BY DEF RedeemableAtPar
  <2> USE VaultAssumption
  <2>1. \A lp \in LPs : shares[lp] \in Nat
    BY InvFacts
  <2>2. \A lp \in LPs : W[lp] \in Nat /\ P[lp] <= Q[lp]
    BY <2>1, WorthIsNat
  <2>3. \A lp \in LPs : P[lp] \in Int /\ Q[lp] \in Int
    BY <2>1, <2>2, InvFacts
  <2>4. /\ \A lp \in LPs : W[lp] \in Int /\ P[lp] = W[lp] * total_shares
        /\ \A lp \in LPs : shares[lp] \in Int /\ Q[lp] = shares[lp] * total_assets
    BY <2>1, <2>2
  <2>5. IsFiniteSet(LPs) /\ total_shares \in Int /\ total_assets \in Int
    BY InvFacts
  <2> HIDE DEF W, P, Q
  <2>6. SumFunctionOnSet(P, LPs) = SumFunctionOnSet(W, LPs) * total_shares
    BY <2>4, <2>5, SumScales
  <2>7. SumFunctionOnSet(Q, LPs) = SumFunctionOnSet(shares, LPs) * total_assets
    BY <2>4, <2>5, SumScales
  <2>8. SumFunctionOnSet(P, LPs) <= SumFunctionOnSet(Q, LPs)
    BY <2>2, <2>3, <2>5, SumIsMonotone
  <2>9. SumFunctionOnSet(W, LPs) \in Nat
    BY <2>2, <2>5, SumOfPart
  <2>10. total_shares = VirtualShares + SumFunctionOnSet(shares, LPs)
         /\ vault_balance = total_assets - VirtualAssets
    BY DEF Inv, SharesExact, AssetsBacked
  <2>11. PICK n \in Nat : n = SumFunctionOnSet(shares, LPs)
    BY InvFacts
  <2>12. PICK w \in Nat : w = SumFunctionOnSet(W, LPs)
    BY <2>9
  <2>13. w * total_shares <= n * total_assets /\ total_shares = VirtualShares + n
    BY <2>6, <2>7, <2>8, <2>10, <2>11, <2>12
  <2>14. w <= total_assets - VirtualAssets
    BY <2>13, InvFacts, ParCovers
  <2> QED
    BY <2>10, <2>12, <2>14
<1> QED
  BY <1>1, Invariant, PTL

(***************************************************************************)
(* The fee router.                                                         *)
(***************************************************************************)

\* Whatever list is pending was validated when it was proposed.
PendingValid == pending_weights # << >> => ValidSinks(pending_weights[1])

RouterInv == RouterTypeOK /\ PendingValid /\ NothingLost

LEMMA ClaimsAddUp ==
  ASSUME RouterAssumption, NEW f \in [Accounts -> Nat]
  PROVE  IsFiniteSet(Accounts) /\ SumFunctionOnSet(f, Accounts) \in Nat
<1>1. IsFiniteSet(Accounts) /\ \A a \in Accounts : f[a] \in Nat
  BY DEF RouterAssumption
<1> QED
  BY <1>1, SumOfPart

\* A share is never negative, and the first is the whole.
LEMMA ShareIsNat ==
  ASSUME RouterAssumption, RouterTypeOK, NEW total \in Nat, NEW i \in DOMAIN sinks
  PROVE  Share(i, total) \in Nat /\ Share(1, total) = total
<1>1. sinks \in Seq(Sink) /\ TotalBps \in Nat \ {0}
  BY DEF RouterAssumption, RouterTypeOK
<1>2. sinks[i].weight_bps \in Nat
  <2>1. sinks[i] \in Sink
    BY <1>1
  <2> QED
    BY <2>1 DEF Sink
<1>3. total * sinks[i].weight_bps \in Nat
  BY <1>2
<1>4. WeightedShare(i, total) \in Nat
  BY <1>1, <1>3, Quotient DEF WeightedShare
<1> QED
  BY <1>4 DEF Share

\* What an account is credited: nothing negative, and all of it to the first sink's.
LEMMA CreditedIsNat ==
  ASSUME RouterAssumption, RouterTypeOK, NEW total \in Nat, NEW a
  PROVE  Credited(a, total) \in Nat /\ (a = sinks[1].account => total <= Credited(a, total))
<1> DEFINE f == [i \in DOMAIN sinks |-> Share(i, total)]
           S == {i \in DOMAIN sinks : sinks[i].account = a}
<1>1. sinks \in Seq(Sink) /\ 1 \in DOMAIN sinks /\ DOMAIN sinks = 1..Len(sinks)
  BY DEF RouterAssumption, RouterTypeOK, ValidSinks
<1>2. IsFiniteSet(DOMAIN sinks)
  <2>1. Len(sinks) \in Int /\ 1 \in Int
    BY <1>1
  <2> QED
    BY <1>1, <2>1, FS_Interval
<1>3. IsFiniteSet(S)
  BY <1>2, FS_Subset
<1>4. \A i \in S : f[i] \in Nat
  BY ShareIsNat
<1>5. f[1] = total
  BY <1>1, ShareIsNat
<1>6. a = sinks[1].account => 1 \in S
  BY <1>1
<1>7. Credited(a, total) = SumFunctionOnSet(f, S)
  BY DEF Credited
<1> HIDE DEF f, S
<1>8. SumFunctionOnSet(f, S) \in Nat
  BY <1>3, <1>4, SumOfPart
<1>9. 1 \in S => f[1] <= SumFunctionOnSet(f, S)
  BY <1>3, <1>4, SumCovers
<1> QED
  BY <1>5, <1>6, <1>7, <1>8, <1>9

\* A distribution books at least what was to be distributed.
LEMMA DistributeKeeps ==
  ASSUME RouterAssumption, RouterInv, Distribute
  PROVE  claimable' \in [Accounts -> Nat] /\ NothingLost'
<1>1. /\ undistributed \in Nat /\ claimable \in [Accounts -> Nat] /\ router_held \in Nat
      /\ unreported \in Int /\ undistributed + Credits + unreported >= router_held
  BY DEF RouterInv, RouterTypeOK, NothingLost
<1>2. PICK g : g = claimable'
  OBVIOUS
<1>3. \A a \in Accounts :
        /\ Credited(a, undistributed) \in Nat
        /\ a = sinks[1].account => undistributed <= Credited(a, undistributed)
  BY <1>1, CreditedIsNat DEF RouterInv
<1>4. g = [a \in Accounts |-> claimable[a] + Credited(a, undistributed)]
  BY <1>2 DEF Distribute
<1>5. g \in [Accounts -> Nat]
  BY <1>1, <1>3, <1>4
<1>6. PICK first \in Accounts : first = sinks[1].account
  <2>1. sinks \in Seq(Sink) /\ Len(sinks) >= 1
    BY DEF RouterAssumption, RouterInv, RouterTypeOK, ValidSinks
  <2>2. sinks[1] \in Sink
    BY <2>1
  <2> QED
    BY <2>2 DEF Sink
<1> DEFINE h == [claimable EXCEPT ![first] = @ + undistributed]
<1>7. /\ h \in [Accounts -> Nat] /\ h[first] = claimable[first] + undistributed
      /\ \A a \in Accounts \ {first} : claimable[a] = h[a]
  BY <1>1
<1>8. \A a \in Accounts : h[a] <= g[a]
  <2>1. h[first] <= g[first]
    BY <1>1, <1>3, <1>4, <1>6, <1>7
  <2>2. ASSUME NEW a \in Accounts \ {first} PROVE h[a] <= g[a]
    BY <1>1, <1>3, <1>4, <1>7
  <2> QED
    BY <2>1, <2>2
<1> HIDE DEF h
<1>9. /\ IsFiniteSet(Accounts) /\ SumFunctionOnSet(claimable, Accounts) \in Nat
      /\ SumFunctionOnSet(g, Accounts) \in Nat /\ SumFunctionOnSet(h, Accounts) \in Nat
  BY <1>1, <1>5, <1>7, ClaimsAddUp
<1>10. \A a \in Accounts : claimable[a] \in Int /\ h[a] \in Int /\ g[a] \in Int
  BY <1>1, <1>5, <1>7
<1>11. SumFunctionOnSet(h, Accounts)
         = SumFunctionOnSet(claimable, Accounts) + h[first] - claimable[first]
  BY <1>7, <1>9, <1>10, SumChanges
<1>12. SumFunctionOnSet(h, Accounts) <= SumFunctionOnSet(g, Accounts)
  BY <1>8, <1>9, <1>10, SumIsMonotone
<1>13. SumFunctionOnSet(g, Accounts) + unreported >= router_held
  BY <1>1, <1>7, <1>9, <1>10, <1>11, <1>12 DEF Credits
<1>14. Credits' = SumFunctionOnSet(g, Accounts)
  BY <1>2 DEF Credits
<1>15. undistributed' = 0 /\ router_held' = router_held /\ unreported' = unreported
  BY DEF Distribute, tokenVars
<1> QED
  BY <1>1, <1>2, <1>5, <1>9, <1>13, <1>14, <1>15 DEF NothingLost

\* A claim takes off both sides what it pays.
LEMMA ClaimKeeps ==
  ASSUME RouterAssumption, RouterInv, NEW account \in Accounts, Claim(account)
  PROVE  claimable' \in [Accounts -> Nat] /\ router_held' \in Nat /\ NothingLost'
<1>1. /\ undistributed \in Nat /\ claimable \in [Accounts -> Nat] /\ router_held \in Nat
      /\ unreported \in Int /\ undistributed + Credits + unreported >= router_held
  BY DEF RouterInv, RouterTypeOK, NothingLost
<1>2. PICK g : g = claimable'
  OBVIOUS
<1>3. /\ g \in [Accounts -> Nat] /\ g[account] = 0
      /\ \A a \in Accounts \ {account} : claimable[a] = g[a]
  BY <1>1, <1>2 DEF Claim
<1>4. IsFiniteSet(Accounts) /\ SumFunctionOnSet(claimable, Accounts) \in Nat
  BY <1>1, ClaimsAddUp
<1>5. \A a \in Accounts : claimable[a] \in Int /\ g[a] \in Int
  BY <1>1, <1>3
<1>6. SumFunctionOnSet(g, Accounts)
        = SumFunctionOnSet(claimable, Accounts) + g[account] - claimable[account]
  BY <1>3, <1>4, <1>5, SumChanges
<1>7. /\ router_held' = router_held - claimable[account] /\ undistributed' = undistributed
      /\ claimable[account] <= router_held /\ claimable[account] \in Nat
      /\ unreported' = unreported
  BY <1>1 DEF Claim
<1>8. Credits' = SumFunctionOnSet(g, Accounts)
  BY <1>2 DEF Credits
<1>9. g[account] \in Int /\ claimable[account] \in Int /\ router_held' \in Nat
  BY <1>1, <1>3, <1>7
<1>10. Credits \in Nat /\ Credits' = Credits - claimable[account]
  BY <1>3, <1>4, <1>6, <1>8, <1>9 DEF Credits
<1>11. NothingLost'
  BY <1>1, <1>7, <1>9, <1>10 DEF NothingLost
<1> QED
  BY <1>2, <1>3, <1>9, <1>11

LEMMA RouterStart ==
  ASSUME RouterAssumption, RouterInit
  PROVE  RouterInv
<1>1. claimable \in [Accounts -> Nat]
  BY DEF RouterInit
<1>2. Credits \in Nat
  BY <1>1, ClaimsAddUp DEF Credits
<1> QED
  BY <1>1, <1>2 DEF RouterInit, RouterInv, RouterTypeOK, PendingValid, NothingLost, RouterAssumption

LEMMA RouterStep ==
  ASSUME RouterAssumption, RouterInv, ledger_time \in Nat,
         [RouterNext]_<<ledger_time, routerVars>>
  PROVE  RouterInv'
<1>1. /\ undistributed \in Nat /\ claimable \in [Accounts -> Nat] /\ router_held \in Nat
      /\ unreported \in Int /\ undistributed + Credits + unreported >= router_held
      /\ Credits \in Nat
  BY ClaimsAddUp DEF RouterInv, RouterTypeOK, NothingLost, Credits
<1>2. ASSUME UNCHANGED routerVars
      PROVE  RouterInv'
  BY <1>2 DEF routerVars, weightVars, tokenVars, RouterInv, RouterTypeOK, PendingValid, NothingLost, Credits, ValidSinks
<1>3. ASSUME UNCHANGED <<undistributed, claimable, tokenVars>>
      PROVE  NothingLost'
  BY <1>3 DEF tokenVars, RouterInv, NothingLost, Credits
<1>4. ASSUME NEW amount \in Fees, OnFeeReceived(amount) PROVE RouterInv'
  <2>1. /\ amount \in Nat /\ undistributed' = undistributed + amount
        /\ unreported' = unreported - amount /\ router_held' = router_held
    BY <1>4 DEF OnFeeReceived, RouterAssumption
  <2>2. Credits' = Credits
    BY <1>4 DEF OnFeeReceived, Credits
  <2>3. NothingLost'
    BY <1>1, <2>1, <2>2 DEF NothingLost
  <2> QED
    BY <1>1, <1>4, <2>1, <2>3 DEF OnFeeReceived, weightVars, RouterInv, RouterTypeOK, PendingValid
<1>5. ASSUME NEW amount \in Fees, FeeTransferred(amount) PROVE RouterInv'
  <2>1. /\ amount \in Nat /\ router_held' = router_held + amount
        /\ unreported' = unreported + amount /\ undistributed' = undistributed
    BY <1>5 DEF FeeTransferred, RouterAssumption
  <2>2. Credits' = Credits
    BY <1>5 DEF FeeTransferred, Credits
  <2>3. NothingLost'
    BY <1>1, <2>1, <2>2 DEF NothingLost
  <2> QED
    BY <1>1, <1>5, <2>1, <2>3 DEF FeeTransferred, weightVars, RouterInv, RouterTypeOK, PendingValid
<1>6. CASE Distribute
  BY <1>6, DistributeKeeps DEF Distribute, weightVars, tokenVars, RouterInv, RouterTypeOK, PendingValid
<1>7. ASSUME NEW a \in Accounts, Claim(a) PROVE RouterInv'
  BY <1>7, ClaimKeeps DEF Claim, weightVars, RouterInv, RouterTypeOK, PendingValid
<1>8. ASSUME NEW list \in SinkLists, Initialize(list) PROVE RouterInv'
  BY <1>3, <1>8 DEF Initialize, tokenVars, RouterInv, RouterTypeOK, PendingValid
<1>9. ASSUME NEW list \in SinkLists, ProposeWeights(list) PROVE RouterInv'
  <2>1. ledger_time + WeightDelay \in Nat
    BY DEF RouterAssumption
  <2>2. /\ pending_weights' = <<list, ledger_time + WeightDelay>>
        /\ pending_weights' \in SinkLists \X Nat
    BY <1>9, <2>1 DEF ProposeWeights
  <2>3. PendingValid'
    BY <1>9, <2>2 DEF ProposeWeights, PendingValid
  <2> QED
    BY <1>3, <1>9, <2>2, <2>3 DEF ProposeWeights, tokenVars, RouterInv, RouterTypeOK
<1>10. CASE ApplyWeights
  <2>1. sinks' \in SinkLists /\ ValidSinks(sinks')
    BY <1>10 DEF ApplyWeights, tokenVars, RouterInv, RouterTypeOK, PendingValid
  <2> QED
    BY <1>3, <1>10, <2>1 DEF ApplyWeights, tokenVars, RouterInv, RouterTypeOK, PendingValid
<1> QED
  BY <1>2, <1>4, <1>5, <1>6, <1>7, <1>8, <1>9, <1>10 DEF RouterNext, routerVars

LEMMA ClockMoves ==
  ASSUME [RouterNext]_<<ledger_time, routerVars>>, ledger_time \in Nat
  PROVE  ledger_time' \in Nat
BY DEF RouterNext, routerVars, Later, Initialize, FeeTransferred, OnFeeReceived, Distribute,
       Claim, ProposeWeights, ApplyWeights

LEMMA RouterInvariance == RouterSpec => []RouterInv
<1> DEFINE I == RouterInv /\ ledger_time \in Nat
<1>1. RouterInit => I
  BY RouterStart, RouterAssumption DEF RouterInit, ClockInit
<1>2. I /\ [RouterNext]_<<ledger_time, routerVars>> => I'
  BY RouterStep, ClockMoves, RouterAssumption
<1>3. I => RouterInv
  OBVIOUS
<1> HIDE DEF I
<1> QED
  BY <1>1, <1>2, <1>3, PTL DEF RouterSpec

\* No list of sinks is in use that was not validated, and no amount goes negative.
THEOREM RouterIsTyped == RouterSpec => []RouterTypeOK
<1>1. RouterInv => RouterTypeOK
  BY DEF RouterInv
<1> QED
  BY <1>1, RouterInvariance, PTL

\* Whatever the weights and however they change between a transfer, a report and a claim,
\* every token that the router holds is booked for somebody, except as many as were
\* transferred beyond what was reported.
THEOREM NoFeeIsLost == RouterSpec => []NothingLost
<1>1. RouterInv => NothingLost
  BY DEF RouterInv
<1> QED
  BY <1>1, RouterInvariance, PTL

(***************************************************************************)
(* The treasury's streams.                                                 *)
(***************************************************************************)

\* The lists of a sender and of a recipient hold the ids of their streams, each
\* appended when an id was given out.
ListsExact ==
  /\ \A who \in Senders :
       /\ Range(sender_streams[who]) = {id \in Ids : stream[id].sender = who}
       /\ Len(sender_streams[who]) <= next_id
  /\ \A who \in Recipients :
       /\ Range(recipient_streams[who]) = {id \in Ids : stream[id].recipient = who}
       /\ Len(recipient_streams[who]) <= next_id

\* A cancelled stream's total may be nothing, but no total is less.
TotalsKept == \A id \in Ids : stream[id].total >= 0

Unpaids == [id \in Ids |-> Unpaid(stream[id])]

EscrowSum == escrow = SumFunctionOnSet(Unpaids, Ids)

StreamsInv ==
  ledger_time \in Nat /\ StreamsTypeOK /\ TotalsKept /\ ListsExact /\ EscrowSum

-----------------------------------------------------------------------------
(* What vests, and lists.                                                  *)

\* No more vests of a stream than its total.
LEMMA VestedBounds ==
  ASSUME ledger_time \in Nat, NEW s \in Stream, SoundSchedule(s), s.total >= 0
  PROVE  Vested(s) \in Nat /\ Vested(s) <= s.total
<1>1. /\ s.start \in Nat /\ s.cliff \in Nat /\ s.end \in Nat /\ s.total \in Nat
      /\ s.end > s.start /\ s.cliff >= s.start
  BY DEF Stream, SoundSchedule
<1>2. CASE ledger_time < s.cliff
  BY <1>1, <1>2 DEF Vested
<1>3. CASE ledger_time >= s.cliff /\ ledger_time >= s.end
  BY <1>1, <1>3 DEF Vested
<1>4. CASE ledger_time >= s.cliff /\ ledger_time < s.end
  <2> DEFINE a == s.total
             e == ledger_time - s.start
             d == s.end - s.start
             q == (a * e) \div d
  <2>1. a \in Nat /\ e \in Nat /\ d \in Nat \ {0} /\ e <= d
    BY <1>1, <1>4
  <2>2. Vested(s) = q
    BY <1>1, <1>4 DEF Vested
  <2> HIDE DEF a, e, d
  <2>3. a * e \in Nat /\ a * e <= a * d
    BY <2>1
  <2>4. q \in Nat /\ q * d <= a * e
    BY <2>1, <2>3, Quotient
  <2> HIDE DEF q
  <2>5. q * d <= a * d /\ a * d \in Nat
    BY <2>1, <2>3, <2>4
  <2>6. q <= a
    <3>1. CASE q <= a
      BY <3>1
    <3>2. CASE q >= a + 1
      <4>1. q * d >= (a + 1) * d /\ (a + 1) * d = a * d + d
        BY <2>1, <2>4, <3>2
      <4> QED
        BY <4>1, <2>1, <2>4, <2>5
    <3> QED
      BY <3>1, <3>2, <2>1, <2>4
  <2> QED
    BY <2>2, <2>4, <2>6 DEF a
<1> QED
  BY <1>1, <1>2, <1>3, <1>4

LEMMA RangeOfAppend ==
  ASSUME NEW s \in Seq(Nat), NEW n \in Nat
  PROVE  /\ Append(s, n) \in Seq(Nat) /\ Len(Append(s, n)) = Len(s) + 1
         /\ Range(Append(s, n)) = Range(s) \cup {n}
<1> DEFINE m == Len(s)
           u == Append(s, n)
<1>1. m \in Nat /\ DOMAIN s = 1..m
  OBVIOUS
<1>2. u \in Seq(Nat) /\ Len(u) = m + 1 /\ DOMAIN u = 1..(m + 1)
  OBVIOUS
<1>3. u[m + 1] = n /\ \A i \in 1..m : u[i] = s[i]
  OBVIOUS
<1> HIDE DEF m, u
<1>4. ASSUME NEW i \in DOMAIN u PROVE u[i] \in Range(s) \cup {n}
  <2>1. i = m + 1 \/ i \in 1..m
    BY <1>1, <1>2
  <2> QED
    BY <2>1, <1>1, <1>3 DEF Range
<1>5. ASSUME NEW i \in DOMAIN s PROVE s[i] \in Range(u)
  <2>1. i \in DOMAIN u /\ u[i] = s[i]
    BY <1>1, <1>2, <1>3
  <2> QED
    BY <2>1 DEF Range
<1>6. m + 1 \in DOMAIN u
  BY <1>1, <1>2
<1>7. n \in Range(u)
  BY <1>3, <1>6 DEF Range
<1>8. Range(u) = Range(s) \cup {n}
  BY <1>4, <1>5, <1>7 DEF Range
<1> QED
  BY <1>2, <1>8 DEF u, m

LEMMA LesserOfTwo ==
  ASSUME NEW a \in Int, NEW b \in Int
  PROVE  Min({a, b}) = IF a <= b THEN a ELSE b
<1> DEFINE S == {a, b}
           m == IF a <= b THEN a ELSE b
<1>1. m \in S /\ \A y \in S : m <= y
  OBVIOUS
<1>2. \A x \in S : (\A y \in S : x <= y) => x = m
  OBVIOUS
<1> HIDE DEF m
<1>3. Min(S) = m
  BY <1>1, <1>2 DEF Min
<1> QED
  BY <1>3 DEF m

\* Whatever the length of the pages, enough of them show a whole list and nothing else.
LEMMA PagesShowAll ==
  ASSUME NEW s \in Seq(Nat), NEW n \in Nat, Len(s) <= n, NEW limit \in Nat \ {0}
  PROVE  UNION {Range(Paginate(s, page * limit, limit)) : page \in 0..n} = Range(s)
<1> DEFINE end(page) == Min({page * limit + limit, Len(s)})
           u(page) == Paginate(s, page * limit, limit)
<1>1. Len(s) \in Nat /\ DOMAIN s = 1..Len(s)
  OBVIOUS
<1>2. ASSUME NEW page \in 0..n
      PROVE  /\ page * limit \in Nat /\ end(page) \in Nat /\ end(page) <= Len(s)
             /\ end(page) = Len(s) \/ end(page) = page * limit + limit
  <2>1. page * limit \in Nat
    <3>1. page \in Nat
      OBVIOUS
    <3> QED
      BY <3>1
  <2>2. end(page) = IF page * limit + limit <= Len(s) THEN page * limit + limit ELSE Len(s)
    BY <2>1, <1>1, LesserOfTwo
  <2> QED
    BY <1>1, <2>1, <2>2
<1>3. ASSUME NEW page \in 0..n, NEW i \in Nat \ {0}, page * limit + i <= end(page)
      PROVE  s[page * limit + i] \in Range(u(page))
  <2> DEFINE a == page * limit
             e == end(page)
  <2>1. a \in Nat /\ e \in Nat /\ e <= Len(s) /\ a + i <= e
    BY <1>2, <1>3
  <2>2. u(page) = SubSeq(s, a + 1, e)
    BY DEF Paginate
  <2> HIDE DEF a, e
  <2>3. i \in 1..(e - a)
    BY <2>1
  <2>4. Len(SubSeq(s, a + 1, e)) = e - a /\ SubSeq(s, a + 1, e) \in Seq(Nat)
    BY <2>1, <1>1
  <2>5. i \in DOMAIN SubSeq(s, a + 1, e)
    BY <2>3, <2>4
  <2>6. SubSeq(s, a + 1, e)[i] = s[a + i]
    BY <2>1, <2>3, <1>1
  <2> QED
    BY <2>2, <2>5, <2>6 DEF Range, a
<1>4. ASSUME NEW page \in 0..n, NEW x \in Range(u(page))
      PROVE  x \in Range(s)
  <2> DEFINE a == page * limit
             e == end(page)
  <2>1. a \in Nat /\ e \in Nat /\ e <= Len(s)
    BY <1>2
  <2>2. u(page) = SubSeq(s, a + 1, e)
    BY DEF Paginate
  <2> HIDE DEF a, e
  <2>3. PICK i \in DOMAIN SubSeq(s, a + 1, e) : x = SubSeq(s, a + 1, e)[i]
    BY <1>4, <2>2 DEF Range
  <2>4. a + i \in 1..Len(s) /\ x = s[a + i]
    <3>1. SubSeq(s, a + 1, e) = [j \in 1..(e - a) |-> s[a + j]]
      BY <2>1, <1>1
    <3>2. i \in 1..(e - a) /\ x = s[a + i]
      BY <2>3, <3>1
    <3>3. PICK l \in Nat : l = Len(s)
      BY <1>1
    <3>4. i \in Int /\ 1 <= i /\ i <= e - a
      BY <2>1, <3>2
    <3>5. a + i \in Int /\ 1 <= a + i /\ a + i <= l
      BY <2>1, <3>3, <3>4
    <3> QED BY <3>2, <3>3, <3>5
  <2> QED
    BY <2>4, <1>1 DEF Range
<1>5. ASSUME NEW x \in Range(s)
      PROVE  \E page \in 0..n : x \in Range(u(page))
  <2>1. PICK k \in 1..Len(s) : x = s[k]
    BY <1>1, <1>5 DEF Range
  <2> DEFINE page == (k - 1) \div limit
             i == k - page * limit
  <2>2. k - 1 \in Nat /\ k <= n /\ limit \in Nat \ {0}
    BY <1>1, <2>1
  <2>3. page \in Nat /\ page * limit <= k - 1 /\ k - 1 < page * limit + limit
    BY <2>2, Quotient
  <2> HIDE DEF page
  <2>4. page <= page * limit /\ page * limit \in Nat
    BY <2>2, <2>3
  <2>5. page \in 0..n
    BY <2>2, <2>3, <2>4
  <2>6. i \in Nat \ {0} /\ page * limit + i = k
    BY <2>2, <2>3, <2>4
  <2>7. k <= end(page)
    <3>1. end(page) = Len(s) \/ end(page) = page * limit + limit
      BY <1>2, <2>5
    <3>2. PICK a \in Nat : a = page * limit
      BY <2>4
    <3> HIDE DEF end
    <3> QED
      BY <1>1, <2>1, <2>2, <2>3, <3>1, <3>2
  <2> HIDE DEF i, end, u
  <2> QED
    BY <1>3, <2>1, <2>5, <2>6, <2>7
<1> HIDE DEF u
<1>6. UNION {Range(u(page)) : page \in 0..n} = Range(s)
  BY <1>4, <1>5
<1> QED
  BY <1>6 DEF u

-----------------------------------------------------------------------------
(* What the calls do.                                                      *)

LEMMA StreamFacts ==
  ASSUME StreamsAssumption, StreamsInv
  PROVE  /\ IsFiniteSet(Ids) /\ \A id \in Ids : Unpaids[id] \in Int
         /\ \A id \in Ids :
              /\ stream[id] \in Stream /\ SoundSchedule(stream[id])
              /\ Vested(stream[id]) \in Nat /\ Vested(stream[id]) <= stream[id].total
<1>1. Ids \subseteq StreamIds
  BY DEF StreamsInv, StreamsTypeOK
<1>2. IsFiniteSet(Ids)
  BY <1>1, FS_Subset DEF StreamsAssumption
<1>3. \A id \in Ids : /\ stream[id] \in Stream /\ SoundSchedule(stream[id])
                      /\ stream[id].total >= 0
  BY DEF StreamsInv, StreamsTypeOK, TotalsKept
<1>4. ledger_time \in Nat
  BY DEF StreamsInv
<1>5. \A id \in Ids : Vested(stream[id]) \in Nat /\ Vested(stream[id]) <= stream[id].total
  BY <1>3, <1>4, VestedBounds
<1>6. \A id \in Ids : Unpaids[id] \in Int
  BY <1>3 DEF Unpaids, Unpaid, Stream
<1> QED
  BY <1>2, <1>3, <1>5, <1>6

\* A call that rewrites one stream, and moves as many tokens as what it still has to pay
\* changes by.
LEMMA OneStream ==
  ASSUME StreamsAssumption, StreamsInv, NEW id \in Ids,
         NEW q \in Stream, SoundSchedule(q), q.total >= 0,
         q.sender = stream[id].sender, q.recipient = stream[id].recipient,
         stream' = [stream EXCEPT ![id] = q],
         escrow' \in Nat, escrow' = escrow + Unpaid(q) - Unpaid(stream[id]),
         UNCHANGED <<ledger_time, governorVars, streams_paused, next_id, listVars>>
  PROVE  StreamsInv'
<1>1. stream \in [Ids -> Stream] /\ IsFiniteSet(Ids)
  BY StreamFacts DEF StreamsInv, StreamsTypeOK
<1>2. Ids' = Ids
  BY <1>1 DEF Ids
<1>3. stream'[id] = q /\ \A x \in Ids \ {id} : stream'[x] = stream[x]
  BY <1>1
<1>4. stream' \in [Ids' -> Stream]
  BY <1>1, <1>2
<1>5. \A x \in Ids' : SoundSchedule(stream[x])'
  BY <1>2, <1>3, StreamFacts DEF SoundSchedule
<1>6. StreamsTypeOK'
  BY <1>2, <1>4, <1>5 DEF StreamsInv, StreamsTypeOK, governorVars, listVars
<1>7. TotalsKept'
  BY <1>2, <1>3 DEF StreamsInv, TotalsKept
<1>8. \A x \in Ids : stream'[x].sender = stream[x].sender /\ stream'[x].recipient = stream[x].recipient
  BY <1>3
<1>9. ListsExact'
  BY <1>2, <1>8 DEF StreamsInv, ListsExact, listVars
<1>10. EscrowSum'
  <2>1. PICK g : g = Unpaids'
    OBVIOUS
  <2>2. g[id] = Unpaid(q) /\ \A x \in Ids \ {id} : Unpaids[x] = g[x]
    BY <1>2, <1>3, <2>1 DEF Unpaids, Unpaid
  <2>3. Unpaid(q) \in Int /\ Unpaids[id] = Unpaid(stream[id])
    BY DEF Unpaid, Stream, Unpaids
  <2>4. \A x \in Ids : Unpaids[x] \in Int
    BY StreamFacts
  <2>5. \A x \in Ids : Unpaids[x] \in Int /\ g[x] \in Int
    BY <2>2, <2>3, <2>4
  <2>6. SumFunctionOnSet(g, Ids) = SumFunctionOnSet(Unpaids, Ids) + g[id] - Unpaids[id]
    BY <1>1, <2>2, <2>5, SumChanges
  <2>7. escrow' = SumFunctionOnSet(g, Ids)
    BY <2>2, <2>3, <2>6 DEF StreamsInv, EscrowSum
  <2> QED
    BY <1>2, <2>1, <2>7 DEF EscrowSum
<1> QED
  BY <1>6, <1>7, <1>9, <1>10 DEF StreamsInv

LEMMA WithdrawKeeps ==
  ASSUME StreamsAssumption, StreamsInv, NEW id \in Ids, WithdrawVested(id)
  PROVE  StreamsInv'
<1> DEFINE s == stream[id]
           q == [s EXCEPT !.withdrawn = Vested(s)]
<1>1. /\ s \in Stream /\ SoundSchedule(s) /\ Vested(s) \in Nat /\ s.total >= 0
      /\ stream \in [Ids -> Stream]
  BY StreamFacts DEF StreamsInv, TotalsKept, StreamsTypeOK
<1>2. stream' = [stream EXCEPT ![id] = q]
  BY <1>1 DEF WithdrawVested
<1>3. /\ q \in Stream /\ q.total = s.total /\ q.withdrawn = Vested(s)
      /\ q.sender = s.sender /\ q.recipient = s.recipient
      /\ q.start = s.start /\ q.cliff = s.cliff /\ q.end = s.end
  BY <1>1 DEF Stream
<1>4. escrow \in Nat /\ s.total \in Int /\ s.withdrawn \in Int
  BY <1>1 DEF StreamsInv, StreamsTypeOK, Stream
<1>5. /\ Vested(s) - s.withdrawn <= escrow /\ Vested(s) - s.withdrawn > 0
      /\ escrow' = escrow - (Vested(s) - s.withdrawn)
  BY DEF WithdrawVested, BalanceOf
<1> HIDE DEF q, s
<1>6. escrow' \in Nat /\ escrow' = escrow + Unpaid(q) - Unpaid(s)
  BY <1>1, <1>3, <1>4, <1>5 DEF Unpaid
<1>7. SoundSchedule(q) /\ q.total >= 0
  BY <1>1, <1>3 DEF SoundSchedule
<1>8. UNCHANGED <<ledger_time, governorVars, streams_paused, next_id, listVars>>
  BY DEF WithdrawVested
<1> QED
  BY <1>2, <1>3, <1>6, <1>7, <1>8, OneStream DEF s

LEMMA CancelKeeps ==
  ASSUME StreamsAssumption, StreamsInv, NEW id \in Ids, CancelStream(id)
  PROVE  StreamsInv'
<1> DEFINE s == stream[id]
           q == [s EXCEPT !.cancelled = TRUE, !.total = Vested(s)]
<1>1. /\ s \in Stream /\ SoundSchedule(s) /\ Vested(s) \in Nat /\ Vested(s) <= s.total
      /\ stream \in [Ids -> Stream]
  BY StreamFacts DEF StreamsInv, StreamsTypeOK
<1>2. stream' = [stream EXCEPT ![id] = q]
  BY <1>1 DEF CancelStream
<1>3. /\ q \in Stream /\ q.total = Vested(s) /\ q.withdrawn = s.withdrawn
      /\ q.sender = s.sender /\ q.recipient = s.recipient
      /\ q.start = s.start /\ q.cliff = s.cliff /\ q.end = s.end
  <2>1. PICK v \in Int : v = Vested(s)
    BY <1>1
  <2>2. q = [s EXCEPT !.cancelled = TRUE, !.total = v]
    BY <2>1
  <2> HIDE DEF q, s
  <2>3. /\ q.total = v /\ q.withdrawn = s.withdrawn
        /\ q.sender = s.sender /\ q.recipient = s.recipient
        /\ q.start = s.start /\ q.cliff = s.cliff /\ q.end = s.end
    BY <1>1, <2>2 DEF Stream
  <2>4. q \in Stream
    BY <1>1, <2>2 DEF Stream
  <2> QED
    BY <2>1, <2>3, <2>4
<1>4. escrow \in Nat /\ s.total \in Int /\ s.withdrawn \in Int
  BY <1>1 DEF StreamsInv, StreamsTypeOK, Stream
<1>5. IF s.total - Vested(s) > 0
      THEN s.total - Vested(s) <= escrow /\ escrow' = escrow - (s.total - Vested(s))
      ELSE escrow' = escrow
  BY DEF CancelStream, Refund
<1> HIDE DEF q, s
<1>6. escrow' \in Nat /\ escrow' = escrow + Unpaid(q) - Unpaid(s)
  BY <1>1, <1>3, <1>4, <1>5 DEF Unpaid
<1>7. SoundSchedule(q) /\ q.total >= 0
  BY <1>1, <1>3 DEF SoundSchedule
<1>8. UNCHANGED <<ledger_time, governorVars, streams_paused, next_id, listVars>>
  BY DEF CancelStream
<1> QED
  BY <1>2, <1>3, <1>6, <1>7, <1>8, OneStream DEF s

LEMMA TopUpKeeps ==
  ASSUME StreamsAssumption, StreamsInv, NEW id \in Ids, NEW amount \in TopUps, TopUp(id, amount)
  PROVE  StreamsInv'
<1> DEFINE s == stream[id]
           q == [s EXCEPT !.total = @ + amount]
<1>1. /\ s \in Stream /\ SoundSchedule(s) /\ s.total >= 0
      /\ stream \in [Ids -> Stream] /\ amount \in Nat
  BY StreamFacts DEF StreamsInv, StreamsTypeOK, TotalsKept, TopUp, StreamsAssumption
<1>2. stream' = [stream EXCEPT ![id] = q]
  BY <1>1 DEF TopUp
<1>3. escrow \in Nat /\ s.total \in Int /\ s.withdrawn \in Int /\ escrow' = escrow + amount
  BY <1>1 DEF StreamsInv, StreamsTypeOK, Stream, TopUp
<1>4. s.total + amount \in Int
  BY <1>1, <1>3
<1>5. /\ q \in Stream /\ q.total = s.total + amount /\ q.withdrawn = s.withdrawn
      /\ q.sender = s.sender /\ q.recipient = s.recipient
      /\ q.start = s.start /\ q.cliff = s.cliff /\ q.end = s.end
  BY <1>1, <1>4 DEF Stream
<1> HIDE DEF q, s
<1>6. escrow' \in Nat /\ escrow' = escrow + Unpaid(q) - Unpaid(s)
  BY <1>1, <1>3, <1>5 DEF Unpaid
<1>7. SoundSchedule(q) /\ q.total >= 0
  BY <1>1, <1>3, <1>5 DEF SoundSchedule
<1>8. UNCHANGED <<ledger_time, governorVars, streams_paused, next_id, listVars>>
  BY DEF TopUp
<1> QED
  BY <1>2, <1>5, <1>6, <1>7, <1>8, OneStream DEF s

LEMMA ExtendKeeps ==
  ASSUME StreamsAssumption, StreamsInv, NEW id \in Ids, NEW new_end \in NewEnds, Extend(id, new_end)
  PROVE  StreamsInv'
<1> DEFINE s == stream[id]
           q == [s EXCEPT !.end = new_end]
<1>1. /\ s \in Stream /\ SoundSchedule(s) /\ s.total >= 0
      /\ stream \in [Ids -> Stream] /\ new_end \in Nat
  BY StreamFacts DEF StreamsInv, StreamsTypeOK, TotalsKept, StreamsAssumption
<1>2. stream' = [stream EXCEPT ![id] = q]
  BY <1>1 DEF Extend
<1>3. /\ escrow \in Nat /\ escrow' = escrow /\ s.total \in Int /\ s.withdrawn \in Int
      /\ s.start \in Nat /\ s.cliff \in Nat /\ s.end \in Nat
      /\ new_end > s.start /\ new_end >= s.end
  BY <1>1 DEF StreamsInv, StreamsTypeOK, Stream, Extend
<1>4. /\ q \in Stream /\ q.total = s.total /\ q.withdrawn = s.withdrawn
      /\ q.sender = s.sender /\ q.recipient = s.recipient
      /\ q.start = s.start /\ q.cliff = s.cliff /\ q.end = new_end
  BY <1>1 DEF Stream
<1> HIDE DEF q, s
<1>5. escrow' \in Nat /\ escrow' = escrow + Unpaid(q) - Unpaid(s)
  BY <1>3, <1>4 DEF Unpaid
<1>6. SoundSchedule(q) /\ q.total >= 0
  BY <1>1, <1>3, <1>4 DEF SoundSchedule
<1>7. UNCHANGED <<ledger_time, governorVars, streams_paused, next_id, listVars>>
  BY DEF Extend
<1> QED
  BY <1>2, <1>4, <1>5, <1>6, <1>7, OneStream DEF s

\* A new stream is appended to its sender's list and to its recipient's, and is in the
\* escrow whole.
LEMMA CreateKeeps ==
  ASSUME StreamsAssumption, StreamsInv, NEW sender \in Senders, NEW recipient \in Recipients,
         NEW total \in Totals, NEW when \in Schedules, CreateStream(sender, recipient, total, when)
  PROVE  StreamsInv'
<1> DEFINE n == next_id
           q == [sender |-> sender, recipient |-> recipient, total |-> total,
                 start |-> when.start, cliff |-> when.cliff, end |-> when.end,
                 withdrawn |-> 0, cancelled |-> FALSE]
<1>1. /\ n \in Nat /\ n \in StreamIds /\ escrow \in Nat /\ stream \in [Ids -> Stream]
      /\ Ids = {id \in StreamIds : id < n} /\ StreamIds \subseteq Nat
      /\ total \in Nat \ {0} /\ next_id' = n + 1 /\ escrow' = escrow + total
  BY DEF StreamsInv, StreamsTypeOK, StreamsAssumption, CreateStream
<1>2. when.start \in Nat /\ when.cliff \in Nat /\ when.end \in Nat /\ SoundSchedule(when)
  BY DEF StreamsAssumption, Schedule, CreateStream
<1>3. /\ q \in Stream /\ SoundSchedule(q) /\ q.sender = sender /\ q.recipient = recipient
      /\ q.total = total /\ Unpaid(q) = total
  BY <1>1, <1>2 DEF Stream, SoundSchedule, Unpaid
<1>4. stream' = [id \in Ids \cup {n} |-> IF id = n THEN q ELSE stream[id]]
  BY DEF CreateStream
<1> HIDE DEF n, q
<1>5. n \notin Ids /\ Ids' = Ids \cup {n} /\ stream'[n] = q
      /\ \A id \in Ids : stream'[id] = stream[id]
  BY <1>1, <1>4 DEF Ids
<1>6. stream' \in [Ids' -> Stream]
  BY <1>1, <1>3, <1>4, <1>5
<1>7. \A id \in Ids' : SoundSchedule(stream[id])'
  BY <1>3, <1>5, StreamFacts DEF SoundSchedule
<1>8. Ids' = {id \in StreamIds : id < next_id'}
  <2>1. \A id \in StreamIds : id < n + 1 <=> (id < n \/ id = n)
    BY <1>1
  <2> HIDE DEF Ids
  <2>2. \A id : id \in Ids \cup {n} <=> id \in StreamIds /\ id < n + 1
    BY <1>1, <2>1
  <2>3. Ids \cup {n} = {id \in StreamIds : id < n + 1}
    BY <2>2
  <2> QED
    BY <1>1, <1>5, <2>3
<1>9. /\ sender_streams \in [Senders -> Seq(Nat)] /\ recipient_streams \in [Recipients -> Seq(Nat)]
      /\ sender_streams' = [sender_streams EXCEPT ![sender] = Append(sender_streams[sender], n)]
      /\ recipient_streams' =
           [recipient_streams EXCEPT ![recipient] = Append(recipient_streams[recipient], n)]
  BY DEF CreateStream, StreamsInv, StreamsTypeOK, n
<1>10. /\ Append(sender_streams[sender], n) \in Seq(Nat)
       /\ Len(Append(sender_streams[sender], n)) = Len(sender_streams[sender]) + 1
       /\ Range(Append(sender_streams[sender], n)) = Range(sender_streams[sender]) \cup {n}
  BY <1>1, <1>9, RangeOfAppend
<1>11. /\ Append(recipient_streams[recipient], n) \in Seq(Nat)
       /\ Len(Append(recipient_streams[recipient], n)) = Len(recipient_streams[recipient]) + 1
       /\ Range(Append(recipient_streams[recipient], n))
            = Range(recipient_streams[recipient]) \cup {n}
  BY <1>1, <1>9, RangeOfAppend
<1>12. /\ sender_streams' \in [Senders -> Seq(Nat)]
       /\ recipient_streams' \in [Recipients -> Seq(Nat)]
  BY <1>9, <1>10, <1>11
<1>13. StreamsTypeOK'
  <2>1. next_id' \in Nat /\ escrow' \in Nat
    BY <1>1
  <2>2. UNCHANGED <<governor, pending_governor, streams_paused>>
    BY DEF CreateStream, governorVars
  <2> QED
    BY <1>6, <1>7, <1>8, <1>12, <2>1, <2>2 DEF StreamsInv, StreamsTypeOK
<1>14. TotalsKept'
  BY <1>1, <1>3, <1>5 DEF StreamsInv, TotalsKept
<1>15. ASSUME NEW who \in Senders
       PROVE  /\ Range(sender_streams'[who]) = {id \in Ids' : stream'[id].sender = who}
              /\ Len(sender_streams'[who]) <= next_id'
  <2>1. /\ Range(sender_streams[who]) = {id \in Ids : stream[id].sender = who}
        /\ Len(sender_streams[who]) <= n /\ Len(sender_streams[who]) \in Nat
    BY <1>9 DEF StreamsInv, ListsExact, n
  <2>2. CASE who = sender
    <3>1. sender_streams'[who] = Append(sender_streams[who], n)
      BY <1>9, <2>2
    <3>2. {id \in Ids' : stream'[id].sender = who}
            = {id \in Ids : stream[id].sender = who} \cup {n}
      BY <1>3, <1>5, <2>2
    <3> QED
      BY <1>1, <1>10, <2>1, <2>2, <3>1, <3>2
  <2>3. CASE who # sender
    <3>1. sender_streams'[who] = sender_streams[who]
      BY <1>9, <2>3
    <3>2. {id \in Ids' : stream'[id].sender = who} = {id \in Ids : stream[id].sender = who}
      BY <1>3, <1>5, <2>3
    <3> QED
      BY <1>1, <2>1, <3>1, <3>2
  <2> QED
    BY <2>2, <2>3
<1>16. ASSUME NEW who \in Recipients
       PROVE  /\ Range(recipient_streams'[who]) = {id \in Ids' : stream'[id].recipient = who}
              /\ Len(recipient_streams'[who]) <= next_id'
  <2>1. /\ Range(recipient_streams[who]) = {id \in Ids : stream[id].recipient = who}
        /\ Len(recipient_streams[who]) <= n /\ Len(recipient_streams[who]) \in Nat
    BY <1>9 DEF StreamsInv, ListsExact, n
  <2>2. CASE who = recipient
    <3>1. recipient_streams'[who] = Append(recipient_streams[who], n)
      BY <1>9, <2>2
    <3>2. {id \in Ids' : stream'[id].recipient = who}
            = {id \in Ids : stream[id].recipient = who} \cup {n}
      BY <1>3, <1>5, <2>2
    <3> QED
      BY <1>1, <1>11, <2>1, <2>2, <3>1, <3>2
  <2>3. CASE who # recipient
    <3>1. recipient_streams'[who] = recipient_streams[who]
      BY <1>9, <2>3
    <3>2. {id \in Ids' : stream'[id].recipient = who}
            = {id \in Ids : stream[id].recipient = who}
      BY <1>3, <1>5, <2>3
    <3> QED
      BY <1>1, <2>1, <3>1, <3>2
  <2> QED
    BY <2>2, <2>3
<1>17. ListsExact'
  BY <1>15, <1>16 DEF ListsExact
<1>18. EscrowSum'
  <2>1. PICK g : g = Unpaids'
    OBVIOUS
  <2>2. g[n] = total /\ \A id \in Ids : g[id] = Unpaids[id]
    BY <1>3, <1>5, <2>1 DEF Unpaids, Unpaid
  <2>3. IsFiniteSet(Ids) /\ \A id \in Ids : Unpaids[id] \in Int
    BY StreamFacts
  <2>4. \A id \in Ids \cup {n} : g[id] \in Int
    BY <1>1, <2>2, <2>3
  <2>5. SumFunctionOnSet(g, Ids \cup {n}) = SumFunctionOnSet(g, Ids) + g[n]
    BY <1>5, <2>3, <2>4, SumGrows
  <2>6. SumFunctionOnSet(g, Ids) = SumFunctionOnSet(Unpaids, Ids)
    BY <2>2, <2>3, SumOfSame
  <2>7. escrow' = SumFunctionOnSet(g, Ids \cup {n})
    BY <1>1, <2>2, <2>5, <2>6 DEF StreamsInv, EscrowSum
  <2> QED
    BY <1>5, <2>1, <2>7 DEF EscrowSum
<1>19. ledger_time' \in Nat
  BY DEF CreateStream, StreamsInv
<1> QED
  BY <1>13, <1>14, <1>17, <1>18, <1>19 DEF StreamsInv

LEMMA StreamsStart ==
  ASSUME StreamsAssumption, StreamsInit
  PROVE  StreamsInv
<1>1. /\ stream = << >> /\ next_id = 0 /\ escrow = 0 /\ ledger_time = 0
      /\ sender_streams = [who \in Senders |-> << >>]
      /\ recipient_streams = [who \in Recipients |-> << >>]
      /\ governor \in Governors /\ pending_governor = NoGovernor /\ streams_paused = FALSE
  BY DEF StreamsInit, ClockInit, StreamsAssumption
<1>2. Ids = {} /\ stream \in [Ids -> Stream]
  BY <1>1 DEF Ids
<1>3. << >> \in Seq(Nat) /\ Len(<< >>) = 0 /\ Range(<< >>) = {}
  BY DEF Range
<1>4. \A id \in StreamIds : ~(id < next_id)
  BY <1>1 DEF StreamsAssumption
<1>5. StreamsTypeOK
  BY <1>1, <1>2, <1>3, <1>4 DEF StreamsTypeOK
<1>6. TotalsKept /\ ListsExact
  BY <1>1, <1>2, <1>3 DEF TotalsKept, ListsExact
<1>7. EscrowSum
  BY <1>1, <1>2, SumOfNone DEF EscrowSum
<1> QED
  BY <1>1, <1>5, <1>6, <1>7 DEF StreamsInv

LEMMA StreamsStep ==
  ASSUME StreamsAssumption, StreamsInv, [StreamsNext]_<<ledger_time, streamsVars>>
  PROVE  StreamsInv'
<1>1. ASSUME ledger_time' \in Nat, governor' \in Governors,
             pending_governor' \in Governors \cup {NoGovernor}, streams_paused' \in BOOLEAN,
             UNCHANGED <<next_id, stream, listVars, escrow>>
      PROVE  StreamsInv'
  BY <1>1 DEF StreamsInv, StreamsTypeOK, TotalsKept, ListsExact, EscrowSum, Unpaids, Unpaid,
              Ids, SoundSchedule, listVars
<1>2. /\ ledger_time \in Nat /\ governor \in Governors /\ streams_paused \in BOOLEAN
      /\ pending_governor \in Governors \cup {NoGovernor}
  BY DEF StreamsInv, StreamsTypeOK
<1>3. CASE UNCHANGED <<ledger_time, streamsVars>>
  BY <1>1, <1>2, <1>3 DEF streamsVars, governorVars
<1>4. CASE Later /\ UNCHANGED <<governorVars, streams_paused, next_id, stream, listVars, escrow>>
  BY <1>1, <1>2, <1>4 DEF Later, governorVars
<1>5. CASE \/ \E who \in Governors : ProposeGovernorTransfer(who)
           \/ AcceptGovernorTransfer \/ PauseStreams \/ UnpauseStreams
  BY <1>1, <1>2, <1>5 DEF ProposeGovernorTransfer, AcceptGovernorTransfer, PauseStreams,
                          UnpauseStreams, governorVars
<1>6. ASSUME NEW id \in Ids, StreamCall(id) PROVE StreamsInv'
  BY <1>6, WithdrawKeeps, CancelKeeps, TopUpKeeps, ExtendKeeps DEF StreamCall
<1> QED
  BY <1>3, <1>4, <1>5, <1>6, CreateKeeps DEF StreamsNext

LEMMA StreamsInvariance == StreamsSpec => []StreamsInv
<1>1. StreamsInit => StreamsInv
  BY StreamsStart, StreamsAssumption
<1>2. StreamsInv /\ [StreamsNext]_<<ledger_time, streamsVars>> => StreamsInv'
  BY StreamsStep, StreamsAssumption
<1> QED
  BY <1>1, <1>2, PTL DEF StreamsSpec

\* Every stream keeps a sound schedule, and the escrow never goes negative.
THEOREM StreamsAreTyped == StreamsSpec => []StreamsTypeOK
<1>1. StreamsInv => StreamsTypeOK
  BY DEF StreamsInv
<1> QED
  BY <1>1, StreamsInvariance, PTL

\* To the unit, the escrow holds what the streams have not paid out, through withdrawals,
\* top-ups, extensions and cancellations in any order; and pages of any length, of the
\* senders or of the recipients, show all of it.
THEOREM EscrowIsExact == StreamsSpec => []EscrowExact
<1>1. StreamsInv => EscrowExact
  <2> SUFFICES ASSUME StreamsInv, NEW limit \in 1..Cardinality(StreamIds),
                      NEW shown \in {SentIn(limit), ReceivedIn(limit)}
               PROVE  escrow = SumFunctionOnSet(Unpaids, shown)
    BY DEF EscrowExact, Unpaids
  <2>1. /\ limit \in Nat \ {0} /\ next_id \in Nat /\ stream \in [Ids -> Stream]
        /\ sender_streams \in [Senders -> Seq(Nat)]
        /\ recipient_streams \in [Recipients -> Seq(Nat)]
    <3>1. Cardinality(StreamIds) \in Nat
      BY StreamsAssumption, FS_CardinalityType DEF StreamsAssumption
    <3> QED
      BY <3>1 DEF StreamsInv, StreamsTypeOK
  <2>2. \A id \in Ids : stream[id].sender \in Senders /\ stream[id].recipient \in Recipients
    BY <2>1 DEF Stream
  <2>3. SentIn(limit) = Ids
    <3>1. ASSUME NEW who \in Senders
          PROVE  UNION {Range(Paginate(sender_streams[who], page * limit, limit)) : page \in 0..next_id}
                   = {id \in Ids : stream[id].sender = who}
      <4>1. sender_streams[who] \in Seq(Nat) /\ Len(sender_streams[who]) <= next_id
            /\ Range(sender_streams[who]) = {id \in Ids : stream[id].sender = who}
        BY <2>1 DEF StreamsInv, ListsExact
      <4> QED
        BY <2>1, <4>1, PagesShowAll
    <3>2. SentIn(limit) = UNION {Range(Paginate(sender_streams[who], page * limit, limit)) :
                                   who \in Senders, page \in 0..next_id}
      BY DEF SentIn, ListStreamsBySender
    <3>3. ASSUME NEW id PROVE id \in SentIn(limit) <=> id \in Ids
      BY <2>2, <3>1, <3>2
    <3> QED
      BY <3>3
  <2>4. ReceivedIn(limit) = Ids
    <3>1. ASSUME NEW who \in Recipients
          PROVE  UNION {Range(Paginate(recipient_streams[who], page * limit, limit)) : page \in 0..next_id}
                   = {id \in Ids : stream[id].recipient = who}
      <4>1. recipient_streams[who] \in Seq(Nat) /\ Len(recipient_streams[who]) <= next_id
            /\ Range(recipient_streams[who]) = {id \in Ids : stream[id].recipient = who}
        BY <2>1 DEF StreamsInv, ListsExact
      <4> QED
        BY <2>1, <4>1, PagesShowAll
    <3>2. ReceivedIn(limit) = UNION {Range(Paginate(recipient_streams[who], page * limit, limit)) :
                                       who \in Recipients, page \in 0..next_id}
      BY DEF ReceivedIn, ListStreamsByRecipient
    <3>3. ASSUME NEW id PROVE id \in ReceivedIn(limit) <=> id \in Ids
      BY <2>2, <3>1, <3>2
    <3> QED
      BY <3>3
  <2> QED
    BY <2>3, <2>4 DEF StreamsInv, EscrowSum
<1> QED
  BY <1>1, StreamsInvariance, PTL
(***************************************************************************)
(* The daily cap of a policy.                                              *)
(***************************************************************************)

Entry == [at : Nat, amount : Nat]

LEMMA LargestIsLargest ==
  LargestCap \in Caps /\ LargestCap \in Nat /\ \A cap \in Caps : cap <= LargestCap /\ cap \in Nat
  BY CapAssumption DEF CapAssumption, LargestCap

\* What a period saw is at most what two others saw that cover it.
LEMMA SpentCovered ==
  ASSUME NEW log \in Seq(Entry), NEW a \in Int, NEW b \in Int, NEW c \in Int, NEW d \in Int,
         NEW e \in Int, NEW f \in Int,
         \A k \in 1..Len(log) :
           log[k].at \in a..b => log[k].at \in c..d \/ log[k].at \in e..f
  PROVE  /\ Spent(log, a, b) \in Nat /\ Spent(log, c, d) \in Nat /\ Spent(log, e, f) \in Nat
         /\ Spent(log, a, b) <= Spent(log, c, d) + Spent(log, e, f)
<1> DEFINE D == 1..Len(log)
           amounts == [k \in DOMAIN log |-> log[k].amount]
           In(lo, hi) == {k \in DOMAIN log : log[k].at \in lo..hi}
           Sum(s) == SumFunctionOnSet(amounts, s)
<1>1. /\ Len(log) \in Nat /\ DOMAIN log = D
      /\ \A k \in D : amounts[k] \in Nat /\ amounts[k] \in Int
  <2>1. Len(log) \in Nat /\ DOMAIN log = D /\ \A k \in D : log[k] \in Entry
    OBVIOUS
  <2> QED
    BY <2>1 DEF Entry
<1>2. IsFiniteSet(D)
  BY <1>1, FS_Interval
<1>3. /\ Spent(log, a, b) = Sum(In(a, b)) /\ Spent(log, c, d) = Sum(In(c, d))
      /\ Spent(log, e, f) = Sum(In(e, f))
  BY Zenon DEF Spent
<1>4. In(a, b) \in SUBSET D /\ In(c, d) \in SUBSET D /\ In(e, f) \in SUBSET D
  BY <1>1
<1>5. In(a, b) \subseteq In(c, d) \cup In(e, f)
  BY <1>1
<1> DEFINE A == In(a, b) \cap In(c, d)
           B == In(a, b) \ In(c, d)
<1> HIDE DEF D, amounts, In
<1>6. A \in SUBSET D /\ B \in SUBSET D /\ A \cap B = {} /\ A \cup B = In(a, b)
      /\ A \in SUBSET In(c, d) /\ B \in SUBSET In(e, f)
  BY <1>4, <1>5
<1>7. IsFiniteSet(In(c, d)) /\ IsFiniteSet(In(e, f)) /\ IsFiniteSet(A) /\ IsFiniteSet(B)
  BY <1>2, <1>4, <1>6, FS_Subset
<1>8. Sum(A \cup B) = Sum(A) + Sum(B)
  <2>1. \A k \in A \cup B : amounts[k] \in Int
    BY <1>1, <1>6
  <2> HIDE DEF A, B
  <2> QED BY <1>6, <1>7, <2>1, SumOfUnion
<1>9. Sum(A) <= Sum(In(c, d)) /\ Sum(A) \in Nat
  <2>1. \A k \in In(c, d) : amounts[k] \in Nat
    BY <1>1, <1>4
  <2> HIDE DEF A
  <2> QED BY <1>6, <1>7, <2>1, SumOfPart
<1>10. Sum(B) <= Sum(In(e, f)) /\ Sum(B) \in Nat
  <2>1. \A k \in In(e, f) : amounts[k] \in Nat
    BY <1>1, <1>4
  <2> HIDE DEF B
  <2> QED BY <1>6, <1>7, <2>1, SumOfPart
<1>11. Sum(In(c, d)) \in Nat /\ Sum(In(e, f)) \in Nat
  <2>1. \A k \in D : amounts[k] \in Nat
    BY <1>1
  <2> QED BY <1>2, <1>4, <2>1, SumOfPart
<1> HIDE DEF Sum, A, B
<1>12. Sum(In(a, b)) = Sum(A) + Sum(B)
  BY <1>6, <1>8
<1> QED
  BY <1>3, <1>9, <1>10, <1>11, <1>12

\* A period in which nothing was allowed saw nothing.
LEMMA SpentNothing ==
  ASSUME NEW log \in Seq(Entry), NEW a \in Int, NEW b \in Int,
         \A k \in 1..Len(log) : log[k].at \notin a..b
  PROVE  Spent(log, a, b) = 0
<1>1. {k \in DOMAIN log : log[k].at \in a..b} = {}
  OBVIOUS
<1> QED
  BY <1>1, SumOfNone, Zenon DEF Spent

\* What a period saw is at most what another saw that covers it.
LEMMA SpentLess ==
  ASSUME NEW log \in Seq(Entry), NEW a \in Int, NEW b \in Int, NEW c \in Int, NEW d \in Int,
         \A k \in 1..Len(log) : log[k].at \in a..b => log[k].at \in c..d
  PROVE  /\ Spent(log, a, b) \in Nat /\ Spent(log, c, d) \in Nat
         /\ Spent(log, a, b) <= Spent(log, c, d)
<1>1. Spent(log, 1, 0) = 0
  BY SpentNothing
<1>2. /\ Spent(log, a, b) \in Nat /\ Spent(log, c, d) \in Nat
      /\ Spent(log, a, b) <= Spent(log, c, d) + Spent(log, 1, 0)
  <2>1. \A k \in 1..Len(log) :
          log[k].at \in a..b => log[k].at \in c..d \/ log[k].at \in 1..0
    OBVIOUS
  <2>2. 1 \in Int /\ 0 \in Int
    OBVIOUS
  <2> QED
    BY <2>1, <2>2, SpentCovered
<1> QED
  BY <1>1, <1>2

LEMMA SpentNat ==
  ASSUME NEW log \in Seq(Entry), NEW a \in Int, NEW b \in Int
  PROVE  Spent(log, a, b) \in Nat
  BY SpentLess

\* One more entry counts in the periods it is in.
LEMMA SpentAppend ==
  ASSUME NEW log \in Seq(Entry), NEW entry \in Entry, NEW a \in Int, NEW b \in Int
  PROVE  Spent(Append(log, entry), a, b)
           = Spent(log, a, b) + (IF entry.at \in a..b THEN entry.amount ELSE 0)
<1>1. PICK more : more = Append(log, entry)
  OBVIOUS
<1> DEFINE n == Len(log) + 1
           before == [k \in DOMAIN log |-> log[k].amount]
           amounts == [k \in DOMAIN more |-> more[k].amount]
           Past == {k \in DOMAIN log : log[k].at \in a..b}
           In == {k \in DOMAIN more : more[k].at \in a..b}
<1>2. /\ Len(log) \in Nat /\ DOMAIN log = 1..Len(log) /\ DOMAIN more = 1..n
      /\ more[n] = entry /\ \A k \in DOMAIN log : more[k] = log[k]
  BY <1>1
<1>3. IsFiniteSet(Past)
  <2>1. IsFiniteSet(1..Len(log))
    BY <1>2, FS_Interval
  <2> QED
    BY <1>2, <2>1, FS_Subset
<1>4. \A k \in Past : before[k] = amounts[k]
  BY <1>2
<1>5. n \notin Past /\ amounts[n] = entry.amount
  BY <1>2
<1>6. \A k \in Past \cup {n} : amounts[k] \in Int
  <2>1. \A k \in DOMAIN log : log[k] \in Entry
    OBVIOUS
  <2> QED
    BY <1>2, <2>1 DEF Entry
<1>7. In = IF entry.at \in a..b THEN Past \cup {n} ELSE Past
  BY <1>2
<1>8. Spent(log, a, b) = SumFunctionOnSet(before, Past)
  BY Zenon DEF Spent
<1>9. Spent(more, a, b) = SumFunctionOnSet(amounts, In)
  BY Zenon DEF Spent
<1> HIDE DEF n, before, amounts, Past, In
<1>10. SumFunctionOnSet(before, Past) = SumFunctionOnSet(amounts, Past)
  BY <1>3, <1>4, SumOfSame
<1>11. SumFunctionOnSet(amounts, Past \cup {n}) = SumFunctionOnSet(amounts, Past) + entry.amount
  BY <1>3, <1>5, <1>6, SumGrows
<1>12. Spent(log, a, b) \in Nat
  BY SpentNat
<1> QED
  BY <1>1, <1>7, <1>8, <1>9, <1>10, <1>11, <1>12
\* A window has a largest cap in it at most, and so has what of the day before it a period
\* of a day can still reach.
InWindow(volume, log, now) ==
  /\ volume.since \in Nat /\ volume.total \in Nat /\ volume.total <= LargestCap
  /\ volume.since <= now
  /\ \A k \in 1..Len(log) : log[k].at < volume.since + Day
  /\ Spent(log, volume.since, volume.since + Day - 1) = volume.total
  /\ \A from \in Int : from > volume.since - Day => Spent(log, from, volume.since - 1) <= LargestCap

TwoCaps(log) == \A from \in Int : Spent(log, from, from + Day - 1) <= 2 * LargestCap

Fits(volume, log, now) ==
  /\ log \in Seq(Entry) /\ \A k \in 1..Len(log) : log[k].at <= now
  /\ IF volume = Unused THEN log = << >> ELSE InWindow(volume, log, now)
  /\ TwoCaps(log)

CapInv ==
  /\ ledger_time \in Nat /\ daily_cap \in Caps
  /\ DOMAIN user_volume = Submitters /\ DOMAIN admitted = Submitters
  /\ \A u \in Submitters : Fits(user_volume[u], admitted[u], ledger_time)

\* An amount that is allowed keeps to it.
LEMMA OneMoreFits ==
  ASSUME NEW volume, NEW log, NEW now \in Nat, Fits(volume, log, now), NEW amount \in Nat \ {0},
         Counted(volume, amount, now).total <= LargestCap
  PROVE  Fits(Counted(volume, amount, now), Append(log, [at |-> now, amount |-> amount]), now)
<1> DEFINE entry == [at |-> now, amount |-> amount]
           new == Counted(volume, amount, now)
<1>1. PICK more : more = Append(log, entry)
  OBVIOUS
<1>2. log \in Seq(Entry) /\ entry \in Entry /\ entry.at = now /\ entry.amount = amount
      /\ \A k \in 1..Len(log) : log[k].at <= now /\ log[k].at \in Nat
  <2>1. log \in Seq(Entry) /\ \A k \in 1..Len(log) : log[k].at <= now
    BY DEF Fits
  <2>2. \A k \in 1..Len(log) : log[k] \in Entry
    BY <2>1
  <2> QED
    BY <2>1, <2>2 DEF Entry
<1> HIDE DEF entry
<1>3. more \in Seq(Entry) /\ Len(log) \in Nat /\ Len(more) = Len(log) + 1
      /\ \A k \in 1..Len(more) : more[k] = IF k = Len(more) THEN entry ELSE log[k]
  BY <1>1, <1>2
<1>4. \A k \in 1..Len(more) : more[k].at <= now /\ more[k].at \in Nat
  BY <1>2, <1>3
<1>5. \A a, b \in Int :
        /\ Spent(log, a, b) \in Nat /\ Spent(more, a, b) \in Nat
        /\ Spent(more, a, b) = Spent(log, a, b) + (IF now \in a..b THEN amount ELSE 0)
  <2> SUFFICES ASSUME NEW a \in Int, NEW b \in Int
               PROVE  /\ Spent(log, a, b) \in Nat /\ Spent(more, a, b) \in Nat
                      /\ Spent(more, a, b)
                           = Spent(log, a, b) + (IF now \in a..b THEN amount ELSE 0)
    OBVIOUS
  <2>1. Spent(log, a, b) \in Nat /\ Spent(more, a, b) \in Nat
    BY <1>2, <1>3, SpentNat
  <2>2. Spent(more, a, b) = Spent(log, a, b) + (IF now \in a..b THEN amount ELSE 0)
    BY <1>1, <1>2, SpentAppend
  <2> QED BY <2>1, <2>2
<1>6. Day \in Nat \ {0} /\ LargestCap \in Nat
  BY CapAssumption, LargestIsLargest DEF CapAssumption
<1>7. TwoCaps(log) /\ (volume = Unused => log = << >>)
      /\ (volume # Unused => InWindow(volume, log, now))
  BY DEF Fits
<1>8. ASSUME WindowOver(volume, now)
      PROVE  InWindow(new, more, now) /\ TwoCaps(more)
  <2>1. new.since = now /\ new.total = amount /\ amount <= LargestCap
    BY <1>8 DEF Counted, GetUserVolume
  <2>2. \A k \in 1..Len(log) : log[k].at < now
    <3>1. CASE volume = Unused
      BY <1>7, <3>1
    <3>2. CASE volume # Unused
      BY <1>2, <1>6, <1>7, <1>8, <3>2 DEF InWindow, WindowOver
    <3> QED BY <3>1, <3>2
  \* Nothing is on record of the second that the window starts in.
  <2>3. Spent(log, now, now + Day - 1) = 0
    <3>1. now + Day - 1 \in Int
      BY <1>6
    <3>2. \A k \in 1..Len(log) : log[k].at \notin now..(now + Day - 1)
      BY <1>2, <2>2
    <3> QED BY <1>2, <3>1, <3>2, SpentNothing
  \* What a day sees of what came before is in the last window.
  <2>4. ASSUME NEW from \in Int, from > now - Day, NEW to \in Int, to >= now - 1
        PROVE  Spent(log, from, to) <= LargestCap
    <3>1. CASE volume = Unused
      <4>1. \A k \in 1..Len(log) : log[k].at \notin from..to
        BY <1>7, <3>1
      <4> QED BY <1>2, <1>6, <4>1, SpentNothing
    <3>2. CASE volume # Unused
      <4> DEFINE since == volume.since
      <4>1. /\ since \in Nat /\ volume.total \in Nat /\ volume.total <= LargestCap
            /\ since + Day <= now
            /\ \A k \in 1..Len(log) : log[k].at < since + Day
            /\ Spent(log, since, since + Day - 1) = volume.total
        BY <1>7, <1>8, <3>2 DEF InWindow, WindowOver
      <4> HIDE DEF since
      <4>2. \A k \in 1..Len(log) : log[k].at \in from..to => log[k].at \in since..(since + Day - 1)
        <5>1. from > since
          BY <1>6, <2>4, <4>1
        <5>2. ASSUME NEW at \in Nat, at \in from..to, at < since + Day
              PROVE  at \in since..(since + Day - 1)
          BY <1>6, <2>4, <4>1, <5>1, <5>2
        <5>3. \A k \in 1..Len(log) : log[k].at \in Nat
          BY <1>2
        <5> QED BY <4>1, <5>2, <5>3
      <4>3. since + Day - 1 \in Int
        BY <1>6, <4>1
      <4>4. Spent(log, from, to) <= Spent(log, since, since + Day - 1)
            /\ Spent(log, from, to) \in Nat
        BY <1>2, <4>1, <4>2, <4>3, SpentLess
      <4> QED BY <4>1, <4>4, LargestIsLargest
    <3> QED BY <3>1, <3>2
  <2>5. InWindow(new, more, now)
    <3>1. \A k \in 1..Len(more) : more[k].at < now + Day
      BY <1>4, <1>6
    <3>2. Spent(more, now, now + Day - 1) = amount
      <4>1. now + Day - 1 \in Int /\ now \in now..(now + Day - 1)
        BY <1>6
      <4> QED BY <1>5, <2>3, <4>1
    <3>3. ASSUME NEW from \in Int, from > now - Day
          PROVE  Spent(more, from, now - 1) <= LargestCap
      <4>1. now - 1 \in Int /\ now - 1 >= now - 1 /\ now \notin from..(now - 1)
        OBVIOUS
      <4>2. Spent(log, from, now - 1) <= LargestCap
        BY <2>4, <3>3, <4>1
      <4>3. Spent(more, from, now - 1) = Spent(log, from, now - 1)
        BY <1>5, <4>1
      <4> QED BY <4>2, <4>3
    <3> HIDE DEF new
    <3> QED BY <2>1, <3>1, <3>2, <3>3 DEF InWindow
  <2>6. TwoCaps(more)
    <3> SUFFICES ASSUME NEW from \in Int
                 PROVE  Spent(more, from, from + Day - 1) <= 2 * LargestCap
      BY DEF TwoCaps
    <3>1. PICK to \in Int : to = from + Day - 1
      BY <1>6
    <3>2. Spent(log, from, to) <= 2 * LargestCap
      BY <1>7, <3>1 DEF TwoCaps
    <3>3. CASE now \notin from..to
      <4>1. Spent(log, from, to) \in Nat
            /\ Spent(more, from, to) = Spent(log, from, to) + (IF now \in from..to THEN amount ELSE 0)
        BY <1>5, <3>1
      <4>2. Spent(more, from, to) = Spent(log, from, to)
        BY <3>3, <4>1
      <4> QED BY <3>1, <3>2, <4>2
    <3>4. CASE now \in from..to
      <4>1. from > now - Day /\ to >= now - 1
        BY <1>6, <3>1, <3>4
      <4>2. Spent(log, from, to) <= LargestCap
        BY <2>4, <3>1, <4>1
      <4>3. Spent(more, from, to) = Spent(log, from, to) + amount
            /\ Spent(log, from, to) \in Nat
        BY <1>5, <3>1, <3>4
      <4> QED BY <1>6, <2>1, <3>1, <4>2, <4>3
    <3> QED BY <3>3, <3>4
  <2> QED BY <2>5, <2>6
<1>9. ASSUME ~ WindowOver(volume, now)
      PROVE  InWindow(new, more, now) /\ TwoCaps(more)
  <2> DEFINE since == volume.since
  <2>1. /\ since \in Nat /\ volume.total \in Nat
        /\ new.since = since /\ new.total = volume.total + amount /\ new.total <= LargestCap
        /\ since <= now /\ now < since + Day
        /\ \A k \in 1..Len(log) : log[k].at < since + Day
        /\ Spent(log, since, since + Day - 1) = volume.total
        /\ \A from \in Int : from > since - Day => Spent(log, from, since - 1) <= LargestCap
    <3>1. volume # Unused /\ ~ (now >= volume.since + Day)
      BY <1>9 DEF WindowOver
    <3>2. InWindow(volume, log, now)
      BY <1>7, <3>1
    <3>3. new.since = since /\ new.total = volume.total + amount
      BY <1>9 DEF Counted, GetUserVolume
    <3> QED BY <1>6, <3>1, <3>2, <3>3 DEF InWindow
  <2> HIDE DEF new, since
  <2>2. since + Day - 1 \in Int /\ since - 1 \in Int /\ now \in since..(since + Day - 1)
        /\ since \in Int
    BY <1>6, <2>1
  <2>3. Spent(more, since, since + Day - 1) = new.total
    BY <1>5, <2>1, <2>2
  <2>4. \A k \in 1..Len(more) : more[k].at < since + Day
    BY <1>4, <1>6, <2>1
  <2>5. ASSUME NEW from \in Int, from > since - Day
        PROVE  Spent(more, from, since - 1) <= LargestCap
    <3>1. now \notin from..(since - 1)
      BY <2>1
    <3> QED BY <1>5, <2>1, <2>2, <2>5, <3>1
  <2>6. InWindow(new, more, now)
    <3>1. new.total \in Nat
      BY <2>1
    <3> QED BY <2>1, <2>3, <2>4, <2>5, <3>1 DEF InWindow
  <2>7. TwoCaps(more)
    <3> SUFFICES ASSUME NEW from \in Int
                 PROVE  Spent(more, from, from + Day - 1) <= 2 * LargestCap
      BY DEF TwoCaps
    <3>1. PICK to \in Int : to = from + Day - 1
      BY <1>6
    <3>2. Spent(log, from, to) <= 2 * LargestCap
      BY <1>7, <3>1 DEF TwoCaps
    <3>3. CASE now \notin from..to
      <4>1. Spent(log, from, to) \in Nat
            /\ Spent(more, from, to) = Spent(log, from, to) + (IF now \in from..to THEN amount ELSE 0)
        BY <1>5, <3>1
      <4>2. Spent(more, from, to) = Spent(log, from, to)
        BY <3>3, <4>1
      <4> QED BY <3>1, <3>2, <4>2
    <3>4. CASE now \in from..to
      \* A day that has this second in it sees the window, and at most a day before it.
      <4>1. from > since - Day
        BY <1>6, <2>1, <3>1, <3>4
      <4>2. Spent(more, from, since - 1) <= LargestCap
        BY <2>5, <4>1
      <4>3. \A k \in 1..Len(more) : more[k].at \in from..to =>
              more[k].at \in from..(since - 1) \/ more[k].at \in since..(since + Day - 1)
        <5>1. \A at \in Nat : at \in from..to /\ at < since + Day =>
                at \in from..(since - 1) \/ at \in since..(since + Day - 1)
          BY <1>6, <2>1, <3>1
        <5> QED BY <1>4, <2>4, <5>1
      <4>4. /\ Spent(more, from, to)
                 <= Spent(more, from, since - 1) + Spent(more, since, since + Day - 1)
            /\ Spent(more, from, since - 1) \in Nat
            /\ Spent(more, from, to) \in Nat
        <5>1. PICK last \in Int, end \in Int : last = since - 1 /\ end = since + Day - 1
          BY <2>2
        <5>2. \A k \in 1..Len(more) : more[k].at \in from..to =>
                more[k].at \in from..last \/ more[k].at \in since..end
          BY <3>1, <4>3, <5>1
        <5>3. /\ Spent(more, from, to) <= Spent(more, from, last) + Spent(more, since, end)
              /\ Spent(more, from, last) \in Nat /\ Spent(more, from, to) \in Nat
          BY <1>3, <2>2, <5>2, SpentCovered
        <5> QED BY <3>1, <5>1, <5>3
      <4> QED BY <1>6, <2>1, <2>3, <3>1, <4>2, <4>4
    <3> QED BY <3>3, <3>4
  <2> QED BY <2>6, <2>7
<1>10. new # Unused
  <2>1. new.total # -1
    <3>1. CASE WindowOver(volume, now)
      BY <3>1 DEF Counted, GetUserVolume
    <3>2. CASE ~ WindowOver(volume, now)
      <4>1. new.total = volume.total + amount
        BY <3>2 DEF Counted, GetUserVolume
      <4>2. volume.total \in Nat
        BY <1>7, <3>2 DEF WindowOver, InWindow
      <4> QED BY <4>1, <4>2
    <3> QED BY <3>1, <3>2
  <2> QED BY <2>1 DEF Unused
<1>11. InWindow(new, more, now) /\ TwoCaps(more)
  BY <1>8, <1>9
<1> HIDE DEF new
<1>12. Fits(new, more, now)
  BY <1>3, <1>4, <1>10, <1>11 DEF Fits
<1> QED
  BY <1>1, <1>12 DEF new, entry
-----------------------------------------------------------------------------
(* A batch of checks.                                                      *)

AfterStep(volume, amounts, now, f, k) ==
  IF k = 0 THEN volume ELSE Counted(f[k - 1], amounts[k], now)

\* f holds what is stored after the first n checks.
AfterTo(volume, amounts, now, n, f) ==
  /\ f = [k \in 0..Len(amounts) |-> f[k]]
  /\ \A k \in 0..Len(amounts) : k <= n => f[k] = AfterStep(volume, amounts, now, f, k)

\* What is stored is defined: by induction on the checks.
LEMMA AfterIsDefined ==
  ASSUME NEW volume, NEW amounts \in Seq(Int), NEW now
  PROVE  \A k \in 0..Len(amounts) :
           After(volume, amounts, now)[k]
             = AfterStep(volume, amounts, now, After(volume, amounts, now), k)
<1> DEFINE D == 0..Len(amounts)
           Step(f, k) == AfterStep(volume, amounts, now, f, k)
           T == {n \in Nat : \E f : AfterTo(volume, amounts, now, n, f)}
           Solves(f) == f = [k \in D |-> Step(f, k)]
<1>1. Len(amounts) \in Nat
  OBVIOUS
<1>2. 0 \in T
  <2> DEFINE f == [k \in D |-> volume]
  <2>1. f = [k \in D |-> f[k]]
    OBVIOUS
  <2>2. \A k \in D : k <= 0 => f[k] = Step(f, k)
    BY <1>1 DEF AfterStep
  <2> HIDE DEF f
  <2> QED BY <2>1, <2>2 DEF AfterTo
<1>3. ASSUME NEW n \in Nat, n \in T
      PROVE  n + 1 \in T
  <2>1. PICK f : AfterTo(volume, amounts, now, n, f)
    BY <1>3
  <2> DEFINE g == [k \in D |-> Step(f, k)]
  <2>2. g = [k \in D |-> g[k]]
    OBVIOUS
  <2>3. \A k \in D : k <= n => g[k] = f[k]
    BY <2>1 DEF AfterTo
  <2>4. ASSUME NEW k \in D, k <= n + 1
        PROVE  g[k] = Step(g, k)
    <3>1. CASE k = 0
      BY <3>1 DEF AfterStep
    <3>2. CASE k # 0
      <4>1. k - 1 \in D /\ k - 1 <= n
        BY <1>1, <2>4, <3>2
      <4>2. g[k - 1] = f[k - 1]
        BY <2>3, <4>1
      <4> QED BY <4>2 DEF AfterStep
    <3> QED BY <3>1, <3>2
  <2> HIDE DEF g
  <2>5. AfterTo(volume, amounts, now, n + 1, g)
    BY <2>2, <2>4 DEF AfterTo
  <2> QED BY <2>5
<1>4. Len(amounts) \in T
  <2> HIDE DEF T
  <2> QED BY <1>1, <1>2, <1>3, NaturalInduction
<1>5. PICK f : AfterTo(volume, amounts, now, Len(amounts), f)
  BY <1>4
<1>6. Solves(f)
  <2>1. \A k \in D : f[k] = Step(f, k)
    BY <1>1, <1>5 DEF AfterTo
  <2>2. f = [k \in D |-> f[k]]
    BY <1>5 DEF AfterTo
  <2> QED BY <2>1, <2>2
<1>7. Solves(After(volume, amounts, now))
  <2>1. After(volume, amounts, now) = CHOOSE h : Solves(h)
    BY Zenon DEF After, AfterStep
  <2> HIDE DEF Solves
  <2> QED BY <1>6, <2>1
<1> QED BY <1>7, Zenon

LEMMA TotalIsInt ==
  ASSUME NEW volume, NEW log, NEW now, Fits(volume, log, now), NEW amount \in Nat
  PROVE  Counted(volume, amount, now).total \in Int
<1>1. CASE WindowOver(volume, now)
  BY <1>1 DEF Counted, GetUserVolume
<1>2. CASE ~ WindowOver(volume, now)
  <2>1. Counted(volume, amount, now).total = volume.total + amount
    BY <1>2 DEF Counted, GetUserVolume
  <2>2. volume.total \in Nat
    BY <1>2 DEF WindowOver, Fits, InWindow
  <2> QED BY <2>1, <2>2
<1> QED BY <1>1, <1>2

LEMMA Joined ==
  ASSUME NEW S, NEW s \in Seq(S), NEW t \in Seq(S)
  PROVE  s \o t = [i \in 1..(Len(s) + Len(t)) |-> IF i <= Len(s) THEN s[i] ELSE t[i - Len(s)]]
<1>1. PICK both : both = s \o t
  OBVIOUS
<1>2. /\ both \in Seq(S) /\ Len(both) = Len(s) + Len(t)
      /\ \A i \in 1..(Len(s) + Len(t)) : both[i] = IF i <= Len(s) THEN s[i] ELSE t[i - Len(s)]
  BY <1>1
<1>3. both = [i \in 1..Len(both) |-> both[i]]
  BY <1>2
<1> QED BY <1>1, <1>2, <1>3

\* A batch that is allowed keeps to the windows: by induction on its amounts.
LEMMA BatchFits ==
  ASSUME NEW volume, NEW log, NEW now \in Nat, Fits(volume, log, now),
         NEW amounts \in Seq(Int), NEW cap \in Caps,
         \A k \in 1..Len(amounts) :
           amounts[k] > 0 /\ After(volume, amounts, now)[k].total <= cap
  PROVE  Fits(After(volume, amounts, now)[Len(amounts)],
              log \o [k \in 1..Len(amounts) |-> [at |-> now, amount |-> amounts[k]]], now)
<1> DEFINE n == Len(log)
           after == After(volume, amounts, now)
           entry(k) == [at |-> now, amount |-> amounts[k]]
           LogTo(k) == [i \in 1..(n + k) |-> IF i <= n THEN log[i] ELSE entry(i - n)]
           T == {k \in Nat : k <= Len(amounts) => Fits(after[k], LogTo(k), now)}
<1>1. n \in Nat /\ Len(amounts) \in Nat /\ log \in Seq(Entry)
  BY DEF Fits
<1>2. \A k \in 0..Len(amounts) :
        after[k] = IF k = 0 THEN volume ELSE Counted(after[k - 1], amounts[k], now)
  <2>1. \A k \in 0..Len(amounts) : after[k] = AfterStep(volume, amounts, now, after, k)
    BY Zenon, AfterIsDefined
  <2> HIDE DEF after
  <2> QED BY <2>1 DEF AfterStep
<1> HIDE DEF after
<1>3. 0 \in T
  <2>1. LogTo(0) = log
    <3>1. log = [i \in 1..n |-> log[i]]
      BY <1>1
    <3>2. n + 0 = n
      BY <1>1
    <3> HIDE DEF n
    <3>3. LogTo(0) = [i \in 1..n |-> log[i]]
      BY <1>1, <3>2
    <3> QED BY <3>1, <3>3
  <2>2. after[0] = volume
    BY <1>1, <1>2
  <2> HIDE DEF LogTo
  <2> QED BY <2>1, <2>2
<1>4. ASSUME NEW k \in Nat, k \in T
      PROVE  k + 1 \in T
  <2> SUFFICES ASSUME k + 1 <= Len(amounts)
               PROVE  Fits(after[k + 1], LogTo(k + 1), now)
    OBVIOUS
  <2>1. Fits(after[k], LogTo(k), now)
    <3>1. k <= Len(amounts)
      BY <1>1
    <3>2. k \in Nat /\ (k <= Len(amounts) => Fits(after[k], LogTo(k), now))
      BY Zenon, <1>4
    <3> HIDE DEF LogTo
    <3> QED BY <3>1, <3>2
  <2>2. k + 1 \in 1..Len(amounts) /\ k + 1 \in 0..Len(amounts) /\ (k + 1) - 1 = k /\ k + 1 # 0
    BY <1>1
  <2>3. after[k + 1] = Counted(after[k], amounts[k + 1], now)
    BY <1>2, <2>2
  <2>4. amounts[k + 1] \in Nat \ {0} /\ after[k + 1].total <= LargestCap
    <3>1. amounts[k + 1] \in Nat \ {0} /\ after[k + 1].total <= cap
      BY <2>2 DEF after
    <3>2. after[k + 1].total \in Int
      BY <2>1, <2>3, <3>1, TotalIsInt
    <3> QED
      BY <3>1, <3>2, LargestIsLargest
  <2>5. LogTo(k + 1) = Append(LogTo(k), entry(k + 1))
    <3>1. LogTo(k) \in Seq(Entry)
      BY <2>1 DEF Fits
    <3>2. Len(LogTo(k)) = n + k
      BY <1>1
    <3>3. (n + k) + 1 = n + (k + 1) /\ ((n + k) + 1) - n = k + 1 /\ ~ ((n + k) + 1 <= n)
      BY <1>1
    <3> QED BY <1>1, <3>1, <3>2, <3>3
  <2>6. Fits(Counted(after[k], amounts[k + 1], now), Append(LogTo(k), entry(k + 1)), now)
    <3> HIDE DEF LogTo
    <3> QED BY <2>1, <2>3, <2>4, OneMoreFits
  <2> HIDE DEF LogTo, entry
  <2> QED BY <2>3, <2>5, <2>6
<1>5. Len(amounts) \in T
  <2> HIDE DEF T
  <2> QED BY <1>1, <1>3, <1>4, NaturalInduction
<1>6. LogTo(Len(amounts)) = log \o [k \in 1..Len(amounts) |-> entry(k)]
  <2>1. PICK added : added = [k \in 1..Len(amounts) |-> entry(k)]
    OBVIOUS
  <2>2. \A k \in 1..Len(amounts) : entry(k) \in Entry
    BY DEF Entry
  <2> HIDE DEF entry
  <2>3. /\ added \in Seq(Entry) /\ Len(added) = Len(amounts)
        /\ \A k \in 1..Len(amounts) : added[k] = entry(k)
    BY <1>1, <2>1, <2>2
  <2>4. log \o added
          = [i \in 1..(Len(log) + Len(added)) |-> IF i <= Len(log) THEN log[i] ELSE added[i - Len(log)]]
    BY <1>1, <2>3, Joined
  <2>5. \A i \in 1..(n + Len(amounts)) : ~ (i <= n) => added[i - n] = entry(i - n)
    BY <1>1, <2>3
  <2> QED BY <2>1, <2>3, <2>4, <2>5
<1>7. Fits(after[Len(amounts)], LogTo(Len(amounts)), now)
  BY <1>1, <1>5
<1> HIDE DEF LogTo
<1> QED BY <1>6, <1>7 DEF after
-----------------------------------------------------------------------------
(* The submissions, and anyone's calls of the policy.                      *)

LEMMA ChecksFit ==
  ASSUME CapInv, NEW u \in Submitters, NEW amounts \in Seq(Int), CheckIntents(u, amounts),
         UNCHANGED ledger_time
  PROVE  CapInv'
<1> DEFINE more == [k \in 1..Len(amounts) |-> [at |-> ledger_time, amount |-> amounts[k]]]
           last == After(user_volume[u], amounts, ledger_time)[Len(amounts)]
<1>1. /\ ledger_time \in Nat /\ ledger_time' = ledger_time
      /\ daily_cap \in Caps /\ daily_cap' = daily_cap
      /\ DOMAIN user_volume = Submitters /\ DOMAIN admitted = Submitters
      /\ \A v \in Submitters : Fits(user_volume[v], admitted[v], ledger_time)
  BY DEF CapInv, CheckIntents
<1>2. /\ user_volume' = [user_volume EXCEPT ![u] = last]
      /\ admitted' = [admitted EXCEPT ![u] = @ \o more]
  BY Zenon DEF CheckIntents
<1>3. \A k \in 1..Len(amounts) :
        /\ amounts[k] > 0
        /\ After(user_volume[u], amounts, ledger_time)[k].total <= daily_cap
  BY DEF CheckIntents, Allowed
<1>4. Fits(last, admitted[u] \o more, ledger_time)
  <2>1. PICK volume, log : volume = user_volume[u] /\ log = admitted[u]
    OBVIOUS
  <2>2. Fits(volume, log, ledger_time)
    BY <1>1, <2>1
  <2>3. \A k \in 1..Len(amounts) :
          amounts[k] > 0 /\ After(volume, amounts, ledger_time)[k].total <= daily_cap
    BY <1>3, <2>1
  <2>4. Fits(After(volume, amounts, ledger_time)[Len(amounts)], log \o more, ledger_time)
    BY <1>1, <2>2, <2>3, BatchFits
  <2> QED BY <2>1, <2>4
<1> HIDE DEF more, last
<1>5. DOMAIN user_volume' = Submitters /\ DOMAIN admitted' = Submitters
  BY <1>1, <1>2
<1>6. ASSUME NEW v \in Submitters
      PROVE  Fits(user_volume'[v], admitted'[v], ledger_time)
  <2>1. CASE v = u
    <3>1. user_volume'[v] = last /\ admitted'[v] = admitted[u] \o more
      BY <1>1, <1>2, <2>1
    <3> QED BY <1>4, <3>1
  <2>2. CASE v # u
    <3>1. user_volume'[v] = user_volume[v] /\ admitted'[v] = admitted[v]
      BY <1>1, <1>2, <2>2
    <3> QED BY <1>1, <3>1
  <2> QED BY <2>1, <2>2
<1> QED
  BY <1>1, <1>5, <1>6 DEF CapInv

\* The clock, and the switch of the cap, take nothing away from the windows.
LEMMA TimeFits ==
  ASSUME NEW volume, NEW log, NEW now \in Nat, Fits(volume, log, now)
  PROVE  Fits(volume, log, now + 1)
<1>1. log \in Seq(Entry) /\ \A k \in 1..Len(log) : log[k].at <= now /\ log[k].at \in Nat
  <2>1. log \in Seq(Entry) /\ \A k \in 1..Len(log) : log[k].at <= now
    BY DEF Fits
  <2>2. \A k \in 1..Len(log) : log[k] \in Entry
    BY <2>1
  <2> QED BY <2>1, <2>2 DEF Entry
<1>2. \A k \in 1..Len(log) : log[k].at <= now + 1
  BY <1>1
<1>3. InWindow(volume, log, now) => InWindow(volume, log, now + 1)
  BY DEF InWindow
<1> QED
  BY <1>1, <1>2, <1>3 DEF Fits

LEMMA PolicyInit == ASSUME SubmissionsInit PROVE CapInv
<1>1. /\ ledger_time = 0 /\ daily_cap = FirstCap /\ FirstCap \in Caps
      /\ user_volume = [u \in Submitters |-> Unused] /\ admitted = [u \in Submitters |-> << >>]
  BY CapAssumption DEF SubmissionsInit, ClockInit, CapInit, CapAssumption
<1>2. Fits(Unused, << >>, 0)
  <2>1. << >> \in Seq(Entry) /\ \A k \in 1..Len(<< >>) : << >>[k].at <= 0
    OBVIOUS
  <2>2. TwoCaps(<< >>)
    <3> SUFFICES ASSUME NEW from \in Int
                 PROVE  Spent(<< >>, from, from + Day - 1) <= 2 * LargestCap
      BY DEF TwoCaps
    <3>1. Spent(<< >>, from, from + Day - 1) = 0
      <4>1. {k \in DOMAIN << >> : << >>[k].at \in from..(from + Day - 1)} = {}
        OBVIOUS
      <4> QED BY <4>1, SumOfNone, Zenon DEF Spent
    <3> QED BY <3>1, LargestIsLargest
  <2> QED BY <2>1, <2>2 DEF Fits
<1> QED
  BY <1>1, <1>2 DEF CapInv

LEMMA SubmissionStep == ASSUME CapInv, SubmissionsNext PROVE CapInv'
<1>1. ASSUME Later, UNCHANGED submissionVars
      PROVE  CapInv'
  <2>1. /\ ledger_time \in Nat /\ ledger_time' = ledger_time + 1
        /\ \A u \in Submitters : Fits(user_volume[u], admitted[u], ledger_time)
    BY <1>1 DEF CapInv, Later
  <2>2. UNCHANGED capVars
    BY <1>1 DEF submissionVars
  <2>3. \A u \in Submitters : Fits(user_volume[u], admitted[u], ledger_time + 1)
    BY <2>1, TimeFits
  <2> QED
    BY <2>1, <2>2, <2>3 DEF CapInv, capVars
<1>2. ASSUME UNCHANGED <<ledger_time, capVars>>
      PROVE  CapInv'
  BY <1>2 DEF CapInv, capVars
<1>3. ASSUME NEW u \in Submitters, NEW batch \in Batches, BatchSubmitIntent(u, batch)
      PROVE  CapInv'
  <2> DEFINE amounts == [k \in 1..Len(batch) |-> batch[k].min_dst]
  <2>1. CheckPolicy(u, amounts) /\ UNCHANGED ledger_time
        /\ \A k \in 1..Len(batch) : batch[k].min_dst \in 1..MaxAmount
    BY <1>3 DEF BatchSubmitIntent, Passes
  <2>2. amounts \in Seq(Int)
    <3>1. Len(batch) \in Nat
      BY SubmissionAssumption DEF SubmissionAssumption
    <3>2. \A k \in 1..Len(batch) : batch[k].min_dst \in Int
      BY <2>1, SubmissionAssumption DEF SubmissionAssumption
    <3> QED BY <3>1, <3>2
  <2> HIDE DEF amounts
  <2> QED
    BY <1>2, <2>1, <2>2, ChecksFit DEF CheckPolicy
<1>4. ASSUME NEW u \in Submitters, NEW asked \in Singles, SubmitIntent(u, asked)
      PROVE  CapInv'
  <2>1. CheckPolicy(u, <<asked.min_dst>>) /\ UNCHANGED ledger_time
        /\ asked.min_dst \in 1..MaxAmount
    BY <1>4 DEF SubmitIntent, Passes
  <2>2. <<asked.min_dst>> \in Seq(Int)
    BY <2>1, SubmissionAssumption DEF SubmissionAssumption
  <2> QED
    BY <1>2, <2>1, <2>2, ChecksFit DEF CheckPolicy
<1>5. ASSUME NEW u \in Submitters, NEW amount \in Minimum, CheckIntents(u, <<amount>>),
             UNCHANGED ledger_time
      PROVE  CapInv'
  <2>1. <<amount>> \in Seq(Int)
    BY SubmissionAssumption DEF SubmissionAssumption
  <2> QED BY <1>5, <2>1, ChecksFit
<1>6. ASSUME NEW cap \in Caps, SetDailyCap(cap), UNCHANGED ledger_time
      PROVE  CapInv'
  BY <1>6 DEF CapInv, SetDailyCap
<1>7. ASSUME NEW u \in Submitters, NEW t, NEW amount, NEW life, SubmitOutboundIntent(u, t, amount, life)
      PROVE  CapInv'
  BY <1>2, <1>7 DEF SubmitOutboundIntent
<1>8. ASSUME NEW o, AcceptOutboundIntent(o)
      PROVE  CapInv'
  BY <1>2, <1>8 DEF AcceptOutboundIntent
<1>9. ASSUME NEW flag, Switch(flag)
      PROVE  CapInv'
  BY <1>2, <1>9 DEF Switch
<1>10. ASSUME NEW cfg, SetSettlementConfig(cfg)
       PROVE  CapInv'
  BY <1>2, <1>10 DEF SetSettlementConfig
<1>11. ASSUME NEW id, CloseIntent(id)
       PROVE  CapInv'
  BY <1>2, <1>11 DEF CloseIntent
<1> QED
  BY <1>1, <1>3, <1>4, <1>5, <1>6, <1>7, <1>8, <1>9, <1>10, <1>11, Zenon DEF SubmissionsNext

LEMMA PolicyInvariance == SubmissionsSpec => []CapInv
<1>1. CapInv /\ UNCHANGED <<ledger_time, submissionVars>> => CapInv'
  BY DEF CapInv, submissionVars, capVars
<1> QED
  BY <1>1, PolicyInit, SubmissionStep, PTL DEF SubmissionsSpec

\* What the policy has on record for a user is what it allowed in the user's window, and no
\* period of a day sees more than two of the largest caps, however submissions, direct calls
\* and changes of the cap follow one another.
THEOREM TheCapHolds == SubmissionsSpec => []DailyCapHolds
<1>1. CapInv => DailyCapHolds
  <2> SUFFICES ASSUME CapInv, NEW u \in Submitters
               PROVE  /\ user_volume[u] # Unused =>
                           Within(u, user_volume[u].since) = user_volume[u].total
                      /\ \A from \in 0..LastTime : Within(u, from) <= 2 * LargestCap
    BY DEF DailyCapHolds
  <2>1. Fits(user_volume[u], admitted[u], ledger_time)
    BY DEF CapInv
  <2>2. \A from \in 0..LastTime : from \in Int
    OBVIOUS
  <2> QED
    BY <2>1, <2>2 DEF Fits, InWindow, TwoCaps, Within
<1> QED
  BY <1>1, PolicyInvariance, PTL

(***************************************************************************)
(* The history of submissions.                                             *)
(***************************************************************************)

Sequence(s) == \E S : s \in Seq(S)

\* What stands at a place of a history.
At(pages, flat) == pages[BucketOf(flat)][(flat % BucketSize) + 1]

\* The pages of a history of count places: all places are there, and the next is the one
\* after the last of its page.
Layout(pages, count) ==
  /\ DOMAIN pages = 0..MaxNonce
  /\ \A b \in 0..MaxNonce : Sequence(pages[b])
  /\ Len(pages[BucketOf(count)]) = count % BucketSize
  /\ \A b \in 0..MaxNonce : b > BucketOf(count) => pages[b] = << >>
  /\ \A flat \in 0..(count - 1) : flat % BucketSize < Len(pages[BucketOf(flat)])

LEMMA AppendToSequence ==
  ASSUME NEW s, Sequence(s), NEW e
  PROVE  /\ Sequence(Append(s, e)) /\ Len(s) \in Nat /\ Len(Append(s, e)) = Len(s) + 1
         /\ \A i \in 1..Len(s) : Append(s, e)[i] = s[i]
         /\ Append(s, e)[Len(s) + 1] = e
<1>1. PICK S : s \in Seq(S)
  BY DEF Sequence
<1>2. s \in Seq(S \cup {e}) /\ e \in S \cup {e}
  BY <1>1
<1>3. Append(s, e) \in Seq(S \cup {e})
  BY <1>2
<1>4. Sequence(Append(s, e))
  BY <1>3 DEF Sequence
<1> QED
  BY <1>1, <1>2, <1>4

\* Where the places are.
LEMMA Buckets ==
  ASSUME NEW n \in Nat
  PROVE  /\ BucketOf(n) \in Nat /\ BucketOf(n) <= n
         /\ n % BucketSize \in Nat /\ n % BucketSize < BucketSize
         /\ n = BucketSize * BucketOf(n) + (n % BucketSize)
<1>1. BucketSize \in Nat /\ BucketSize > 0
  BY SubmissionAssumption DEF SubmissionAssumption
<1> DEFINE q == n \div BucketSize
           r == n % BucketSize
<1>2. q \in Int /\ r \in 0..(BucketSize - 1) /\ n = BucketSize * q + r
  BY <1>1
<1> HIDE DEF q, r
<1>3. q >= 0
  <2>1. SUFFICES ASSUME q <= -1 PROVE FALSE
    BY <1>2
  <2>2. BucketSize * q <= BucketSize * (-1)
    BY <1>1, <1>2, <2>1
  <2> QED BY <1>1, <1>2, <2>2
<1>4. q <= n
  <2>1. BucketSize * q >= q
    BY <1>1, <1>2, <1>3
  <2> QED BY <1>1, <1>2, <2>1
<1> QED
  BY <1>1, <1>2, <1>3, <1>4 DEF q, r, BucketOf

\* Numbers are told apart by their quotients first.
LEMMA Quotients ==
  ASSUME NEW d \in Nat, d > 0, NEW q \in Nat, NEW r \in Nat, r < d, NEW t \in Nat, NEW s \in Nat,
         s < d
  PROVE  /\ q < t => d * q + r < d * t + s
         /\ d * q + r = d * t + s => q = t /\ r = s
         /\ d * q + r < d * t + s => q < t \/ (q = t /\ r < s)
<1>1. \A x, y \in Nat : x < y => d * x + d <= d * y
  <2> SUFFICES ASSUME NEW x \in Nat, NEW y \in Nat, x < y PROVE d * x + d <= d * y
    OBVIOUS
  <2>1. x + 1 <= y
    OBVIOUS
  <2>2. d * (x + 1) <= d * y
    BY <2>1
  <2>3. d * (x + 1) = d * x + d
    OBVIOUS
  <2> QED BY <2>2, <2>3
<1>2. \A x, y, a, b \in Nat : x < y /\ a < d => d * x + a < d * y + b
  <2> SUFFICES ASSUME NEW x \in Nat, NEW y \in Nat, NEW a \in Nat, NEW b \in Nat, x < y, a < d
               PROVE  d * x + a < d * y + b
    OBVIOUS
  <2>1. d * x + d <= d * y /\ d * x \in Nat /\ d * y \in Nat
    BY <1>1
  <2> QED BY <2>1
<1>3. q < t => d * q + r < d * t + s
  BY <1>2
<1>4. t < q => d * t + s < d * q + r
  BY <1>2
<1>5. d * q \in Nat /\ d * t \in Nat
  OBVIOUS
<1>6. q = t => d * q = d * t
  OBVIOUS
<1> DEFINE a == d * q
           b == d * t
<1> HIDE DEF a, b
<1>7. /\ q < t => a + r < b + s
      /\ t < q => b + s < a + r
      /\ a \in Nat /\ b \in Nat /\ (q = t => a = b)
  BY <1>3, <1>4, <1>5, <1>6 DEF a, b
<1>8. /\ q < t => a + r < b + s
      /\ a + r = b + s => q = t /\ r = s
      /\ a + r < b + s => q < t \/ (q = t /\ r < s)
  BY <1>7
<1> QED
  BY <1>8 DEF a, b

\* The next place is the next of its page, or the first of the next page.
LEMMA NextPlace ==
  ASSUME NEW n \in Nat
  PROVE  \/ BucketOf(n + 1) = BucketOf(n) /\ (n + 1) % BucketSize = (n % BucketSize) + 1
         \/ BucketOf(n + 1) = BucketOf(n) + 1 /\ (n + 1) % BucketSize = 0
<1>1. BucketSize \in Nat /\ BucketSize > 0
  BY SubmissionAssumption DEF SubmissionAssumption
<1>2. PICK q \in Nat, r \in Nat : q = BucketOf(n) /\ r = n % BucketSize /\ r < BucketSize
                                  /\ n = BucketSize * q + r
  BY Buckets
<1>3. PICK t \in Nat, s \in Nat : t = BucketOf(n + 1) /\ s = (n + 1) % BucketSize /\ s < BucketSize
                                  /\ n + 1 = BucketSize * t + s
  BY Buckets
<1>4. CASE r + 1 < BucketSize
  <2>1. BucketSize * q + (r + 1) = BucketSize * t + s
    <3>1. PICK x \in Nat, y \in Nat : x = BucketSize * q /\ y = BucketSize * t
      BY <1>1, ProductNat
    <3> QED BY <1>2, <1>3, <3>1
  <2> DEFINE d == BucketSize
             p == r + 1
  <2>2. d \in Nat /\ d > 0 /\ p \in Nat /\ p < d /\ d * q + p = d * t + s /\ s < d
    BY <1>1, <1>2, <1>3, <1>4, <2>1
  <2> HIDE DEF d, p
  <2>3. q = t /\ p = s
    BY <2>2, Quotients
  <2> QED BY <1>2, <1>3, <2>3 DEF p
<1>5. CASE r + 1 = BucketSize
  <2>1. BucketSize * (q + 1) + 0 = BucketSize * q + BucketSize /\ BucketSize * q \in Nat
    BY <1>1, ProductNat
  <2>2. BucketSize * (q + 1) + 0 = BucketSize * t + s
    <3>1. PICK x \in Nat, y \in Nat : x = BucketSize * q /\ y = BucketSize * t
      BY <1>1, ProductNat
    <3>2. BucketSize * (q + 1) + 0 = x + BucketSize
      BY <2>1, <3>1
    <3>3. n = x + r /\ n + 1 = y + s
      BY <1>2, <1>3, <3>1
    <3>4. x + BucketSize = y + s
      BY <1>5, <3>3
    <3> QED BY <3>1, <3>2, <3>4
  <2> DEFINE d == BucketSize
             p == q + 1
             o == 0
  <2>3. d \in Nat /\ d > 0 /\ p \in Nat /\ o \in Nat /\ o < d /\ d * p + o = d * t + s /\ s < d
    BY <1>1, <1>2, <1>3, <2>2
  <2> HIDE DEF d, p, o
  <2>4. p = t /\ o = s
    BY <2>3, Quotients
  <2> QED BY <1>2, <1>3, <2>4 DEF p, o
<1> QED BY <1>1, <1>2, <1>4, <1>5

\* An earlier place is on an earlier page, or before it on the same.
LEMMA EarlierPlace ==
  ASSUME NEW m \in Nat, NEW n \in Nat, m < n
  PROVE  \/ BucketOf(m) < BucketOf(n)
         \/ BucketOf(m) = BucketOf(n) /\ m % BucketSize < n % BucketSize
<1>1. BucketSize \in Nat /\ BucketSize > 0
  BY SubmissionAssumption DEF SubmissionAssumption
<1>2. PICK q \in Nat, r \in Nat : q = BucketOf(m) /\ r = m % BucketSize /\ r < BucketSize
                                  /\ m = BucketSize * q + r
  BY Buckets
<1>3. PICK t \in Nat, s \in Nat : t = BucketOf(n) /\ s = n % BucketSize /\ s < BucketSize
                                  /\ n = BucketSize * t + s
  BY Buckets
<1> DEFINE d == BucketSize
<1>4. d \in Nat /\ d > 0 /\ r < d /\ s < d /\ d * q + r < d * t + s
  BY <1>1, <1>2, <1>3
<1> HIDE DEF d
<1>5. q < t \/ (q = t /\ r < s)
  BY <1>4, Quotients
<1> QED BY <1>2, <1>3, <1>5

\* One more id stands after the others.
LEMMA OneMoreId ==
  ASSUME NEW pages, NEW n \in Nat, n + 1 <= MaxNonce, Layout(pages, n), NEW id,
         NEW more, more = UserIntentsAppend([count |-> n, pages |-> pages], id)
  PROVE  /\ more.count = n + 1 /\ more = [count |-> n + 1, pages |-> more.pages]
         /\ Layout(more.pages, n + 1)
         /\ \A flat \in 0..(n - 1) : At(more.pages, flat) = At(pages, flat)
         /\ At(more.pages, n) = id
<1> DEFINE new == more.pages
           b == BucketOf(n)
           longer == Append(pages[b], id)
<1>1. /\ more.count = n + 1 /\ more = [count |-> n + 1, pages |-> new]
      /\ new = [pages EXCEPT ![b] = longer]
  <2>1. PICK h : h = [count |-> n, pages |-> pages]
    OBVIOUS
  <2>2. h.count = n /\ h.pages = pages
    BY <2>1
  <2>3. more = [count |-> h.count + 1,
                pages |-> [h.pages EXCEPT ![BucketOf(h.count)] = Append(h.pages[BucketOf(h.count)], id)]]
    BY <2>1, Zenon DEF UserIntentsAppend
  <2>4. more = [count |-> n + 1, pages |-> [pages EXCEPT ![b] = longer]]
    BY <2>2, <2>3
  <2>5. PICK p : p = [pages EXCEPT ![b] = longer]
    OBVIOUS
  <2>6. more = [count |-> n + 1, pages |-> p]
    BY <2>4, <2>5
  <2>7. more.count = n + 1 /\ more.pages = p
    BY <2>6
  <2> QED BY <2>5, <2>6, <2>7
<1>2. MaxNonce \in Nat /\ b \in Nat /\ b <= n /\ b \in 0..MaxNonce /\ n % BucketSize \in Nat
  <2>1. MaxNonce \in Nat
    BY SubmissionAssumption DEF SubmissionAssumption
  <2>2. BucketOf(n) \in Nat /\ BucketOf(n) <= n /\ n % BucketSize \in Nat
    BY Buckets
  <2> QED BY <2>1, <2>2
<1>3. /\ DOMAIN pages = 0..MaxNonce /\ \A c \in 0..MaxNonce : Sequence(pages[c])
      /\ Len(pages[b]) = n % BucketSize
      /\ \A c \in 0..MaxNonce : c > b => pages[c] = << >>
      /\ \A flat \in 0..(n - 1) : flat % BucketSize < Len(pages[BucketOf(flat)])
  BY DEF Layout
<1>4. /\ Sequence(longer) /\ Len(longer) = (n % BucketSize) + 1
      /\ \A i \in 1..(n % BucketSize) : longer[i] = pages[b][i]
      /\ longer[(n % BucketSize) + 1] = id
  BY <1>2, <1>3, AppendToSequence
<1> HIDE DEF new, longer
<1>5. /\ DOMAIN new = 0..MaxNonce /\ new[b] = longer
      /\ \A c \in 0..MaxNonce : c # b => new[c] = pages[c]
  BY <1>1, <1>2, <1>3
<1>6. \A c \in 0..MaxNonce : Sequence(new[c])
  BY <1>3, <1>4, <1>5
<1>7. ASSUME NEW flat \in 0..(n - 1)
      PROVE  At(new, flat) = At(pages, flat) /\ flat % BucketSize < Len(new[BucketOf(flat)])
  <2>1. /\ flat \in Nat /\ flat < n
        /\ BucketOf(flat) \in Nat /\ BucketOf(flat) <= flat /\ flat % BucketSize \in Nat
    BY Buckets
  <2>2. BucketOf(flat) \in 0..MaxNonce
    BY <1>2, <2>1
  <2>3. CASE BucketOf(flat) = b
    <3>1. flat % BucketSize < n % BucketSize
      BY <1>2, <2>1, <2>3, EarlierPlace
    <3>2. (flat % BucketSize) + 1 \in 1..(n % BucketSize)
      BY <1>2, <2>1, <3>1
    <3> QED BY <1>2, <1>4, <1>5, <2>1, <2>3, <3>1, <3>2 DEF At
  <2>4. CASE BucketOf(flat) # b
    BY <1>3, <1>5, <2>2, <2>4 DEF At
  <2> QED BY <2>3, <2>4
<1>8. At(new, n) = id
  BY <1>4, <1>5 DEF At
<1>9. /\ Len(new[BucketOf(n + 1)]) = (n + 1) % BucketSize
      /\ \A c \in 0..MaxNonce : c > BucketOf(n + 1) => new[c] = << >>
  <2>1. CASE BucketOf(n + 1) = b /\ (n + 1) % BucketSize = (n % BucketSize) + 1
    BY <1>2, <1>3, <1>4, <1>5, <2>1
  <2>2. CASE BucketOf(n + 1) = b + 1 /\ (n + 1) % BucketSize = 0
    <3>1. b + 1 \in 0..MaxNonce /\ b + 1 > b /\ b + 1 # b
      BY <1>2
    <3>2. new[b + 1] = << >>
      BY <1>3, <1>5, <3>1
    <3>3. ASSUME NEW c \in 0..MaxNonce, c > b + 1 PROVE new[c] = << >>
      BY <1>2, <1>3, <1>5, <3>3
    <3> QED BY <2>2, <3>2, <3>3
  <2> QED BY <2>1, <2>2, NextPlace
<1>10. \A flat \in 0..n : flat % BucketSize < Len(new[BucketOf(flat)])
  <2>1. n % BucketSize < Len(new[BucketOf(n)])
    BY <1>2, <1>4, <1>5
  <2>2. \A flat \in 0..n : flat = n \/ flat \in 0..(n - 1)
    OBVIOUS
  <2> QED BY <1>7, <2>1, <2>2
<1>11. (n + 1) - 1 = n
  OBVIOUS
<1>12. Layout(new, n + 1)
  BY <1>5, <1>6, <1>9, <1>10, <1>11 DEF Layout
<1> QED
  BY <1>1, <1>7, <1>8, <1>12 DEF new

-----------------------------------------------------------------------------
(* Some more ids.                                                          *)

HistoryStep(history, new, f, k) ==
  IF k = 0 THEN history ELSE UserIntentsAppend(f[k - 1], new[k])

\* f has the histories after the first n ids.
HistoryTo(history, new, n, f) ==
  /\ f = [k \in 0..Len(new) |-> f[k]]
  /\ \A k \in 0..Len(new) : k <= n => f[k] = HistoryStep(history, new, f, k)

\* The histories are defined: by induction on the ids.
LEMMA HistoryIsDefined ==
  ASSUME NEW history, NEW new, Len(new) \in Nat
  PROVE  \A k \in 0..Len(new) :
           HistoryAfter(history, new)[k] = HistoryStep(history, new, HistoryAfter(history, new), k)
<1> DEFINE D == 0..Len(new)
           Step(f, k) == HistoryStep(history, new, f, k)
           T == {n \in Nat : \E f : HistoryTo(history, new, n, f)}
           Solves(f) == f = [k \in D |-> Step(f, k)]
<1>1. Len(new) \in Nat
  OBVIOUS
<1>2. 0 \in T
  <2> DEFINE f == [k \in D |-> history]
  <2>1. f = [k \in D |-> f[k]]
    OBVIOUS
  <2>2. \A k \in D : k <= 0 => f[k] = Step(f, k)
    BY <1>1 DEF HistoryStep
  <2> HIDE DEF f
  <2> QED BY <2>1, <2>2 DEF HistoryTo
<1>3. ASSUME NEW n \in Nat, n \in T
      PROVE  n + 1 \in T
  <2>1. PICK f : HistoryTo(history, new, n, f)
    BY <1>3
  <2> DEFINE g == [k \in D |-> Step(f, k)]
  <2>2. g = [k \in D |-> g[k]]
    OBVIOUS
  <2>3. \A k \in D : k <= n => g[k] = f[k]
    BY <2>1 DEF HistoryTo
  <2>4. ASSUME NEW k \in D, k <= n + 1
        PROVE  g[k] = Step(g, k)
    <3>1. CASE k = 0
      BY <3>1 DEF HistoryStep
    <3>2. CASE k # 0
      <4>1. k - 1 \in D /\ k - 1 <= n
        BY <1>1, <2>4, <3>2
      <4>2. g[k - 1] = f[k - 1]
        BY <2>3, <4>1
      <4> QED BY <4>2 DEF HistoryStep
    <3> QED BY <3>1, <3>2
  <2> HIDE DEF g
  <2>5. HistoryTo(history, new, n + 1, g)
    BY <2>2, <2>4 DEF HistoryTo
  <2> QED BY <2>5
<1>4. Len(new) \in T
  <2> HIDE DEF T
  <2> QED BY <1>1, <1>2, <1>3, NaturalInduction
<1>5. PICK f : HistoryTo(history, new, Len(new), f)
  BY <1>4
<1>6. Solves(f)
  <2>1. \A k \in D : f[k] = Step(f, k)
    BY <1>1, <1>5 DEF HistoryTo
  <2>2. f = [k \in D |-> f[k]]
    BY <1>5 DEF HistoryTo
  <2> QED BY <2>1, <2>2
<1>7. Solves(HistoryAfter(history, new))
  <2>1. HistoryAfter(history, new) = CHOOSE h : Solves(h)
    BY Zenon DEF HistoryAfter, HistoryStep
  <2> HIDE DEF Solves
  <2> QED BY <1>6, <2>1
<1> QED BY <1>7, Zenon

\* h is the history pages of n ids with the first k of new after them.
Extends(h, pages, n, new, k) ==
  /\ h = [count |-> n + k, pages |-> h.pages] /\ h.count = n + k
  /\ Layout(h.pages, n + k)
  /\ \A flat \in 0..(n - 1) : At(h.pages, flat) = At(pages, flat)
  /\ \A i \in 1..k : At(h.pages, n + i - 1) = new[i]

\* The new ids stand after the others, in their order.
LEMMA MoreIds ==
  ASSUME NEW pages, NEW n \in Nat, Layout(pages, n),
         NEW new, Len(new) \in Nat, n + Len(new) <= MaxNonce
  PROVE  Extends(HistoryAfter([count |-> n, pages |-> pages], new)[Len(new)], pages, n, new, Len(new))
<1> DEFINE history == [count |-> n, pages |-> pages]
           after == HistoryAfter(history, new)
           T == {k \in Nat : k <= Len(new) => Extends(after[k], pages, n, new, k)}
<1>1. \A k \in 0..Len(new) :
        after[k] = IF k = 0 THEN history ELSE UserIntentsAppend(after[k - 1], new[k])
  BY HistoryIsDefined DEF HistoryStep
<1>2. MaxNonce \in Nat /\ Len(new) \in Nat
  BY SubmissionAssumption DEF SubmissionAssumption
<1>3. history.pages = pages /\ history.count = n /\ history = [count |-> n, pages |-> pages]
  OBVIOUS
<1> HIDE DEF after, history
<1>4. 0 \in T
  <2>1. after[0] = history
    BY <1>1, <1>2
  <2>2. n + 0 = n /\ \A i \in 1..0 : FALSE
    OBVIOUS
  <2> QED BY <1>3, <2>1, <2>2 DEF Extends
<1>5. ASSUME NEW k \in Nat, k \in T
      PROVE  k + 1 \in T
  <2> SUFFICES ASSUME k + 1 <= Len(new)
               PROVE  Extends(after[k + 1], pages, n, new, k + 1)
    OBVIOUS
  <2>1. Extends(after[k], pages, n, new, k)
    BY <1>2, <1>5
  <2>2. k + 1 \in 1..Len(new) /\ k + 1 \in 0..Len(new) /\ (k + 1) - 1 = k /\ k + 1 # 0
    BY <1>2
  <2>3. after[k + 1] = UserIntentsAppend(after[k], new[k + 1])
    BY <1>1, <2>2
  <2> DEFINE p == after[k].pages
             more == after[k + 1]
             id == new[k + 1]
             m == n + k
  <2>4. /\ p = after[k].pages /\ more = after[k + 1] /\ id = new[k + 1] /\ m = n + k
        /\ m \in Nat /\ m + 1 <= MaxNonce
    BY <1>2
  <2> HIDE DEF p, more, id, m
  <2>5. more = UserIntentsAppend([count |-> m, pages |-> p], id) /\ Layout(p, m)
    <3>1. after[k] = [count |-> m, pages |-> p]
      BY <2>1, <2>4 DEF Extends
    <3>2. Layout(p, m)
      BY <2>1, <2>4 DEF Extends
    <3> QED BY <2>3, <2>4, <3>1, <3>2
  <2>6. /\ more.count = m + 1 /\ more = [count |-> m + 1, pages |-> more.pages]
        /\ Layout(more.pages, m + 1)
        /\ \A flat \in 0..(m - 1) : At(more.pages, flat) = At(p, flat)
        /\ At(more.pages, m) = id
    BY <2>4, <2>5, OneMoreId
  <2>7. \A flat \in 0..(n - 1) : At(more.pages, flat) = At(pages, flat)
    <3>1. \A flat \in 0..(n - 1) : flat \in 0..(m - 1)
      BY <2>4
    <3> QED BY <2>1, <2>4, <2>6, <3>1 DEF Extends
  <2>8. ASSUME NEW i \in 1..(k + 1) PROVE At(more.pages, n + i - 1) = new[i]
    <3>1. CASE i = k + 1
      <4>1. n + i - 1 = m
        BY <2>4, <3>1
      <4> QED BY <2>4, <2>6, <3>1, <4>1
    <3>2. CASE i # k + 1
      <4>1. i \in 1..k /\ n + i - 1 \in 0..(m - 1)
        BY <2>4, <3>2
      <4> QED BY <2>1, <2>4, <2>6, <4>1 DEF Extends
    <3> QED BY <3>1, <3>2
  <2>9. m + 1 = n + (k + 1)
    BY <2>4
  <2> QED BY <2>4, <2>6, <2>7, <2>8, <2>9 DEF Extends
<1>6. Len(new) \in T
  <2> HIDE DEF T
  <2> QED BY <1>2, <1>4, <1>5, NaturalInduction
<1> QED
  BY <1>2, <1>6 DEF after, history

-----------------------------------------------------------------------------
(* Pages of the history.                                                   *)

\* How many places a page shows.
Shown(count, start, limit) ==
  LET capped == IF limit < MaxPageSize THEN limit ELSE MaxPageSize
      end == IF start + capped < count THEN start + capped ELSE count
  IN  IF start < end THEN end - start ELSE 0

PageStep(pages, start, f, n) ==
  LET flat == start + n - 1
      page == pages[flat \div BucketSize]
      slot == (flat % BucketSize) + 1
  IN  IF n = 0 THEN << >>
      ELSE IF slot <= Len(page) /\ page[slot] # None
           THEN Append(f[n - 1], page[slot])
           ELSE f[n - 1]

\* What two places hold is in order, unless one of them has been emptied.
Before(x, y) == x # None /\ y # None => NonceIn(x) < NonceIn(y)

\* s shows, in order, what n places from start on hold that have not been emptied.
Shows(s, pages, start, n) ==
  /\ Sequence(s)
  /\ \A i \in 1..Len(s) : s[i] # None /\ \E f \in 1..n : s[i] = At(pages, start + f - 1)
  /\ \A f \in 1..n :
       At(pages, start + f - 1) # None => \E i \in 1..Len(s) : s[i] = At(pages, start + f - 1)
  /\ \A i, j \in 1..Len(s) : i < j => NonceIn(s[i]) < NonceIn(s[j])

PageSteps(pages, start, size) ==
  CHOOSE f : f = [n \in 0..size |-> PageStep(pages, start, f, n)]

\* f is what list_intents_by_user has collected up to the n-th place.
PageTo(pages, start, size, n, f) ==
  /\ f = [k \in 0..size |-> f[k]]
  /\ \A k \in 0..size : k <= n => f[k] = PageStep(pages, start, f, k)

\* What is collected is defined: by induction on the places.
LEMMA PageIsDefined ==
  ASSUME NEW pages, NEW start, NEW size \in Nat
  PROVE  \A k \in 0..size :
           PageSteps(pages, start, size)[k] = PageStep(pages, start, PageSteps(pages, start, size), k)
<1> DEFINE D == 0..size
           Step(f, k) == PageStep(pages, start, f, k)
           T == {n \in Nat : \E f : PageTo(pages, start, size, n, f)}
           Solves(f) == f = [n \in D |-> Step(f, n)]
<1>1. 0 \in T
  <2> DEFINE f == [k \in D |-> << >>]
  <2>1. f = [k \in D |-> f[k]]
    OBVIOUS
  <2>2. \A k \in D : k <= 0 => f[k] = Step(f, k)
    BY DEF PageStep
  <2> HIDE DEF f
  <2> QED BY <2>1, <2>2 DEF PageTo
<1>2. ASSUME NEW n \in Nat, n \in T
      PROVE  n + 1 \in T
  <2>1. PICK f : PageTo(pages, start, size, n, f)
    BY <1>2
  <2> DEFINE g == [k \in D |-> Step(f, k)]
  <2>2. g = [k \in D |-> g[k]]
    OBVIOUS
  <2>3. \A k \in D : k <= n => g[k] = f[k]
    BY <2>1 DEF PageTo
  <2>4. ASSUME NEW k \in D, k <= n + 1
        PROVE  g[k] = Step(g, k)
    <3>1. CASE k = 0
      BY <3>1 DEF PageStep
    <3>2. CASE k # 0
      <4>1. k - 1 \in D /\ k - 1 <= n
        BY <2>4, <3>2
      <4>2. g[k - 1] = f[k - 1]
        BY <2>3, <4>1
      <4> QED BY <4>2 DEF PageStep
    <3> QED BY <3>1, <3>2
  <2> HIDE DEF g
  <2>5. PageTo(pages, start, size, n + 1, g)
    BY <2>2, <2>4 DEF PageTo
  <2> QED BY <2>5
<1>3. size \in T
  <2> HIDE DEF T
  <2> QED BY <1>1, <1>2, NaturalInduction
<1>4. PICK f : PageTo(pages, start, size, size, f)
  BY <1>3
<1>5. Solves(f)
  <2>1. \A k \in D : f[k] = Step(f, k)
    BY <1>4 DEF PageTo
  <2>2. f = [k \in D |-> f[k]]
    BY <1>4 DEF PageTo
  <2> QED BY <2>1, <2>2
<1>6. Solves(PageSteps(pages, start, size))
  <2>1. PageSteps(pages, start, size) = CHOOSE h : Solves(h)
    BY Zenon DEF PageSteps
  <2> HIDE DEF Solves
  <2> QED BY <1>5, <2>1
<1> QED BY <1>6, Zenon

LEMMA ShownBounds ==
  ASSUME NEW count \in Nat, NEW start \in Nat, NEW limit \in 1..MaxPageSize
  PROVE  /\ Shown(count, start, limit) \in Nat
         /\ \A i \in 1..limit : start + i <= count => i <= Shown(count, start, limit)
         /\ Shown(count, start, limit) <= limit
         /\ \A i \in 1..Shown(count, start, limit) : start + i - 1 \in 0..(count - 1)
<1>1. MaxPageSize \in Nat /\ limit \in Nat /\ limit <= MaxPageSize
  BY SubmissionAssumption DEF SubmissionAssumption
<1>2. (IF limit < MaxPageSize THEN limit ELSE MaxPageSize) = limit
  BY <1>1
<1>3. Shown(count, start, limit)
        = IF start < (IF start + limit < count THEN start + limit ELSE count)
          THEN (IF start + limit < count THEN start + limit ELSE count) - start ELSE 0
  BY <1>2 DEF Shown
<1> QED BY <1>1, <1>3

\* A page shows the ids at its places.
LEMMA PageShows ==
  ASSUME NEW u, intent_count[u] \in Nat, Layout(buckets[u], intent_count[u]),
         intent_count[u] <= MaxNonce,
         \A f, g \in 0..(intent_count[u] - 1) : f < g => Before(At(buckets[u], f), At(buckets[u], g)),
         NEW start \in Nat, NEW limit \in 1..MaxPageSize
  PROVE  Shows(ListIntentsByUser(u, start, limit), buckets[u], start,
               Shown(intent_count[u], start, limit))
<1> DEFINE pages == buckets[u]
           count == intent_count[u]
           size == Shown(count, start, limit)
           h == PageSteps(pages, start, size)
           at(i) == At(pages, start + i - 1)
           T == {n \in Nat : n <= size => Shows(h[n], pages, start, n)}
<1>1. size \in Nat /\ \A i \in 1..size : start + i - 1 \in 0..(count - 1)
  BY ShownBounds
<1>2. /\ Layout(pages, count) /\ count \in Nat /\ count <= MaxNonce
      /\ \A f, g \in 0..(count - 1) : f < g => Before(At(pages, f), At(pages, g))
  OBVIOUS
<1>3. ListIntentsByUser(u, start, limit) = h[size]
  BY Zenon DEF ListIntentsByUser, Shown, PageStep, PageSteps
<1> HIDE DEF size, pages, count
<1>4. \A n \in 0..size : h[n] = PageStep(pages, start, h, n)
  BY <1>1, PageIsDefined
<1> HIDE DEF h
<1>5. ASSUME NEW n \in 1..size
      PROVE  h[n] = IF at(n) # None THEN Append(h[n - 1], at(n)) ELSE h[n - 1]
  <2> DEFINE flat == start + n - 1
             page == pages[BucketOf(flat)]
  <2>1. n \in 0..size /\ n # 0
    BY <1>1
  <2>2. flat \in 0..(count - 1) /\ flat \in Nat
    BY <1>1
  <2>3. flat % BucketSize \in Nat /\ BucketOf(flat) \in 0..MaxNonce
    <3>1. flat % BucketSize \in Nat /\ BucketOf(flat) \in Nat /\ BucketOf(flat) <= flat
      BY <2>2, Buckets
    <3>2. MaxNonce \in Nat
      BY SubmissionAssumption DEF SubmissionAssumption
    <3> QED BY <1>2, <2>2, <3>1, <3>2
  <2>4. Sequence(page) /\ flat % BucketSize < Len(page)
    BY <1>2, <2>2, <2>3 DEF Layout
  <2>5. Len(page) \in Nat
    BY <2>4 DEF Sequence
  <2>6. (flat % BucketSize) + 1 <= Len(page)
    BY <2>3, <2>4, <2>5
  <2> QED BY <1>4, <2>1, <2>6 DEF PageStep, At, BucketOf
<1>6. 0 \in T
  <2>1. h[0] = << >>
    BY <1>1, <1>4 DEF PageStep
  <2>2. Sequence(h[0]) /\ Len(h[0]) = 0
    BY <2>1 DEF Sequence
  <2> QED BY <2>2 DEF Shows
<1>7. ASSUME NEW n \in Nat, n \in T
      PROVE  n + 1 \in T
  <2> SUFFICES ASSUME n + 1 <= size PROVE Shows(h[n + 1], pages, start, n + 1)
    OBVIOUS
  <2>1. n + 1 \in 1..size /\ (n + 1) - 1 = n /\ n <= size
    BY <1>1
  <2> DEFINE e == at(n + 1)
             s == h[n]
  <2>2. h[n + 1] = IF e # None THEN Append(s, e) ELSE s
    BY <1>5, <2>1
  <2> HIDE DEF at
  <2>3. /\ Sequence(s)
        /\ \A i \in 1..Len(s) : s[i] # None /\ \E f \in 1..n : s[i] = at(f)
        /\ \A f \in 1..n : at(f) # None => \E i \in 1..Len(s) : s[i] = at(f)
        /\ \A i, j \in 1..Len(s) : i < j => NonceIn(s[i]) < NonceIn(s[j])
    BY <1>7, <2>1 DEF Shows, at
  <2>4. ASSUME NEW f \in 1..n, at(f) # None, e # None PROVE NonceIn(at(f)) < NonceIn(e)
    <3>1. f \in 1..size /\ start + f - 1 < start + (n + 1) - 1
      BY <1>1, <2>1
    <3>2. Before(at(f), e)
      BY <1>1, <1>2, <2>1, <3>1 DEF at
    <3> QED BY <2>4, <3>2 DEF Before
  <2> HIDE DEF s
  <2>5. CASE e = None
    <3>1. \A f \in 1..(n + 1) : f \in 1..n \/ f = n + 1
      OBVIOUS
    <3>2. \A f \in 1..n : f \in 1..(n + 1)
      OBVIOUS
    <3>3. /\ \A i \in 1..Len(s) : s[i] # None /\ \E f \in 1..(n + 1) : s[i] = at(f)
          /\ \A f \in 1..(n + 1) : at(f) # None => \E i \in 1..Len(s) : s[i] = at(f)
      BY <2>3, <2>5, <3>1, <3>2
    <3>4. h[n + 1] = s
      BY <2>2, <2>5
    <3> QED BY <2>3, <3>3, <3>4 DEF Shows, at
  <2>6. CASE e # None
    <3> DEFINE t == Append(s, e)
    <3>1. /\ Sequence(t) /\ Len(s) \in Nat /\ Len(t) = Len(s) + 1
          /\ \A i \in 1..Len(s) : t[i] = s[i]
          /\ t[Len(s) + 1] = e
      BY <2>3, AppendToSequence
    <3> HIDE DEF t, e
    <3>2. PICK m \in Nat : m = Len(s)
      BY <3>1
    <3>3. ASSUME NEW i \in 1..(m + 1)
          PROVE  t[i] # None /\ \E f \in 1..(n + 1) : t[i] = at(f)
      <4>1. CASE i = m + 1
        BY <2>6, <3>1, <3>2, <4>1 DEF e
      <4>2. CASE i \in 1..m
        <5>1. t[i] = s[i] /\ s[i] # None
          BY <2>3, <3>1, <3>2, <4>2
        <5>2. PICK f \in 1..n : s[i] = at(f)
          BY <2>3, <3>2, <4>2
        <5> QED BY <5>1, <5>2
      <4> QED BY <4>1, <4>2
    <3>4. ASSUME NEW f \in 1..(n + 1), at(f) # None
          PROVE  \E i \in 1..(m + 1) : t[i] = at(f)
      <4>1. CASE f = n + 1
        BY <3>1, <3>2, <4>1 DEF e
      <4>2. CASE f \in 1..n
        <5>1. PICK i \in 1..m : s[i] = at(f)
          BY <2>3, <3>2, <3>4, <4>2
        <5> QED BY <3>1, <3>2, <5>1
      <4> QED BY <4>1, <4>2
    <3>5. ASSUME NEW i \in 1..(m + 1), NEW j \in 1..(m + 1), i < j
          PROVE  NonceIn(t[i]) < NonceIn(t[j])
      <4>1. i \in 1..m
        BY <3>5
      <4>2. t[i] = s[i] /\ s[i] # None
        BY <2>3, <3>1, <3>2, <4>1
      <4>3. CASE j = m + 1
        <5>1. PICK f \in 1..n : s[i] = at(f)
          BY <2>3, <3>2, <4>1
        <5>2. t[j] = e
          BY <3>1, <3>2, <4>3
        <5> QED BY <2>4, <2>6, <4>2, <5>1, <5>2
      <4>4. CASE j \in 1..m
        <5>1. t[j] = s[j]
          BY <3>1, <3>2, <4>4
        <5> QED BY <2>3, <3>2, <3>5, <4>1, <4>2, <4>4, <5>1
      <4> QED BY <4>3, <4>4
    <3>6. h[n + 1] = t
      BY <2>2, <2>6 DEF t, e
    <3>7. Len(t) = m + 1
      BY <3>1, <3>2
    <3> QED BY <3>1, <3>3, <3>4, <3>5, <3>6, <3>7 DEF Shows, at
  <2> QED BY <2>5, <2>6
<1>8. size \in T
  <2> HIDE DEF T
  <2> QED BY <1>1, <1>6, <1>7, NaturalInduction
<1> QED
  BY <1>1, <1>3, <1>8 DEF size, pages, count

-----------------------------------------------------------------------------
(* The invariant.                                                          *)

IdsOf(u) == {id \in ids : id[2] = u}
OutboundOf(u) == {x \in outbound : x.id[1] = u}
Named(u) == {NonceIn(id) : id \in IdsOf(u)}
NamedOutbound(u) == {o.id[5] : o \in OutboundOf(u)}
Unpruned(u) == IdsOf(u) \ pruned
Places(u) == 0..(intent_count[u] - 1)

\* The places of a user's history that have not been emptied hold the user's ids that have
\* not been pruned, in the order of their nonces.
Ordered(u) ==
  /\ intent_count[u] \in Nat /\ user_nonce[u] \in Nat
  /\ intent_count[u] <= user_nonce[u] /\ user_nonce[u] <= MaxNonce
  /\ Layout(buckets[u], intent_count[u])
  /\ {At(buckets[u], flat) : flat \in Places(u)} \ {None} = Unpruned(u)
  /\ \A f, g \in Places(u) : f < g => Before(At(buckets[u], f), At(buckets[u], g))

\* The nonces that were used are those of the user's ids, inbound and outbound.
NoncesUsed(u) ==
  /\ Named(u) \cap NamedOutbound(u) = {}
  /\ Named(u) \cup NamedOutbound(u) = 0..(user_nonce[u] - 1)
  /\ \A x, y \in IdsOf(u) : NonceIn(x) = NonceIn(y) => x = y
  /\ \A o, p \in OutboundOf(u) : o.id[5] = p.id[5] => o = p

HistoryInv ==
  /\ IsFiniteSet(ids) /\ IsFiniteSet(outbound) /\ total_intents = Cardinality(ids)
  /\ None \notin ids /\ pruned \subseteq ids /\ \A id \in ids : id[2] \in Submitters
  /\ DOMAIN user_nonce = Submitters /\ DOMAIN intent_count = Submitters
  /\ DOMAIN buckets = Submitters
  /\ \A o \in outbound : o = [id |-> o.id, state |-> o.state, deadline |-> o.deadline]
  /\ \A u \in Submitters : Ordered(u) /\ NoncesUsed(u)

\* Which parts of the next state the order of a history depends on.
LEMMA OrderedNext ==
  ASSUME NEW u
  PROVE  Ordered(u)' <=>
           /\ intent_count'[u] \in Nat /\ user_nonce'[u] \in Nat
           /\ intent_count'[u] <= user_nonce'[u] /\ user_nonce'[u] <= MaxNonce
           /\ Layout(buckets'[u], intent_count'[u])
           /\ {At(buckets'[u], flat) : flat \in 0..(intent_count'[u] - 1)} \ {None} = Unpruned(u)'
           /\ \A f, g \in 0..(intent_count'[u] - 1) :
                f < g => Before(At(buckets'[u], f), At(buckets'[u], g))
  BY DEF Ordered, Places, Layout, At, BucketOf, Before, None, NonceIn

LEMMA HistoryStart == ASSUME SubmissionsInit PROVE HistoryInv
<1>1. /\ user_nonce = [u \in Submitters |-> 0] /\ ids = {} /\ pruned = {} /\ outbound = {}
      /\ buckets = [u \in Submitters |-> [b \in 0..MaxNonce |-> << >>]]
      /\ intent_count = [u \in Submitters |-> 0] /\ total_intents = 0
  BY DEF SubmissionsInit
<1>2. IsFiniteSet({}) /\ Cardinality({}) = 0
  BY FS_EmptySet
<1>3. MaxNonce \in Nat
  BY SubmissionAssumption DEF SubmissionAssumption
<1>4. ASSUME NEW u \in Submitters PROVE Ordered(u) /\ NoncesUsed(u)
  <2>1. intent_count[u] = 0 /\ user_nonce[u] = 0 /\ buckets[u] = [b \in 0..MaxNonce |-> << >>]
    BY <1>1
  <2>2. Places(u) = {} /\ IdsOf(u) = {} /\ OutboundOf(u) = {}
    BY <1>1, <2>1 DEF Places, IdsOf, OutboundOf
  <2>3. Layout(buckets[u], 0)
    <3>1. BucketOf(0) \in Nat /\ BucketOf(0) <= 0 /\ 0 = BucketSize * BucketOf(0) + (0 % BucketSize)
      BY Buckets
    <3>2. BucketOf(0) = 0 /\ 0 % BucketSize = 0
      <4>1. BucketOf(0) = 0
        BY <3>1
      <4>2. BucketSize \in Nat /\ BucketSize > 0
        BY SubmissionAssumption DEF SubmissionAssumption
      <4> QED BY <4>1, <4>2
    <3>3. Sequence(<< >>) /\ Len(<< >>) = 0
      BY DEF Sequence
    <3>4. \A flat \in 0..(0 - 1) : FALSE
      OBVIOUS
    <3> QED BY <1>3, <2>1, <3>2, <3>3, <3>4 DEF Layout
  <2>4. Ordered(u)
    BY <1>3, <2>1, <2>2, <2>3 DEF Ordered, Unpruned
  <2>5. Named(u) = {} /\ NamedOutbound(u) = {} /\ 0..(0 - 1) = {}
    BY <2>2 DEF Named, NamedOutbound
  <2> QED BY <2>1, <2>2, <2>4, <2>5 DEF NoncesUsed
<1> QED
  BY <1>1, <1>2, <1>4 DEF HistoryInv

LEMMA NumbersCount ==
  ASSUME NEW a \in Int, NEW b \in Int, a <= b + 1
  PROVE  IsFiniteSet(a..b) /\ Cardinality(a..b) = b - a + 1
<1>1. IsFiniteSet(a..b) /\ Cardinality(a..b) = IF a > b THEN 0 ELSE b - a + 1
  BY FS_Interval
<1> QED BY <1>1

\* The ids of new intents: their owner, their nonces, and how many they are.
LEMMA NewIdsAre ==
  ASSUME NEW u, user_nonce[u] \in Nat, NEW batch, Len(batch) \in Nat,
         NEW new, new = NewIds(u, batch)
  PROVE  /\ DOMAIN new = 1..Len(batch) /\ Len(new) = Len(batch)
         /\ Range(new) = {new[k] : k \in 1..Len(batch)}
         /\ \A k \in 1..Len(batch) :
              new[k][2] = u /\ NonceIn(new[k]) = user_nonce[u] + k - 1 /\ new[k] # None
         /\ IsFiniteSet(Range(new)) /\ Cardinality(Range(new)) = Len(batch)
<1> DEFINE m == Len(batch)
           S == {new[k] : k \in 1..m}
<1>1. new = [k \in 1..m |-> ComputeIntentId(u, batch[k], user_nonce[u] + k - 1)]
  BY DEF NewIds
<1>2. \A k \in 1..m : new[k][2] = u /\ NonceIn(new[k]) = user_nonce[u] + k - 1
  BY <1>1 DEF ComputeIntentId, NonceIn
<1>3. DOMAIN new = 1..m /\ m \in Nat /\ new = [k \in 1..m |-> new[k]]
  BY <1>1
<1>4. Range(new) = S
  BY <1>3 DEF Range
<1> HIDE DEF m
<1>5. new \in Seq(S) /\ Len(new) = m
  <2>1. new \in [1..m -> S]
    BY <1>3
  <2> QED BY <1>3, <2>1
<1>6. new \in Bijection(1..m, S)
  <2>1. new \in [1..m -> S] /\ \A s \in S : \E k \in 1..m : new[k] = s
    BY <1>3
  <2>2. \A j, k \in 1..m : new[j] = new[k] => j = k
    BY <1>2, <1>3
  <2> QED BY <2>1, <2>2 DEF Bijection, Injection, Surjection, IsInjective
<1>7. ExistsBijection(1..m, S)
  BY <1>6 DEF ExistsBijection
<1>8. IsFiniteSet(1..m) /\ Cardinality(1..m) = m
  <2>1. 1 \in Int /\ m \in Int /\ 1 <= m + 1 /\ m - 1 + 1 = m
    BY <1>3
  <2> QED BY <2>1, NumbersCount
<1>9. IsFiniteSet(S) /\ Cardinality(S) = m
  BY <1>7, <1>8, FS_Bijection
<1>10. ASSUME NEW k \in 1..m PROVE new[k] # None
  <2>1. new[k] = ComputeIntentId(u, batch[k], user_nonce[u] + k - 1)
    BY <1>1
  <2>2. Len(new[k]) = 6 /\ Len(None) = 0
    BY <2>1 DEF ComputeIntentId, None
  <2>3. new[k] = None => Len(new[k]) = Len(None)
    BY Zenon
  <2> QED BY <2>2, <2>3
<1> QED
  BY <1>2, <1>3, <1>4, <1>5, <1>9, <1>10 DEF m

\* A nonce of the user, used or not, is a number, and those of ids have been used.
LEMMA NoncesAreBelow ==
  ASSUME HistoryInv, NEW u \in Submitters
  PROVE  /\ user_nonce[u] \in Nat
         /\ \A id \in IdsOf(u) : NonceIn(id) \in 0..(user_nonce[u] - 1)
         /\ \A o \in OutboundOf(u) : o.id[5] \in 0..(user_nonce[u] - 1)
  BY DEF HistoryInv, Ordered, NoncesUsed, Named, NamedOutbound

\* New intents continue the history of their user.
LEMMA RecordedOrdered ==
  ASSUME HistoryInv, NEW u \in Submitters, NEW batch, NEW m \in Nat, m = Len(batch),
         NEW new, new = NewIds(u, batch), Recorded(u, new),
         user_nonce[u] + m <= MaxNonce,
         user_nonce' = [user_nonce EXCEPT ![u] = @ + m]
  PROVE  Ordered(u)'
<1> DEFINE n == intent_count[u]
           un == user_nonce[u]
           pages == buckets[u]
           h == HistoryAfter([count |-> n, pages |-> pages], new)[Len(new)]
<1>1. /\ n \in Nat /\ un \in Nat /\ n <= un /\ un + m <= MaxNonce
      /\ Layout(pages, n)
      /\ {At(pages, flat) : flat \in 0..(n - 1)} \ {None} = Unpruned(u)
      /\ \A f, g \in 0..(n - 1) : f < g => Before(At(pages, f), At(pages, g))
      /\ DOMAIN user_nonce = Submitters /\ DOMAIN intent_count = Submitters
      /\ DOMAIN buckets = Submitters /\ pruned \subseteq ids
  BY DEF HistoryInv, Ordered, Places
<1>2. /\ Len(new) = m /\ Range(new) = {new[k] : k \in 1..m}
      /\ \A k \in 1..m : new[k][2] = u /\ NonceIn(new[k]) = un + k - 1 /\ new[k] # None
  <2>1. user_nonce[u] \in Nat /\ Len(batch) \in Nat
    BY <1>1
  <2>2. /\ Len(new) = Len(batch) /\ Range(new) = {new[k] : k \in 1..Len(batch)}
        /\ \A k \in 1..Len(batch) :
             new[k][2] = u /\ NonceIn(new[k]) = user_nonce[u] + k - 1 /\ new[k] # None
    BY <2>1, NewIdsAre
  <2> QED BY <2>2
<1>3. /\ ids' = ids \cup Range(new) /\ Range(new) \cap ids = {} /\ pruned' = pruned
      /\ buckets' = [buckets EXCEPT ![u] = h.pages]
      /\ intent_count' = [intent_count EXCEPT ![u] = h.count]
  BY DEF Recorded
<1>4. MaxNonce \in Nat
  BY SubmissionAssumption DEF SubmissionAssumption
<1>5. Extends(h, pages, n, new, m)
  <2>1. n + Len(new) <= MaxNonce /\ Len(new) \in Nat
    BY <1>1, <1>2, <1>4
  <2> QED BY <1>1, <1>2, <2>1, MoreIds
<1> HIDE DEF h
<1>6. /\ h.count = n + m /\ Layout(h.pages, n + m)
      /\ \A flat \in 0..(n - 1) : At(h.pages, flat) = At(pages, flat)
      /\ \A k \in 1..m : At(h.pages, n + k - 1) = new[k]
  BY <1>5 DEF Extends
<1>7. intent_count'[u] = n + m /\ buckets'[u] = h.pages /\ user_nonce'[u] = un + m
  BY <1>1, <1>3, <1>6
<1> HIDE DEF n, un, pages
<1> DEFINE at(flat) == At(h.pages, flat)
<1>8. \A flat \in 0..(n + m - 1) : flat \in 0..(n - 1) \/ \E k \in 1..m : flat = n + k - 1
  <2> SUFFICES ASSUME NEW flat \in 0..(n + m - 1), flat \notin 0..(n - 1)
               PROVE  \E k \in 1..m : flat = n + k - 1
    OBVIOUS
  <2> flat - n + 1 \in 1..m /\ flat = n + (flat - n + 1) - 1
    BY <1>1
  <2> QED OBVIOUS
<1>9. \A flat \in 0..(n - 1) : flat \in 0..(n + m - 1) /\ at(flat) \in Unpruned(u) \cup {None}
  BY <1>1, <1>6
<1>10. \A k \in 1..m : n + k - 1 \in 0..(n + m - 1) /\ at(n + k - 1) = new[k]
  BY <1>1, <1>6
<1>11. \A id \in Unpruned(u) : NonceIn(id) \in 0..(un - 1)
  BY NoncesAreBelow DEF un, Unpruned
<1>12. Unpruned(u)' = Unpruned(u) \cup {new[k] : k \in 1..m}
  <2>1. IdsOf(u)' = IdsOf(u) \cup {new[k] : k \in 1..m}
    BY <1>2, <1>3 DEF IdsOf
  <2>2. \A k \in 1..m : new[k] \notin pruned
    BY <1>1, <1>2, <1>3
  <2> QED BY <1>3, <2>1, <2>2 DEF Unpruned
<1>13. {at(flat) : flat \in 0..(n + m - 1)} \ {None} = Unpruned(u) \cup {new[k] : k \in 1..m}
  <2>1. ASSUME NEW flat \in 0..(n + m - 1)
        PROVE  at(flat) \in Unpruned(u) \cup {new[k] : k \in 1..m} \cup {None}
    <3> HIDE DEF at
    <3>1. CASE flat \in 0..(n - 1)
      BY <1>9, <3>1
    <3>2. ASSUME NEW k \in 1..m, flat = n + k - 1 PROVE at(flat) = new[k]
      BY <1>10, <3>2
    <3> QED BY <1>8, <3>1, <3>2
  <2>2. ASSUME NEW id \in Unpruned(u)
        PROVE  id # None /\ \E flat \in 0..(n + m - 1) : id = at(flat)
    <3>1. PICK flat \in 0..(n - 1) : id = At(pages, flat) /\ id # None
      BY <1>1
    <3>2. flat \in 0..(n + m - 1) /\ id = at(flat)
      BY <1>6, <1>9, <3>1
    <3> QED BY <3>1, <3>2
  <2>3. ASSUME NEW k \in 1..m
        PROVE  new[k] # None /\ \E flat \in 0..(n + m - 1) : new[k] = at(flat)
    <3> HIDE DEF at
    <3> QED BY <1>2, <1>10
  <2> HIDE DEF at
  <2> QED BY <2>1, <2>2, <2>3
<1>14. n \in Nat /\ un \in Nat /\ n <= un /\ un + m <= MaxNonce
  BY <1>1
<1>15. ASSUME NEW f \in 0..(n + m - 1), NEW g \in 0..(n + m - 1), f < g
       PROVE  Before(at(f), at(g))
  <2>1. CASE f \in 0..(n - 1) /\ g \in 0..(n - 1)
    <3>1. Before(At(pages, f), At(pages, g))
      BY <1>1, <1>15, <2>1
    <3>2. \A flat \in 0..(n - 1) : at(flat) = At(pages, flat)
      BY <1>6, Zenon
    <3> HIDE DEF at
    <3> QED BY <2>1, <3>1, <3>2, Zenon
  <2> HIDE DEF at
  <2>2. ASSUME NEW k \in 1..m, g = n + k - 1, f \in 0..(n - 1)
        PROVE  Before(at(f), at(g))
    <3>1. at(f) # None => NonceIn(at(f)) \in 0..(un - 1)
      BY <1>9, <1>11, <2>2
    <3>2. NonceIn(at(g)) = un + k - 1
      BY <1>2, <1>10, <2>2
    <3> QED BY <1>14, <3>1, <3>2 DEF Before
  <2>3. ASSUME NEW j \in 1..m, NEW k \in 1..m, f = n + j - 1, g = n + k - 1
        PROVE  Before(at(f), at(g))
    <3>1. NonceIn(at(f)) = un + j - 1 /\ NonceIn(at(g)) = un + k - 1
      BY <1>2, <1>10, <2>3
    <3>2. j < k
      BY <1>15, <1>14, <2>3
    <3> QED BY <1>14, <3>1, <3>2 DEF Before
  <2>4. ASSUME NEW j \in 1..m, f = n + j - 1, g \in 0..(n - 1) PROVE FALSE
    BY <1>15, <1>14, <2>4
  <2> QED BY <1>8, <2>1, <2>2, <2>3, <2>4
<1> DEFINE InOrder(c, nonce, b, S) ==
             /\ c \in Nat /\ nonce \in Nat /\ c <= nonce /\ nonce <= MaxNonce
             /\ Layout(b, c) /\ {At(b, flat) : flat \in 0..(c - 1)} \ {None} = S
             /\ \A f, g \in 0..(c - 1) : f < g => Before(At(b, f), At(b, g))
<1>16. InOrder(intent_count'[u], user_nonce'[u], buckets'[u], Unpruned(u)') => Ordered(u)'
  BY OrderedNext
<1>17. InOrder(n + m, un + m, h.pages, Unpruned(u) \cup {new[k] : k \in 1..m})
  <2>1. PICK c \in Nat, nonce \in Nat :
          c = n + m /\ nonce = un + m /\ c <= nonce /\ nonce <= MaxNonce
    BY <1>14
  <2>2. PICK S : S = Unpruned(u) \cup {new[k] : k \in 1..m}
    OBVIOUS
  <2>3. {at(flat) : flat \in 0..(c - 1)} \ {None} = S
    <3> HIDE DEF at
    <3>1. PICK D : D = 0..(n + m - 1)
      OBVIOUS
    <3>2. D = 0..(c - 1)
      BY <1>14, <2>1, <3>1
    <3>3. {at(flat) : flat \in D} \ {None} = S
      BY <1>13, <2>2, <3>1, Zenon
    <3> QED BY <3>2, <3>3, Zenon
  <2>4. \A f, g \in 0..(c - 1) : f < g => Before(at(f), at(g))
    <3> HIDE DEF at
    <3> QED BY <1>15, <1>14, <2>1
  <2>5. Layout(h.pages, c)
    BY <1>6, <1>14, <2>1
  <2>6. InOrder(c, nonce, h.pages, S)
    BY <2>1, <2>3, <2>4, <2>5
  <2> HIDE DEF InOrder
  <2> QED BY <2>1, <2>2, <2>6
<1> HIDE DEF InOrder
<1> QED BY <1>7, <1>12, <1>16, <1>17

\* What is the same for a user stays as it was.
LEMMA UserKept ==
  ASSUME NEW u \in Submitters, Ordered(u), NoncesUsed(u),
         IdsOf(u)' = IdsOf(u), Unpruned(u)' = Unpruned(u), OutboundOf(u)' = OutboundOf(u),
         user_nonce'[u] = user_nonce[u], intent_count'[u] = intent_count[u],
         buckets'[u] = buckets[u]
  PROVE  Ordered(u)' /\ NoncesUsed(u)'
<1>1. Ordered(u)'
  BY OrderedNext DEF Ordered, Places
<1>2. Named(u)' = Named(u) /\ NamedOutbound(u)' = NamedOutbound(u)
  BY DEF Named, NamedOutbound, NonceIn
<1>3. \A x, y \in IdsOf(u)' : NonceIn(x)' = NonceIn(y)' => x = y
  BY DEF NoncesUsed, NonceIn
<1> QED
  BY <1>1, <1>2, <1>3 DEF NoncesUsed, NonceIn

\* New intents keep the invariant.
LEMMA RecordedKeeps ==
  ASSUME HistoryInv, NEW u \in Submitters, NEW batch, NEW m \in Nat, m = Len(batch),
         NEW new, new = NewIds(u, batch), Recorded(u, new),
         user_nonce[u] + m <= MaxNonce,
         user_nonce' = [user_nonce EXCEPT ![u] = @ + m], UNCHANGED outbound
  PROVE  HistoryInv'
<1> DEFINE un == user_nonce[u]
<1>1. /\ IsFiniteSet(ids) /\ IsFiniteSet(outbound) /\ total_intents = Cardinality(ids)
      /\ DOMAIN user_nonce = Submitters /\ DOMAIN intent_count = Submitters
      /\ DOMAIN buckets = Submitters
      /\ None \notin ids /\ pruned \subseteq ids /\ (\A id \in ids : id[2] \in Submitters)
      /\ \A v \in Submitters : Ordered(v) /\ NoncesUsed(v)
      /\ \A o \in outbound : o = [id |-> o.id, state |-> o.state, deadline |-> o.deadline]
  BY DEF HistoryInv
<1>2. un \in Nat
  BY NoncesAreBelow
<1>3. /\ Len(new) = m /\ Range(new) = {new[k] : k \in 1..m}
      /\ \A k \in 1..m : new[k][2] = u /\ NonceIn(new[k]) = un + k - 1 /\ new[k] # None
      /\ IsFiniteSet(Range(new)) /\ Cardinality(Range(new)) = m
  BY <1>2, NewIdsAre
<1>4. /\ Range(new) \cap ids = {} /\ ids' = ids \cup Range(new)
      /\ \E pages : buckets' = [buckets EXCEPT ![u] = pages]
      /\ \E count : intent_count' = [intent_count EXCEPT ![u] = count]
      /\ total_intents' = total_intents + m /\ pruned' = pruned
  BY <1>3 DEF Recorded
<1>5. IsFiniteSet(ids') /\ Cardinality(ids') = Cardinality(ids) + m
  <2>1. /\ IsFiniteSet(ids \cup Range(new))
        /\ Cardinality(ids \cup Range(new))
             = Cardinality(ids) + Cardinality(Range(new)) - Cardinality(ids \cap Range(new))
    BY <1>1, <1>3, FS_Union
  <2>2. Cardinality(ids \cap Range(new)) = 0
    BY <1>4, FS_EmptySet
  <2>3. Cardinality(ids) \in Nat
    BY <1>1, FS_CardinalityType
  <2> QED BY <1>3, <1>4, <2>1, <2>2, <2>3
<1>6. ASSUME NEW v \in Submitters, v # u
      PROVE  Ordered(v)' /\ NoncesUsed(v)'
  <2>1. IdsOf(v)' = IdsOf(v)
    BY <1>3, <1>4, <1>6 DEF IdsOf
  <2>2. OutboundOf(v)' = OutboundOf(v)
    BY DEF OutboundOf
  <2>3. user_nonce'[v] = user_nonce[v] /\ intent_count'[v] = intent_count[v]
        /\ buckets'[v] = buckets[v]
    BY <1>1, <1>4, <1>6
  <2>4. Unpruned(v)' = Unpruned(v)
    BY <1>4, <2>1 DEF Unpruned
  <2> QED BY <1>1, <2>1, <2>2, <2>3, <2>4, UserKept
<1>7. Ordered(u)'
  BY RecordedOrdered
<1>8. NoncesUsed(u)'
  <2>1. /\ Named(u) \cap NamedOutbound(u) = {}
        /\ Named(u) \cup NamedOutbound(u) = 0..(un - 1)
        /\ \A x, y \in IdsOf(u) : NonceIn(x) = NonceIn(y) => x = y
        /\ \A o, p \in OutboundOf(u) : o.id[5] = p.id[5] => o = p
    BY <1>1 DEF NoncesUsed
  <2>2. user_nonce'[u] = un + m
    BY <1>1
  <2>3. OutboundOf(u)' = OutboundOf(u)
    BY DEF OutboundOf
  <2>4. NamedOutbound(u)' = NamedOutbound(u)
    BY <2>3 DEF NamedOutbound
  <2>5. IdsOf(u)' = IdsOf(u) \cup {new[k] : k \in 1..m}
    BY <1>3, <1>4 DEF IdsOf
  <2>6. Named(u)' = Named(u) \cup {un + k - 1 : k \in 1..m}
    <3>1. Named(u)' = {NonceIn(id) : id \in IdsOf(u)'}
      BY DEF Named, NonceIn
    <3> HIDE DEF un
    <3>2. {NonceIn(id) : id \in {new[k] : k \in 1..m}} = {un + k - 1 : k \in 1..m}
      BY <1>3
    <3>3. {NonceIn(id) : id \in IdsOf(u) \cup {new[k] : k \in 1..m}}
            = Named(u) \cup {NonceIn(id) : id \in {new[k] : k \in 1..m}}
      BY DEF Named
    <3> QED BY <2>5, <3>1, <3>2, <3>3
  <2> HIDE DEF un
  <2>7. {un + k - 1 : k \in 1..m} = un..(un + m - 1)
    <3>1. \A k \in 1..m : un + k - 1 \in un..(un + m - 1)
      BY <1>2
    <3>2. \A x \in un..(un + m - 1) : x - un + 1 \in 1..m /\ x = un + (x - un + 1) - 1
      BY <1>2
    <3> QED BY <3>1, <3>2
  <2>8. (0..(un - 1)) \cup (un..(un + m - 1)) = 0..(un + m - 1)
        /\ (0..(un - 1)) \cap (un..(un + m - 1)) = {}
    BY <1>2
  <2>9. Named(u)' \cup NamedOutbound(u)' = 0..(un + m - 1)
    BY <2>1, <2>4, <2>6, <2>7, <2>8
  <2>10. Named(u)' \cap NamedOutbound(u)' = {}
    BY <2>1, <2>4, <2>6, <2>7, <2>8
  <2>11. NoncesUsed(u)' <=>
           /\ Named(u)' \cap NamedOutbound(u)' = {}
           /\ Named(u)' \cup NamedOutbound(u)' = 0..(user_nonce'[u] - 1)
           /\ \A x, y \in IdsOf(u)' : NonceIn(x) = NonceIn(y) => x = y
           /\ \A o, p \in OutboundOf(u)' : o.id[5] = p.id[5] => o = p
    BY DEF NoncesUsed, NonceIn
  <2>12. \A o, p \in OutboundOf(u)' : o.id[5] = p.id[5] => o = p
    BY <2>1, <2>3
  <2>13. Named(u)' \cup NamedOutbound(u)' = 0..(user_nonce'[u] - 1)
    BY <1>2, <2>2, <2>9
  <2>14. \A x, y \in IdsOf(u)' : NonceIn(x) = NonceIn(y) => x = y
    <3> SUFFICES ASSUME NEW x \in IdsOf(u)', NEW y \in IdsOf(u)', NonceIn(x) = NonceIn(y)
                 PROVE  x = y
      OBVIOUS
    <3>1. \A id \in IdsOf(u) : NonceIn(id) \in 0..(un - 1)
      BY NoncesAreBelow DEF un
    <3>2. \A id \in IdsOf(u)' : id \in IdsOf(u) \/ \E k \in 1..m : id = new[k]
      BY <2>5
    <3>3. CASE x \in IdsOf(u) /\ y \in IdsOf(u)
      BY <2>1, <3>3
    <3>4. ASSUME NEW k \in 1..m, x = new[k], y \in IdsOf(u) PROVE FALSE
      BY <1>2, <1>3, <3>1, <3>4
    <3>5. ASSUME NEW k \in 1..m, y = new[k], x \in IdsOf(u) PROVE FALSE
      BY <1>2, <1>3, <3>1, <3>5
    <3>6. ASSUME NEW j \in 1..m, NEW k \in 1..m, x = new[j], y = new[k] PROVE x = y
      <4>1. un + j - 1 = un + k - 1
        BY <1>3, <3>6
      <4>2. j = k
        BY <1>2, <4>1
      <4> QED BY <3>6, <4>2
    <3> QED BY <3>2, <3>3, <3>4, <3>5, <3>6
  <2> QED BY <2>10, <2>11, <2>12, <2>13, <2>14, Zenon
<1> QED
  <2>1. DOMAIN user_nonce' = Submitters /\ DOMAIN intent_count' = Submitters
        /\ DOMAIN buckets' = Submitters
    BY <1>1, <1>4
  <2>2. total_intents' = Cardinality(ids')
    BY <1>1, <1>4, <1>5
  <2>3. \A v \in Submitters : Ordered(v)' /\ NoncesUsed(v)'
    BY <1>6, <1>7, <1>8
  <2>4. None \notin ids' /\ pruned' \subseteq ids' /\ \A id \in ids' : id[2] \in Submitters
    BY <1>1, <1>3, <1>4
  <2>5. None' = None
    BY DEF None
  <2> QED BY <1>1, <1>5, <2>1, <2>2, <2>3, <2>4, <2>5 DEF HistoryInv

\* An outbound intent takes the next nonce of its user.
LEMMA OutboundKeeps ==
  ASSUME HistoryInv, NEW u \in Submitters, NEW token, NEW amount, NEW life,
         SubmitOutboundIntent(u, token, amount, life)
  PROVE  HistoryInv'
<1> DEFINE un == user_nonce[u]
           id == ComputeOutboundIntentId(u, token, amount, ledger_time, un)
           new == OutboundIntentRecord(id, ledger_time + Expiry(life))
<1>1. /\ IsFiniteSet(ids) /\ IsFiniteSet(outbound) /\ total_intents = Cardinality(ids)
      /\ DOMAIN user_nonce = Submitters /\ DOMAIN intent_count = Submitters
      /\ DOMAIN buckets = Submitters
      /\ None \notin ids /\ pruned \subseteq ids /\ (\A x \in ids : x[2] \in Submitters)
      /\ \A v \in Submitters : Ordered(v) /\ NoncesUsed(v)
      /\ \A o \in outbound : o = [id |-> o.id, state |-> o.state, deadline |-> o.deadline]
  BY DEF HistoryInv
<1>2. un \in Nat
  BY NoncesAreBelow
<1>3. /\ user_nonce[u] < MaxNonce /\ user_nonce' = [user_nonce EXCEPT ![u] = @ + 1]
      /\ outbound' = outbound \cup {new}
      /\ UNCHANGED <<ids, pruned, buckets, intent_count, total_intents>>
  BY DEF SubmitOutboundIntent, NonceUsed
<1>4. id[1] = u /\ id[5] = un
  BY DEF ComputeOutboundIntentId
<1>5. new.id = id /\ new = [id |-> new.id, state |-> new.state, deadline |-> new.deadline]
  BY DEF OutboundIntentRecord
<1> HIDE DEF id, new
<1>6. IsFiniteSet(outbound')
  BY <1>1, <1>3, FS_AddElement
<1>7. ASSUME NEW v \in Submitters
      PROVE  /\ IdsOf(v)' = IdsOf(v) /\ Unpruned(v)' = Unpruned(v)
             /\ intent_count'[v] = intent_count[v] /\ buckets'[v] = buckets[v]
  BY <1>3 DEF IdsOf, Unpruned
<1>8. ASSUME NEW v \in Submitters, v # u
      PROVE  Ordered(v)' /\ NoncesUsed(v)'
  <2>1. OutboundOf(v)' = OutboundOf(v)
    BY <1>3, <1>4, <1>5, <1>8 DEF OutboundOf
  <2>2. user_nonce'[v] = user_nonce[v]
    BY <1>1, <1>3, <1>8
  <2> QED BY <1>1, <1>7, <2>1, <2>2, UserKept
<1>9. user_nonce'[u] = un + 1
  BY <1>1, <1>3
<1>10. Ordered(u)'
  <2>1. Ordered(u) /\ MaxNonce \in Nat
    BY <1>1, SubmissionAssumption DEF SubmissionAssumption
  <2>2. intent_count[u] <= un + 1 /\ un + 1 <= MaxNonce /\ un + 1 \in Nat
    BY <1>2, <1>3, <2>1 DEF Ordered
  <2>3. \A flat : At(buckets'[u], flat) = At(buckets[u], flat)
    BY <1>7
  <2>4. Layout(buckets'[u], intent_count'[u])
    BY <1>7, <2>1 DEF Ordered
  <2>5. Places(u)' = Places(u)
    BY <1>7 DEF Places
  <2>6. {At(buckets'[u], flat) : flat \in Places(u)'} \ {None} = Unpruned(u)'
    BY <1>7, <2>1, <2>5 DEF Ordered
  <2>7. \A f, g \in Places(u)' : f < g => Before(At(buckets'[u], f), At(buckets'[u], g))
    BY <1>7, <2>1, <2>5 DEF Ordered
  <2> QED BY <1>7, <1>9, <2>1, <2>2, <2>4, <2>6, <2>7 DEF Ordered, None, Before, NonceIn
<1>11. NoncesUsed(u)'
  <2>1. /\ Named(u) \cap NamedOutbound(u) = {}
        /\ Named(u) \cup NamedOutbound(u) = 0..(un - 1)
        /\ \A x, y \in IdsOf(u) : NonceIn(x) = NonceIn(y) => x = y
        /\ \A o, p \in OutboundOf(u) : o.id[5] = p.id[5] => o = p
    BY <1>1 DEF NoncesUsed
  <2>2. Named(u)' = Named(u)
    BY <1>7 DEF Named, NonceIn
  <2>3. OutboundOf(u)' = OutboundOf(u) \cup {new}
    BY <1>3, <1>4, <1>5 DEF OutboundOf
  <2>4. NamedOutbound(u)' = NamedOutbound(u) \cup {un}
    BY <1>4, <1>5, <2>3 DEF NamedOutbound
  <2>5. \A o \in OutboundOf(u) : o.id[5] \in 0..(un - 1)
    BY NoncesAreBelow
  <2> HIDE DEF un
  <2>6. \A o, p \in OutboundOf(u)' : o.id[5] = p.id[5] => o = p
    <3>1. new.id[5] = un /\ \A o \in OutboundOf(u) : o.id[5] # un
      BY <1>2, <1>4, <1>5, <2>5
    <3> QED BY <2>1, <2>3, <3>1
  <2>7. 0..(un - 1) \cup {un} = 0..(un + 1 - 1) /\ un \notin 0..(un - 1)
    BY <1>2
  <2>8. Named(u)' \cap NamedOutbound(u)' = {}
    BY <2>1, <2>2, <2>4, <2>7
  <2>9. Named(u)' \cup NamedOutbound(u)' = 0..(un + 1 - 1)
    BY <2>1, <2>2, <2>4, <2>7
  <2>10. NoncesUsed(u)' <=>
           /\ Named(u)' \cap NamedOutbound(u)' = {}
           /\ Named(u)' \cup NamedOutbound(u)' = 0..(user_nonce'[u] - 1)
           /\ \A x, y \in IdsOf(u)' : NonceIn(x) = NonceIn(y) => x = y
           /\ \A o, p \in OutboundOf(u)' : o.id[5] = p.id[5] => o = p
    BY DEF NoncesUsed, NonceIn
  <2>11. Named(u)' \cup NamedOutbound(u)' = 0..(user_nonce'[u] - 1)
    BY <1>2, <1>9, <2>9
  <2>12. \A x, y \in IdsOf(u)' : NonceIn(x) = NonceIn(y) => x = y
    BY <1>7, <2>1
  <2> QED BY <2>6, <2>8, <2>10, <2>11, <2>12, Zenon
<1> QED
  <2>1. DOMAIN user_nonce' = Submitters /\ DOMAIN intent_count' = Submitters
        /\ DOMAIN buckets' = Submitters
    BY <1>1, <1>3
  <2>2. \A o \in outbound' : o = [id |-> o.id, state |-> o.state, deadline |-> o.deadline]
    BY <1>1, <1>3, <1>5
  <2>3. \A v \in Submitters : Ordered(v)' /\ NoncesUsed(v)'
    BY <1>8, <1>10, <1>11
  <2> QED BY <1>1, <1>3, <1>6, <2>1, <2>2, <2>3 DEF HistoryInv, None

\* An outbound intent that a solver accepts keeps its id.
LEMMA AcceptedKeeps ==
  ASSUME HistoryInv, NEW o \in outbound, AcceptOutboundIntent(o)
  PROVE  HistoryInv'
<1> DEFINE p == [o EXCEPT !.state = "SolverAccepted"]
<1>1. /\ IsFiniteSet(ids) /\ IsFiniteSet(outbound) /\ total_intents = Cardinality(ids)
      /\ DOMAIN user_nonce = Submitters /\ DOMAIN intent_count = Submitters
      /\ DOMAIN buckets = Submitters
      /\ None \notin ids /\ pruned \subseteq ids /\ (\A id \in ids : id[2] \in Submitters)
      /\ \A v \in Submitters : Ordered(v) /\ NoncesUsed(v)
      /\ \A x \in outbound : x = [id |-> x.id, state |-> x.state, deadline |-> x.deadline]
  BY DEF HistoryInv
<1>2. /\ outbound' = (outbound \ {o}) \cup {p}
      /\ UNCHANGED <<user_nonce, ids, pruned, buckets, intent_count, total_intents>>
  BY DEF AcceptOutboundIntent, historyVars
<1>3. p = [id |-> o.id, state |-> "SolverAccepted", deadline |-> o.deadline]
  BY <1>1
<1> HIDE DEF p
<1>4. p.id = o.id /\ p = [id |-> p.id, state |-> p.state, deadline |-> p.deadline]
  BY <1>3
<1>5. IsFiniteSet(outbound')
  <2>1. IsFiniteSet(outbound \ {o})
    BY <1>1, FS_Subset
  <2> QED BY <1>2, <2>1, FS_AddElement
<1>6. ASSUME NEW v \in Submitters
      PROVE  Ordered(v)' /\ NoncesUsed(v)'
  <2>1. /\ Named(v) \cap NamedOutbound(v) = {}
        /\ Named(v) \cup NamedOutbound(v) = 0..(user_nonce[v] - 1)
        /\ \A x, y \in IdsOf(v) : NonceIn(x) = NonceIn(y) => x = y
        /\ \A x, y \in OutboundOf(v) : x.id[5] = y.id[5] => x = y
    BY <1>1 DEF NoncesUsed
  <2>2. IdsOf(v)' = IdsOf(v) /\ Ordered(v)'
    BY <1>1, <1>2 DEF IdsOf, Unpruned, Ordered, Places, Layout, At, BucketOf, Before, None, NonceIn
  <2>3. Named(v)' = Named(v)
    BY <2>2 DEF Named, NonceIn
  <2>4. ASSUME NEW x \in OutboundOf(v)'
        PROVE  \E y \in OutboundOf(v) : y.id = x.id /\ (x = y \/ (y = o /\ x = p))
    <3>1. x \in outbound' /\ x.id[1] = v
      BY DEF OutboundOf
    <3>2. CASE x = p
      BY <1>4, <3>1, <3>2 DEF OutboundOf
    <3>3. CASE x \in outbound
      BY <3>1, <3>3 DEF OutboundOf
    <3> QED BY <1>2, <3>1, <3>2, <3>3
  <2>5. ASSUME NEW y \in OutboundOf(v)
        PROVE  \E x \in OutboundOf(v)' : x.id = y.id
    <3>1. OutboundOf(v)' = {x \in outbound' : x.id[1] = v}
      BY DEF OutboundOf
    <3>2. y \in outbound /\ y.id[1] = v
      BY DEF OutboundOf
    <3>3. CASE y = o
      BY <1>2, <1>4, <3>1, <3>2, <3>3
    <3>4. CASE y # o
      BY <1>2, <3>1, <3>2, <3>4
    <3> QED BY <3>3, <3>4
  <2>6. NamedOutbound(v)' = NamedOutbound(v)
    <3>1. NamedOutbound(v)' = {x.id[5] : x \in OutboundOf(v)'}
      BY DEF NamedOutbound
    <3>2. NamedOutbound(v) = {y.id[5] : y \in OutboundOf(v)}
      BY DEF NamedOutbound
    <3> QED BY <2>4, <2>5, <3>1, <3>2
  <2>7. \A x, y \in OutboundOf(v)' : x.id[5] = y.id[5] => x = y
    <3> SUFFICES ASSUME NEW x \in OutboundOf(v)', NEW y \in OutboundOf(v)', x.id[5] = y.id[5]
                 PROVE  x = y
      OBVIOUS
    <3>1. PICK a \in OutboundOf(v) : a.id = x.id /\ (x = a \/ (a = o /\ x = p))
      BY <2>4
    <3>2. PICK b \in OutboundOf(v) : b.id = y.id /\ (y = b \/ (b = o /\ y = p))
      BY <2>4
    <3>3. a = b
      BY <2>1, <3>1, <3>2
    <3>4. x \in (outbound \ {o}) \cup {p} /\ y \in (outbound \ {o}) \cup {p}
      BY <1>2 DEF OutboundOf
    <3> QED BY <3>1, <3>2, <3>3, <3>4
  <2>8. NoncesUsed(v)' <=>
           /\ Named(v)' \cap NamedOutbound(v)' = {}
           /\ Named(v)' \cup NamedOutbound(v)' = 0..(user_nonce'[v] - 1)
           /\ \A x, y \in IdsOf(v)' : NonceIn(x) = NonceIn(y) => x = y
           /\ \A x, y \in OutboundOf(v)' : x.id[5] = y.id[5] => x = y
    BY DEF NoncesUsed, NonceIn
  <2>9. /\ Named(v)' \cap NamedOutbound(v)' = {}
        /\ Named(v)' \cup NamedOutbound(v)' = 0..(user_nonce'[v] - 1)
    BY <1>2, <2>1, <2>3, <2>6
  <2>10. \A x, y \in IdsOf(v)' : NonceIn(x) = NonceIn(y) => x = y
    BY <2>1, <2>2
  <2> QED BY <2>2, <2>7, <2>8, <2>9, <2>10, Zenon
<1> QED
  <2>1. \A x \in outbound' : x = [id |-> x.id, state |-> x.state, deadline |-> x.deadline]
    BY <1>1, <1>2, <1>4
  <2> QED BY <1>1, <1>2, <1>5, <1>6, <2>1 DEF HistoryInv, None

\* The buckets that are looked through hold all places, and no more than there are places.
LEMMA BucketsHold ==
  ASSUME NEW n \in Nat
  PROVE  /\ BucketsOf(n) \in Int /\ BucketsOf(n) <= n
         /\ n <= BucketsOf(n) * BucketSize /\ BucketsOf(n) * BucketSize \in Int
<1>1. BucketSize \in Nat /\ BucketSize > 0
  BY SubmissionAssumption DEF SubmissionAssumption
<1> DEFINE a == n + BucketSize - 1
           q == BucketsOf(n)
           r == a % BucketSize
<1>2. a \in Int /\ q = a \div BucketSize
  BY <1>1 DEF BucketsOf
<1> HIDE DEF a, q
<1>3. q \in Int /\ r \in 0..(BucketSize - 1) /\ a = BucketSize * q + r
  BY <1>1, <1>2
<1> HIDE DEF r
<1>4. PICK p \in Int : p = BucketSize * q
  BY <1>1, <1>3
<1>5. n <= p
  BY <1>1, <1>3, <1>4 DEF a
<1>6. q <= n
  <2> SUFFICES ASSUME q >= n + 1 PROVE FALSE
    BY <1>3
  <2>1. BucketSize * q >= BucketSize * (n + 1)
    BY <1>1, <1>3
  <2>2. BucketSize * (n + 1) = BucketSize * n + BucketSize /\ BucketSize * n >= n
    BY <1>1
  <2>3. PICK o \in Int : o = BucketSize * n
    BY <1>1
  <2> QED BY <1>1, <1>3, <1>4, <2>1, <2>2, <2>3 DEF a
<1>7. q * BucketSize = p
  BY <1>1, <1>3, <1>4
<1> QED
  BY <1>3, <1>4, <1>5, <1>6, <1>7 DEF q

\* Only a place that there is holds an id.
LEMMA HeldAtPlaces ==
  ASSUME NEW pages, NEW n \in Nat, n <= MaxNonce, Layout(pages, n), NEW id,
         NEW flat \in 0..(BucketsOf(n) * BucketSize - 1), Holds(pages, flat, id)
  PROVE  flat \in 0..(n - 1) /\ At(pages, flat) = id
<1>1. BucketSize \in Nat /\ BucketSize > 0 /\ MaxNonce \in Nat
  BY SubmissionAssumption DEF SubmissionAssumption
<1>2. PICK q \in Int : q = BucketsOf(n) /\ q <= n /\ flat < q * BucketSize /\ flat \in Nat
  BY BucketsHold
<1>3. PICK b \in Nat, r \in Nat : b = BucketOf(flat) /\ r = flat % BucketSize
                                  /\ r < BucketSize /\ flat = BucketSize * b + r
  BY <1>2, Buckets
<1>4. b < q
  <2> SUFFICES ASSUME q <= b PROVE FALSE
    BY <1>2, <1>3
  <2>1. BucketSize * q <= BucketSize * b
    BY <1>1, <1>2, <1>3
  <2>2. PICK x \in Int, y \in Int : x = BucketSize * q /\ y = BucketSize * b /\ q * BucketSize = x
    BY <1>1, <1>2, <1>3
  <2> QED BY <1>2, <1>3, <2>1, <2>2
<1>5. b \in 0..MaxNonce
  BY <1>1, <1>2, <1>3, <1>4
<1>6. r < Len(pages[b]) /\ At(pages, flat) = id
  BY <1>3 DEF Holds, At
<1>7. flat < n
  <2> SUFFICES ASSUME n <= flat PROVE FALSE
    BY <1>2
  <2>1. /\ Len(pages[BucketOf(n)]) = n % BucketSize /\ n % BucketSize \in Nat
        /\ b > BucketOf(n) => pages[b] = << >>
    BY <1>5, Buckets DEF Layout
  <2>2. \/ n = flat \/ BucketOf(n) < b
        \/ BucketOf(n) = b /\ n % BucketSize < r
    <3>1. CASE n < flat
      BY <1>2, <1>3, <3>1, EarlierPlace
    <3> QED BY <1>2, <3>1
  <2>3. CASE n = flat
    BY <1>3, <1>6, <2>1, <2>3
  <2>4. CASE BucketOf(n) < b
    <3>1. pages[b] = << >> /\ Len(<< >>) = 0
      BY <1>3, <2>1, <2>4, Buckets
    <3>2. Len(pages[b]) = 0
      BY <3>1
    <3> QED BY <1>3, <1>6, <3>2
  <2>5. CASE BucketOf(n) = b /\ n % BucketSize < r
    <3>1. Len(pages[b]) = n % BucketSize
      BY <2>1, <2>5
    <3> QED BY <1>3, <1>6, <2>1, <2>5, <3>1
  <2> QED BY <2>2, <2>3, <2>4, <2>5
<1> QED
  BY <1>2, <1>6, <1>7

\* A place that is emptied leaves the others as they are.
LEMMA OnePlaceEmptied ==
  ASSUME NEW pages, NEW n \in Nat, n <= MaxNonce, Layout(pages, n), NEW p \in 0..(n - 1),
         NEW new, new = [pages EXCEPT ![BucketOf(p)][(p % BucketSize) + 1] = None]
  PROVE  /\ Layout(new, n) /\ At(new, p) = None
         /\ \A flat \in 0..(n - 1) : flat # p => At(new, flat) = At(pages, flat)
<1> DEFINE b == BucketOf(p)
           r == p % BucketSize
           page == pages[b]
           less == [page EXCEPT ![r + 1] = None]
<1>1. MaxNonce \in Nat /\ BucketSize \in Nat
  BY SubmissionAssumption DEF SubmissionAssumption
<1>2. p \in Nat /\ b \in Nat /\ b <= p /\ r \in Nat /\ b \in 0..MaxNonce
  BY <1>1, Buckets
<1>3. DOMAIN pages = 0..MaxNonce /\ Sequence(page) /\ r < Len(page)
  BY <1>2 DEF Layout
<1>4. new = [pages EXCEPT ![b] = less]
  OBVIOUS
<1>5. /\ Sequence(less) /\ Len(less) = Len(page) /\ r + 1 \in 1..Len(page)
      /\ less[r + 1] = None
      /\ \A i \in 1..Len(page) : i # r + 1 => less[i] = page[i]
  <2> HIDE DEF page, b, r
  <2>1. PICK S : page \in Seq(S)
    BY <1>3 DEF Sequence
  <2>2. page \in Seq(S \cup {None}) /\ None \in S \cup {None}
    BY <2>1
  <2>3. r + 1 \in 1..Len(page)
    BY <1>2, <1>3, <2>1
  <2>4. less \in Seq(S \cup {None}) /\ Len(less) = Len(page)
    BY <2>2, <2>3
  <2>5. less[r + 1] = None /\ \A i \in 1..Len(page) : i # r + 1 => less[i] = page[i]
    BY <2>2, <2>3
  <2>6. Sequence(less)
    BY <2>4 DEF Sequence
  <2> QED BY <2>3, <2>4, <2>5, <2>6
<1> HIDE DEF less
<1>6. /\ DOMAIN new = 0..MaxNonce /\ new[b] = less
      /\ \A c \in 0..MaxNonce : c # b => new[c] = pages[c]
  BY <1>2, <1>3, <1>4
<1> HIDE DEF b, r, page
<1>7. \A c \in 0..MaxNonce : Sequence(new[c]) /\ Len(new[c]) = Len(pages[c])
  <2> SUFFICES ASSUME NEW c \in 0..MaxNonce
               PROVE  Sequence(new[c]) /\ Len(new[c]) = Len(pages[c])
    OBVIOUS
  <2>1. CASE c = b
    BY <1>5, <1>6, <2>1 DEF page
  <2>2. CASE c # b
    BY <1>6, <2>2 DEF Layout
  <2> QED BY <2>1, <2>2
<1>8. ASSUME NEW flat \in 0..n
      PROVE  flat \in Nat /\ BucketOf(flat) \in 0..MaxNonce /\ flat % BucketSize \in Nat
  BY <1>1, Buckets
<1>9. Layout(new, n)
  <2>1. Len(new[BucketOf(n)]) = n % BucketSize
    BY <1>7, <1>8 DEF Layout
  <2>2. ASSUME NEW c \in 0..MaxNonce, c > BucketOf(n) PROVE new[c] = << >>
    <3>1. b <= BucketOf(n)
      BY <1>2, <1>8, EarlierPlace DEF b
    <3>2. c # b
      BY <1>2, <1>8, <2>2, <3>1
    <3> QED BY <1>6, <2>2, <3>2 DEF Layout
  <2>3. ASSUME NEW flat \in 0..(n - 1) PROVE flat % BucketSize < Len(new[BucketOf(flat)])
    <3>1. flat \in 0..n
      OBVIOUS
    <3> QED BY <1>7, <1>8, <3>1 DEF Layout
  <2> QED BY <1>6, <1>7, <2>1, <2>2, <2>3 DEF Layout
<1>10. At(new, p) = None
  BY <1>5, <1>6 DEF At, b, r
<1>11. ASSUME NEW flat \in 0..(n - 1), flat # p
       PROVE  At(new, flat) = At(pages, flat)
  <2>1. flat \in 0..n /\ flat \in Nat
    OBVIOUS
  <2>2. CASE BucketOf(flat) # b
    BY <1>6, <1>8, <2>1, <2>2 DEF At
  <2>3. CASE BucketOf(flat) = b
    <3>1. flat % BucketSize # r
      <4>1. flat = BucketSize * BucketOf(flat) + (flat % BucketSize) /\ p = BucketSize * b + r
        BY <1>2, <2>1, Buckets DEF b, r
      <4> QED BY <1>11, <2>3, <4>1
    <3>2. (flat % BucketSize) + 1 \in 1..Len(page) /\ (flat % BucketSize) + 1 # r + 1
      <4>1. flat % BucketSize \in Nat /\ flat % BucketSize < Len(page)
        BY <1>8, <2>1, <2>3 DEF Layout, page
      <4>2. Len(page) \in Nat
        BY <1>3 DEF Sequence
      <4> QED BY <1>2, <3>1, <4>1, <4>2
    <3> QED BY <1>5, <1>6, <2>3, <3>2 DEF At, page
  <2> QED BY <2>2, <2>3
<1> QED
  BY <1>9, <1>10, <1>11

\* The slot that is found is the place of the id, and no other.
LEMMA SlotFound ==
  ASSUME HistoryInv, NEW u \in Submitters, NEW id \in Unpruned(u),
         NEW new, new = UserIntentsClear([count |-> intent_count[u], pages |-> buckets[u]], id)
  PROVE  \E p \in Places(u) :
           /\ At(buckets[u], p) = id
           /\ \A flat \in Places(u) : At(buckets[u], flat) = id => flat = p
           /\ new = [buckets[u] EXCEPT ![BucketOf(p)][(p % BucketSize) + 1] = None]
<1> DEFINE n == intent_count[u]
           pages == buckets[u]
           history == [count |-> n, pages |-> pages]
           found == Found(history, id)
           first == CHOOSE flat \in found : \A other \in found : flat <= other
<1>1. /\ n \in Nat /\ n <= MaxNonce /\ Layout(pages, n)
      /\ {At(pages, flat) : flat \in 0..(n - 1)} \ {None} = Unpruned(u)
      /\ \A f, g \in 0..(n - 1) : f < g => Before(At(pages, f), At(pages, g))
  <2>1. Ordered(u) /\ MaxNonce \in Nat
    BY SubmissionAssumption DEF HistoryInv, SubmissionAssumption
  <2> QED BY <2>1 DEF Ordered, Places
<1>2. PICK p \in 0..(n - 1) : At(pages, p) = id /\ id # None
  BY <1>1
<1>3. ASSUME NEW flat \in 0..(n - 1), At(pages, flat) = id
      PROVE  flat = p
  <2>1. NonceIn(id) \in Int
    BY NoncesAreBelow DEF Unpruned
  <2>2. ~ (flat < p) /\ ~ (p < flat)
    BY <1>1, <1>2, <1>3, <2>1 DEF Before
  <2> QED BY <1>1, <2>2
<1>4. history.count = n /\ history.pages = pages
  OBVIOUS
<1>5. found = {flat \in 0..(BucketsOf(n) * BucketSize - 1) : Holds(pages, flat, id)}
  BY <1>4 DEF Found
<1>6. new = IF found = {} THEN pages
            ELSE [pages EXCEPT ![BucketOf(first)][(first % BucketSize) + 1] = None]
  <2>1. new = IF found = {} THEN history.pages
              ELSE [history.pages EXCEPT ![BucketOf(first)][(first % BucketSize) + 1] = None]
    BY Zenon DEF UserIntentsClear
  <2> HIDE DEF history, found, first
  <2> QED BY <1>4, <2>1
<1> HIDE DEF history, found, n, pages
<1>7. p \in found
  <2>1. n <= BucketsOf(n) * BucketSize /\ BucketsOf(n) * BucketSize \in Int
    BY <1>1, BucketsHold
  <2>2. p \in 0..(BucketsOf(n) * BucketSize - 1)
    BY <1>1, <2>1
  <2>3. Holds(pages, p, id)
    BY <1>1, <1>2 DEF Holds, At, Layout
  <2> QED BY <1>5, <2>2, <2>3
<1>8. found = {p}
  BY <1>1, <1>3, <1>5, <1>7, HeldAtPlaces
<1>9. first = p
  BY <1>1, <1>8
<1> QED
  BY <1>2, <1>3, <1>6, <1>8, <1>9 DEF n, pages, Places

\* An intent that is pruned leaves the places of the others, and the nonces.
LEMMA ClosedKeeps ==
  ASSUME HistoryInv, NEW id \in ids \ pruned, CloseIntent(id)
  PROVE  HistoryInv'
<1> DEFINE u == id[2]
           new == UserIntentsClear([count |-> intent_count[u], pages |-> buckets[u]], id)
<1>1. /\ u \in Submitters /\ DOMAIN buckets = Submitters /\ None \notin ids /\ pruned \subseteq ids
      /\ \A v \in Submitters : Ordered(v) /\ NoncesUsed(v)
  BY DEF HistoryInv
<1>2. /\ buckets' = [buckets EXCEPT ![u] = new] /\ pruned' = pruned \cup {id}
      /\ UNCHANGED <<user_nonce, ids, intent_count, total_intents, outbound>>
  BY Zenon DEF CloseIntent, outboundVars
<1> HIDE DEF u, new
<1>3. ASSUME NEW v \in Submitters
      PROVE  /\ IdsOf(v)' = IdsOf(v) /\ OutboundOf(v)' = OutboundOf(v)
             /\ user_nonce'[v] = user_nonce[v] /\ intent_count'[v] = intent_count[v]
  BY <1>2 DEF IdsOf, OutboundOf
<1>4. ASSUME NEW v \in Submitters, v # u
      PROVE  Ordered(v)' /\ NoncesUsed(v)'
  <2>1. buckets'[v] = buckets[v]
    BY <1>1, <1>2, <1>4
  <2>2. id \notin IdsOf(v)
    BY <1>4 DEF IdsOf, u
  <2>3. Unpruned(v)' = Unpruned(v)
    BY <1>2, <1>3, <2>2 DEF Unpruned
  <2> QED BY <1>1, <1>3, <2>1, <2>3, UserKept
<1>5. id \in Unpruned(u) /\ Unpruned(u)' = Unpruned(u) \ {id}
  <2>1. id \in IdsOf(u)
    BY DEF IdsOf, u
  <2> QED BY <1>1, <1>2, <1>3, <2>1 DEF Unpruned
<1>6. PICK p \in Places(u) :
        /\ At(buckets[u], p) = id
        /\ \A flat \in Places(u) : At(buckets[u], flat) = id => flat = p
        /\ new = [buckets[u] EXCEPT ![BucketOf(p)][(p % BucketSize) + 1] = None]
  BY <1>1, <1>5, SlotFound DEF new
<1> DEFINE n == intent_count[u]
           D == 0..(n - 1)
<1>7. /\ n \in Nat /\ user_nonce[u] \in Nat /\ n <= user_nonce[u] /\ user_nonce[u] <= MaxNonce
      /\ n <= MaxNonce /\ Layout(buckets[u], n)
      /\ {At(buckets[u], flat) : flat \in D} \ {None} = Unpruned(u)
      /\ \A f, g \in D : f < g => Before(At(buckets[u], f), At(buckets[u], g))
  <2>1. Ordered(u) /\ MaxNonce \in Nat
    BY <1>1, SubmissionAssumption DEF SubmissionAssumption
  <2> QED BY <2>1 DEF Ordered, Places
<1>8. Places(u) = D
  BY DEF Places
<1> HIDE DEF n
<1>9. /\ Layout(new, n) /\ At(new, p) = None
      /\ \A flat \in D : flat # p => At(new, flat) = At(buckets[u], flat)
  BY <1>6, <1>7, <1>8, OnePlaceEmptied
<1> HIDE DEF D
<1>10. {At(new, flat) : flat \in D} \ {None} = Unpruned(u) \ {id}
  <2>1. ASSUME NEW x \in Unpruned(u) \ {id}
        PROVE  x # None /\ \E flat \in D : x = At(new, flat)
    <3>1. PICK flat \in D : x = At(buckets[u], flat) /\ x # None
      BY <1>7
    <3>2. flat # p
      BY <1>6, <3>1
    <3> QED BY <1>9, <3>1, <3>2
  <2>2. ASSUME NEW flat \in D, At(new, flat) # None
        PROVE  At(new, flat) \in Unpruned(u) \ {id}
    <3>1. flat # p /\ At(new, flat) = At(buckets[u], flat)
      BY <1>9, <2>2
    <3>2. At(buckets[u], flat) \in Unpruned(u)
      BY <1>7, <2>2, <3>1
    <3> QED BY <1>6, <1>8, <3>1, <3>2
  <2> QED BY <2>1, <2>2
<1>11. ASSUME NEW f \in D, NEW g \in D, f < g
       PROVE  Before(At(new, f), At(new, g))
  <2>1. CASE f = p \/ g = p
    BY <1>9, <2>1 DEF Before
  <2>2. CASE f # p /\ g # p
    BY <1>7, <1>9, <1>11, <2>2
  <2> QED BY <2>1, <2>2
<1>12. buckets'[u] = new /\ intent_count'[u] = n /\ user_nonce'[u] = user_nonce[u]
  BY <1>1, <1>2 DEF n
<1>13. Ordered(u)'
  <2>1. D = 0..(n - 1)
    BY DEF D
  <2>2. Layout(buckets'[u], intent_count'[u])
    BY <1>9, <1>12, Zenon
  <2>3. {At(buckets'[u], flat) : flat \in 0..(intent_count'[u] - 1)} \ {None} = Unpruned(u)'
    BY <1>5, <1>10, <1>12, <2>1
  <2>4. \A f, g \in 0..(intent_count'[u] - 1) :
          f < g => Before(At(buckets'[u], f), At(buckets'[u], g))
    BY <1>11, <1>12, <2>1
  <2>5. /\ intent_count'[u] \in Nat /\ user_nonce'[u] \in Nat
        /\ intent_count'[u] <= user_nonce'[u] /\ user_nonce'[u] <= MaxNonce
    BY <1>7, <1>12
  <2> QED BY <2>2, <2>3, <2>4, <2>5, OrderedNext
<1>14. NoncesUsed(u)'
  <2>1. Named(u)' = Named(u) /\ NamedOutbound(u)' = NamedOutbound(u)
    BY <1>1, <1>3 DEF Named, NamedOutbound, NonceIn, u
  <2>2. NoncesUsed(u)
    BY <1>1
  <2> QED BY <1>1, <1>3, <1>12, <2>1, <2>2 DEF NoncesUsed, NonceIn, u
<1> QED
  <2>1. \A v \in Submitters : Ordered(v)' /\ NoncesUsed(v)'
    BY <1>4, <1>13, <1>14
  <2>2. None \notin ids' /\ pruned' \subseteq ids' /\ DOMAIN buckets' = Submitters
    BY <1>1, <1>2
  <2> QED BY <1>2, <2>1, <2>2 DEF HistoryInv, None

LEMMA NothingRecorded ==
  ASSUME HistoryInv, UNCHANGED <<historyVars, outbound>>
  PROVE  HistoryInv'
<1>1. UNCHANGED <<user_nonce, ids, pruned, buckets, intent_count, total_intents, outbound>>
  BY DEF historyVars
<1>2. ASSUME NEW u \in Submitters PROVE Ordered(u)' /\ NoncesUsed(u)'
  <2>1. Ordered(u) /\ NoncesUsed(u)
    BY DEF HistoryInv
  <2>2. IdsOf(u)' = IdsOf(u) /\ Unpruned(u)' = Unpruned(u) /\ OutboundOf(u)' = OutboundOf(u)
    BY <1>1 DEF IdsOf, Unpruned, OutboundOf
  <2> QED BY <1>1, <2>1, <2>2, UserKept
<1> QED BY <1>1, <1>2 DEF HistoryInv, None

LEMMA HistoryStepKeeps == ASSUME HistoryInv, SubmissionsNext PROVE HistoryInv'
<1>1. ASSUME NEW u \in Submitters, NEW batch \in Batches, BatchSubmitIntent(u, batch)
      PROVE  HistoryInv'
  <2>1. /\ Recorded(u, NewIds(u, batch)) /\ user_nonce[u] + Len(batch) <= MaxNonce
        /\ user_nonce' = [user_nonce EXCEPT ![u] = @ + Len(batch)] /\ UNCHANGED outbound
    BY <1>1 DEF BatchSubmitIntent, outboundVars
  <2>2. Len(batch) \in Nat
    BY SubmissionAssumption DEF SubmissionAssumption
  <2> QED BY <2>1, <2>2, RecordedKeeps
<1>2. ASSUME NEW u \in Submitters, NEW asked \in Singles, SubmitIntent(u, asked)
      PROVE  HistoryInv'
  <2>1. /\ Recorded(u, NewIds(u, <<asked>>)) /\ user_nonce[u] < MaxNonce
        /\ user_nonce' = [user_nonce EXCEPT ![u] = @ + 1] /\ UNCHANGED outbound
    BY <1>2 DEF SubmitIntent, NonceUsed, outboundVars
  <2>2. Len(<<asked>>) = 1 /\ 1 \in Nat
    OBVIOUS
  <2>3. user_nonce[u] + 1 <= MaxNonce
    BY <2>1, NoncesAreBelow, SubmissionAssumption DEF SubmissionAssumption
  <2> QED BY <2>1, <2>2, <2>3, RecordedKeeps
<1>3. ASSUME NEW u \in Submitters, NEW t, NEW amount, NEW life,
             SubmitOutboundIntent(u, t, amount, life)
      PROVE  HistoryInv'
  BY <1>3, OutboundKeeps
<1>4. ASSUME NEW o \in outbound, AcceptOutboundIntent(o)
      PROVE  HistoryInv'
  BY <1>4, AcceptedKeeps
<1>5. ASSUME UNCHANGED <<historyVars, outboundVars>>
      PROVE  HistoryInv'
  BY <1>5, NothingRecorded DEF outboundVars
<1>6. ASSUME NEW flag, Switch(flag)
      PROVE  HistoryInv'
  BY <1>5, <1>6 DEF Switch
<1>7. ASSUME NEW cfg, SetSettlementConfig(cfg)
      PROVE  HistoryInv'
  BY <1>5, <1>7 DEF SetSettlementConfig
<1>8. ASSUME UNCHANGED submissionVars
      PROVE  HistoryInv'
  BY <1>5, <1>8 DEF submissionVars
<1>9. ASSUME NEW id \in ids \ pruned, CloseIntent(id)
      PROVE  HistoryInv'
  BY <1>9, ClosedKeeps
<1> QED
  BY <1>1, <1>2, <1>3, <1>4, <1>5, <1>6, <1>7, <1>8, <1>9, Zenon DEF SubmissionsNext

LEMMA HistoryInvariance == SubmissionsSpec => []HistoryInv
<1>1. HistoryInv /\ UNCHANGED <<ledger_time, submissionVars>> => HistoryInv'
  BY NothingRecorded DEF submissionVars, outboundVars
<1> QED
  BY <1>1, HistoryStart, HistoryStepKeeps, PTL DEF SubmissionsSpec

-----------------------------------------------------------------------------
(* The result.                                                             *)

\* As many nonces are used as there are intents.
LEMMA NoncesCount ==
  ASSUME HistoryInv, NEW u \in Submitters
  PROVE  Cardinality(IdsOf(u)) + Cardinality(OutboundOf(u)) = user_nonce[u]
<1>1. /\ Ordered(u) /\ NoncesUsed(u) /\ IsFiniteSet(ids) /\ IsFiniteSet(outbound)
  BY DEF HistoryInv
<1>2. IsFiniteSet(IdsOf(u)) /\ IsFiniteSet(OutboundOf(u))
  BY <1>1, FS_Subset DEF IdsOf, OutboundOf
<1>3. IsFiniteSet(Named(u)) /\ Cardinality(Named(u)) = Cardinality(IdsOf(u))
  <2> DEFINE f == [id \in IdsOf(u) |-> NonceIn(id)]
  <2>1. \A x, y \in IdsOf(u) : NonceIn(x) = NonceIn(y) => x = y
    BY <1>1 DEF NoncesUsed
  <2>2. f \in Bijection(IdsOf(u), Named(u))
    <3>1. f \in [IdsOf(u) -> Named(u)] /\ \A s \in Named(u) : \E id \in IdsOf(u) : f[id] = s
      BY DEF Named
    <3> QED BY <2>1, <3>1 DEF Bijection, Injection, Surjection, IsInjective
  <2> QED BY <1>2, <2>2, FS_Bijection DEF ExistsBijection
<1>4. IsFiniteSet(NamedOutbound(u)) /\ Cardinality(NamedOutbound(u)) = Cardinality(OutboundOf(u))
  <2> DEFINE f == [o \in OutboundOf(u) |-> o.id[5]]
  <2>1. \A x, y \in OutboundOf(u) : x.id[5] = y.id[5] => x = y
    BY <1>1 DEF NoncesUsed
  <2>2. f \in Bijection(OutboundOf(u), NamedOutbound(u))
    <3>1. /\ f \in [OutboundOf(u) -> NamedOutbound(u)]
          /\ \A s \in NamedOutbound(u) : \E o \in OutboundOf(u) : f[o] = s
      BY DEF NamedOutbound
    <3> QED BY <2>1, <3>1 DEF Bijection, Injection, Surjection, IsInjective
  <2> QED BY <1>2, <2>2, FS_Bijection DEF ExistsBijection
<1>5. PICK n \in Nat : n = user_nonce[u]
  BY NoncesAreBelow
<1>6. Cardinality(0..(n - 1)) = n
  <2>1. PICK m \in Int : m = n - 1
    OBVIOUS
  <2>2. 0 \in Int /\ 0 <= m + 1 /\ m - 0 + 1 = n
    BY <2>1
  <2> QED BY <2>1, <2>2, NumbersCount
<1>7. Cardinality(Named(u)) + Cardinality(NamedOutbound(u)) = n
  <2>1. /\ Named(u) \cap NamedOutbound(u) = {}
        /\ Named(u) \cup NamedOutbound(u) = 0..(n - 1)
    BY <1>1, <1>5 DEF NoncesUsed
  <2>2. Cardinality(Named(u) \cup NamedOutbound(u))
          = Cardinality(Named(u)) + Cardinality(NamedOutbound(u))
              - Cardinality(Named(u) \cap NamedOutbound(u))
    BY <1>3, <1>4, FS_Union
  <2>3. Cardinality(Named(u) \cap NamedOutbound(u)) = 0
    BY <2>1, FS_EmptySet
  <2>4. Cardinality(Named(u)) \in Nat /\ Cardinality(NamedOutbound(u)) \in Nat
    BY <1>3, <1>4, FS_CardinalityType
  <2>5. Cardinality(Named(u) \cup NamedOutbound(u)) = n
    BY <1>6, <2>1
  <2> QED BY <2>2, <2>3, <2>4, <2>5
<1> QED
  BY <1>3, <1>4, <1>5, <1>7

PagesOf(u, limit) ==
  [k \in 0..intent_count[u] |-> ListIntentsByUser(u, k * limit, limit)]

AllShown(u, page) ==
  /\ UNION {Range(page[k]) : k \in 0..intent_count[u]} = Unpruned(u)
  /\ \A j, k \in 0..intent_count[u] : \A m \in DOMAIN page[j], n \in DOMAIN page[k] :
       j < k \/ (j = k /\ m < n) => NonceIn(page[j][m]) < NonceIn(page[k][n])

\* Pages of any size show all places that have not been emptied, in order.
LEMMA PagesAreComplete ==
  ASSUME HistoryInv, NEW u \in Submitters, NEW limit \in 1..MaxPageSize
  PROVE  AllShown(u, PagesOf(u, limit))
<1> DEFINE count == intent_count[u]
           at(flat) == At(buckets[u], flat)
           size(k) == Shown(count, k * limit, limit)
           page == PagesOf(u, limit)
<1>1. /\ Ordered(u) /\ count \in Nat /\ count <= MaxNonce /\ Layout(buckets[u], count)
      /\ limit \in Nat /\ limit > 0
      /\ {at(flat) : flat \in 0..(count - 1)} \ {None} = Unpruned(u)
      /\ \A f, g \in 0..(count - 1) : f < g => Before(at(f), at(g))
  <2>1. Ordered(u)
    BY DEF HistoryInv
  <2>2. MaxNonce \in Nat /\ MaxPageSize \in Nat
    BY SubmissionAssumption DEF SubmissionAssumption
  <2>3. limit \in Nat /\ limit > 0
    BY <2>2
  <2>4. /\ count \in Nat /\ user_nonce[u] \in Nat /\ count <= user_nonce[u]
        /\ user_nonce[u] <= MaxNonce /\ Layout(buckets[u], count)
    BY <2>1 DEF Ordered
  <2>5. count <= MaxNonce
    BY <2>2, <2>4
  <2>6. /\ {at(flat) : flat \in 0..(count - 1)} \ {None} = Unpruned(u)
        /\ \A f, g \in 0..(count - 1) : f < g => Before(at(f), at(g))
    BY <2>1, Zenon DEF Ordered, Places
  <2> QED BY <2>1, <2>3, <2>4, <2>5, <2>6
<1>2. ASSUME NEW k \in 0..count
      PROVE  /\ k * limit \in Nat
             /\ Shows(page[k], buckets[u], k * limit, size(k))
             /\ size(k) \in Nat /\ size(k) <= limit
             /\ \A i \in 1..limit : k * limit + i <= count => i <= size(k)
             /\ \A i \in 1..size(k) : k * limit + i - 1 \in 0..(count - 1)
  <2>1. k * limit \in Nat
    BY <1>1
  <2>2. page[k] = ListIntentsByUser(u, k * limit, limit)
    BY DEF PagesOf
  <2> DEFINE start == k * limit
  <2> HIDE DEF start
  <2>3. start \in Nat /\ page[k] = ListIntentsByUser(u, start, limit)
    BY <2>1, <2>2 DEF start
  <2>4. Shows(page[k], buckets[u], start, Shown(count, start, limit))
    BY <1>1, <2>3, PageShows
  <2>5. /\ Shown(count, start, limit) \in Nat
        /\ \A i \in 1..limit : start + i <= count => i <= Shown(count, start, limit)
        /\ Shown(count, start, limit) <= limit
        /\ \A i \in 1..Shown(count, start, limit) : start + i - 1 \in 0..(count - 1)
    BY <1>1, <2>3, ShownBounds
  <2> QED BY <2>3, <2>4, <2>5 DEF start
<1> HIDE DEF count, size, page
\* What a page shows is at one of its places, and in order.
<1>3. ASSUME NEW k \in 0..count
      PROVE  /\ DOMAIN page[k] = 1..Len(page[k]) /\ Len(page[k]) \in Nat
             /\ \A i \in 1..Len(page[k]) :
                  page[k][i] # None /\ \E f \in 1..size(k) : page[k][i] = at(k * limit + f - 1)
             /\ \A f \in 1..size(k) :
                  at(k * limit + f - 1) # None =>
                    \E i \in 1..Len(page[k]) : page[k][i] = at(k * limit + f - 1)
             /\ \A i, j \in 1..Len(page[k]) : i < j => NonceIn(page[k][i]) < NonceIn(page[k][j])
  <2>1. Shows(page[k], buckets[u], k * limit, size(k))
    BY <1>2
  <2>2. Sequence(page[k])
    BY <2>1 DEF Shows
  <2>3. DOMAIN page[k] = 1..Len(page[k]) /\ Len(page[k]) \in Nat
    BY <2>2 DEF Sequence
  <2> QED BY <2>1, <2>3, Zenon DEF Shows
<1> HIDE DEF at
<1>4. ASSUME NEW k \in 0..count, NEW id \in Range(page[k]) PROVE id \in Unpruned(u)
  <2>1. PICK i \in 1..Len(page[k]) : id = page[k][i] /\ id # None
    BY <1>3 DEF Range
  <2>2. PICK f \in 1..size(k) : id = at(k * limit + f - 1)
    BY <1>3, <2>1
  <2>3. k * limit + f - 1 \in 0..(count - 1)
    BY <1>2, <2>2
  <2> QED BY <1>1, <2>1, <2>2, <2>3
<1>5. ASSUME NEW id \in Unpruned(u) PROVE \E k \in 0..count : id \in Range(page[k])
  <2>1. PICK flat \in 0..(count - 1) : id = at(flat) /\ id # None
    BY <1>1
  <2>2. flat \in Nat /\ flat < count /\ limit \in Nat \ {0}
    BY <1>1
  <2> DEFINE k == flat \div limit
  <2>3. k \in Nat /\ k * limit <= flat /\ flat < k * limit + limit
    BY <2>2, Quotient
  <2> HIDE DEF k
  <2>4. k <= k * limit /\ k * limit \in Nat
    BY <2>2, <2>3
  <2>5. k \in 0..count
    BY <1>1, <2>2, <2>3, <2>4
  <2> DEFINE a == k * limit
             f == flat - a + 1
  <2>6. a \in Nat /\ a <= flat /\ flat < a + limit
    BY <2>3, <2>4
  <2> HIDE DEF a
  <2>7. f \in 1..limit /\ a + f <= count /\ a + f - 1 = flat
    BY <1>1, <2>2, <2>6
  <2> HIDE DEF f
  <2>8. f \in 1..size(k)
    <3>1. size(k) \in Nat /\ \A x \in 1..limit : a + x <= count => x <= size(k)
      BY <1>2, <2>5 DEF a
    <3> QED BY <1>1, <2>7, <3>1
  <2>9. at(k * limit + f - 1) = id
    BY <2>1, <2>7 DEF a
  <2>10. PICK i \in 1..Len(page[k]) : page[k][i] = id
    BY <1>3, <2>1, <2>5, <2>8, <2>9
  <2>11. i \in DOMAIN page[k]
    BY <1>3, <2>5
  <2> QED BY <2>5, <2>10, <2>11 DEF Range
<1>6. UNION {Range(page[k]) : k \in 0..count} = Unpruned(u)
  BY <1>4, <1>5
<1>7. ASSUME NEW j \in 0..count, NEW k \in 0..count, NEW m \in DOMAIN page[j],
             NEW n \in DOMAIN page[k], j < k \/ (j = k /\ m < n)
      PROVE  NonceIn(page[j][m]) < NonceIn(page[k][n])
  <2>1. m \in 1..Len(page[j]) /\ n \in 1..Len(page[k])
    BY <1>3
  <2>2. CASE j < k
    <3>1. PICK f \in 1..size(j) : page[j][m] = at(j * limit + f - 1)
      BY <1>3, <2>1
    <3>2. PICK g \in 1..size(k) : page[k][n] = at(k * limit + g - 1)
      BY <1>3, <2>1
    <3>3. page[j][m] # None /\ page[k][n] # None
      BY <1>3, <2>1
    <3>4. (j + 1) * limit <= k * limit /\ (j + 1) * limit = j * limit + limit
      <4>1. j \in Nat /\ k \in Nat /\ j + 1 <= k
        BY <1>1, <2>2
      <4> QED BY <1>1, <4>1
    <3> DEFINE a == j * limit
               b == k * limit
    <3>5. /\ a \in Nat /\ b \in Nat /\ a + limit <= b /\ size(j) \in Nat /\ size(j) <= limit
          /\ size(k) \in Nat /\ a + f - 1 \in 0..(count - 1) /\ b + g - 1 \in 0..(count - 1)
      BY <1>2, <3>4
    <3>6. page[j][m] = at(a + f - 1) /\ page[k][n] = at(b + g - 1)
      BY <3>1, <3>2
    <3> HIDE DEF a, b
    <3>7. a + f - 1 < b + g - 1
      BY <1>1, <3>5
    <3>8. Before(at(a + f - 1), at(b + g - 1))
      BY <1>1, <3>5, <3>7
    <3> QED BY <3>3, <3>6, <3>8 DEF Before
  <2>3. CASE j = k /\ m < n
    BY <1>3, <2>1, <2>3
  <2> QED BY <1>7, <2>2, <2>3
<1> QED
  BY <1>6, <1>7 DEF count, page, AllShown

\* Whatever is submitted, alone, in batches or outbound, and whatever is pruned of it, however
\* the settings change: paging through a user's history shows every intent of the user that
\* has not been pruned, once and in order, and no other; the nonces name all that were
\* submitted and none is skipped, and the total counts them.
THEOREM HistoryIsComplete == SubmissionsSpec => []HistoryComplete
<1>1. HistoryInv => HistoryComplete
  <2> SUFFICES ASSUME HistoryInv PROVE HistoryComplete
    OBVIOUS
  <2>1. ASSUME NEW u \in Submitters
        PROVE  /\ Named(u) \cap NamedOutbound(u) = {}
               /\ Named(u) \cup NamedOutbound(u) = 0..(user_nonce[u] - 1)
               /\ Cardinality(IdsOf(u)) + Cardinality(OutboundOf(u)) = user_nonce[u]
    BY NoncesCount DEF HistoryInv, NoncesUsed
  <2>2. NoncesNameOne
    BY <2>1, Zenon DEF NoncesNameOne, Named, NamedOutbound, IdsOf, OutboundOf
  <2>3. total_intents = Cardinality(ids)
    BY DEF HistoryInv
  <2>4. \A u \in Submitters, limit \in 1..MaxPageSize : AllShown(u, PagesOf(u, limit))
    BY PagesAreComplete
  <2> QED BY <2>2, <2>3, <2>4, Zenon DEF HistoryComplete, IdsOf, Unpruned, AllShown, PagesOf
<1> QED
  BY <1>1, HistoryInvariance, PTL
=============================================================================
