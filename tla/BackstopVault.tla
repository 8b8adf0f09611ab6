--------------------------- MODULE BackstopVault ---------------------------
(***************************************************************************)
(* The backstop_vault contract: shares of a pool that earns income and     *)
(* pays covers, redeemed after a cooldown, or queued in an emergency.      *)
(* The settlement and the bond token are external: income is announced     *)
(* after it was transferred.  An overflow, a division by zero or a         *)
(* transfer that the balance cannot pay reverts the call.                  *)
(***************************************************************************)
EXTENDS LedgerClock, FiniteSets, Functions

CONSTANTS
  LPs,
  VirtualShares, VirtualAssets,      \* VIRTUAL_SHARES, VIRTUAL_ASSETS
  VaultBps, ResetBps,                \* 10_000, COOLDOWN_RESET_FRACTION_BPS
  Configs, FirstConfig               \* configurations set_config accepts; initialize's

CONSTANTS                            \* what callers may choose, and bounds
  Deposits, Redemptions, Incomes, Covers,
  MaxAssets, MaxShares, MaxQueued    \* bounds: deposits, income and queueing stop there

BackstopConfig == [min_deposit: Nat \ {0}, withdrawal_cooldown_secs: Nat]

ASSUME VaultAssumption ==
  /\ IsFiniteSet(LPs)
  /\ {VirtualShares, VirtualAssets} \subseteq Nat \ {0}
  /\ VaultBps \in Nat \ {0} /\ ResetBps \in 0..VaultBps
  /\ Configs \subseteq BackstopConfig /\ FirstConfig \in Configs
  /\ Deposits \subseteq Nat /\ Redemptions \subseteq Nat
  /\ Incomes \subseteq Nat /\ Covers \subseteq Nat
  /\ {MaxAssets, MaxShares, MaxQueued} \subseteq Nat

VARIABLES
  config,
  emergency,                         \* DataKey::EmergencyMode
  shares, total_shares, total_assets,
  cooldown,                          \* DataKey::WithdrawCooldown(lp)
  queue, total_queued,               \* DataKey::WithdrawQueue(lp), TotalQueued
  vault_balance                      \* the vault's balance of the bond token

queueVars == <<queue, total_queued>>
vaultVars == <<config, emergency, shares, total_shares, total_assets,
               cooldown, queueVars, vault_balance>>

-----------------------------------------------------------------------------
(* Shares and assets.                                                      *)

Larger(a, b) == IF a >= b THEN a ELSE b
Smaller(a, b) == IF a <= b THEN a ELSE b

\* Mutant: shares are rounded up.
MintedRoundedUp(amount) == (amount * total_shares + total_assets - 1) \div total_assets

\* What a deposit buys: at least one share.
Minted(amount) == Larger((amount * total_shares) \div total_assets, 1)

\* What so many shares are worth.
Worth(n) == (n * total_assets) \div total_shares

\* A deposit is significant, and starts the cooldown again, if it is large relative to
\* what the LP already has.
Significant(lp, amount) ==
  \/ Worth(shares[lp]) <= 0
  \/ amount * VaultBps >= Worth(shares[lp]) * ResetBps

\* Mutant: tokens leave and the pool is not told.
PayUnbooked(amount) ==
  /\ amount <= vault_balance
  /\ vault_balance' = vault_balance - amount
  /\ UNCHANGED total_assets

\* Tokens of the pool leave the vault.
Pay(amount) ==
  /\ amount <= vault_balance
  /\ vault_balance' = vault_balance - amount
  /\ total_assets' = total_assets - amount

\* Mutant: only the total shrinks.
BurnTotal(lp, n) ==
  /\ total_shares' = total_shares - n
  /\ UNCHANGED shares

Burn(lp, n) ==
  /\ shares' = [shares EXCEPT ![lp] = @ - n]
  /\ total_shares' = total_shares - n

-----------------------------------------------------------------------------
(* Liquidity providers.                                                    *)

Deposit(lp, amount) ==
  /\ amount >= config.min_deposit
  /\ total_assets > 0
  /\ total_assets + amount <= MaxAssets /\ total_shares + Minted(amount) <= MaxShares
  /\ shares' = [shares EXCEPT ![lp] = @ + Minted(amount)]
  /\ total_shares' = total_shares + Minted(amount)
  /\ total_assets' = total_assets + amount
  /\ vault_balance' = vault_balance + amount
  /\ cooldown' = IF Significant(lp, amount)
                 THEN [cooldown EXCEPT
                         ![lp] = ledger_time + config.withdrawal_cooldown_secs]
                 ELSE cooldown
  /\ UNCHANGED <<ledger_time, config, emergency, queueVars>>

\* withdraw, up to the question of the emergency.
MayRedeem(lp, n) == n > 0 /\ n <= shares[lp] /\ ledger_time >= cooldown[lp]

Withdraw(lp, n) ==
  /\ MayRedeem(lp, n)
  /\ ~emergency
  /\ Burn(lp, n)
  /\ Pay(Worth(n))
  /\ UNCHANGED <<ledger_time, config, emergency, cooldown, queueVars>>

\* In an emergency the shares go and the assets stay, until they are asked for.
QueueWithdrawal(lp, n) ==
  /\ MayRedeem(lp, n)
  /\ emergency
  /\ total_queued + Worth(n) <= MaxQueued
  /\ Burn(lp, n)
  /\ queue' = [queue EXCEPT ![lp] = @ + Worth(n)]
  /\ total_queued' = total_queued + Worth(n)
  /\ UNCHANGED <<ledger_time, config, emergency, total_assets, cooldown, vault_balance>>

\* Anyone's call.
ProcessQueuedWithdrawal(lp) ==
  /\ emergency
  /\ queue[lp] > 0
  /\ queue' = [queue EXCEPT ![lp] = 0]
  /\ total_queued' = total_queued - queue[lp]
  /\ Pay(Smaller(queue[lp], total_assets))
  /\ UNCHANGED <<ledger_time, config, emergency, shares, total_shares, cooldown>>

-----------------------------------------------------------------------------
(* The settlement and the admin.                                           *)

Cover(amount) ==
  /\ amount > 0
  /\ Pay(Smaller(amount, total_assets))
  /\ UNCHANGED <<ledger_time, config, emergency, shares, total_shares, cooldown,
                 queueVars>>

\* The settlement's transfer and its call of receive_income.
ReceiveIncome(amount) ==
  /\ amount > 0
  /\ total_assets + amount <= MaxAssets
  /\ total_assets' = total_assets + amount
  /\ vault_balance' = vault_balance + amount
  /\ UNCHANGED <<ledger_time, config, emergency, shares, total_shares, cooldown,
                 queueVars>>

SetEmergencyMode(enabled) ==
  /\ emergency' = enabled
  /\ UNCHANGED <<ledger_time, config, shares, total_shares, total_assets, cooldown,
                 queueVars, vault_balance>>

SetConfig(c) ==
  /\ config' = c
  /\ UNCHANGED <<ledger_time, emergency, shares, total_shares, total_assets, cooldown,
                 queueVars, vault_balance>>

VaultTick ==
  /\ Later
  /\ UNCHANGED <<config, emergency, shares, total_shares, total_assets, cooldown,
                 queueVars, vault_balance>>

-----------------------------------------------------------------------------
VaultInit ==
  /\ ClockInit
  /\ config = FirstConfig
  /\ emergency = FALSE
  /\ shares = [lp \in LPs |-> 0] /\ total_shares = VirtualShares
  /\ total_assets = VirtualAssets /\ vault_balance = 0
  /\ cooldown = [lp \in LPs |-> 0]
  /\ queue = [lp \in LPs |-> 0] /\ total_queued = 0

LPCall(lp) ==
  \/ \E amount \in Deposits : Deposit(lp, amount)
  \/ \E n \in Redemptions : Withdraw(lp, n) \/ QueueWithdrawal(lp, n)
  \/ ProcessQueuedWithdrawal(lp)

VaultNext ==
  \/ VaultTick
  \/ \E lp \in LPs : LPCall(lp)
  \/ \E amount \in Covers : Cover(amount)
  \/ \E amount \in Incomes : ReceiveIncome(amount)
  \/ \E enabled \in BOOLEAN : SetEmergencyMode(enabled)
  \/ \E c \in Configs : SetConfig(c)

VaultSpec == VaultInit /\ [][VaultNext]_<<ledger_time, vaultVars>>

-----------------------------------------------------------------------------
(* Properties.                                                             *)

\* Every variable keeps its type; the pool keeps a share and an asset to divide by.
VaultTypeOK ==
  /\ ledger_time \in Nat /\ config \in Configs /\ emergency \in BOOLEAN
  /\ shares \in [LPs -> Nat] /\ total_shares \in Nat
  /\ total_assets \in Nat \ {0} /\ vault_balance \in Nat
  /\ cooldown \in [LPs -> Nat]
  /\ queue \in [LPs -> Nat] /\ total_queued \in Int

\* Every asset of the pool but the virtual ones is a token in the vault, through deposits,
\* both ways to withdraw, covers larger than the vault, and income: no payment eats into
\* the virtual assets, which are not there.
AssetsBacked == vault_balance = total_assets - VirtualAssets

\* The shares still to be redeemed are covered by tokens, whoever comes first, as long as
\* a share is worth what it was at the start or more.  (Below that it does not hold: the
\* virtual shares bear part of a loss in the price and none of it in tokens.)
RedeemableAtPar ==
  total_assets * VirtualShares >= VirtualAssets * total_shares =>
    SumFunctionOnSet([lp \in LPs |-> Worth(shares[lp])], LPs) <= vault_balance

\* Whoever joins or leaves, now or into the queue, leaves the price of a share where
\* it was or above, for the others: all roundings are in the pool's favour.  The exception
\* is a deposit worth less than one share, which is given one.
NoDilution ==
  [][total_shares' # total_shares =>
       \/ total_assets' * total_shares >= total_assets * total_shares'
       \/ /\ total_shares' = total_shares + 1
          /\ (total_assets' - total_assets) * total_shares < total_assets
    ]_<<ledger_time, vaultVars>>
=============================================================================
