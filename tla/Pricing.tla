------------------------------ MODULE Pricing ------------------------------
(***************************************************************************)
(* The arithmetic of prices, shares and tiers: the falling price of an     *)
(* auction, cross rates of the oracle, basis points with a rounding,       *)
(* slashes, windows and extensions by tier, and the score that a record    *)
(* earns.  A quote is one set of arguments; the clock runs under it.       *)
(* Amounts here are far from the width of an i128; where the code checks   *)
(* for overflow, it gives up in the ways that the missing price does.      *)
(***************************************************************************)
EXTENDS LedgerClock, Sequences

CONSTANTS
  Parts,               \* BPS, BPS_DENOMINATOR: parts in a whole
  MaxFeeParts,         \* fees are at most this
  WindowBonus,         \* TIER_FILL_WINDOW_BONUS_BPS, a sequence
  SlashRate,           \* TIER_SLASH_BPS, a sequence
  FlatSlash,           \* SLASH_BPS
  MaxPriceAge,         \* MAX_PRICE_AGE_SECS
  MaxDeviation,        \* MAX_PRICE_DEVIATION_BPS
  MaxDecimals,         \* 38: one more power of ten leaves an i128, and checked_pow gives up
  ScoreScale,          \* VOLUME_SCALE
  ExtensionTable,      \* tiers of extensions, the best first
  OneExtension, MostExtension,   \* MAX_EXTENSION_DURATION, MAX_TOTAL_EXTENSION
  Quotes               \* bound: arguments, see QuoteOK

Auction == [start: Int, min: Int, from: Nat, till: Nat]
Price == [answered: BOOLEAN, price: Int, decimals: 0..MaxDecimals, at: Nat]
Record == [fills_completed: Nat, fills_failed: Nat, total_volume: Int]
ExtensionRow == [fills: Nat, score: Nat, percent: Nat]

ASSUME PricingAssumption ==
  /\ Parts \in Nat \ {0} /\ MaxFeeParts \in 0..Parts /\ MaxPriceAge \in Nat
  /\ WindowBonus \in Seq(Nat) /\ SlashRate \in Seq(0..Parts)
  /\ Len(WindowBonus) > 0 /\ Len(SlashRate) > 0 /\ FlatSlash \in 0..Parts
  /\ MaxDeviation \in 0..(Parts - 1) /\ MaxDecimals \in Nat /\ ScoreScale \in Nat \ {0}
  /\ ExtensionTable \in Seq(ExtensionRow) /\ {OneExtension, MostExtension} \subseteq Nat

\* A higher tier has no shorter a window and no larger a slash, none slashes above the
\* flat rate or is without a window, and a better row of extensions is no shorter, the
\* last no shorter than one extension.
ASSUME TablesFavourTiers ==
  /\ \A j, k \in DOMAIN WindowBonus : j <= k => WindowBonus[j] <= WindowBonus[k]
  /\ \A j, k \in DOMAIN SlashRate : j <= k => SlashRate[k] <= SlashRate[j]
  /\ \A k \in DOMAIN SlashRate : SlashRate[k] <= FlatSlash
  /\ Len(SlashRate) <= Len(WindowBonus)
  /\ \A j, k \in DOMAIN ExtensionTable :
       j <= k => ExtensionTable[k].percent \in 100..ExtensionTable[j].percent

ASSUME QuoteOK ==
  Quotes \subseteq [auction: Auction, pays: Price, gets: Price, amount: Int, parts: 0..Parts,
                    bond: Int, tier: Nat, record: Record]

VARIABLE quote

pricingVars == <<quote>>

AtMost(a, b) == IF a <= b THEN a ELSE b
AtLeast(a, b) == IF a >= b THEN a ELSE b

\* Rust's division and remainder truncate toward zero.
Quot(a, d) == IF a >= 0 THEN a \div d ELSE -((-a) \div d)
Rem(a, d) == a - Quot(a, d) * d

-----------------------------------------------------------------------------
(* The auction.                                                            *)

Decay(a, now) == Quot((a.start - a.min) * (now - a.from), a.till - a.from)

\* current_min_dst, which takes an auction as it is.
CurrentMinDst(a, now) ==
  IF now >= a.till THEN a.min
  ELSE IF now <= a.from THEN a.start
  ELSE a.start - Decay(a, now)

\* dutch_decay of math.rs, which takes one that does not fall for none.
DutchDecay(a, now) ==
  IF a.till > a.from /\ a.start >= a.min THEN CurrentMinDst(a, now) ELSE a.min

-----------------------------------------------------------------------------
(* Rounding.                                                               *)

BpsMulDiv(amount, parts) == Quot(amount * parts, Parts)

BpsMulDivCeil(amount, parts) ==
  BpsMulDiv(amount, parts) + IF Rem(amount * parts, Parts) > 0 THEN 1 ELSE 0

BpsMulDivNearest(amount, parts) ==
  BpsMulDiv(amount, parts) + IF Rem(amount * parts, Parts) * 2 >= Parts THEN 1 ELSE 0

ComputeFee(amount, parts) == BpsMulDiv(amount, parts)

ApplyDiscount(fee, discount) ==
  IF fee <= 0 THEN 0
  ELSE AtLeast(fee - BpsMulDiv(fee, AtLeast(AtMost(discount, Parts), 0)), 0)

-----------------------------------------------------------------------------
(* The oracle.                                                             *)

\* fetch_price: a price from the future is fresh.
Usable(p, now) == p.answered /\ p.price > 0 /\ ~(now > p.at /\ now - p.at > MaxPriceAge)

\* 10i128.checked_pow.
TenTo[n \in 0..MaxDecimals] == IF n = 0 THEN 1 ELSE 10 * TenTo[n - 1]

Scaled(from, to) ==
  Quot(from.price * TenTo[to.decimals] * Parts, to.price * TenTo[from.decimals])

\* weight_bps: one to one when it cannot tell.
WeightBps(from, to, now) ==
  IF Usable(from, now) /\ Usable(to, now) /\ Scaled(from, to) > 0 THEN Scaled(from, to)
  ELSE Parts

\* prices_agree: of two sources, whatever decimals each comes in.
PricesAgree(p, q) ==
  LET a == p.price * TenTo[AtLeast(q.decimals - p.decimals, 0)]
      b == q.price * TenTo[AtLeast(p.decimals - q.decimals, 0)]
  IN /\ p.price > 0 /\ q.price > 0
     /\ (AtLeast(a, b) - AtMost(a, b)) * Parts <= MaxDeviation * AtLeast(a, b)

-----------------------------------------------------------------------------
(* Tiers.                                                                  *)

\* Mutant: tiers above the table start it again.
RowAround(table, tier) == table[(tier % Len(table)) + 1]

\* The table's row for a tier, the last for those above it.
RowOf(table, tier) == table[AtMost(tier + 1, Len(table))]

\* solver_tier: what the registry answers, if there is one and it does.
SolverTier(answered, tier) == IF answered THEN AtMost(tier, Len(SlashRate) - 1) ELSE 0

\* The entry point's window, which gives a tier above the table no bonus.
EntryFillWindow(tier, window) ==
  IF tier < Len(WindowBonus) THEN (window * (Parts + WindowBonus[tier + 1])) \div Parts
  ELSE window

\* math.rs's, which gives it the last.
TierFillWindow(tier, window) == (window * (Parts + RowOf(WindowBonus, tier))) \div Parts

SlashAt(bond, unfilled, rate) ==
  IF bond <= 0 THEN 0
  ELSE LET proportional == AtMost(AtLeast(unfilled, 0), bond) \div 10
           cap == AtLeast(AtMost((bond \div Parts) * rate, bond), 1)
       IN AtMost(AtLeast(proportional, 1), cap)

ComputeSlashAmount(bond, unfilled) == SlashAt(bond, unfilled, FlatSlash)

ComputeSlashAmountTiered(bond, unfilled, tier) ==
  SlashAt(bond, unfilled, RowOf(SlashRate, tier))

-----------------------------------------------------------------------------
(* Scores.  The success rate, of which up to a tenth is earned by volume.  *)

ComputeReputationScore(r) ==
  LET fills == r.fills_completed + r.fills_failed
      rate == (r.fills_completed * Parts) \div fills
      lacking == (ScoreScale * Parts) \div (ScoreScale + AtLeast(r.total_volume, 0) + 1)
  IN IF fills = 0 THEN 0 ELSE (rate * (Parts - lacking \div 10)) \div Parts

Earned(r) ==
  {k \in DOMAIN ExtensionTable :
     /\ r.fills_completed >= ExtensionTable[k].fills
     /\ ComputeReputationScore(r) >= ExtensionTable[k].score}

\* extension_cap_secs: the first row that is earned.
ExtensionCapSecs(r) ==
  LET percent == IF Earned(r) = {} THEN 100
                 ELSE ExtensionTable[CHOOSE k \in Earned(r) : \A j \in Earned(r) : k <= j].percent
  IN AtMost((OneExtension * percent) \div 100, MostExtension)

-----------------------------------------------------------------------------
PricingInit == ClockInit /\ quote \in Quotes

PricingNext == Later /\ UNCHANGED quote

PricingSpec == PricingInit /\ [][PricingNext]_<<ledger_time, quote>>

-----------------------------------------------------------------------------
(* Properties.                                                             *)

Falls(a) == a.till > a.from /\ a.start >= a.min

\* While an auction runs its price never rises and stays between its ends, the first
\* until the decay begins and the last from its end on, however time is sampled; and the
\* entry point and the proved helper agree on it.
AuctionFalls ==
  LET a == quote.auction
      price == CurrentMinDst(a, ledger_time)
  IN Falls(a) =>
       /\ price \in a.min..a.start /\ price = DutchDecay(a, ledger_time)
       /\ ledger_time <= a.from => price = a.start
       /\ ledger_time >= a.till => price = a.min
       /\ \A later \in ledger_time..LastTime : CurrentMinDst(a, later) \in a.min..price

\* Each rounding is the integer its name says: the largest not above a product that is not
\* negative, the smallest not below any, and the nearest, up from half way; and a fee is
\* never more than the amount, nor is a discounted rate more than the rate.
RoundingsAgree ==
  LET amount == quote.amount
      parts == quote.parts
      exact == amount * parts
  IN
  /\ BpsMulDivCeil(amount, parts) * Parts - exact \in 0..(Parts - 1)
  /\ amount >= 0 =>
       /\ exact - BpsMulDiv(amount, parts) * Parts \in 0..(Parts - 1)
       /\ 2 * BpsMulDivNearest(amount, parts) * Parts - 2 * exact \in (1 - Parts)..Parts
       /\ ComputeFee(amount, parts) <= amount
  /\ \A fee \in 0..MaxFeeParts : ApplyDiscount(fee, parts) \in 0..fee

\* A cross rate that the oracle gives is the true ratio rounded down, whatever decimals
\* the two prices come in, so that no exchange through it and back gains; one that it does
\* not give is one to one.  Two prices that agree exchange at about par.
RatesNeverGain ==
  LET from == quote.pays
      to == quote.gets
      rate == WeightBps(from, to, ledger_time)
      back == WeightBps(to, from, ledger_time)
  IN
  /\ rate # Parts =>
       /\ Usable(from, ledger_time) /\ Usable(to, ledger_time)
       /\ rate * (to.price * TenTo[from.decimals]) <= from.price * TenTo[to.decimals] * Parts
  /\ (rate # Parts /\ back # Parts) => rate * back <= Parts * Parts
  /\ PricesAgree(from, to) =>
       /\ PricesAgree(to, from)
       /\ rate >= Parts - MaxDeviation /\ rate * (Parts - MaxDeviation) <= Parts * Parts

\* A slash takes something of every bond that is not empty, never more than the bond, and
\* at a higher tier never more than at a lower one or at the flat rate, while its holder
\* gets no shorter a window; and the two forms of the window agree on every tier that
\* the registry's answer is taken for.
TiersNeverHurt ==
  LET bond == quote.bond
      At(tier) == ComputeSlashAmountTiered(bond, quote.amount, tier)
  IN
  /\ bond > 0 => At(quote.tier) \in 1..bond
  /\ At(quote.tier + 1) <= At(quote.tier)
  /\ At(quote.tier) <= ComputeSlashAmount(bond, quote.amount)
  /\ \A window \in 1..LastTime :
       /\ TierFillWindow(quote.tier + 1, window) >= TierFillWindow(quote.tier, window)
       /\ \A answered \in BOOLEAN :
            LET tier == SolverTier(answered, quote.tier)
            IN /\ EntryFillWindow(tier, window) = TierFillWindow(tier, window)
               /\ answered => At(tier) = At(quote.tier)

\* A score is a share of the whole; one more fill never lowers it, nor more volume, one
\* more failure never raises it, and no rounding turns that around; and more time to fill
\* follows the score, from one extension up to the ceiling.
ScoresFollowOutcomes ==
  LET r == quote.record
      completed == [r EXCEPT !.fills_completed = @ + 1]
      failed == [r EXCEPT !.fills_failed = @ + 1]
      larger == [r EXCEPT !.total_volume = @ + ScoreScale]
      Score(x) == ComputeReputationScore(x)
      Cap(x) == ExtensionCapSecs(x)
  IN /\ Score(r) \in 0..Parts
     /\ Score(failed) <= Score(r) /\ Score(r) <= Score(completed) /\ Score(r) <= Score(larger)
     /\ Cap(failed) <= Cap(r) /\ Cap(r) <= Cap(completed) /\ Cap(r) <= Cap(larger)
     /\ Cap(r) \in AtMost(OneExtension, MostExtension)..MostExtension

\* The contract's arithmetic in its corners: the auction's price over time, roundings,
\* cross rates, tables of tiers, and scores.
QuotesSound ==
  AuctionFalls /\ RoundingsAgree /\ RatesNeverGain /\ TiersNeverHurt /\ ScoresFollowOutcomes
=============================================================================
