----------------------------- MODULE MCDelays -----------------------------
(***************************************************************************)
(* Small instances of what waits on time and of what is looked up, for     *)
(* TLC: the timelock, the administration of the settlement with its token  *)
(* list, the list of solvers, the roles of the registry, the directory,    *)
(* the pointer of the periphery and the prices.  A behaviour is one        *)
(* part's, chosen at the start; the rest stand still.                      *)
(***************************************************************************)
EXTENDS Timelock, SettlementAdmin, RegistryRoles, Directory, Periphery, Pricing, TLC

CONSTANTS o1, o2, o3, o4, m1, m2, m3, h1, h2, h3, c1, n1, n2, n3, k1, k2

VARIABLE part

-----------------------------------------------------------------------------
(* The timelock: a chain of three, and an operation that also waits for    *)
(* the first.                                                              *)

Chain == (o1 :> NoOp) @@ (o2 :> o1) @@ (o3 :> o2) @@ (o4 :> o1)

-----------------------------------------------------------------------------
(* Quotes: auctions that fall, stand, rise and end before they begin; two  *)
(* prices of different decimals, one of nothing and one missing; amounts   *)
(* that divide evenly and not, on both sides of 0.                         *)

Asks(start, min, from, till) == [start |-> start, min |-> min, from |-> from, till |-> till]

Falling == Asks(7, 2, 1, 3)

Auctions ==
  {Falling, Asks(7, 2, 2, 4), Asks(5, 5, 0, 2), Asks(2, 5, 1, 3), Asks(5, 2, 3, 1)}

Answer(answered, price, decimals, at) ==
  [answered |-> answered, price |-> price, decimals |-> decimals, at |-> at]

NoPrice == Answer(FALSE, 0, 0, 0)

Prices ==
  {Answer(TRUE, 3, 0, 0), Answer(TRUE, 25, 1, 1), Answer(TRUE, 0, 0, 1), NoPrice}

Arguments(auctions, prices, amounts, parts, bonds, tiers, records) ==
  [auction: auctions, pays: prices, gets: prices, amount: amounts, parts: parts,
   bond: bonds, tier: tiers, record: records]

Filled(completed, failed, volume) ==
  [fills_completed |-> completed, fills_failed |-> failed, total_volume |-> volume]

Records == {Filled(c, f, v) : c \in 0..4, f \in 0..3, v \in {0, 2, 7, 40}}

SomeQuotes ==
  Arguments(Auctions, Prices, {7}, {3}, {9}, {1}, {Filled(0, 0, 0)})
    \cup Arguments({Falling}, {NoPrice}, {-11, 0, 7, 25}, {0, 3, 5, 10}, {0, 9, 40}, {0, 1, 3},
                   {Filled(0, 0, 0)})
    \cup Arguments({Falling}, {NoPrice}, {7}, {3}, {9}, {1}, Records)

Extending(fills, score, percent) == [fills |-> fills, score |-> score, percent |-> percent]

Extensions == <<Extending(4, 9, 150), Extending(2, 7, 130), Extending(1, 5, 110)>>

Bonuses == <<0, 1, 2, 5>>
Rates == <<2, 2, 1>>

-----------------------------------------------------------------------------
DelaysInit ==
  /\ part \in {"timelock", "admin", "solvers", "roles", "directory", "periphery", "prices"}
  /\ Init /\ AdminInit /\ RolesInit /\ DirectoryInit /\ PeripheryInit /\ PricingInit
  /\ part = "periphery" \/ speaking = Cores
  /\ part = "prices" \/ quote = CHOOSE q \in Quotes : TRUE

TimelockPart ==
  /\ part = "timelock"
  /\ Next
  /\ UNCHANGED <<ledger_time, adminVars, rolesVars, directoryVars, peripheryVars, quote>>

AdminPart ==
  /\ part = "admin"
  /\ AdminNext
  /\ UNCHANGED <<vars, rolesVars, directoryVars, peripheryVars, quote>>

\* The list of solvers is kept by the same code as that of tokens.
SolversPart ==
  /\ part = "solvers"
  /\ ListNext
  /\ UNCHANGED <<vars, ledger_time, office, allowVars, pending, rolesVars, directoryVars,
                 peripheryVars, quote>>

RolesPart ==
  /\ part = "roles"
  /\ RolesNext
  /\ UNCHANGED <<vars, adminVars, directoryVars, peripheryVars, quote>>

DirectoryPart ==
  /\ part = "directory"
  /\ DirectoryNext
  /\ UNCHANGED <<vars, ledger_time, adminVars, rolesVars, peripheryVars, quote>>

PeripheryPart ==
  /\ part = "periphery"
  /\ PeripheryNext
  /\ UNCHANGED <<vars, ledger_time, adminVars, rolesVars, directoryVars, quote>>

PricesPart ==
  /\ part = "prices"
  /\ PricingNext
  /\ UNCHANGED <<vars, adminVars, rolesVars, directoryVars, peripheryVars>>

DelaysNext ==
  /\ UNCHANGED part
  /\ TimelockPart \/ AdminPart \/ SolversPart \/ RolesPart \/ DirectoryPart
       \/ PeripheryPart \/ PricesPart

DelaysSpec ==
  DelaysInit
    /\ [][DelaysNext]_<<part, vars, ledger_time, adminVars, rolesVars, directoryVars,
                        peripheryVars, quote>>

\* "List every dst_token currently present in the allowlist", and "Enumerate registered
\* solver addresses": each of the two enumerations shows its set.
ListsShowTheirSets ==
  /\ part = "admin" => ListedByPage = allowed_dst
  /\ part = "solvers" => Listed = DOMAIN index
=============================================================================
