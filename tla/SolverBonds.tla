---------------------------- MODULE SolverBonds ----------------------------
(***************************************************************************)
(* How intent_settlement stores a solver's bonds in several tokens: the    *)
(* default token's in the record, every other token's under a key of its   *)
(* own that outlives the record unless it is removed, and a list of tokens *)
(* in the record that says which keys there are.  Settlement has the bonds *)
(* themselves, and what they back; here a slash is of any size.            *)
(***************************************************************************)
EXTENDS Lists, FiniteSets, Functions

CONSTANTS
  Bonders,             \* solvers
  Currencies,          \* tokens a bond may be in
  LegacyToken,         \* DataKey::BondToken
  LegacyMin,           \* min_bond of the configuration
  FallbackMin,         \* MIN_BOND
  Minimums,            \* bound: minimums the admin sets
  MaxListed,           \* MAX_BOND_TOKENS
  Stakes,              \* bound: amounts asked for
  TransferCosts,       \* bound: what a token keeps of a transfer
  MaxStake             \* bound: a bond in one token

ASSUME BondsAssumption ==
  /\ LegacyToken \in Currencies /\ Minimums \subseteq Nat \ {0}
  /\ Stakes \subseteq Nat \ {0} /\ TransferCosts \subseteq Nat

VARIABLES
  records,             \* solvers with DataKey::Solver
  legacy_bond,         \* bond_amount of the record
  bond_entries,        \* DataKey::SolverBond(s, t), 0 when absent
  bond_tokens,         \* bond_tokens of the record
  busy_solvers,        \* solvers whose active_intents is not 0
  allowed_bonds,       \* DataKey::AllowedBondToken
  bond_min,            \* DataKey::MinBond(t), 0 when absent
  staked               \* external: what went in for each bond, less what came out

recordVars == <<records, legacy_bond, bond_entries, bond_tokens, staked>>
bondsVars == <<recordVars, busy_solvers, allowed_bonds, bond_min>>

IsBondTokenAllowed(t) == t = LegacyToken \/ t \in allowed_bonds

MinBondForToken(t) ==
  IF t = LegacyToken THEN LegacyMin
  ELSE IF bond_min[t] > 0 THEN bond_min[t] ELSE FallbackMin

GetSolverBondAmount(s, t) == IF t = LegacyToken THEN legacy_bond[s] ELSE bond_entries[s][t]

\* Mutant: a token whose bond is used up stays on the list.
ListedForGood(s, t, amount) ==
  IF amount > 0 /\ t \notin Range(bond_tokens[s]) THEN Append(bond_tokens[s], t)
  ELSE bond_tokens[s]

ListedWith(s, t, amount) ==
  IF amount > 0 /\ t \notin Range(bond_tokens[s]) THEN Append(bond_tokens[s], t)
  ELSE IF amount = 0 THEN Without(bond_tokens[s], t)
  ELSE bond_tokens[s]

\* A write of one bond: the mirror or the key, and the list.
SetSolverBondAmount(s, t, amount) ==
  /\ legacy_bond' = IF t = LegacyToken THEN [legacy_bond EXCEPT ![s] = amount] ELSE legacy_bond
  /\ bond_entries' =
       IF t = LegacyToken THEN bond_entries ELSE [bond_entries EXCEPT ![s][t] = amount]
  /\ bond_tokens' = [bond_tokens EXCEPT ![s] = ListedWith(s, t, amount)]

Moved(s, t, amount) == staked' = [staked EXCEPT ![s][t] = @ + amount]

\* get_solver_bonds, and the refunds of deregister_solver.
GetSolverBonds(s) ==
  IF s \notin records THEN {}
  ELSE {<<t, GetSolverBondAmount(s, t)>> :
          t \in {c \in {LegacyToken} \cup Range(bond_tokens[s]) :
                   GetSolverBondAmount(s, c) > 0}}

-----------------------------------------------------------------------------
\* register_solver and register_solver_with_token.  The bond asked for is written and
\* has to fit; what the token kept is taken off it after the transfer.
RegisterWithToken(s, t, amount, cost) ==
  LET existing == GetSolverBondAmount(s, t) IN
  /\ cost <= amount /\ existing + amount <= MaxStake
  /\ IsBondTokenAllowed(t)
  /\ existing + amount >= MinBondForToken(t)
  /\ existing = 0 => Len(bond_tokens[s]) < MaxListed
  /\ records' = records \cup {s}
  /\ SetSolverBondAmount(s, t, existing + amount - cost)
  /\ Moved(s, t, amount - cost)
  /\ UNCHANGED <<busy_solvers, allowed_bonds, bond_min>>

\* withdraw_bond and withdraw_bond_token.
WithdrawBondToken(s, t, amount) ==
  LET remaining == GetSolverBondAmount(s, t) - amount IN
  /\ s \in records /\ s \notin busy_solvers
  /\ remaining >= 0 /\ remaining >= MinBondForToken(t)
  /\ SetSolverBondAmount(s, t, remaining)
  /\ Moved(s, t, -amount)
  /\ UNCHANGED <<records, busy_solvers, allowed_bonds, bond_min>>

\* A holder is slashed in the token that backs its intent, which it had a bond in when
\* it accepted, and may be free afterwards.
SlashBond(s, t, slash) ==
  /\ s \in busy_solvers /\ slash <= GetSolverBondAmount(s, t)
  /\ SetSolverBondAmount(s, t, GetSolverBondAmount(s, t) - slash)
  /\ Moved(s, t, -slash)
  /\ busy_solvers' \in {busy_solvers, busy_solvers \ {s}}
  /\ UNCHANGED <<records, allowed_bonds, bond_min>>

\* The keys of the tokens paid back are removed, and the record with its list.
Deregister(s) ==
  LET refunds == GetSolverBonds(s)
      refunded == {refund[1] : refund \in refunds}
  IN
  /\ s \in records /\ s \notin busy_solvers
  /\ records' = records \ {s}
  /\ legacy_bond' = [legacy_bond EXCEPT ![s] = 0]
  /\ bond_entries' = [bond_entries EXCEPT
       ![s] = [t \in Currencies |-> IF t \in refunded THEN 0 ELSE @[t]]]
  /\ bond_tokens' = [bond_tokens EXCEPT ![s] = << >>]
  /\ staked' = [staked EXCEPT
       ![s] = [t \in Currencies |-> IF t \in refunded
                                    THEN @[t] - (CHOOSE r \in refunds : r[1] = t)[2]
                                    ELSE @[t]]]
  /\ UNCHANGED <<busy_solvers, allowed_bonds, bond_min>>

\* External to this module: intents are accepted and end, see Settlement.
TakeOn(s) ==
  /\ s \in records
  /\ busy_solvers' = busy_solvers \cup {s}
  /\ UNCHANGED <<recordVars, allowed_bonds, bond_min>>

AddAllowedBondToken(t) ==
  /\ allowed_bonds' = allowed_bonds \cup {t}
  /\ UNCHANGED <<recordVars, busy_solvers, bond_min>>

\* Bonds in the token stay, and can be taken out.
RemoveAllowedBondToken(t) ==
  /\ allowed_bonds' = allowed_bonds \ {t}
  /\ UNCHANGED <<recordVars, busy_solvers, bond_min>>

SetBondTokenMin(t, amount) ==
  /\ bond_min' = [bond_min EXCEPT ![t] = amount]
  /\ UNCHANGED <<recordVars, busy_solvers, allowed_bonds>>

-----------------------------------------------------------------------------
NothingIn == [s \in Bonders |-> [t \in Currencies |-> 0]]

BondsInit ==
  /\ records = {} /\ busy_solvers = {} /\ allowed_bonds = {}
  /\ legacy_bond = [s \in Bonders |-> 0]
  /\ bond_entries = NothingIn /\ staked = NothingIn
  /\ bond_tokens = [s \in Bonders |-> << >>]
  /\ bond_min = [t \in Currencies |-> 0]

BonderCall(s) ==
  \/ Deregister(s)
  \/ TakeOn(s)
  \/ \E t \in Currencies, amount \in Stakes :
       \/ \E cost \in TransferCosts : RegisterWithToken(s, t, amount, cost)
       \/ WithdrawBondToken(s, t, amount)
       \/ SlashBond(s, t, amount)

BondTokenCall(t) ==
  \/ AddAllowedBondToken(t) \/ RemoveAllowedBondToken(t)
  \/ \E amount \in Minimums : SetBondTokenMin(t, amount)

BondsNext == (\E s \in Bonders : BonderCall(s)) \/ \E t \in Currencies : BondTokenCall(t)

BondsSpec == BondsInit /\ [][BondsNext]_bondsVars

-----------------------------------------------------------------------------
(* Properties.                                                             *)

\* Every variable keeps its type.
BondsTypeOK ==
  /\ records \subseteq Bonders /\ busy_solvers \subseteq records
  /\ allowed_bonds \subseteq Currencies
  /\ legacy_bond \in [Bonders -> Nat]
  /\ bond_entries \in [Bonders -> [Currencies -> Nat]]
  /\ bond_tokens \in [Bonders -> Seq(Currencies)]
  /\ bond_min \in [Currencies -> Nat]
  /\ staked \in [Bonders -> [Currencies -> Nat]]

\* The list in the record finds every bond, once, and nothing else: after any deposits,
\* slashes to nothing and withdrawals, leaving pays back all that is left of what went
\* in, and no key is left behind for a later registration to find.
BondsFound ==
  \A s \in Bonders :
    /\ GetSolverBonds(s) = {<<t, staked[s][t]>> : t \in {c \in Currencies : staked[s][c] > 0}}
    /\ \A t \in Currencies : GetSolverBondAmount(s, t) = staked[s][t]
    /\ Len(bond_tokens[s]) = Cardinality({t \in Currencies : staked[s][t] > 0})
=============================================================================
