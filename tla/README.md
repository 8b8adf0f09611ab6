# Vortex contracts: a verification development

TLA+ models of the Soroban contracts of this repository, the TLC runs that check them on small
instances, and proofs, checked by TLAPS, that hold for every value of the constants.
Every definition is translated from the Rust source; `PROJECT.json` maps each one to the lines it
stands for.

Contents

1. [The system](#1-the-system)
2. [How the code is read](#2-how-the-code-is-read)
3. [The modules](#3-the-modules)
4. [The runs](#4-the-runs)
5. [Fairness](#5-fairness)
6. [What is proved](#6-what-is-proved)
7. [Where the code and its documents disagree](#7-where-the-code-and-its-documents-disagree)
8. [What is not modelled, and the plan](#8-what-is-not-modelled-and-the-plan)

## 1. The system

Users submit intents ("deliver at least so much of a token to me on Stellar"); bonded solvers
accept and fill them; a solver that misses its deadline is slashed; a fill may be held in escrow
and disputed. Around that core stand a panel of arbiters, a governor with a timelock, an insurance
vault, a registry of solvers, and contracts for fees, payments and proofs.

A contract call is atomic: the host runs it to its end or reverts all of it, and a contract is not
entered twice. What is concurrent is the order in which solvers, users, admins, arbiters and
permissionless keepers get their calls in, and the ledger's clock, which moves between any two of
them. The hard behaviours are therefore stale counters, windows that race each other, permissionless
calls that come at the worst moment, partial changes of configuration, and arithmetic at the edges.

### Inventory

| Component | State it keeps | Operations that change it | Talks to | What is hard | What makes it correct |
|---|---|---|---|---|---|
| `intent_settlement` | solver records, bonds per token, intents, `OpenIntents`, `SolverIntents`, `SolverExposure`, `TotalBonded`, `BackstopPool`, cooldowns, pause flag, configuration | register, deregister, withdraw; submit, accept, fill, amend, cancel, batch cancel, expire, extend, slash, close; begin fill, dispute, resolve, release; pause, rescue; outbound intents; administration with 48-hour delays | bond and output tokens, oracle, solver_registry (tier), arbiter (panel), backstop pool | five counters kept beside the records, with saturating decrements; escrow deadlines against disputes and timeouts; re-opened intents; fee-on-transfer tokens | counters agree with records; bonds stay while an intent is held; terms do not change under the holder; the user gets what the record says; ends are final; nothing is stuck |
| its `math.rs`, `oracle.rs` | none | fee and slash curves; a price with an age | | rounding, overflow, staleness | a slash never exceeds the bond |
| `arbiter_panel` | arbiters with bond and `open_votes`, one round per dispute | register, deregister, open_vote, vote, tally | `resolve_dispute` of the settlement; bond token | two windows that do not know each other; locks; division of the slashed bonds | one outcome, by a majority of eligible arbiters; bonds conserved; rounds end |
| `governor` | configuration, checkpoints per account, proposals, votes | initialize, sync_power, propose, cancel, cast_vote, queue, execute, update_config, set_config | bonds of solver_registry; timelock | many transactions in one ledger; bounded history; configuration changed under a running vote | votes counted once with a fixed power; only what was carried is queued, once |
| `timelock` | minimum delay, roles, operations | schedule, schedule_batch, cancel, execute, update_delay, grant_role, revoke_role | any contract | predecessors, expiry, failing and re-entrant calls | runs once, in its window, after its delay and its predecessor |
| `solver_registry` | solver records with tier data, obligations, "recorded" keys, admin and writer hand-over | register, stake, unstake, deregister, record_fill, record_failure, slash, lock_obligation, release_obligation, thresholds, hand-overs | settlement (writer), bond token | the same outcome reported twice; obligations of a solver that left | exactly once per action and intent; bond locked under obligations; floor |
| `backstop_vault` | shares, total assets, cooldowns, emergency queue | deposit, withdraw, process_queued_withdrawal, cover, receive_income, rescue, set_emergency_mode, set_config | settlement, bond token | rounding of shares; losses between two calls; queue without reserved assets | shares worth what they should be; queue paid or carried over |
| `fee_router` | balances, sinks, claimable, pending weights | on_fee_received, distribute, claim, propose_weights, apply_weights | tokens | rounding, a sink that fails | no token that was reported is without somebody to claim it |
| `treasury_streams` | streams, governor hand-over, pause | create, withdraw, cancel, top_up, extend | tokens, timelock or governor | vesting recomputed from changed terms | withdrawn never above vested; cancel splits exactly |
| `proof_registry` | authorised emitters and Axelar sources, proofs, seen messages | set and remove emitters, receive_message, receive_message_axelar | Wormhole core, Axelar gateway | replay, two bridges, age of a proof | one proof per intent, each message used once; what a fill was gated on stays |
| `reputation_badge` | one badge per solver | mint, burn | nothing in the repository calls it | | a badge has one writer |
| `intent_periphery` | settlement address with a two-step change | propose_settlement, accept_settlement; views | settlement | version of the interface | the pointer moves only to the core proposed last |
| `directory` | names to addresses, a list of the names, admin | set, remove, admin hand-over | | a list beside a map | the list names what can be looked up |
| `policy_daily_cap` (example) | volume per user and window | check_intent, set_daily_cap | asked by the settlement at submission | a window that begins anew | no window sees more than its cap |
| `vortex-common` | none | shared types, storage helpers, roundings | | | |

Off chain, and not protocol state: `packages/sdk`, `types`, `indexer`, `monitoring`, `dashboard`,
`scripts`, `tools`, the webhook relay, and the integration tests, which were read for what they say the
contracts do. `spec/vortex.qnt` is the repository's own Quint specification; its statements were
compared with the code, its definitions are not reused.

How they interact: the settlement gives each disputed intent to one arbiter address, which may be
the panel; the panel calls back `resolve_dispute`. The governor reads bonds from the registry and
asks the timelock to schedule and execute. The settlement reads tiers from the registry and books a
share of slashes to a pool; at submission it may ask a policy contract, and at a fill it reads the proof
registry. Everything else shares only tokens.

## 2. How the code is read

- `intent_settlement/src/lib.rs` is the result of a merge and does not compile as it stands. Where a
  function appears to be there twice, the complete one is modelled (`begin_fill` with its transfer;
  `cfg` is the loaded configuration; `slash_solver` makes both of its transfers; a doubled
  `require_auth` is one).
- Signatures are guards on who makes a call; a panic or a failed transfer reverts a call, so its
  condition is a guard.
- Amounts are small integers and rates small fractions. Overflow is not modelled: the code bounds
  amounts by `MAX_AMOUNT` and fails on overflow. Saturating subtraction is modelled, because it hides
  mistakes.
- Destination tokens are distinct from bond tokens. The oracle's cross rate is any of a set; the
  runs use one value at a time, and `ExposureCoversHeld` is stated for a rate that does not move and
  minima worth at least nothing; section 7 says what a negative one does.
- Configuration is constant in a behaviour of `Settlement`; `set_config` is an action of `Submissions`,
  where it changes the windows that are written into new intents, and of the governor, whose registry
  and timelock address stay the same.
- A plain transfer of tokens to a contract, which no entry point sees, is left out: it only raises a
  balance.
- An extension always adds the same quantum; a batch of cancels is a set.
- `backstop_vault_share_bps` is 0 in every configuration the entry points can make: `initialize` sets
  it to 0 and `set_config` keeps it. The runs use 0; the model and the proofs allow any share.
- Storage expiry (TTL) and events are left out. Ids and hashes are model values.

## 3. The modules

| Module | Models |
|---|---|
| `Settlement` | `intent_settlement`: 22 operations as actions, properties |
| `IntentLifecycle` | the abstract life of an intent: offered, held by one member within a cap, secured, contested, ended, forgotten |
| `SettlementAccounts` | the sums the contract relies on and never computes |
| `SettlementViews` | the views a solver asks before it calls, against what the calls do |
| `SettlementClaims` | a documented statement the code does not keep |
| `Disputes`, `SettlementDisputes` | what a settlement promises an arbiter about each case; `Settlement` seen as that board |
| `Submissions` | `submit_intent`, its batches, nonces, ids and a user's paged history, out of which `close_intent` takes what it prunes; outbound intents; `set_config` |
| `DailyCap` | `policy_daily_cap`, which `Submissions` asks |
| `SolverBonds` | one solver's bonds in many tokens: record, keys and list |
| `SettlementAdmin` | offices, allowlists and chains changed in two steps with a delay |
| `PagedList` | the paged lists of destination tokens and of solvers |
| `Pricing` | `math.rs`, `oracle.rs`, the roundings of `vortex-common`, scores, tiers and extensions |
| `DelayedChange` | the abstract change by notice, which `SettlementAdmin`, `RegistryRoles` and `Periphery` implement |
| `ArbiterPanel` | `arbiter_panel`, composed with `Disputes` |
| `Governor` | `governor` |
| `DelayedCalls`, `Timelock` | the abstract queue of delayed calls; `timelock` |
| `SolverRegistry`, `RegistryRoles` | `solver_registry`: bonds, tiers, obligations, recorded outcomes; its admin and its writer |
| `BackstopVault` | `backstop_vault`: shares, covers, income, the emergency queue |
| `ProofRegistry` | `proof_registry`, and the settlement's check of a fill against it |
| `TreasuryStreams` | `treasury_streams` |
| `FeeRouter` | `fee_router` |
| `Periphery`, `Directory` | `intent_periphery`'s pointer; `directory` |
| `Lists` | the loop that rebuilds a list without an entry, which `Directory` and `SolverBonds` share |
| `LedgerClock` | the time, for contracts that read nothing else of the ledger |
| `MCSettlement`, `MCPanel`, `MCGovernor`, `MCDelays`, `MCBooks` | small instances for TLC |
| `SettlementProofs`, `SettlementRefinement`, `ArbiterPanelProofs`, `GovernorProofs`, `SolverRegistryProofs` | proofs about the module they are named for |
| `PoolProofs` | proofs about the vault, the router, the streams and the submissions: daily cap and history |
| `ContractProofs` | proofs about the other contracts and about the settlement's lists, administration and arithmetic |
| `Sums` | lemmas about sums over finite sets, the two inductions they rest on, and quotients |

`MCDelays` and `MCBooks` hold several contracts that share nothing but the clock. A behaviour is one
contract's, chosen in the initial state, so their state spaces add up and do not multiply.

### Settlement

State: one variable per storage key (`intent`, `solver`, `bond`, `open_intents`, `solver_intents`,
`exposure`, `total_bonded`, `backstop_pool`, `extended`, the cooldowns), the contract's balances, and
one ghost, `received`, what users got. Actions carry the names of the entry points.
`cancel_intent` and `batch_cancel_intent` are one action, `CancelIntents`, over a set.
`resolve_dispute` is `UpholdDispute` and `DismissDispute`, `release_fill` is `ReleaseUndisputed` and
`ReleaseUnanswered`; the four share `PayOutEscrow`. `RegisterSolver` and `BeginFill` distinguish what
was asked for from what a fee-on-transfer token delivered, as `pull_exact` does.
`slash_solver` pays out twice and counts once, and is modelled so.

Calls only solvers, users, the admin or the arbiter can make stop at `Horizon`, a bound; the clock
and the permissionless calls go on until nothing waits.

`Tombstone` is an id whose record `close_intent` deleted; intent ids contain a nonce, so it is not
used again. A registered solver keeps its record until it deregisters; `solver[s]` of another is the
fresh record that `register_solver` would start.

### The panel and the settlement

`ArbiterPanel` is composed with `Disputes`, a board with one phase per case, not with all of
`Settlement`: what the panel can see and do is raise, ruling, timeout, pruning, and whether it is the
arbiter at all. That the board is what the settlement offers is `ServesDisputes`, checked by TLC in
run Pruning and proved as `ServesThePanel`. The board is an upper bound of the settlement in one
respect: it takes a ruling of every raised case, where the settlement may have to refuse an upheld
one it has no balance to slash for (see `ClaimStuck` in section 7).

The generator that draws a panel may draw any set of the right size. The panel's order matters only
for who gets the dust of a division, so the first winner is any winner. `tally` is `TallyRuling`,
with its call of the settlement, and `TallyNothing`.

### Governor

One ledger holds any number of calls; `now` is the sequence number. A voter's bond in the registry is
any number at the time of `sync_power`. `PowerAt` is the definition of the power at a ledger (the last
checkpoint that is not later), `BinarySearch` the loop of the code; `SearchFindsLatest` says they agree on every
history the contract can produce. The timelock is external: `scheduled` and `performed` count what it
is asked for. `update_config` is left out, because only a proposal on the governor itself could reach
it and `propose` refuses those.

### Timelock

Every handler asks whether the contract's own address has the role, so `roles` is a set of roles, not
a relation. `schedule` is a batch of one. A call to the timelock itself always fails, as contracts are
not entered twice, so such an operation can be scheduled and cancelled but never executed.
`performed` counts how often an operation's calls took effect. `LateNeverRuns` and
`ImplementsDelayedCalls` quantify over delays changed while operations wait.

### Solver registry

The settlement is external and may report, lock and release anything in any order, twice, late, and
for a solver that has left; nothing in the registry relies on more. A report comes from the writer or
the admin, so there is always one who may make it; obligations are the writer's alone, and
`has_writer` says whether there is one. Who they are changes hands in `RegistryRoles`, by two-step
proposals that no other handler reads. A call that would repeat a lock or a release, and returns
early, is a stutter.

`VolumeWord` is the cast to `u64` in `score_of`, modulo `Word`: a large volume wraps, and
`Scorable` is false where the division by zero, or the subtraction below zero, would panic.
`record_failure` and `slash` compute scores too, and need no such guard: the volume is one that
`record_fill` accepted, or none. The proofs carry that as part of the invariant.

### Backstop vault

`total_shares` and `total_assets` begin at the virtual amounts; `balance`, the tokens that are there,
begins at nothing. `withdraw` is `Withdraw` or `QueueWithdrawal`, by the emergency flag.
`ReceiveIncome` is the settlement's transfer and its call, in one transaction. Nothing pays more than
the balance: a transfer that would is a call that reverts, also where the code has capped the amount
by the total assets, which include the virtual ones. `set_emergency_mode` calls `require_admin` with
two arguments, which takes three; it is modelled as its name and its events say.

### Submissions and the policy

An id is the tuple of what the code hashes, so two ids are equal when the hashed data are. A batch is
a sequence, submitted whole or not at all. Formats of addresses are classes: an address has the form of an EVM, a
Solana or another chain. The policy is asked before an intent is stored and counts what it allows; `admitted`
is a ghost log of what it allowed and when. An outbound intent takes a nonce and an id, and nothing
else happens to it: the code neither locks its tokens nor asks its solver for a bond.

`close_intent` is in two modules, by the state it changes: `Settlement` deletes the record and the
solver's entry and says when that may be; `CloseIntent` of `Submissions` leaves the tombstone and
empties the slot in the user's history. It scans the buckets for the slot as the code does, and finds it by
the count of all submissions, emptied or not. There it may come at any time after the submission: an
intent can be cancelled in the ledger it came in, and the retention is the admin's and may be none.

### Bonds in several tokens

The default token's bond is in the record, any other's under its own key, and `bond_tokens` says
which keys there are. `staked` is a ghost: what went in, less what came out. `Settlement` says when
a bond may move, `SolverBonds` where it is stored; a slash here is of any size.

### Administration

The admin's identity changes nothing in a proposal, which outlives the admin who made it, so it is
no guard. All proposals are one set, `pending`, with a key each: an office, a token to add or to
remove, or a chain. `PagedList` is one model of two copies of the code. Its removal
reads at two positions and traps when one is outside its page; `RemovalNeverTraps` says it does not,
for a deregistration that trapped would keep the bond. What does go wrong with the lists is `ClaimList`.

### Prices

A quote is one set of arguments under a running clock. `QuotesSound` has five parts: a falling auction
falls, and the two copies of its curve agree where both are defined; roundings are the
integers they are named for; a cross rate is the ratio rounded down, or par, and an exchange there and back never gains; a higher tier is never slashed
more or given less time; a score is within its parts and follows outcomes.

Decimals are at most `MaxDecimals`, 38 in the code, where one more power of ten leaves an `i128` and the
rate is par. The run has decimals 0 and 1; the theorem is for any `MaxDecimals`. `TablesFavourTiers` says of the
tables what can be read off those in the code: a higher tier has no less bonus and no more slash, the flat slash is
no less than any tier's, and a better row of extensions gives no less time. Nothing in the code checks it, so whoever edits a
table has this to keep.

### Proofs, streams, fees, pointers

The bridges deliver any message of a set any number of times, in any order. A `Vaa` is what the
guardians signed; `receive_message` is given a chain number of its own, and the payload a third. A
proof that came in once is never replaced; `gated` is a ghost of the fills that passed the check.

A stream's refund at cancellation may exceed what is left of it, after an extension, and the model has
those steps: `EscrowExact` then counts that stream with a negative term.

`FeeRouter` has the share of the first sink as the loop has it, which visits that sink first:
`NothingLost` says what remains true (section 7). Transfers to the router are external steps, and reports
are steps of their own, in any order and number, because `on_fee_received` moves nothing and checks no caller;
`unreported` is a ghost: what was transferred, less what was reported.

The cores that `Periphery` points to are external and may be upgraded to another version at any time.

## 4. The runs

Bounds are constants of the configurations. They are chosen for what must be able to meet: two
solvers and one intent give every hand-over; two intents under a cap of one give every contention;
three arbiters, two of them the parties of a case, give a full panel, reduced ones, and a tie; two accounts give
every order of votes.

| Run | Checks | Instance | Distinct states |
|---|---|---|---|
| `Handover` | `UserPaid BondLockedWhileHolding TermsFixedWhileHeld` | 2 solvers, 1 intent, minimum 3 filled by 1 or 3, windows 1 and 2, pause switch, clock to 5: accept, partial fill, slash, second holder, dispute, ruling | 3.6 million |
| `Contention` | `Bookkeeping ImplementsLifecycle ViewsForetell` | 2 solvers, 2 intents, cap 1, batches of 2, output rescued | 1.5 million |
| `Amounts` | `EscrowConserved ExposureCoversHeld` | 1 solver, 2 bond tokens, transfer fees, fees and cross rates that do not divide, negative minima, over-sized fills, rescued bonds | 3.5 million |
| `Pruning` | `EveryIntentPruned ServesDisputes` | 2 solvers, 1 intent, bonds of 3, a re-opened intent open for 2, pause switch, fairness | 0.35 million |
| `Panel` | `OpenVotesExact BondsBacked PanelsMajorityRules OnlyLosersPay RoundsSettle` | 3 arbiters, two of them the parties of one of 2 disputes, bond 3 cut in half, the admin installs the panel at any time and until then rules itself | 0.6 million |
| `Governor` | `SearchFindsLatest TimelockAskedOnce VotesFinal PastPowerKept` | 2 accounts, 1 proposal, bonds 0 and 2, histories of 2 entries (so they overflow), two configurations swapped at any time | 1 million |
| `Delays` | `ImplementsDelayedCalls ImplementsDelayedChanges ImplementsRoleChanges ImplementsTwoSteps RemovalNeverTraps NamesExact QuotesSound` | timelock: 4 operations, a chain of three and one that calls the timelock, delays 0 and 2. Administration: 5 offices, 3 tokens, 1 chain, 2 proposals at once, delay 2, clock to 3; pages of 2 with 3 slots. Roles: 3 holders. 3 names. 2 cores. some 300 quotes | 0.7 million |
| `Books` | `ObligationsExact CountedOnce BondLockedWhileObliged TierFollowsOutcomes AssetsBacked RedeemableAtPar NoDilution EscrowExact NothingLost MessagesUsedOnce ProofsStand BondsFound DailyCapHolds HistoryComplete` | registry: 2 solvers, 2 intents, 3 tiers, a word of 8, so the cast wraps at the second fill. Vault: 2 providers, amounts that do not divide. Streams: 2, schedules with a cliff. Router: 2 sinks in either order, transfers and reports apart. Proofs: 7 signed messages and 3 of Axelar for 2 intents. Bonds: 3 tokens, 2 listed at once. Submissions: 1 user, batches of 2, buckets of 2, 3 nonces, intents pruned from any slot, a window of 2 | 1.4 million |

`Handover`, `Contention`, `Governor` and `Books` use symmetry, and check no liveness. `Governor` has one
proposal because proposals share nothing but checkpoints and the configuration. One user is enough for
`HistoryComplete` because nonces, buckets and policy records are kept by user. Deadlock is not
checked: the models stop at their horizon, and the contracts may be idle for ever.

`ClaimStuck`, `ClaimCanceled`, `ClaimList` and `ClaimStreams` are expected to be violated: see section 7.
`ClaimList` and `ClaimStreams` are the instances of `Delays` and `Books` with one property. Type
correctness, and the invariants that are only parts of a proof, are proved and not run again.

Each property has a mutant, a plausible bug in a mapped definition under which the run must fail.
The mutants stand beside the definitions they change, under a comment that begins with "Mutant".

## 5. Fairness

- `Settlement!FairSpec`: weak fairness of the clock and, for each intent, of the permissionless calls
  (slash, expire, release, close). Ledgers close whatever anyone does, the contract rewards or at
  least allows anyone to make those calls, and the repository ships keepers for them. Weak fairness
  is enough because such a call, once valid, stays valid until it or another changes the intent.
  Nothing is assumed of solvers, users, the admin and the arbiter, nor of the pause switch.
- `ArbiterPanel!FairSpec`: the clock, and `tally`, which anyone may call.

`EveryIntentPruned` has an exception that the code has, `CannotPaySlash`: a slash takes twice as much
from the contract as from the bond, so the balance can fall below the bonds, and an accepted intent
may then wait for a slash that only a new deposit could pay for. Run Pruning reaches such states, and
`ClaimStuck`, the same instance with a longer clock, shows that the intent need never end.

`RoundsSettle` has an exception that the code has: a round whose quorum was overtaken by a timeout or
by another arbiter can never be settled, and its arbiters' bonds stay locked (`Overtaken`).

The governor, the timelock, the registry, the vault and the contracts of `MCBooks` and `MCDelays` promise
no progress of their own: each step is a call that somebody may never make.

## 6. What is proved

Every theorem is of a module's specification, for every value of the constants that the module's assumption allows,
with no bound on the clock, the amounts, or the numbers of solvers, users, arbiters and accounts.
The assumptions say that constants are naturals of the kind the constructor accepts, that sets to be
counted or summed over are finite (solvers and intents, bond tokens, accounts, LPs, streams, sinks), and, for the
panel, that the threshold is more than half of the panel. The caps of a daily policy have a largest one.
The tables of tiers and of extensions favour the higher tier (`TablesFavourTiers`), as the code's do.

**`Sums`** is what the proofs about amounts rest on. `SumFunctionOnSet` of the community modules is defined by
recursion over subsets; `SumsAreDefined` shows that the equation has a solution, by `SubsetInduction`, which comes from the
well-foundedness of the naturals. From that follow the facts that are cited: a sum takes a member more or
less (`SumGrows`, `SumSplits`), changes by what one term changes by (`SumChanges`), moves from one set to another
(`SumMoves`, `SumOfUnion`), grows with its terms (`SumIsMonotone`), is at least each part of it (`SumOfPart`,
`SumCovers`), scales and adds. `NaturalInduction` takes a set for its induction hypothesis, not a predicate, so that it
can be cited; it carries the recursive functions of the models (the rebuilt lists of `Lists`, the batches of
`DailyCap`, the histories and pages of `Submissions`, the powers of ten of `Pricing`). Of quotients it says that they
rise with what is divided and fall with the divisor (`QuotientRises`, `QuotientFalls`, from `QuotientIsMost`), and that the
share of `c` in `c + f` falls with one more of `f` and rises with one more of `c` (`ShareOfWhole`): the provers
take products for what they are only one at a time, so each is named before it is compared.

**`SettlementProofs`**
- `TypeCorrect`: `TypeOK` is inductive. The work is in the slash: `SlashWithinBond` shows it takes
  at least one unit of a bond that is not empty and never more than the bond.
- `BooksExact`: `Bookkeeping`, the conjunction of `ActiveIntentsExact`, `HolderRegistered`,
  `OpenIntentsExact` and `SolverIntentsComplete`, is inductive given `TypeOK`; none of the four is
  alone. `deregister_solver` checks only a counter: that it leaves no held intent behind follows from
  the counter being exact; that decrements do not saturate follows from the holder being counted;
  that `close_intent` may drop a list entry follows from the list's second half. The four theorems
  `ActiveIntentsAreExact`, `HoldersStayRegistered`, `OpenIntentsAreExact`, `SolverIntentsAreComplete`
  are its parts. `CountChange` is the lemma that carries them: a set that gains or loses one
  intent changes its cardinality by one.
- `UsersArePaid`: `UserPaid` is not inductive, because nothing in it says that an intent that has
  not ended owes its user nothing. `Payments` adds that whoever is not released or dismissed is paid
  exactly.
- `EscrowIsConserved`: the escrow is never more than the fills in it put in, and exactly that where the admin
  rescues none of the destination token (`RescuedOutput = {}`). Each step moves one term in or out
  of the sum. With a rescue, which the code allows, the equality is false; the inequality is not.
- `ExposureCovers`: `ExposureCoversHeld`, for an oracle that answers one rate (`OneRate`) and amendments worth at
  least nothing at it. Both are needed: with a rate that moves, what is given back is not what was taken, and
  a negative minimum is taken and never given back (section 7). What is proved (`Covered`) is one sum per solver
  over all intents, of which those it holds are the terms that are not 0.

**`SettlementRefinement`**
- `Implementation`: `Settlement` implements `IntentLifecycle`. An intent's phase is a function of its
  state, its abstract holder is the recorded one while the intent is held, the members are the
  registered solvers. `Leave` and the cap of `Claim` need `Bookkeeping`: the code compares a counter
  where the abstract guard counts intents.
- `TermsStayFixed`, `BondsStayLocked`: the action properties of run Handover. `EndedStaysEnded`: an ended
  intent stays as it ended until it is pruned, and no pruned id comes back.
- `ServesThePanel`: `Settlement` implements `Disputes`.
- `TheViewsForetell`: `ViewsForetell`, step by step: no view sends a solver away from a call that works, and what it
  shows as expired only ends or is given a new deadline.

**`ArbiterPanelProofs`**: the invariant says how an opened round looks (a panel that is not empty and
has no party in it, and a threshold scaled to its size), that a settled quorum was obeyed, that locks
are exact, and that panelists stay; the last two need each other. `ScaledIsMajority` shows that
rounding up keeps a scaled threshold above half for every panel size, and `QuorumsExclude` that two
quorums would then need more votes than there are arbiters: `OnlyOneOutcome`, `MajorityRules`,
`OpenVotesAreExact`, `PanelistsDoStay`. `BondsAreBacked`: what a tally takes from the losers it
gives to the winners to the last unit, the dust to the first of them, so the sum of the bonds is the panel's balance.
`LosersOnlyPay`: an arbiter with less than the full bond sat in a settled round and did not vote with its outcome.

**`GovernorProofs`**: `TypeCorrect`, `OnlyCarriedIsQueued`, `TimelockIsAskedOnce` from an invariant
with `now > 0` (an `eta` is then not 0, which the code reads as "not queued"); `VotesAreFinal`;
`PastPowerIsKept`, by two lemmas: an entry added at the end does not change a past power, and
dropping the oldest leaves it or makes it 0. `SearchIsExact`: the loop of the search is a recursive function of its
bounds; that its equation has a solution is shown by giving one (the bounds clamped around the last entry
that is not later), which in a history in ledger order is what the loop must return. `TalliesAreVotes`: the three counts of
a proposal add up to the powers on record for its voters (`TallyIsVotes`).

**`ContractProofs`**, about the timelock, the administration and the smaller contracts:
- The timelock: `TypeCorrect`, `IsPerformedOnce`, `LateOnesNeverRun`, `DoneIsFinal` (what
  `get_operation_state` shows as done stays done), and `Implementation` of `DelayedCalls`, whose stage of
  an operation is a function of its record and of whether it was performed.
- The periphery: `PointerMovesInTwoSteps`, that it implements `DelayedChange` with no delay.
- The settlement's administration: `SettlementChangesByNotice`, that it implements `DelayedChange`, for any
  parties, tokens and chains. A notice is the proposal under one key; the invariant (`AdminInv`) is that the proposed
  value is one that the key's kind allows, so that two keys never give the same notice, as they would
  if a token's addition and its removal proposed the same thing.
- The registry's roles: `RolesChangeByNotice`, that they implement `DelayedChange`. A proposal is one
  notice, given a whole delay before its `eta`; the invariant is the type of the roles, which the delay's arithmetic needs.
- The proof registry: `MessagesCountOnce` and `ProofsDoStand`, from one invariant (`ProofInv`): what
  fills were gated on has a proof, and no proof is from the future, without which a stale one could
  become fresh.
- The paged lists: `SolverRemovalNeverTraps` and `TokenRemovalNeverTraps`, for any page size. The invariant (`ListInv`)
  says that every place below the count, and every place on record for a member, is inside its page; that an entry stands where its index says is false (`ClaimList`), and removal does not need it.
- The arithmetic: `QuotesAreSound`, for any prices, amounts, records, tables and times. Nothing here changes but the clock, so
  the invariant is the types, and the work is in the operators, a lemma for each of the five parts. `RatesAreFair`: a rate is the largest number `r` with
  `r * b <= a * Parts`, `a` and `b` the two sides brought to the same decimals, and two such facts, one each way, multiply to the
  square of the whole (`ThereAndBack`); what `prices_agree` compares is the same two sides smaller by one factor
  (`SidesCompared`), as exponents of ten add (`TensMultiply`, by induction). `TiersAreFair`: rows are clamped to their
  table the same way by the registry's answer and by the lookup. `ScoresAreFair`: both roundings keep
  the order of the shares, and a record that does no worse earns every row of the extension table that the other does,
  so its first is no later.
- `DirectoryListsItsNames` and `EveryBondIsFound`: a list rebuilt without one entry keeps the others, each once (`Without`, by
  induction over the turns of its loop).

**`SolverRegistryProofs`**: the invariant adds to the types and to `ObligationsExact` that thresholds
increase from tier to tier (`Increasing`), which is what makes tuning one row against its neighbours
enough, and that no record's volume makes its score divide by zero. `TiersAreNested`: whatever the score, a row that is met
makes the rows below it met. `ObligationsAreExact`, `BondsStayLocked`, `TypeCorrect`; `SlashWithinBond`
shows that a slash of a tier's share, of one unit at least, never exceeds the bond. `OutcomesCountOnce`: the counts
of fills and failures are the recorded outcomes, although a record leaves with its solver and the keys stay.
`ScoresComputable`: no reachable record's score divides by zero or subtracts below it, so neither does a call that computes one.
`TiersFollowOutcomes`: one more failure lowers the share of fills and leaves the volume's factor, one more fill raises
both while the volume fits its word, and a product rounded down keeps the order (`ScoreFollows`); a record with no fewer fills and no lower
score meets every row the other meets, and the tier is the highest row met (`HighestTier`). A fill whose volume leaves
the word may lower the tier, and the code lets it.

**`PoolProofs`**, about the contracts that keep an account of amounts:
- The vault: `AssetsAreBacked`, `NobodyDilutes`, `SharesAreRedeemable`, `TypeCorrect`. The invariant says that
  the total of the shares is the sum of what the LPs hold and the virtual ones; without it a provider
  could burn more than the total and the price would divide by zero. `NobodyDilutes` is two facts about `\div`;
  `SharesAreRedeemable` adds up roundings: the worths of the parts are at most the worth of the whole.
- The router: `NoFeeIsLost`, for any sinks and any order of transfers and reports: the first takes all, whatever the
  others are credited.
- The streams: `EscrowIsExact`, over the two stored lists of ids, which pages of any size cut into pieces that
  are put together again (`PagesShowAll`).
- The policy: `TheCapHolds`. `DailyCapHolds` is not inductive. The invariant (`Fits`) says of each user's log that the window on
  record has seen its total, that nothing after it was allowed, and that any period that ends where the window starts and
  is shorter than a day saw one cap at most: a day that reaches into the window is one such period and a part of
  the window. A batch is carried by induction on its checks.
- The histories: `HistoryIsComplete`, for any batches, buckets and pages. The invariant says how the buckets lie (`Layout`:
  every place below the count is in its bucket, the next is the first that is free, later buckets are empty), that the places that were not emptied
  hold the user's ids that were not pruned, in the order of their
  nonces, and that the nonces below the next are those of the ids and of the outbound intents, which no two share.
  `MoreIds` is an induction on the ids of a batch, `PageShows` one on the loop of `list_intents_by_user`: its check
  that a slot exists never fails, and what it skips is what was emptied. `SlotFound` says that the scan of `close_intent`
  reaches every bucket in use and finds the one place of the id, so pruning takes out that place and no other (`ClosedKeeps`).

What stays with TLC is liveness, `EveryIntentPruned` and `RoundsSettle`, which is out of the prover's reach. Every
other property of a passing run is the statement of a theorem.

## 7. Where the code and its documents disagree

Shown by runs:

- `ClaimStuck`: `slash_solver` pays the fee recipient its share and then the whole slash again
  (`lib.rs:4009`, `4026`), while the bond shrinks once. The bond-conservation test
  (`proptest_bond.rs:127`) asserts that the balance is the sum of the bonds; after two slashes the
  contract can be too poor to pay for a third, and the accepted intent that waits for it never ends,
  against LIVE-1 of `docs/formal-spec.md`.
- `ClaimCanceled`: the governor's `execute` does not look at `canceled`, though the comment on
  `cancel` says the timelock may cancel "at any point before execution".
- `ClaimList`: `add_to_dst_token_list` and `add_to_solver_list` append to a page that keeps the
  cleared slots of earlier removals, and record the position as if it did not (`lib.rs:6407`, `6494`).
  After add, remove, add, the entry is one slot beyond its index; `list_solvers` then reads the gap, and a
  later removal clears the wrong slot, so the enumerations miss members or keep former ones, against
  "List every dst_token currently present in the allowlist". Membership itself is kept elsewhere and is right.
- `ClaimStreams`: `extend` lowers what has vested, against "already-vested funds can never be un-vested"
  (`treasury_streams/src/lib.rs:45`). A cancellation after a withdrawal then refunds more than the
  stream has left, out of the escrow of others.

Read, and followed by the models, without a run of their own:

- Deregistering and registering again drops `last_slash_time` (`lib.rs:2838`, `2755`), and with it the
  slash cooldown, which the comment on `ReputationSnapshot` (`lib.rs:1193`) says is carried forward.
- The arbiter's window can pass between the last vote and the tally; the timeout then overtakes a
  quorum. `docs/dispute-resolution-design.md:50` calls the decision enforceable; `RoundsSettle` has
  the exception.
- A checkpoint written after a proposal in the same ledger counts for it; the governor's header says
  power acquired after the snapshot does not. `PastPowerKept` is about ledgers that are over.
- After a loss the vault's shares are worth more, together, than its tokens: the virtual shares bear
  part of the loss in the price and none of it in tokens, so the last to leave cannot. A cover larger
  than the tokens reverts instead of paying what there is. `RedeemableAtPar` states what holds.
- A withdrawal queued in an emergency burns its shares and leaves what it is owed in `TotalAssets`
  (`backstop_vault/src/lib.rs:346`), so the others' shares appreciate without the income that lines 14-15
  name, and lose it again when the queue is paid.
- A queued withdrawal that meets too few assets is paid in part and the rest is forgotten; the queue
  can be paid only while the emergency lasts; `TotalQueued` is never read. `set_config` can shorten a
  running cooldown, at the provider's next significant deposit.
- In the registry a fill is refused, or lowers the score, once the scaled volume passes 2^64.
- `TotalBonded` records what was asked for, not what arrived, and is not reduced by deregistration,
  withdrawal or an upheld dispute; no property is stated of it.
- Exposure is not released by the escrow path, so for minima above nothing it only over-counts, and
  `ExposureCoversHeld` states the direction that holds. `amend_intent` does not look at the sign of the new minimum
  (`lib.rs:3785`): a solver that accepts an intent amended to a negative one has its exposure lowered, and keeps it so when
  the intent goes through the escrow; it may then hold more than its bond covers, against
  `docs/369-backstop-collusion-analysis.md:59`.
- `SolverIntents` keeps intents that ended through the escrow until they are pruned, though
  `get_solver_intents` gives its length as `active_intents`; `SolverIntentsComplete` states what holds.
- `rescue_tokens` excludes the default bond token only, and its comment also excludes output in
  flight. A rescued escrow cannot be released; `EveryIntentPruned` is checked without rescues.
- A fill may deliver less than the minimum of a fee-on-transfer token, as the check is on the amount
  asked for; a dispute that lapses has no resolution on record; an extension counts from the old
  deadline.
- The timelock marks a cancelled operation executed, so its dependants may run ("Predecessor must be
  executed before this operation can run"); `DelayedCalls` calls both settled. An expired operation
  cannot be scheduled again, as its entry is never removed, though `timelock/src/test.rs:529` says it can.
- The governor calls the timelock's `schedule` and `execute` with arguments that the timelock of
  this repository does not take. The two are therefore not composed.
- A proposer's cancel window and the start of a vote follow the current `voting_delay`, the deadline
  the one at creation.

- `distribute` of the fee router gives the first sink "the rounding dust" as the total less what was
  distributed, which is nothing yet, as it comes first: it is booked the whole, and the others their shares on top.
  "The full balance is always conserved" (`fee_router/src/lib.rs:215`) fails for two sinks; nothing is lost, and whoever
  claims last is not paid. No property excludes that too much is credited: it is what the code does.
  `on_fee_received` credits what it is told, though its comment (191) says "the amount it actually received".
- `fill_intent` reads `get_proof`, not `get_fresh_proof` (`lib.rs:6200`), which the proof registry's comment (558)
  says it is intended to call: an old proof gates a fill as well as a new one.
- The periphery checks a core's version when it is proposed and not when it is accepted or after an upgrade.
- `policy_daily_cap` calls its window rolling; it begins with the first intent and does not move, so
  a day can see two caps' worth. `check_intent` counts for any caller. `DailyCapHolds` states what holds.
- `submit_outbound_intent` says "lock Stellar tokens in escrow" (`lib.rs:4915`) and transfers nothing; accepting
  one takes no bond, and nothing ends one.
- The two copies of the auction's curve, `current_min_dst` and `dutch_decay`, disagree when the start is below the
  minimum or the end not after the start. `current_min_dst`, `collect_deposit`, `refund_deposit`, `check_exclusivity` and
  `submit_intent_signed` are called by no handler.
- `is_solver_eligible` and `get_solver_exposure` look at the default token's bond and ignore a lowered multiplier;
  `ViewsForetell` is about bonds in that token at its own minimum. `is_intent_fillable`, which the README and two tests call,
  does not exist.
- `weight_bps` falls back to "the conservative 1.0x weight" (`oracle.rs:54`), which is less than the true one
  for a pair whose rate is above par.
- `compute_reputation_score` documents 9 000 for a perfect record without volume and returns 9 001: the decay it subtracts was rounded
  down first.
- `bps_mul_div_round` to the nearest is off by one for negative amounts.
- `solver_registry` never calls `reputation_badge`, whose header says that it drives it.
- `cancel_pending_fee_recipient` asks for the contract's own signature, which no call can bring.
- `get_operation_state` of the timelock shows an expired operation as done.
- `user_intents_prune` is called by nobody: `close_intent` empties the slot itself, and looks for it in all the
  user's buckets, though its comment (`lib.rs:5495`) says "we scan at most one full bucket of 64 entries".

## 8. What is not modelled, and the plan

Of the settlement: `migrate` and `cancel_pending_fee_recipient`; the discount and referral of a fill's fee; the
auction (`bid_intent`, `settle_bids`), `claim_backstop_compensation` and the exclusive and signed
submissions, which nothing can reach or which end in nothing; the duplicate definitions of lines 7210 to 8204, of which the
first is read. `set_config` under running intents: deadlines are fixed in an intent's record, but fees, caps and the
arbiter's window are read when they are used, and are constant in `Settlement`.

`reputation_badge` is a table whose entries have nothing to do with each other or with anything else.
An upgrade of the settlement replaces its code, after which nothing said here holds; `ExecuteUpgrade` is modelled
as the change of an office by notice.

Off-chain programs (`sdk`, `indexer`, `monitoring`, `dashboard`, the webhook relay, `scripts`, `tools`) hold no protocol
state. The Wormhole core, the Axelar gateway, tokens, oracles and cores other than the one described are external.

What would come next:

1. `set_config` under running intents, as an action of `Settlement` with its proofs.
2. Bonds in two tokens under escrow and slashing: `SolverBonds` as the bond of `Settlement`.
