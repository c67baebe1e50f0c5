# Massbit verification chain: TLA+ models, checks and proofs

This directory specifies the pallets of the Massbit verification chain in TLA+,
model-checks them with TLC on small instances and proves their safety properties
and refinements with TLAPS for every value of the parameters. Source paths below
are relative to the repository; `mod.rs` is
`pallets/dapi-staking/src/pallet/mod.rs`, `lib.rs` is
`pallets/dapi-staking/src/lib.rs`, `dapi` is `pallets/dapi/src/lib.rs`.

## 1. Inventory

The repository is a Substrate chain (polkadot-v0.9.17): four pallets, a runtime
that wires three of them together and a node that runs it. A runtime is
sequential: a block runs the `on_initialize` hooks, the timestamp inherent, then
the calls ("dispatchables") one after another. What makes it hard is not
threads. Any account may issue any call in any order between any two blocks,
eras pass (or are forced) in between, a record of one era is read and rewritten
many eras later, and a call that fails half-way keeps its writes: dispatchables
of this runtime are not transactional.

| component | state | operations | correct when |
|---|---|---|---|
| **dapi-staking, staker history** (`lib.rs` `StakerInfo`) | per (staker, provider) a vector of `<era, staked>`, one per change, from the oldest unclaimed era on | `stake`, `unstake`, `claim`, `latest_staked_value` | the vector stands for a full table of unclaimed stakes; each era is paid once, in order, with its own stake |
| **dapi-staking, the pallet** (`mod.rs`) | `Ledger` (locked, unbonding chunks), `GeneralStakerInfo`, `RegisteredProviders`, `ProviderEraStake`, `GeneralEraInfo`, `CurrentEra`, `ForceEra`, `BlockRewardAccumulator`, and the pallet's account | `stake`, `unstake`, `withdraw_unstaked`, `claim_staker`, `claim_operator`, `withdraw_from_unregistered_staker`, `withdraw_from_unregistered_operator`, `force_new_era`, hook `on_initialize`, `rewards`, and for pallet dapi `register`, `unregister` | ledger, stakes and totals agree; locked funds exist and leave only after unbonding; each era's rewards are paid once and within what was set aside; deposits come back |
| **dapi** (`dapi`, `types.rs`) | `Projects`, `Providers`, `Regulators`, `ChainIds` | `register_project`, `deposit_project`, `submit_project_usage`, `register_provider`, `deposit_provider`, `unregister_provider`, `report_provider_offence`, `add_regulator`, `remove_regulator`, `add_chain_id`, `remove_chain_id` | usage within paid quota; the two pallets do not contradict each other on a provider |
| **block-reward** | `RewardDistributionConfig` | `set_configuration`, `on_timestamp_set` | nothing is issued beyond the block's reward, little is lost to rounding |
| **validator-set** | `Invulnerables`, `Candidates`, `LastAuthoredBlock`, `DesiredCandidates`, `CandidacyBond` | `set_invulnerables`, `register_as_candidate`, `note_author`, `new_session` | no candidate twice (`set_invulnerables` may still name one), exactly the candidates are locked, a kick leaves `MinCandidates` and comes only after a turn, but comes in the end. Not part of the runtime at this commit |
| **runtime** | none of its own | wiring: block rewards and project payments both end in `dapi_staking::rewards`; validators get nothing | |
| **node, weights, benchmarks, mocks** | none that a property is about | | |

Interactions: `dapi::deposit_provider` calls `dapi_staking::register`, which
reserves the deposit, inserts the provider and then calls `stake`;
`unregister_provider` and `report_provider_offence` call `unregister`;
`register_project` and `deposit_project` withdraw a payment that the runtime
hands to `rewards`; block-reward hands over its share of every block. All of
them share `pallet_balances`: free balance, reserve and lock of an account.

Hard behaviours: histories with gaps and unstaked periods claimed late; an
unregistration between a stake and its claims; the partial failure of
`register`; forced eras; totals that are copied from era to era; two rounded
divisions per payment; limits on chunks, values and stakers; the two unbonding
rules that differ by one era. `PROJECT.json` lists them under `hazards` with
their lines and the properties that watch them.

## 2. Modules

| module | models | remarks |
|---|---|---|
| `StakerInfo` | `lib.rs` 110-293 | the methods as operators on the vector; no state |
| `StakeClaims` | (abstract) | what the pallet promises one staker of one provider: a table with a cell per era |
| `StakerHistory` | the vector under all calls that touch it | refines `StakeClaims` |
| `Sums` | (helper) | the sum of the amounts kept in a map |
| `Perbill`, `Balances` | `sp_arithmetic::Perbill`, `pallet_balances` | external; only what the pallets use |
| `DapiStaking` | `mod.rs`, the rest of `lib.rs` | one action per dispatchable, hook and trait function |
| `RewardPool` | (abstract) | what the pallet promises about money: two funds per era, set aside for good when the era ends, each claim paid once and out of them |
| `StakingRefinements` | | what `DapiStaking` implements: `StakerHistory` for every pairing, `RewardPool` for all of them |
| `Dapi` | `dapi`, `types.rs` | extends `DapiStaking`; the only way to `register` and `unregister` |
| `BlockReward` | `pallets/block-reward/src/lib.rs` | the configuration and the split of each block's issuance |
| `Blocks` | `runtime/local/src/lib.rs` | composes `DapiStaking` and `BlockReward` by the phases of a block: `BeginBlock` (hooks), `OnTimestampSet` (inherent), then calls, under the configuration of the genesis; fairness |
| `Runtime` | `runtime/local/src/lib.rs` | composes `Dapi` and `Blocks`, and adds `set_configuration`: the whole chain |
| `ValidatorSet` | `pallets/validator-set/src/lib.rs` | candidates and sessions; on its own, as the runtime does not include the pallet |
| `MC*` | | instances for TLC |
| `StakingLemmas` | | lemmas about the methods of `StakerInfo` and about sums |
| `StakerHistoryProofs` | | theorems about `StakerHistory` |
| `DapiStakingProofs`, `StakingBooksProofs`, `StakingErasProofs`, `StakingRewardsProofs` | | theorems about `DapiStaking`; each extends the one before |
| `RuntimeProofs` | | theorems about `Blocks`, `Dapi`, `BlockReward` and `Runtime`, on top of those |
| `ValidatorSetProofs` | | theorems about `ValidatorSet` |

How state and actions correspond to the code:

* A storage map is a function on the keys present (`Get`, `Insert`); a value
  that the code removes when empty (`Ledger`, `GeneralStakerInfo`) is its
  default. The unlocking chunks, a vector sorted by era with distinct eras, are a
  function from era to amount.
* `now` is the block number modulo `BlockPerEra`, all the hook looks at. The
  calls need `InBlock`: they run after the `on_initialize` of block 1.
* An action's conjuncts are the `ensure!`s of the call, in order, then its
  writes. A call that fails changes nothing and is no action, with one
  exception: `register` fails after writes when its `stake` fails, and
  `RegisterStakeFails` is that outcome.
* `pallet_utility::batch_all` (runtime) rolls back what its calls wrote when one
  of them fails; a `deposit_provider` in such a batch that fails is no step.
* `receipts` (DapiStaking), `payout` (StakerHistory) and `paid` (Dapi) are
  history variables; no guard reads them. A receipt is written for every claim
  that succeeds, also when rounding makes its amount zero.
* `SpendElsewhere` stands for the rest of the chain: an account may pay fees or
  transfers out of what is not locked.
* `add_regulator`, `remove_regulator`, `add_chain_id` and `remove_chain_id`
  compute `ensure_root(origin)` and discard the result (dapi:366, 384, 399,
  420), so the origin is no guard of their actions.
* Amounts are natural numbers. Balances are u128 bounded by the issuance and
  era numbers u32 that grow by one per 200 blocks: neither overflows. The
  saturating subtractions are modelled as such. `Perbill` has `Accuracy` parts
  (10^9 in the code, 10 or 20 in the runs, which makes rounding coarser, not
  finer). `from_rational` first divides both numbers by `Factor`, the total over
  the accuracy rounded up, and drops the remainders, so that every stake in the
  runtime (at least 10^19) is cut before it is divided; the model does the same.
* What a call is given is taken from sets of amounts, one for each kind of call
  (`StakeAmounts`, `UnstakeAmounts`, `DepositAmounts`, ...).

Each module also holds operators marked "Slip": a plausible mistake in the
definition that follows. They are used by no specification. Replacing the
definition by its slip must make TLC report the property it is paired with
(`mutants` in `PROJECT.json`).

## 3. Runs

| run | instance | what it shows |
|---|---|---|
| `staker_history` | one pairing, 6 eras, up to 4 values, stakes up to 4, minimum 2 | `NeverAheadOfEra`, refinement of the table (`ImplementsTable`), `PaidErasGone` (no era can be paid again); `ClaimsAndWithdrawalsSucceed`: unless an unstaked value leads the vector, every ended era gets claimed and the stake on an unregistered provider comes back |
| `staker_history_stuck` | 5 eras, minimum 1 | *violation* of `EveryEraClaimed`, finding 1 |
| `staking_ledger` | 2 accounts, 1 provider, 3 eras of 2 blocks | `LocksBacked`, `DepositsReserved`, `EraTotalsMatchStakes`, `ProviderTotalsMatchStakes`, `StakeHeldThroughUnbonding` |
| `staking_providers` | 1 account, 2 providers, 3 eras, stakes of 2 and 3, unstaking of 2 (or of all, when less than 2 would stay) | `LedgerMatchesStakes` with chunks that merge, `NoInternalError`, and `PairingsFollowHistory`: every step of the pallet is, for each pairing, a step of `StakerHistory` or none, so that its refinement of the table and its theorems hold in the pallet |
| `staking_shares` | 2 accounts, 2 providers, 3 eras, stakes of 13 and more with 20 parts per Perbill, rewards of 9 | `SharesWithinTotals`, `PayoutsWithinRewards`, with rounding that goes both ways, and `ReceiptsAreFairShares`: however late it is claimed, a reward is the share the stake had in its own era, up to the rounding of one (operator) or two (staker) divisions. Two stakes are more than the accuracy, so totals are cut; stakes grow while earlier eras are unclaimed, by new funds and by rewards staked again; in the third era, records of the second are claimed that only the rotation wrote. Unstaking is left to the other runs of the pallet |
| `staking_rewards` | 2 accounts, 1 provider, 3 eras, existential deposit 3, rewards of 4 that do not come with every block | `NoDoublePayment`, and the refinement of the pool (`ImplementsPool`), also when the pallet's account dies with what is left in it |
| `staking_live` (`Blocks`) | 1 account, 1 provider, 4 eras of 2 blocks, unbonding period 1, existential deposit 3, issuance of 9 per block | `PotNeverDies`: as long as a block's income covers the existential deposit and a unit for each claim paid so far (`IncomeKeepsPotAlive`), paying with `AllowDeath` burns nothing, since the income comes before the block's calls and cannot be claimed in its era. Under fairness `UnbondingCompletes` (a chunk that unlocks in an era still to come is gone in the end), `DepositReturns`, and `RewardsPaid`: for each provider, every ended era is paid in full, to the stakers for all that was at stake in it and to the operator, across unstaking, unregistration and withdrawal; the pot is never short of it |
| `staking_effect`, `staking_unstake` | as `staking_ledger` | *violations*, findings 2 and 3 |
| `runtime` | 2 accounts, 1 provider, 1 project, 2 eras of 2 blocks, issuance of 3 per block, existential deposit 2, spending of 4 | across the three pallets, with block rewards split by a configuration that changes: `IssuanceDistributed`, `UsageWithinPayments`, `PalletsAgree`; `TokensConserved`: a step loses nothing but what is spent elsewhere and dust where it leaves the pot or an account empty; `PotKeepsAll`: none of it from the pot while the rewards of the era so far cover the deposit and a unit per paid claim |
| `validator_set` | 3 accounts, at most 2 and at least 1 candidates, sessions of 2 blocks, threshold 4 | `CandidatesInStep`, `MinimumKept`, `TurnBeforeKick`, and `IdleCandidatesLeave` under fairness |
| `dapi_retry` | 2 accounts, 2 providers | *violation*, finding 4 |

Why the bounds are enough. The vector of a pairing only compares neighbouring eras
with differences of one or more, so six eras contain every pattern of gap, change
and unstaked period, and the limit `MaxEraStakeValues` is reached. In the pallet,
three eras with an unbonding period of one are: stake, unstake or unregister,
withdraw. `Blocks` has four, with the same period: a chunk waits for its era, and
a staker with an unclaimed era could withdraw from the unregistered provider,
which `RewardsPaid` is about. Two accounts are needed for totals, shares and a
second deposit, two providers for the sum over providers in a ledger and in an
era. Balances are chosen so that a stake is sometimes cut to what is available and
sometimes fails after `register` has reserved the deposit. In `runtime` the
issuance of 3 is odd, so that halves of it round, and rewards come from
`OnTimestampSet` and payments only; with the configuration that leaves the
providers a half, the income of a block is below the existential deposit of 2, and
a claim that leaves less than that in the pot burns it. In `validator_set` the
threshold is two sessions, the smallest for which `TurnBeforeKick` holds, and
three accounts let both candidates be stale at once; the distance to the last
authored block is capped at the threshold, so the state space is finite without a
bound on blocks. `MaxEra` bounds the counter; `MaxEraReward` the rewards of one
era; both are guards named in the modules; in `Blocks` the second is what two
blocks bring and never binds. The issuance of 9 covers the existential deposit of
3 and the rounding of six claims, all that four eras of `Blocks` bring, so that
the proviso of `PotNeverDies` and `RewardsPaid` is always met; the deposit is
above what some payments would leave if a block's income came after its calls. In
the runtime a block brings 2.664 * 10^18 units and the existential deposit is 500,
which leaves room for as many paid claims. Runs with `BlockPerEra = 1` get their
eras from `force_new_era` only (the hook compares `now % 1` with 1, as the code
does). Symmetry is used where no account and no provider is distinguished and no
liveness is checked. `StakerHistory` runs without the deadlock check: at the bound
on eras, with the provider unregistered and everything claimed, nothing is left to
do.

Fairness. `WF` of `BeginBlock`, `OnTimestampSet` (`Blocks`, as one) and `NextEra`
(`StakerHistory`): the chain produces blocks, each with its timestamp inherent. In
`StakerHistory`, `WF` of `Claim` and `Withdraw`: the owner of the funds keeps
asking for them, and each call, once its guard holds, keeps being accepted until
something is withdrawn. In `Blocks` the calls that ask for what is due
(`ClaimStaker`, `ClaimOperator`, `WithdrawUnstaked`,
`WithdrawFromUnregisteredOperator`) have one `SF` together (`AskForDue`): between
the calls of two blocks the chain is in the phases of the next block, where no
call is enabled, so a call is asked for in block after block and not continuously.
It is enough that some call that asks is accepted again and again, whichever it
is; that each is served follows, as each can be accepted only so often. Nothing
else is fair: nobody has to stake, unstake or unregister. `WF(Produce)` in
`ValidatorSet`: blocks are produced and sessions change, but no particular
validator has to author. The liveness properties that reach the bound on eras say
so (`closed + UnbondingPeriod < MaxEra`).

## 4. Findings

1. `staker_history_stuck`. `claim` and `unstake` remove one leading unstaked
   value (lib.rs:231, 277), but there can be two in a row after an unstake, a
   claim and another unstake, or an unstake to zero followed by a new stake in a
   later era. The documentation (lib.rs:258) says the `0` period is discarded.
   While it leads the vector `claim_staker` fails with `NotStakedProvider`; a
   later `unstake` drops one such value, so that a staker who knows can get out of
   it, but after an unregistration `unstake` is refused and
   `withdraw_from_unregistered_staker` fails with `UnclaimedRewardsRemaining`.
   `ClaimsAndWithdrawalsSucceed` shows that the vector has no other obstacle. The
   other one a claim can meet, a pot that is short of it, is not in
   `StakerHistory`; `RewardsPaid` is about it.
2. `staking_effect`. A stake counts in the era it is made in; mod.rs:373 says
   from the next era on.
3. `staking_unstake`. `unstake` fails on an unregistered provider (mod.rs:457);
   lib.rs:36 says it is still possible. The way out is
   `withdraw_from_unregistered_staker`.
4. `dapi_retry`. After a `deposit_provider` whose stake failed, the provider is
   registered in dapi-staking and still `Registered` in dapi: the retry is
   refused with `AlreadyRegisteredProvider` ("by other account", mod.rs:237),
   and `unregister_provider` needs `Active`, so the deposit stays reserved.

Also seen while modelling: the head start of a new candidate in validator-set
(the comment at lib.rs:253 says it is there "to handle session delay") is
overwritten when the account, registering while it is still a validator of the
session, authors another block. With a threshold below two sessions it can then
be kicked before it is a validator as a candidate; `TurnBeforeKick` holds from
two sessions on. And the documentation of `MaxEraStakeValues`
(mod.rs:92-94) says a claim drops at most one value; it may drop two, when the
value after the head is unstaked (lib.rs:273 and 278). The documentation of
`MaxUnlockingChunks` (mod.rs:82) speaks of chunks per pairing; they are counted
per account. That of `force_new_era` (mod.rs:655) says the new era starts at the
end of the next block; it starts at its beginning. Rewards of an era in which
nothing is staked, and the share of a provider's stake after its unregistration,
stay in the pallet's account: no call can claim them, and `RewardPool` promises
them to no one.

## 5. Proofs

Every safety invariant, action property and refinement that a passing run checks
is also a theorem, for every value of the constants that meets the named
assumptions (`StakerHistoryAssumption`, `DapiStakingAssumption`,
`AccuracyAssumption`, `ExistentialDepositAssumption`, `BlockRewardAssumption`,
`DapiAssumption`, `ValidatorSetAssumption`): sets of natural amounts, finite sets
of accounts and providers, and `MinimumStakingAmount > 0` (10 MBT in the runtime;
with 0, an unstake down to nothing would not be counted as leaving).

Each inductive invariant below contains the one before it; each proof has one
lemma per action, and lemmas that say what an action does to one part of the
state (`StakeChanges`, `StakeMoved`, `EraBegins`, `PastKept`, `MoneyHandled`) are
shared by all of them.

**`StakingLemmas`** states what each method of `StakerInfo` does to a sorted
vector: its length and domain, that it stays sorted and not ahead of the era, and
which cell of the table (`StakedAt`) it changes. Its second half is about sums.
`Sum` is a fold, which the provers cannot unfold for every set, so `SumIsCells`
identifies the sum of a function with the number of cells under its graph, which
solves the same equation; the finite-set theorems then give `SumRemove`,
`SumUpdate`, `SumInsert`, `SumMonotonic`, and from those `SumAdd`, `SumSwap` (rows
against columns) and the rest. Where an argument goes by induction, it is over
the subsets of a finite set, applied to a set of subsets (`SetInduction`) and not
to a predicate, which the provers could not instantiate.

**`StakerHistoryProofs`**: `TypeCorrect`, `NeverAhead`, `PaidOnce`, `Refinement`.
Invariant: `TypeOK /\ NeverAheadOfEra /\ PaidErasGone`. Sortedness is needed to
know that `StakedAt` is well defined, and `PaidErasGone` (what the vector holds is
later than the last era paid) is what makes payouts increase. The refinement maps
every step to a step of `StakeClaims` or a stutter, with
`owed[e] = StakedAt(stakes, e)` up to the current era.

**`DapiStakingProofs`**: `TypeCorrect`, `LocksAreBacked`,
`InternalErrorsUnreachable`. Invariant
`IInv == TypeOK /\ LocksBacked /\ HistoriesInOrder /\ ErasRecorded`. Locks stay
backed because every decrease of the free balance (reserve, spend) respects the
lock and every increase of the lock comes from `AvailableStakingBalance`; that
`set_lock` ignores zero is harmless, since an old lock is only larger.
`HistoriesInOrder` carries the sortedness of every vector, `ErasRecorded` that
every ended era has its record.

**`StakingBooksProofs`**: `LedgersMatchStakes`, `EraTotalsAreExact`,
`ProviderTotalsAreExact`, `DepositsAreReserved`. Invariant
`BooksInv == IInv /\ Books /\ DepositsReserved`, where `Books` joins the
properties to what makes them inductive: chunks are finite maps of amounts
(`ChunksOK`); eras have records up to the current one (`ErasKnown`), providers from
their registration to their unregistration, and a provider never registered has
neither records nor stakes (`RecordsInRange`), so that a registration starts from
nothing; and the totals of the current era match stakes and locks also while no
block has run (`TotalsMatch`, `RecordsMatch`), which the rotation copies into the
next era.

**`StakingErasProofs`**: `StakesAreHeld`, `SharesAreWithinTotals`. Invariant
`ErasInv == BooksInv /\ StakeHeld /\ PastTotals /\ PastShares`: the properties are
about eras that ended, so the invariant follows each closed era's totals against
what the histories still hold for it.

**`StakingRewardsProofs`**: `ReceiptsAreFair`, `NeverPaidTwice`,
`PayoutsAreWithinRewards`, `PoolImplemented`. Invariants:

* `ClaimsInv`: `ErasInv`, finitely many receipts, each of them `Settled` (for an
  ended era of the provider, gone from its vector or flagged as claimed, with the
  amount of its share, `PaidItsShare`), and `SharesAddUp` (what receipts cover and
  histories still hold of an era is within its total: what a claim takes out of
  one it puts into the other);
* `MoneyInv`: `ClaimsInv`, and the running era has no rewards of its own yet;
* `PoolInv`: `MoneyInv`, one receipt per claim, and the pot is alive or empty.

Both theorems about amounts hold for every accuracy and every stake, also where
`from_rational` cuts its numbers (`Cut(x, q)`: the whole factors of q in x).
Cutting makes a single fraction larger than the exact one, by less than a part in
`Accuracy - 1` each time (`CutRatio`), which is the slack `ReceiptsAreFairShares`
states. The sum over an era has no such slack: whole factors of parts add up to
at most the whole factors of their sum, so the cuts of a provider's stakes are
within the cut of its total and those of the providers' totals within the cut of
the era's (`ClaimsWithinShare`, `CoveredByProviders`), by `SharesAddUp` and
`PastTotals`. A payment less its unit of rounding (`Covered`) is within its cut
share, so the payments of an era, summed over the receipts of each provider, are
within its rewards and a unit per claim, exactly (`ClaimsWithinFund`). For all
eras together the sum over receipts is exchanged with the sum over eras
(`SumSwap`).

**`RuntimeProofs`** has two kinds of results. `RuntimeTypeCorrect`,
`IssuanceIsDistributed`, `PalletsAlwaysAgree` and `UsageIsPaidFor` are about the
other pallets (`RewardInv`: the configuration stays consistent; `DapiInv`: the
two registries do not contradict each other, also after a registration that
failed half-way, which leaves a provider `Registered` in dapi and active in
dapi-staking: finding 4).
`StakingIsSafeInRuntime`, `PoolImplementedInRuntime` and `PairingsFollowInRuntime`
carry what holds of the staking pallet over to the runtime, where its calls are
made by dapi and its income comes from block-reward and payments
(`RuntimeInv == MoneyInv /\ RewardInv /\ DapiInv`, and that the timestamp comes
in a block).

Money across pallets. The runtime's existential deposit is 500 units, a pot left
with less dies, and every call costs a fee. The results hold for any existential
deposit and any spending:

* `PotStaysAlive`: `PotNeverDies`, from `BlocksInv`,
  which adds to `MoneyInv` that in the calls of a block at least the block's
  income is among the rewards of the running era, which nobody can claim;
* `PotIsWhole`: `PotKeepsAll`, and so `[]IncomeCoversPot => []PotMatchesRewards`.
  Here the split of the issuance may change, so the income of a block is not
  enough to go by; `IncomeCoversPot` asks the rewards of the era so far for the
  deposit and a unit per paid claim. What was claimed is within what earlier eras
  set aside, but for those units, so the pot holds the deposit at least, before a
  call and after it (`CallsBurnNothing`); and the income that opens an empty pot is
  no less than the deposit (`TimestampBurnsNothing`);
* `TokensAreConserved`: `TokensConserved`, an exact account of each step. What a
  step issues is the providers' part of the block, and what it loses is spent
  elsewhere or is dust (`Issues`, `Loses`, one lemma per call);
* `NoTokenFromNothing`: tokens are at most the endowment and the providers' part
  of the issuance.

The last two assume `RewardAmounts = {}`: in the runtime `rewards` has no callers
but block-reward and dapi, which the other actions model.

`PairingsFollow`: each step of the pallet is, for each pairing, a step of
`StakerHistory` or none, so the theorems about one vector speak of all of them.
The bound `MaxStake` of a pairing is `AllFunds`, all tokens there can be, so the
invariant (`PairingsInv == PoolInv /\ SupplyInv`) bounds the supply: the endowment
and `MaxEraReward` per era, and a stake is locked, hence within the funds of its
owner.

**`ValidatorSetProofs`**: `TypeCorrect`, `StorageStaysInStep`, `MinimumIsKept`,
`TurnComesBeforeKick`. Invariant
`VInv == TypeOK /\ CandidatesInStep /\ JustRegistered /\ NotActiveYet`: the last
two say how recently a candidate that has not had its turn was seen, according to
how many sessions it has still to wait. `TurnComesBeforeKick` assumes a threshold
of two sessions or more; below, the property is false (section 4). The candidates
left by a kick are `Remaining`, since the provers do not know `SelectSeq`.

Only model-checked: liveness (`ClaimsAndWithdrawalsSucceed`, `UnbondingCompletes`,
`DepositReturns`, `RewardsPaid`, `IdleCandidatesLeave`), as fairness and `ENABLED`
are out of the provers' reach, and the properties of the runs that show a
violation, which are false.

## 6. Not modelled

Events, weights, logging and the encoding of storage; transaction fees (part of
`SpendElsewhere`); dust of stakers' accounts, which the minimum remaining amount
(1 MBT, the existential deposit being 500 units) keeps away from the existential
deposit; `ProviderType` and the reason of an offence, which no call reads; chain
ids that are too long, which are refused before any write; the session keys and
the balance that `register_as_candidate` requires, which other pallets keep; the
node.

## 7. Plan

Done: the staker history with its abstract specification, the staking pallet
with the two it implements, pallet dapi on top of it, block-reward, the blocks
and the runtime that join them, validator-set, and the theorems of section 5,
which cover all safety properties and refinements of the passing runs.

What is left:

1. Corollaries of `PairingsFollow`: the theorems of `StakerHistoryProofs` restated
   for the pallet's `stakerInfo` of every pairing, instead of by way of the
   refinement.
2. Liveness stays with TLC.
