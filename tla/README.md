# Vow protocol: a TLA+ verification project

TLA+ modules for the on-chain program of this repository
(`src/programs/vow/src`, an Anchor program for Solana-compatible ledgers) and for
the one script whose decisions depend on state it read earlier, TLC
runs that check them on small instances, and TLAPS proofs of the main safety
properties for every value of the constants.

Below, paths of source files are relative to `src/programs/vow/src`.

## 1. The system

A wallet locks a stake and receives an *identity* (a `VowState` account). The
stake buys *shares* at a price the program copies from an external SPL stake
pool. While the lock runs the position gains value; `harvest` may turn gains
into a spendable `yield_balance`. After the lock the owner unstakes in two
steps, at least one epoch apart, and the identity becomes dormant; it can be
activated again with a new stake. All lamports lie in one shared *reserve*,
from which a permissionless crank moves them into the pool.

| Part | State | Operations | Interacts with |
|---|---|---|---|
| Identity and staking (`instructions/vow`, `state/vow_state.rs`, `state/unstake_escrow.rs`) | `VowState`, `UnstakeEscrow` per identity | `mint_vow`, `add_stake`, `activate_stake`, `begin_unstake`, `complete_unstake`, `update_yield_mode` | totals of the config, reserve |
| Harvest (`instructions/harvest.rs`) | `accrued_gain`, `last_share_price`, `shares`, `yield_balance` | `settle_idnft` (called by all the others), `harvest` (by anyone) | totals of the config |
| Yield treasury (`instructions/treasury`) | `yield_balance`, `total_yield_claims` | `deposit_yield_balance` (by anyone), `withdraw_yield`, `yield_spend` | reserve, sessions |
| Pool integration (`instructions/pool`) | `current_share_price`, `last_pool_lamports`, reserve, pool tokens | `update_share_price`, `flush_reserve_to_pool`, `withdraw_from_pool` (all by anyone) | external stake pool, escrows |
| Configuration (`instructions/admin`, `state/protocol_config.rs`) | `ProtocolConfig` | `initialize`, `set_admin`, `close_protocol_config`, `set_mint_counter`, `dev_set_share_price`, `dev_fast_unlock` | everything |
| Sessions (`instructions/session`, `state/session_account.rs`) | `SessionAccount` per slot | `create_session`, `revoke_session`, `close_session` | identity, profiles, app registry |
| Authority profiles, app registry | one account each | create, update, close; register, verify, block | sessions |
| Commitment records (`instructions/commitment`) | a record per wallet, one-time gates | `record_commitment`, `record_fulfillment` | identity |
| Outside the program | stake pool, clock and epoch, rent rule; SDK, scripts | | |

What is hard in it:

* every instruction is an atomic transaction, but instructions of many owners,
  depositors and cranks come in any order and share one reserve, one price and
  three running totals, whose subtractions *saturate* and so hide mistakes;
* unstaking takes two transactions in different epochs, and in between anybody
  may harvest, flush the reserve into the pool, or take the reserve for another
  claim;
* the price, the flag `matured` and `last_share_price` are caches;
* every conversion between lamports, shares and pool tokens rounds;
* a session outlives none of the commitments of its identity, yet validity is a
  comparison of two timestamps in seconds, and its limits reset by day number;
* an upgrade closes the config and initializes it again, while identities,
  escrows, records and the reserve stay;
* the reserve must stay rent exempt or empty, a rule of the runtime that no
  line of the program mentions when it pays.

The full list of hazards, each at its line, is in `PROJECT.json`.

## 2. The modules

| Module | Content |
|---|---|
| `ShareMath` | shares and lamports, tiers and locks, saturating subtraction |
| `VowCore` | the state machine: accounts, one action per instruction, the pool and the clock as environment |
| `VowProperties` | invariants, action properties, fairness, liveness |
| `IdentityLifecycle` | what an identity promises, without money: phases, lock, commitments kept |
| `VowLifecycle` | the refinement mapping from the accounts to that lifecycle |
| `VowHistory` | `VowCore` with history variables: the price at which a position was opened, whether it fell since, and one share of rounding for each purchase |
| `VowSessions` | sessions, spending by session keys, authority profiles and the app registry, composed with the whole core |
| `CommitmentRecords` | the record of a wallet and its one-time gates |
| `VowMigration` | the core and the records composed with the life of the config account and the script `advance-mint-counter.ts` |
| `VowDocClaims` | statements of docs and comments the core does not keep |
| `ShareMathProofs` | rounding, saturating subtraction, sums |
| `VowTypeProofs`, `VowSafetyProofs` | types; totals, escrows, locks, payouts |
| `VowPositionProofs`, `VowYieldProofs` | tiers and booked gains; yield and principal, claims and assets |
| `VowLifecycleProofs`, `VowSessionProofs`, `VowMigrationProofs` | the refinement of the lifecycle; sessions; records and migration |
| `MCInstances`, `MCVow`, `MCVowHistory`, `MCSessions`, `MCMigration` | instances for TLC |

**State.** `config` is the `ProtocolConfig` account, `vow[n]` and `escrow[n]`
are the `VowState` and `UnstakeEscrow` accounts of the identity with mint index
`n` (the seed of its address), `idents` the indices whose account exists,
`reserve` the lamports of the reserve, `tokens` the pool tokens it owns, `pool`
the fields of the external pool account the program reads, `now` and `epoch`
the clock. Field names are the code's.

**Actions.** An instruction is one action. A failed `require!`, a failed CPI
or a missing account aborts the transaction, so it is a guard. An early
`return Ok(())` that changes nothing (the cranks of a deployment without a pool,
a flush of an empty reserve) is a stuttering step. `settle_idnft` and the latch
of `matured` are operators on a `VowState`, applied inside the actions that
call them. `initialize` is `Init`: the opening price is the pool's, or
`SHARE_PRECISION` when the pool account was not passed or is not readable.
It may round to zero: `initialize` has no floor, unlike `update_share_price`.
At a price of zero the checked division of a purchase fails (`CanBuyShares`)
and `harvest` burns nothing (`unwrap_or(0)` in `BurnFor`).

**Sessions.** `sessions[n][i]` is the `SessionAccount` of identity `n` in slot
`i`, `session_nonce[n]` the nonce of its `VowState`, `profiles` and `apps` the
accounts of wallets and programs. The core's `Next` runs beside the session
actions, so that stake cycles, harvests and withdrawals interleave with spends.
`YieldSpend` is the whole handler in its order: validity, allowed programs, the
optional registry account, the reset of the day's counters, the three limits,
the payment. A session key is whoever holds it, and the list of allowed
programs is a set (its length is checked as the code checks it). `paid` is a
history variable: the lamports and transactions a session really paid on one
calendar day and in all, and the commitment in which it was created; `issued[n]`
is another, the nonces identity `n` has given to sessions so far. No action
reads them.

**Records and migration.** `records[w]` is the record of a wallet, `committed`
and `fulfilments` the gates. `VowMigration` adds `admin`, `config_live` and
`migrations`. Closing the config zeroes it; while it does not exist only the
clock, the pool and the two record instructions, which do not read it, go on;
`Reinitialize` is `initialize` for the same pool by any admin.
`advance-mint-counter.ts` is a process of its own: it fetches the counter,
counts the `VowState` accounts, and sends `set_mint_counter`, three requests
with the ledger moving on in between; `script` holds what it has read. The
instruction sent by hand is a separate action, with any value. `advanced`
is history: a run of the script came to its end on the present config, and the
identities it counted were numbered from zero without a gap (`gapless`).

Further definitions next to some operators (`PayAmountRoundedUp`,
`RaiseClassKeepingMaturity`, ...) are faulty variants. They are used by the
mutants of `PROJECT.json` only: replacing the operator by the variant makes TLC
report the property the mutant names.

**Environment.** `Tick` and `NextEpoch` are the ledger's clock. `PoolUpdate` is
the pool's own update, once per epoch, with rewards or slashing; deposits and
redemptions need it to have happened in the current epoch. `RentOk` is the
runtime's rule that an account without data holds nothing or at least the rent
exemption. These, and the pool's conversions, are marked external in the map.

**Abstractions.**

* Integers are unbounded. The code computes products in u128 and checks or
  saturates sums; amounts are bounded by the supply of the native token, far
  from the limits of u64, u128 and of the i64 into which a gain is clamped.
* Signers and owners are not compared: an action stands for the call by whoever
  is allowed to make it. Addresses, bumps, events and account sizes are left
  out, and so is the rent the accounts of owners hold.
* A session key is assumed to pay to another account than the reserve. The code
  does not compare them; such a spend would give up the claim and leave the
  lamports in the reserve.
* The script may fail at any time; that `set_mint_counter` refuses it because
  the admin changed is not one of the reasons, as signers are not compared.
  `Reinitialize` keeps the pool, although `initialize` would take another one.
* `total_harvested` is a statistic that nothing reads. The model keeps it as the
  code does, and no property bounds it: in Hybrid mode it counts the odd lamport
  again with the next harvest.
* The pool charges no fees and always has the liquidity for a redemption.
* Constants that are large in the code (precision, tiers, locks, the day) are
  parameters. There are two tiers instead of eight in the instances; the proofs
  are for any number.

**Bounds.** `MaxVows`, `MaxTime`, `MaxEpoch`, `MaxFunds`, `MaxCommitments` and
`MaxHarvested` are guards of the actions that grow what they name.
`BeginUnstake` needs `epoch < MaxEpoch`, so that an epoch is left in which
the claim can be paid; otherwise the end of the bounded time would look like a
stuck unstake. `MaxSessions` (sessions an identity creates), `MaxTxs`
(transactions of a session in one day) and `MaxMigrations` bound the other
modules in the same way.

## 3. The runs

| Run | Instance | Checks |
|---|---|---|
| `identity` | one identity, no pool, prices 1/2, 1 and 3/2, three modes, top-ups across the tier, deposits and withdrawals, two cycles, waived locks | `TypeOK`, `EscrowHoldsPosition`, `FulfilmentLedger`, `MaturedAfterLock`, `TierMatchesStake`, `GainBackedByShares`, `LeaverEarnsDust`, `ImplementsLifecycle` |
| `pool` | two identities in Treasury mode, a pool that opens at 3:2 or with a price that rounds to zero, and gains or loses 2 per epoch | `TypeOK`, `TotalsAgree`, `PayoutCovered`, `ProRataFair` |
| `slashing` | one larger position, Treasury and Hybrid, top-ups, deposits, a pool that gains 4 or loses 2 per epoch | `YieldNotFromPrincipal`, `NoUnbackedClaims` |
| `liveness` | two identities, a pool that gains, stands still or loses; fairness | `UnstakeCompletes` |
| `sessions` | one identity with two commitments, one slot used for up to three sessions, one profile and one program, days of one second, several spends a day, limits given and inherited | `SessionWithinLimits`, `SessionKeysNeverReused`, `SpendsInOwnCommitment`, `ImplementsCore` |
| `migration` | two wallets, two identities, two admins, top-ups across the tier, deposits, one re-initialization, the script and the counter set by hand | `MigrationTypeOK`, `RecordsReflectIdentities`, `TotalsNeverOverstate`, `CounterPastIdentities`, `FulfilmentsEarned`, `IdentityPermanent` |

What they show:

* `TotalsAgree`: the totals of the config are sums over the accounts, in every
  interleaving; the saturating subtractions never saturate.
* `EscrowHoldsPosition`, `FulfilmentLedger`, `ImplementsLifecycle`: the two-step
  unstake is sound. An escrow takes the whole position, nothing is staked into
  an identity that is leaving, each commitment is counted once, and leaving
  happens after the *current* lock only.
* `MaturedAfterLock`: the cached flag never outlives its lock.
* `TierMatchesStake`: top-ups and re-activation keep class and stake together.
* `GainBackedByShares`: `harvest` cannot get stuck in `SharesUnderflow` while
  the identity is not unstaking, however many settlements at rising and falling
  prices came before.
* `LeaverEarnsDust`: `begin_unstake` moves position and yield into the escrow and
  leaves a booked gain behind, which anyone may harvest for an identity that is
  unstaking or dormant. It has no shares to pay with, so a credit is worth less
  than one share.
* `PayoutCovered`, `ProRataFair`: a payout never exceeds the reserve, and in a
  shortage it does not lower what the others get per lamport of claim.
* `NoUnbackedClaims`: with the price unchanged no instruction lets claims grow
  more than assets, up to one rounding.
* `YieldNotFromPrincipal`: as long as the price has not fallen since a position
  was opened, its harvests, in whichever mode, leave the principal in it, up to
  one share for each purchase, which is what `mint` and `add_stake` round down.
* `SessionWithinLimits`: counted by calendar day and not by the counters of the
  account, a session never pays more than its limits, wherever midnight falls.
* `SessionKeysNeverReused`: a new session gets a nonce that no session of the
  identity ever had, also when the earlier ones are closed and forgotten.
* `SpendsInOwnCommitment`: a session of an earlier commitment spends only if it
  was created in the very second of the invalidation.
* `ImplementsCore`: the composition with sessions is an implementation of
  `VowCore`: a spend is a withdrawal of yield (or changes nothing, for an amount
  of zero), everything else stutters. What holds of the core holds with sessions.
* `RecordsReflectIdentities`: a record counts every recorded identity once,
  shows no tier and no fulfilled stake that none of them reached, and its score
  is that of its fields, whatever happens to identities and config meanwhile.
* `FulfilmentsEarned`: the fulfilled stake of a wallet grows by exactly the
  principal of one identity, not counted before, whose lock is over on the clock.
  `record_fulfillment` trusts the cached flag; a top-up that raises the tier and
  restarts the lock has to clear it.
* `IdentityPermanent`: no step, and no mint with a counter that was reset,
  overwrites an identity or takes back a part of its record.
* `TotalsNeverOverstate`: what is left of `TotalsAgree` once the config may be
  initialized again. The totals become too small, never too large.
* `CounterPastIdentities`: after the script has ended, `mint_vow` finds a free
  index, although the script acts on values that may be old. If a counter set
  by hand left a gap in the numbering, the number of accounts is not the
  right counter, and the script may leave it on an existing identity; the
  property speaks of the runs that counted without a gap (`gapless`).
* `UnstakeCompletes`: see fairness below.

**Why the bounds are enough.** A precision of 2 and prices such as 1/2 and 3/2
make each conversion round in both directions. A stake at the ceiling of the
lower tier and a top-up by one XNT cross the tier. Two identities are needed
for a reserve that covers one claim and not the other, and suffice, since a
claim meets the others only through their sum. Two cycles show what survives
from one commitment to the next. Two epochs hold one unstake with a pool update
before and after it. In `sessions` a day is one second, so that spends fall on
both sides of several midnights, and the limits take more than one spend a day,
so that the day's sum counts; one slot that is used three times suffices, since
sessions share nothing but the nonce and the balance of their identity, and a
session that outlives a commitment needs two commitments. In `migration` one
re-initialization with two identities reaches every relation between counter,
totals and accounts, and a stake in the lower tier with a top-up into the next
restarts a lock that was over. Wallets and admins (`migration`) are symmetric: the
specification and the properties compare them for equality only. The proofs have
none of these bounds.

**Fairness** (`FairSpec`). Epochs pass and the pool performs its update in each
(its operators do so; nothing of the pool works otherwise). For a waiting
claim, the owner's client follows the call sequence in the comment of
`withdraw_from_pool.rs`: it refills the reserve when it is short (weak
fairness) and retries `complete_unstake` (strong fairness, because a flush or
another payout may disable it again and again). No fairness is assumed of the
cranks, of `harvest` or of other owners.

**Deadlock** is checked in all runs.

### Where code and documentation differ

Each of these runs checks one documented statement and ends in a counterexample.

| Run | Statement | What the code does |
|---|---|---|
| `rentstuck` | `docs/integration.md:54`, `withdraw_from_pool.rs:19`: the sequence ends with the payout | a payout that leaves lamports below the rent exemption is refused, and so is a further redemption. What is left over comes from the shares of the stake, rounded down (stake 4, claim 3, no redemption at all), or from the redemption, rounded up |
| `forfeited_claim` | the same lines: principal and yield are received | with two claims pending, a claim that the reserve covers is paid pro rata and the rest is dropped |
| `slashed_yield` | `docs/commitment-model.md:74`: "crystallised yield only" | a harvest after a slash erases the loss; the recovery is then credited as yield |
| `unflushed_stake` | `docs/pool-share-model.md:8`: the price is what is owned beyond the claims, per share | the price is the external pool's, also for stake that was not flushed |
| `stale_session` | `README.md:90`: sessions are invalidated automatically by `activate_stake` and `complete_unstake` | a session created in the same second survives both and pays lamports in the next commitment (`>=` in `yield_spend.rs:84`; `close_session.rs:36`, with `<=`, already counts it as invalidated) |
| `migrated_shortage` | `complete_unstake.rs:71`: in a shortage "each unstaker gets their proportional share" | the total is reset with the config while older escrows stay; one claim then takes the whole reserve, the other gets nothing of it and has to wait until the reserve is refilled |

Further statements disagree with the code in a way that a single line or a
short sequence shows; they have no run:

* `docs/pool-share-model.md:38`, a dormant identity "does not accrue yield":
  `harvest` does not look at `active_stake`, and credits a gain worth less than
  one share that `begin_unstake` left behind (`LeaverEarnsDust` is the bound).
* `harvest.rs:123`, the remainder "is credited on the next harvest": in Hybrid
  mode a lone carried lamport is counted as harvested again and carried again.
* `README.md:13` "Each wallet can hold exactly one Vow identity": `mint_vow`
  does not look at the wallet.
* `README.md:276` "`yield_balance` always 0" for Compound:
  `deposit_yield_balance` credits any mode.
* `README.md:261` and `docs/integration.md:124` give the validity of a session
  with `>`, the code has `>=`.
* `docs/integration.md:158`: the allowed programs of a profile are stored, and
  `create_session` does not inherit them.
* `README.md:341`, profiles for the users of an application: `create_session`
  accepts a profile of the owner's own wallet only.
* A profile with `default_expiry_days` of zero gives sessions that expire at
  once, although zero means "no expiry" for a session.
* The registry account of `yield_spend` is optional: `block_app` binds the
  calls that pass it.

`rentstuck` is the run `liveness` for one identity with a rent exemption of two
lamports instead of one: that difference alone decides whether unstaking ends.

## 4. The proofs

All constants are arbitrary, under `PrecisionAssumption`, `TierAssumption`,
`CoreAssumption`, `PoolAssumption`, for sessions `SessionAssumption` and for the
migration `MigrationAssumption` (the types of the arguments). `PoolAssumption` says that a pool without lamports has no tokens
when the program is initialized; nothing is assumed of its price. Every
invariant, action property and refinement that a passing run checks is also
proved, except liveness.

| Theorem | Statement |
|---|---|
| `VowTypeProofs!TypeCorrect` | `Spec => []TypeOK` |
| `VowSafetyProofs!TotalsExact` | `Spec => []TotalsAgree` |
| `VowSafetyProofs!EscrowSound` | `Spec => []EscrowHoldsPosition` |
| `VowSafetyProofs!FulfilmentExact` | `Spec => []FulfilmentLedger` |
| `VowSafetyProofs!LockRespected` | `Spec => []MaturedAfterLock` |
| `VowSafetyProofs!PayoutAlwaysCovered` | `Spec => []PayoutCovered` |
| `VowSafetyProofs!PayoutFair` | `Spec => ProRataFair` |
| `VowPositionProofs!TierExact` | `Spec => []TierMatchesStake` |
| `VowPositionProofs!GainBacked` | `Spec => []GainBackedByShares` |
| `VowPositionProofs!HarvestNeverUnderflows` | `Spec => []HarvestPayable` |
| `VowYieldProofs!YieldIsGain` | `HistorySpec => []YieldNotFromPrincipal` |
| `VowYieldProofs!ClaimsBacked` | `Spec => NoUnbackedClaims` |
| `VowYieldProofs!LeaverGainsDust` | `Spec => LeaverEarnsDust` |
| `VowLifecycleProofs!LifecycleImplemented` | `Spec => ImplementsLifecycle` |
| `VowSessionProofs!SessionsImplementCore` | `SessionSpec => ImplementsCore` |
| `VowSessionProofs!SessionLimitsKept` | `SessionSpec => []SessionWithinLimits` |
| `VowSessionProofs!SessionKeysUnique` | `SessionSpec => SessionKeysNeverReused` |
| `VowSessionProofs!SessionSpendsItsCommitment` | `SessionSpec => SpendsInOwnCommitment` |
| `VowMigrationProofs!MigrationTypes` | `MigrationSpec => []MigrationTypeOK` |
| `VowMigrationProofs!IdentitiesPermanent` | `MigrationSpec => IdentityPermanent` |
| `VowMigrationProofs!TotalsBounded` | `MigrationSpec => []TotalsNeverOverstate` |
| `VowMigrationProofs!RecordsTruthful` | `MigrationSpec => []RecordsReflectIdentities` |
| `VowMigrationProofs!FulfilmentsAreEarned` | `MigrationSpec => FulfilmentsEarned` |
| `VowMigrationProofs!GainBackedThroughMigrations` | `MigrationSpec => []GainBackedByShares` |
| `VowMigrationProofs!CounterAhead` | `MigrationSpec => []CounterPastIdentities` |

*Type correctness* is not inductive: burning pool tokens needs to know that the
reserve owns no more of them than exist. `TypeInv` adds `TokensWithinSupply`.
That the price is positive where the code divides is a guard of a purchase, not
an assumption.

*The ledger.* `LedgerInv` is `TypeInv` with the totals and a predicate
`Sound(n)` on each identity: no escrow and no position without an account, an
escrow only with `matured` and without shares, no shares when dormant,
commitments equal to the fulfilled ones plus the one in progress, and a lock
that is over when `matured` is set. The parts need each other: that
`complete_unstake` counts the commitment needs `matured` in the escrow, that
`activate_stake` drops no shares needs a dormant identity to hold none.
Totals are proved through lemmas on `SumTo` (a changed summand changes the sum
by the difference, a summand is at most the sum); a saturating subtraction is
exact because a summand is at most its sum.

*Payouts.* `PayoutCovered` follows from the totals: an owed amount is at most
the pending total, so its share of the reserve is at most the reserve.
`ProRataFair` is the matching inequality between two reserves, proved from the
rounding lemma of `\div`.

*Positions.* `PositionInv` says of each identity that its class is that of its
principal, at most its best one, and that a booked gain is at most the value of
the shares at the price of the last settlement. It is inductive on top of
`TypeInv`, without the totals, and so is used under a migration too. A harvest
keeps the last part because the shares burned for an amount are worth at most
that amount (`BurnValue`), a top-up because the value of a sum of shares is at
least the sum of the values (`ValueSum`). `HarvestPayable`, that the shares
suffice for whatever part of the gain a harvest moves, follows from it.

*Yield and principal.* `YieldNotFromPrincipal` is not inductive: the position
may be worth its principal and still carry a booked gain that the next harvest
takes out of it. `Covered` counts both: principal *and* booked gain are at most
the value of the shares at the last settlement, plus the dust of the purchases,
and the price is not below that of the settlement. A fall of the price ends
`Covered` for good (`fell`), which is where `slashed_yield` finds its
counterexample. The proof required the property itself to count one share
per purchase: with a dust of one share for the whole position it is false for a
position topped up several times.

*Claims and assets.* `NoUnbackedClaims` compares sums over all positions with
the pool's own conversions. The positions: a step changes one summand
(`LiabilityStep`), and each instruction is an inequality between values of
shares (`PurchaseValue`, `ValueSum`). The pool: after a deposit or a redemption
the tokens that stay are worth no less at the new rate (`RateMono`), and what is
lost is at most the value of one token (`DepositValue`, `RedemptionValue`).
`PriceInv` supplies the divisors: a price of zero only while no identity exists,
and no token of a pool without lamports. The latter survives a redemption
because the last lamport leaves with the last token only.

*Leavers.* `LeaverEarnsDust` follows from `PriceInv`, which contains `LedgerInv`: an identity
that is unstaking or dormant has no shares, so that a harvest that is not refused
burns none, and an amount for which no share is burned is worth less than one.
The price is positive because an identity exists. It is a theorem
of the core only: initialized again at a price of zero, the program burns nothing
for any amount and credits the whole of a gain left behind.

*The lifecycle.* `begin_unstake` trusts the cached flag `matured`, the
abstract `Leave` looks at the clock: the refinement holds because `LedgerInv`
contains `MaturedAfterLock`. `complete_unstake` counts the commitment because an
escrow implies `matured`. The other instructions map to one abstract step or to
none (`Unseen`), identity by identity.

*Sessions.* `SessionsImplementCore` needs `TypeInv` only: a spend is a withdrawal
of yield, and for an amount of zero, which `withdraw_yield` refuses and
`yield_spend` does not, all the accounts of the core stay as they are. With it
the theorems about `Spec` hold of `SessionSpec` too. The limits speak about the
history `paid`, which the code does not have; they are inductive together with
`Mirrors`: the counters of a live session are its history, as of a day that is
not after today, so that both restart with the same spend. Nonces do not come
back because all that were `issued` lie below the next one. `SpendsInOwnCommitment` rests on
`Bound`: a live session was created in the current commitment or no later than
the last invalidation. A step of the core keeps it because it leaves both fields
of an identity alone or invalidates now (`CoreFrame`, one lemma per
instruction); the comparison in `yield_spend` leaves the one second.

*Migration.* After a second `initialize` the totals are no sums and most of
`LedgerInv` is lost. `MigrationInv` keeps what does not speak of totals: types,
`PositionInv`, empty accounts and escrows where there are none (`Clean`), and an
owner for each identity. Each instruction is shown once (`StepOf`) to book
the same numbers in one account and in the total, where the subtraction may
saturate (`Booked`); `TotalsNeverOverstate` follows, because a total that is
at most the sum stays so under such a booking. Records: `RecordInv` adds that a
record that does not exist shows no tier, and uses that the best tier of an
identity only grows. `FulfilmentsEarned` needs that a lock that counts as over is
over (`LocksSurvive`), which a migration keeps because it changes neither the
identities nor the clock, and `GainBackedThroughMigrations` is read off
`PositionInv`. The script: `ScriptSound` says what its two reads are worth
later. The counter it fetched is a lower bound as long as it is the same
config, and a gapless count is either still the set of identities or already
passed by the counter.

*How sums are proved.* `SumTo` is a recursive function with its value at `N`;
facts about it are proved with the least counterexample (`NatMin`), since the
provers cannot use the library's induction theorems with an operator parameter.

**Only model-checked**: liveness (`UnstakeCompletes`), which is out of the
prover's reach. The violated statements of the runs above are counterexamples
and need no proof.

## 5. Not modelled, and the plan

Every instruction of the program is an action of a module, and every module is
checked. Not modelled:

* `compression.rs` and `initialize_tree.rs`: not called;
* events, error codes and account sizes: no state depends on them;
* the methods of the SDK and the other scripts: each sends a single
  instruction, and the next-state relations take every instruction at any time.
  `sdk/src/client.ts` is written for an earlier version of the program;
* tests, examples and the generated interface types;
* `patches/`: vendored third-party crates (hashbrown, indexmap, blake3 and
  others), patched for the build only. They make up most of the Rust lines of
  the repository and carry none of the protocol's logic;
* sessions and migration in one model: the sessions read no total of the config,
  so that what they need of it is that it exists.

Next: what is left of the core's safety theorems to be stated for `MigrationSpec`
(escrows and the record of each identity; booked gains and locks are done), and
the bound on what `CompleteUnstake` can pay when the totals understate.
