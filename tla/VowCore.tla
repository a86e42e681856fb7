------------------------------ MODULE VowCore ------------------------------
(***************************************************************************)
(* The core of the vow program: identities, their pool shares and locks,   *)
(* the unstake escrows, the shared reserve, the share price, and the SPL   *)
(* stake pool behind it.                                                   *)
(*                                                                         *)
(* Every instruction is one Solana transaction, hence one atomic action.   *)
(* An instruction whose require! fails changes nothing: its action is      *)
(* disabled.  The ledger executes the transactions of owners, depositors,  *)
(* cranks and the admin in any order, while the clock and the epoch move   *)
(* on by themselves.                                                       *)
(***************************************************************************)
EXTENDS ShareMath

CONSTANTS
    Wallets,         \* wallets that may mint an identity
    NoWallet,        \* owner of an account that does not exist
    PoolConfigured,  \* config.spl_stake_pool # Pubkey::default()
    PoolStart,       \* states the SPL pool may be in at initialize
    Modes,           \* yield modes the owners pick
    StakeAmounts,    \* arguments of mint and activate_stake
    TopUpAmounts,    \* arguments of add_stake
    YieldAmounts,    \* arguments of deposit_yield_balance and withdraw_yield
    DevPrices,       \* arguments of dev_set_share_price
    PoolDeltas,      \* what an epoch may add to (rewards) or take from
                     \* (slashing) the lamports of the pool
    RENT_EXEMPT,     \* Rent::minimum_balance(0)
    DAY,             \* 86_400 in the code
    MaxVows,         \* bound: identities
    MaxTime,         \* bound: clock
    MaxEpoch,        \* bound: epochs; the last one is left to complete unstakes
    MaxFunds,        \* bound: lamports in the reserve and the pool together
    MaxCommitments,  \* bound: stake cycles of one identity
    MaxHarvested     \* bound: the statistics counter total_harvested

ASSUME CoreAssumption ==
    /\ NoWallet \notin Wallets
    /\ PoolConfigured \in BOOLEAN
    /\ Modes \subseteq {"Compound", "Hybrid", "Treasury"}
    /\ StakeAmounts \subseteq Nat
    /\ TopUpAmounts \subseteq Nat
    /\ YieldAmounts \subseteq Nat
    /\ DevPrices \subseteq Nat
    /\ PoolDeltas \subseteq Int
    /\ RENT_EXEMPT \in Nat \ {0}
    /\ DAY \in Nat \ {0}
    /\ MaxVows \in Nat
    /\ MaxTime \in Nat /\ MaxEpoch \in Nat /\ MaxFunds \in Nat
    /\ MaxCommitments \in Nat /\ MaxHarvested \in Nat

(* The pool exists before the program is initialized on it: tokens of it   *)
(* stand for lamports it holds.                                            *)
ASSUME PoolAssumption ==
    PoolStart \subseteq
        {p \in [total_lamports : Nat, pool_token_supply : Nat, last_update_epoch : {0}] :
            p.total_lamports = 0 => p.pool_token_supply = 0}

VARIABLES
    config,   \* the ProtocolConfig account
    idents,   \* the nonces whose VowState account exists
    vow,      \* the VowState of each nonce
    escrow,   \* the UnstakeEscrow of each nonce
    reserve,  \* lamports of the reserve PDA
    tokens,   \* pool tokens (pXNT) owned by the reserve PDA
    pool,     \* the SPL stake pool account, external
    now,      \* Clock::unix_timestamp
    epoch     \* Clock::epoch

vars == <<config, idents, vow, escrow, reserve, tokens, pool, now, epoch>>

(* The account of an identity is found by its mint index.                  *)
Nonces == 0..(MaxVows - 1)
YieldMode == {"Compound", "Hybrid", "Treasury"}

ProtocolConfig ==
    [current_share_price   : Nat,
     total_shares          : Nat,
     total_yield_claims    : Nat,
     last_pool_lamports    : Nat,
     total_minted          : Nat,
     total_pending_unstake : Nat]

VowState ==
    [owner                    : Wallets \cup {NoWallet},
     class                    : Classes,
     principal_lamports       : Nat,
     shares                   : Nat,
     last_share_price         : Nat,
     accrued_gain             : Int,
     yield_mode               : YieldMode,
     yield_balance            : Nat,
     total_harvested          : Nat,
     unlock_at                : Nat,
     matured                  : BOOLEAN,
     sessions_invalidated_at  : Nat,
     active_stake             : BOOLEAN,
     current_stake_started_at : Nat,
     total_commitments        : Nat,
     total_fulfilled          : Nat,
     cumulative_stake_days    : Nat,
     highest_class_ever       : Classes]

UnstakeEscrow == [live : BOOLEAN, lamports_owed : Nat, deactivation_epoch : Nat]

StakePool == [total_lamports : Nat, pool_token_supply : Nat, last_update_epoch : Nat]

(* The fields of an account that has not been created.                     *)
NoVow ==
    [owner |-> NoWallet, class |-> 0, principal_lamports |-> 0, shares |-> 0,
     last_share_price |-> 0, accrued_gain |-> 0, yield_mode |-> "Compound",
     yield_balance |-> 0, total_harvested |-> 0, unlock_at |-> 0,
     matured |-> FALSE, sessions_invalidated_at |-> 0, active_stake |-> FALSE,
     current_stake_started_at |-> 0, total_commitments |-> 0,
     total_fulfilled |-> 0, cumulative_stake_days |-> 0, highest_class_ever |-> 0]

NoEscrow == [live |-> FALSE, lamports_owed |-> 0, deactivation_epoch |-> 0]

(* The runtime refuses a transaction that leaves the reserve, a system     *)
(* account without data, with lamports but below the rent exemption.       *)
RentOk(lamports) == lamports = 0 \/ lamports >= RENT_EXEMPT

(* Model bound: fresh lamports enter only while the total stays small.     *)
FundsBounded(amount) == reserve + pool.total_lamports + amount <= MaxFunds

(* The share price implied by the pool account.                            *)
PoolPrice(p) == (p.total_lamports * SHARE_PRECISION) \div p.pool_token_supply

-----------------------------------------------------------------------------
(* initialize: the opening price is the pool's when the pool account is    *)
(* supplied and readable, and SHARE_PRECISION, unsynced, when it is not.    *)
(* Unlike the price of update_share_price it may be zero.                   *)
Readable(p) == PoolConfigured /\ p.total_lamports > 0 /\ p.pool_token_supply > 0

OpeningConfig(p, readable) ==
    [current_share_price   |-> IF readable THEN PoolPrice(p) ELSE SHARE_PRECISION,
     total_shares          |-> 0,
     total_yield_claims    |-> 0,
     last_pool_lamports    |-> IF readable THEN p.total_lamports ELSE 0,
     total_minted          |-> 0,
     total_pending_unstake |-> 0]

Init ==
    /\ pool \in PoolStart
    /\ \E readable \in BOOLEAN :
         /\ readable => Readable(pool)
         /\ config = OpeningConfig(pool, readable)
    /\ idents = {}
    /\ vow = [n \in Nonces |-> NoVow]
    /\ escrow = [n \in Nonces |-> NoEscrow]
    /\ reserve = 0
    /\ tokens = 0
    /\ now = 1
    /\ epoch = 0

-----------------------------------------------------------------------------
(* settle_idnft: book the change of the position's value since the last    *)
(* settlement.  With equal prices the code returns early, and the booked    *)
(* difference is zero.                                                     *)
settle_without_advance(v) ==
    [v EXCEPT !.accrued_gain = @ + ValueOf(v.shares, config.current_share_price)
                                 - ValueOf(v.shares, v.last_share_price)]

settle_idnft(v) ==
    [v EXCEPT !.accrued_gain = @ + ValueOf(v.shares, config.current_share_price)
                                 - ValueOf(v.shares, v.last_share_price),
              !.last_share_price = config.current_share_price]

(* begin_unstake and harvest latch the end of the lock into `matured'.     *)
Matured(v) == [v EXCEPT !.matured = @ \/ now >= v.unlock_at]

-----------------------------------------------------------------------------
(* Shares are bought with a checked division, which fails at a price of     *)
(* zero.                                                                   *)
CanBuyShares == config.current_share_price > 0

(* mint creates the account of the identity: the index must be unused.      *)
AnyAccount(nonce) == nonce \in Nonces

FreshAccount(nonce) == nonce \in Nonces \ idents

(* mint: a wallet locks a stake and receives the next identity.            *)
Mint(w, stake_lamports, yield_mode) ==
    LET nonce  == config.total_minted
        class  == class_for_stake(stake_lamports)
        shares == SharesFor(stake_lamports, config.current_share_price)
    IN  /\ FreshAccount(nonce)
        /\ MeetsMinimum(stake_lamports)
        /\ PoolConfigured => config.last_pool_lamports > 0
        /\ FundsBounded(stake_lamports)
        /\ RentOk(reserve + stake_lamports)
        /\ CanBuyShares
        /\ reserve' = reserve + stake_lamports
        /\ idents' = idents \cup {nonce}
        /\ vow' = [vow EXCEPT ![nonce] =
                     [owner |-> w, class |-> class,
                      principal_lamports |-> stake_lamports, shares |-> shares,
                      last_share_price |-> config.current_share_price,
                      accrued_gain |-> 0, yield_mode |-> yield_mode,
                      yield_balance |-> 0, total_harvested |-> 0,
                      unlock_at |-> now + lock_duration(class),
                      matured |-> FALSE, sessions_invalidated_at |-> 0,
                      active_stake |-> TRUE, current_stake_started_at |-> now,
                      total_commitments |-> 1, total_fulfilled |-> 0,
                      cumulative_stake_days |-> 0, highest_class_ever |-> class]]
        /\ config' = [config EXCEPT !.total_shares = @ + shares,
                                    !.total_minted = @ + 1]
        /\ UNCHANGED <<escrow, tokens, pool, now, epoch>>

(* add_stake refuses a position whose shares begin_unstake has taken.       *)
CanTopUpWhileUnstaking(v) == v.active_stake

CanTopUp(v) == v.active_stake /\ v.shares > 0

(* A higher tier restarts the lock.                                        *)
RaiseClassKeepingMaturity(v, new_class) ==
    [v EXCEPT !.unlock_at = now + lock_duration(new_class),
              !.class = new_class,
              !.highest_class_ever = Higher(@, new_class)]

RaiseClassForgettingBest(v, new_class) ==
    [v EXCEPT !.unlock_at = now + lock_duration(new_class),
              !.matured = FALSE,
              !.class = new_class]

RaiseClass(v, new_class) ==
    [v EXCEPT !.unlock_at = now + lock_duration(new_class),
              !.matured = FALSE,
              !.class = new_class,
              !.highest_class_ever = Higher(@, new_class)]

(* add_stake: top up an active position at the current price.              *)
AddStake(n, lamports_to_add) ==
    LET v             == settle_idnft(vow[n])
        new_principal == v.principal_lamports + lamports_to_add
        new_class     == class_for_stake(new_principal)
        new_shares    == SharesFor(lamports_to_add, config.current_share_price)
        tiered        == IF new_class > v.class THEN RaiseClass(v, new_class) ELSE v
    IN  /\ lamports_to_add > 0
        /\ CanTopUp(vow[n])
        /\ MeetsMinimum(new_principal)
        /\ FundsBounded(lamports_to_add)
        /\ RentOk(reserve + lamports_to_add)
        /\ CanBuyShares
        /\ reserve' = reserve + lamports_to_add
        /\ vow' = [vow EXCEPT ![n] =
                     [tiered EXCEPT !.principal_lamports = new_principal,
                                    !.shares = @ + new_shares]]
        /\ config' = [config EXCEPT !.total_shares = @ + new_shares]
        /\ UNCHANGED <<idents, escrow, tokens, pool, now, epoch>>

(* activate_stake: a dormant identity commits again, with a fresh position *)
(* and a fresh lock; its reputation and its yield balance are kept.         *)
ActivateStake(n, stake_lamports, yield_mode) ==
    LET v          == settle_idnft(vow[n])
        new_class  == class_for_stake(stake_lamports)
        new_shares == SharesFor(stake_lamports, config.current_share_price)
    IN  /\ ~vow[n].active_stake
        /\ MeetsMinimum(stake_lamports)
        /\ vow[n].total_commitments < MaxCommitments
        /\ FundsBounded(stake_lamports)
        /\ RentOk(reserve + stake_lamports)
        /\ CanBuyShares
        /\ reserve' = reserve + stake_lamports
        /\ vow' = [vow EXCEPT ![n] =
                     [v EXCEPT !.class = new_class,
                               !.principal_lamports = stake_lamports,
                               !.shares = new_shares,
                               !.last_share_price = config.current_share_price,
                               !.accrued_gain = 0,
                               !.yield_mode = yield_mode,
                               !.unlock_at = now + lock_duration(new_class),
                               !.matured = FALSE,
                               !.active_stake = TRUE,
                               !.sessions_invalidated_at = now,
                               !.current_stake_started_at = now,
                               !.total_commitments = @ + 1,
                               !.highest_class_ever = Higher(@, new_class)]]
        /\ config' = [config EXCEPT !.total_shares = SatSub(@, v.shares) + new_shares]
        /\ UNCHANGED <<idents, escrow, tokens, pool, now, epoch>>

-----------------------------------------------------------------------------
(* The totals once the position v has become an escrowed claim.            *)
EscrowedKeepingClaims(v, owed) ==
    [config EXCEPT !.total_shares = SatSub(@, v.shares),
                   !.total_pending_unstake = @ + owed]

Escrowed(v, owed) ==
    [config EXCEPT !.total_shares = SatSub(@, v.shares),
                   !.total_yield_claims = SatSub(@, v.yield_balance),
                   !.total_pending_unstake = @ + owed]

(* begin_unstake: the position and the yield balance become a fixed claim   *)
(* in an escrow account; the identity stays active until the claim is paid. *)
BeginUnstake(n) ==
    LET v    == settle_idnft(Matured(vow[n]))
        owed == ValueOf(v.shares, config.current_share_price) + v.yield_balance
    IN  /\ ~escrow[n].live
        /\ vow[n].active_stake
        /\ v.matured
        /\ epoch < MaxEpoch
        /\ config' = Escrowed(v, owed)
        /\ vow' = [vow EXCEPT ![n] = [v EXCEPT !.shares = 0, !.yield_balance = 0]]
        /\ escrow' = [escrow EXCEPT ![n] = [live               |-> TRUE,
                                            lamports_owed      |-> owed,
                                            deactivation_epoch |-> epoch]]
        /\ UNCHANGED <<idents, reserve, tokens, pool, now, epoch>>

(* What complete_unstake pays: the claim when the reserve covers every      *)
(* pending claim, its share of the reserve otherwise.                       *)
PayAmountInFull(n) == escrow[n].lamports_owed

PayAmountRoundedUp(n) ==
    LET pending == config.total_pending_unstake
    IN  IF pending = 0 \/ reserve >= pending
        THEN escrow[n].lamports_owed
        ELSE (escrow[n].lamports_owed * reserve + pending - 1) \div pending

PayAmount(n) ==
    LET pending == config.total_pending_unstake
    IN  IF pending = 0 \/ reserve >= pending
        THEN escrow[n].lamports_owed
        ELSE (escrow[n].lamports_owed * reserve) \div pending

(* A commitment counts as fulfilled when the lock was over at its unstake.  *)
CountFulfilledByClock(v) ==
    IF now >= v.current_stake_started_at + lock_duration(v.class)
    THEN v.total_fulfilled + 1 ELSE v.total_fulfilled

CountFulfilled(v) == IF v.matured THEN v.total_fulfilled + 1 ELSE v.total_fulfilled

(* complete_unstake: in a later epoch, pay the claim and become dormant.    *)
CompleteUnstake(n) ==
    /\ escrow[n].live
    /\ epoch > escrow[n].deactivation_epoch
    /\ reserve > 0
    /\ PayAmount(n) > 0
    /\ reserve >= PayAmount(n)
    /\ RentOk(reserve - PayAmount(n))
    /\ reserve' = reserve - PayAmount(n)
    /\ config' = [config EXCEPT !.total_pending_unstake =
                                    SatSub(@, escrow[n].lamports_owed)]
    /\ vow' = [vow EXCEPT ![n] =
                 [vow[n] EXCEPT !.cumulative_stake_days =
                                    @ + SatSub(now, vow[n].current_stake_started_at) \div DAY,
                                !.total_fulfilled = CountFulfilled(vow[n]),
                                !.active_stake = FALSE,
                                !.sessions_invalidated_at = now]]
    /\ escrow' = [escrow EXCEPT ![n] = NoEscrow]
    /\ UNCHANGED <<idents, tokens, pool, now, epoch>>

-----------------------------------------------------------------------------
(* update_yield_mode settles the position and then changes the mode.        *)
UpdateYieldMode(n, new_mode) ==
    /\ vow[n].active_stake
    /\ vow[n].yield_mode # new_mode
    /\ vow' = [vow EXCEPT ![n] = [settle_idnft(@) EXCEPT !.yield_mode = new_mode]]
    /\ UNCHANGED <<config, idents, escrow, reserve, tokens, pool, now, epoch>>

(* The part of a positive gain that harvest moves to the yield balance.     *)
TreasuryAmount(v) ==
    CASE v.yield_mode = "Compound" -> 0
      [] v.yield_mode = "Treasury" -> v.accrued_gain
      [] v.yield_mode = "Hybrid"   -> v.accrued_gain \div 2

(* What harvest leaves in accrued_gain: Hybrid carries an odd lamport.      *)
RemainderKeepsGain(v) == v.accrued_gain

Remainder(v) ==
    IF v.yield_mode = "Hybrid" /\ v.accrued_gain > 0 THEN v.accrued_gain % 2 ELSE 0

(* The shares that pay for an amount moved to the yield balance; none when  *)
(* the division fails.                                                      *)
NoBurnFor(amount) == 0

BurnFor(amount) ==
    IF config.current_share_price = 0 THEN 0
    ELSE SharesFor(amount, config.current_share_price)

(* harvest, callable by anyone and in every state of the identity.          *)
Harvest(n) ==
    LET v      == settle_idnft(Matured(vow[n]))
        gain   == IF v.accrued_gain > 0 THEN v.accrued_gain ELSE 0
        amount == IF v.accrued_gain > 0 THEN TreasuryAmount(v) ELSE 0
        burned == BurnFor(amount)
    IN  /\ v.shares >= burned
        /\ v.total_harvested + gain <= MaxHarvested
        /\ vow' = [vow EXCEPT ![n] =
                     [v EXCEPT !.shares = @ - burned,
                               !.yield_balance = @ + amount,
                               !.total_harvested = @ + gain,
                               !.accrued_gain = Remainder(v)]]
        /\ config' = [config EXCEPT !.total_shares = SatSub(@, burned),
                                    !.total_yield_claims = @ + amount]
        /\ UNCHANGED <<idents, escrow, reserve, tokens, pool, now, epoch>>

-----------------------------------------------------------------------------
(* deposit_yield_balance: anyone tops up the yield balance of an identity   *)
(* that is active and has no unstake in progress.                           *)
DepositYieldBalance(n, amount) ==
    /\ amount > 0
    /\ vow[n].active_stake
    /\ ~escrow[n].live
    /\ FundsBounded(amount)
    /\ RentOk(reserve + amount)
    /\ reserve' = reserve + amount
    /\ vow' = [vow EXCEPT ![n].yield_balance = @ + amount]
    /\ config' = [config EXCEPT !.total_yield_claims = @ + amount]
    /\ UNCHANGED <<idents, escrow, tokens, pool, now, epoch>>

(* Pay a part of the yield balance out of the reserve.                      *)
PayYieldUnchecked(n, amount) ==
    /\ amount > 0
    /\ reserve >= amount
    /\ RentOk(reserve - amount)
    /\ reserve' = reserve - amount
    /\ vow' = [vow EXCEPT ![n].yield_balance = @ - amount]
    /\ config' = [config EXCEPT !.total_yield_claims = SatSub(@, amount)]
    /\ UNCHANGED <<idents, escrow, tokens, pool, now, epoch>>

PayYield(n, amount) ==
    /\ amount > 0
    /\ vow[n].yield_balance >= amount
    /\ reserve >= amount
    /\ RentOk(reserve - amount)
    /\ reserve' = reserve - amount
    /\ vow' = [vow EXCEPT ![n].yield_balance = @ - amount]
    /\ config' = [config EXCEPT !.total_yield_claims = SatSub(@, amount)]
    /\ UNCHANGED <<idents, escrow, tokens, pool, now, epoch>>

(* withdraw_yield: the owner takes an amount, or all of it by default.      *)
WithdrawYield(n) ==
    \E amount \in YieldAmounts \cup {vow[n].yield_balance} : PayYield(n, amount)

-----------------------------------------------------------------------------
(* update_share_price: read the price from the pool account.                *)
UpdateSharePrice ==
    /\ PoolConfigured
    /\ config' = [config EXCEPT
                    !.current_share_price =
                        IF pool.pool_token_supply = 0 THEN @
                        ELSE IF PoolPrice(pool) = 0 THEN 1 ELSE PoolPrice(pool),
                    !.last_pool_lamports = pool.total_lamports]
    /\ UNCHANGED <<idents, vow, escrow, reserve, tokens, pool, now, epoch>>

(* The pool takes deposits and withdrawals only after its update of the     *)
(* current epoch.                                                           *)
PoolUpToDate == pool.last_update_epoch = epoch

(* Tokens the pool mints for a deposit: pro rata, one to one when empty.    *)
PoolTokensFor(lamports) ==
    IF pool.pool_token_supply = 0 \/ pool.total_lamports = 0 THEN lamports
    ELSE (lamports * pool.pool_token_supply) \div pool.total_lamports

(* Lamports the pool returns for tokens that are burned.                    *)
PoolLamportsFor(burned) ==
    (burned * pool.total_lamports) \div pool.pool_token_supply

(* flush_reserve_to_pool: deposit all the reserve but the rent exemption.   *)
FlushReserveToPool ==
    LET deposit_amount == reserve - RENT_EXEMPT
        minted         == PoolTokensFor(deposit_amount)
    IN  /\ PoolConfigured
        /\ reserve > RENT_EXEMPT
        /\ PoolUpToDate /\ minted > 0
        /\ reserve' = RENT_EXEMPT
        /\ tokens' = tokens + minted
        /\ pool' = [pool EXCEPT !.total_lamports = @ + deposit_amount,
                                !.pool_token_supply = @ + minted]
        /\ UNCHANGED <<config, idents, vow, escrow, now, epoch>>

(* Pool tokens to redeem for a claim the reserve cannot pay, rounded up.    *)
TokensToBurnRoundedDown(n) ==
    LET needed == escrow[n].lamports_owed - reserve
        wanted == (needed * pool.pool_token_supply) \div pool.total_lamports
    IN  IF wanted <= tokens THEN wanted ELSE tokens

TokensToBurnUnclamped(n) ==
    ((escrow[n].lamports_owed - reserve) * pool.pool_token_supply + pool.total_lamports - 1)
        \div pool.total_lamports

TokensToBurn(n) ==
    LET needed == escrow[n].lamports_owed - reserve
        wanted == (needed * pool.pool_token_supply + pool.total_lamports - 1)
                      \div pool.total_lamports
    IN  IF wanted <= tokens THEN wanted ELSE tokens

(* withdraw_from_pool: redeem what the escrow n lacks.                      *)
WithdrawFromPool(n) ==
    LET received == PoolLamportsFor(TokensToBurn(n))
    IN  /\ PoolConfigured
        /\ escrow[n].live
        /\ reserve < escrow[n].lamports_owed
        /\ pool.pool_token_supply > 0 /\ pool.total_lamports > 0
        /\ TokensToBurn(n) > 0
        /\ PoolUpToDate /\ received > 0
        /\ RentOk(reserve + received)
        /\ reserve' = reserve + received
        /\ tokens' = tokens - TokensToBurn(n)
        /\ pool' = [pool EXCEPT !.total_lamports = @ - received,
                                !.pool_token_supply = @ - TokensToBurn(n)]
        /\ UNCHANGED <<config, idents, vow, escrow, now, epoch>>

-----------------------------------------------------------------------------
(* dev_set_share_price: the admin of a deployment without a pool.           *)
DevSetSharePrice(new_price) ==
    /\ ~PoolConfigured
    /\ new_price > 0
    /\ config' = [config EXCEPT !.current_share_price = new_price]
    /\ UNCHANGED <<idents, vow, escrow, reserve, tokens, pool, now, epoch>>

(* dev_fast_unlock: the admin ends a lock, without a pool only.             *)
DevFastUnlock(n) ==
    /\ ~PoolConfigured
    /\ vow' = [vow EXCEPT ![n].unlock_at = 1]
    /\ UNCHANGED <<config, idents, escrow, reserve, tokens, pool, now, epoch>>

-----------------------------------------------------------------------------
(* The ledger's clock and epoch move on by themselves.                      *)
Tick ==
    /\ now < MaxTime
    /\ now' = now + 1
    /\ UNCHANGED <<config, idents, vow, escrow, reserve, tokens, pool, epoch>>

NextEpoch ==
    /\ epoch < MaxEpoch
    /\ epoch' = epoch + 1
    /\ UNCHANGED <<config, idents, vow, escrow, reserve, tokens, pool, now>>

(* Once per epoch the pool books the rewards and the slashing of its        *)
(* validators; it is never left without lamports.                           *)
PoolUpdate(delta) ==
    /\ pool.last_update_epoch < epoch
    /\ FundsBounded(delta)
    /\ pool.total_lamports + delta > 0
    /\ pool' = [pool EXCEPT !.total_lamports = @ + delta, !.last_update_epoch = epoch]
    /\ UNCHANGED <<config, idents, vow, escrow, reserve, tokens, now, epoch>>

-----------------------------------------------------------------------------
Next ==
    \/ \E w \in Wallets, stake_lamports \in StakeAmounts, yield_mode \in Modes :
            Mint(w, stake_lamports, yield_mode)
    \/ \E n \in idents :
          \/ \E lamports_to_add \in TopUpAmounts : AddStake(n, lamports_to_add)
          \/ \E stake_lamports \in StakeAmounts, yield_mode \in Modes :
                ActivateStake(n, stake_lamports, yield_mode)
          \/ BeginUnstake(n)
          \/ CompleteUnstake(n)
          \/ \E new_mode \in Modes : UpdateYieldMode(n, new_mode)
          \/ Harvest(n)
          \/ \E amount \in YieldAmounts : DepositYieldBalance(n, amount)
          \/ WithdrawYield(n)
          \/ WithdrawFromPool(n)
          \/ DevFastUnlock(n)
    \/ UpdateSharePrice
    \/ FlushReserveToPool
    \/ \E new_price \in DevPrices : DevSetSharePrice(new_price)
    \/ Tick
    \/ NextEpoch
    \/ \E delta \in PoolDeltas : PoolUpdate(delta)

Spec == Init /\ [][Next]_vars
=============================================================================
