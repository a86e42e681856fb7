--------------------------- MODULE VowTypeProofs ---------------------------
(***************************************************************************)
(* Type correctness of VowCore.  The type invariant is not inductive by    *)
(* itself: a withdrawal leaves the pool with a number of lamports only     *)
(* because the reserve never holds more tokens than the pool issued.       *)
(***************************************************************************)
EXTENDS VowProperties, ShareMathProofs, FiniteSetTheorems

TokensWithinSupply == tokens <= pool.pool_token_supply

TypeInv == TypeOK /\ TokensWithinSupply

-----------------------------------------------------------------------------
(* The tier of a stake is a tier.                                          *)
LEMMA ClassType ==
    ASSUME NEW l \in Nat
    PROVE  class_for_stake(l) \in Classes
<1> DEFINE S == {i \in 1..Len(CLASS_CEIL) : CLASS_CEIL[i] < l \div LAMPORTS_PER_XNT}
<1>1. Len(CLASS_CEIL) \in Nat
  BY TierAssumption
<1>2. IsFiniteSet(1..Len(CLASS_CEIL)) /\ Cardinality(1..Len(CLASS_CEIL)) = Len(CLASS_CEIL)
  BY <1>1, FS_Interval
<1>3. S \in SUBSET (1..Len(CLASS_CEIL))
  OBVIOUS
<1> HIDE DEF S
<1>4. IsFiniteSet(S) /\ Cardinality(S) <= Len(CLASS_CEIL)
  BY <1>2, <1>3, FS_Subset
<1>5. Cardinality(S) \in Nat
  BY <1>4, FS_CardinalityType
<1>6. Cardinality(S) \in 0..Len(CLASS_CEIL)
  BY <1>1, <1>4, <1>5
<1> QED
  BY <1>6 DEF S, class_for_stake, Classes

(* A lock has a length.                                                    *)
LEMMA LockType ==
    ASSUME NEW c \in Classes
    PROVE  lock_duration(c) \in Nat
  BY TierAssumption DEF lock_duration, Classes

LEMMA HigherType ==
    ASSUME NEW a \in Classes, NEW b \in Classes
    PROVE  Higher(a, b) \in Classes
  BY DEF Higher

(* The fields of the accounts, one by one.                                 *)
LEMMA ConfigFields ==
    ASSUME TypeInv
    PROVE  /\ config \in ProtocolConfig
           /\ config.current_share_price \in Nat
           /\ config.total_shares \in Nat
           /\ config.total_yield_claims \in Nat
           /\ config.last_pool_lamports \in Nat
           /\ config.total_minted \in Nat
           /\ config.total_pending_unstake \in Nat
  BY DEF TypeInv, TypeOK, ProtocolConfig

LEMMA VowFields ==
    ASSUME NEW v \in VowState
    PROVE  /\ v.class \in Classes
           /\ v.principal_lamports \in Nat
           /\ v.shares \in Nat
           /\ v.last_share_price \in Nat
           /\ v.accrued_gain \in Int
           /\ v.yield_mode \in YieldMode
           /\ v.yield_balance \in Nat
           /\ v.total_harvested \in Nat
           /\ v.unlock_at \in Nat
           /\ v.matured \in BOOLEAN
           /\ v.active_stake \in BOOLEAN
           /\ v.current_stake_started_at \in Nat
           /\ v.total_commitments \in Nat
           /\ v.total_fulfilled \in Nat
           /\ v.cumulative_stake_days \in Nat
           /\ v.highest_class_ever \in Classes
  BY DEF VowState

LEMMA EscrowFields ==
    ASSUME TypeInv, NEW n \in Nonces
    PROVE  /\ escrow[n] \in UnstakeEscrow
           /\ escrow[n].live \in BOOLEAN
           /\ escrow[n].lamports_owed \in Nat
           /\ escrow[n].deactivation_epoch \in Nat
  BY DEF TypeInv, TypeOK, UnstakeEscrow

LEMMA PoolFields ==
    ASSUME TypeInv
    PROVE  /\ pool \in StakePool
           /\ pool.total_lamports \in Nat
           /\ pool.pool_token_supply \in Nat
           /\ pool.last_update_epoch \in Nat
           /\ tokens \in Nat
           /\ tokens <= pool.pool_token_supply
  BY DEF TypeInv, TypeOK, StakePool, TokensWithinSupply

(* Settling and the maturity latch keep an account an account, and touch   *)
(* no field but their own.                                                 *)
LEMMA SettleType ==
    ASSUME NEW v \in VowState, TypeInv
    PROVE  /\ settle_idnft(v) \in VowState
           /\ settle_idnft(v).shares = v.shares
           /\ settle_idnft(v).yield_balance = v.yield_balance
           /\ settle_idnft(v).matured = v.matured
           /\ settle_idnft(v).active_stake = v.active_stake
           /\ settle_idnft(v).unlock_at = v.unlock_at
           /\ settle_idnft(v).class = v.class
           /\ settle_idnft(v).principal_lamports = v.principal_lamports
           /\ settle_idnft(v).highest_class_ever = v.highest_class_ever
           /\ settle_idnft(v).total_commitments = v.total_commitments
           /\ settle_idnft(v).total_fulfilled = v.total_fulfilled
<1> DEFINE gain == v.accrued_gain + ValueOf(v.shares, config.current_share_price)
                                 - ValueOf(v.shares, v.last_share_price)
<1>1. config.current_share_price \in Nat /\ v.last_share_price \in Nat
      /\ v.shares \in Nat /\ v.accrued_gain \in Int
  BY ConfigFields, VowFields
<1>2. gain \in Int
  <2>1. /\ ValueOf(v.shares, config.current_share_price) \in Nat
        /\ ValueOf(v.shares, v.last_share_price) \in Nat
    BY <1>1, ValueOfNat
  <2> QED
    BY <1>1, <2>1
<1>3. settle_idnft(v) = [v EXCEPT !.accrued_gain = gain,
                                  !.last_share_price = config.current_share_price]
  BY DEF settle_idnft
<1> HIDE DEF gain
<1> QED
  BY <1>1, <1>2, <1>3 DEF VowState

LEMMA MaturedType ==
    ASSUME NEW v \in VowState, TypeInv
    PROVE  /\ Matured(v) \in VowState
           /\ Matured(v).shares = v.shares
           /\ Matured(v).yield_balance = v.yield_balance
           /\ Matured(v).active_stake = v.active_stake
           /\ Matured(v).unlock_at = v.unlock_at
           /\ Matured(v).class = v.class
           /\ Matured(v).principal_lamports = v.principal_lamports
           /\ Matured(v).highest_class_ever = v.highest_class_ever
           /\ Matured(v).total_commitments = v.total_commitments
           /\ Matured(v).total_fulfilled = v.total_fulfilled
  BY DEF Matured, VowState

LEMMA MaturedFlag ==
    ASSUME NEW v \in VowState
    PROVE  Matured(v).matured = (v.matured \/ now >= v.unlock_at)
  BY DEF Matured, VowState

-----------------------------------------------------------------------------
(* What initialize writes is a config, also for a pool whose price is zero. *)
LEMMA OpeningType ==
    ASSUME NEW p, p.total_lamports \in Nat, p.pool_token_supply \in Nat,
           NEW readable \in BOOLEAN, readable => Readable(p)
    PROVE  OpeningConfig(p, readable) \in ProtocolConfig
<1>1. readable => PoolPrice(p) \in Nat
  BY PrecisionAssumption, MulNat, DivNat DEF Readable, PoolPrice
<1> QED
  BY <1>1, PrecisionAssumption DEF OpeningConfig, ProtocolConfig

LEMMA InitType == Init => TypeInv
<1> SUFFICES ASSUME Init PROVE TypeInv
  OBVIOUS
<1>1. pool \in [total_lamports : Nat, pool_token_supply : Nat, last_update_epoch : {0}]
  BY PoolAssumption DEF Init
<1>2. PICK readable \in BOOLEAN :
        (readable => Readable(pool)) /\ config = OpeningConfig(pool, readable)
  BY DEF Init
<1>3. config \in ProtocolConfig
  BY <1>1, <1>2, OpeningType
<1>4. NoVow \in VowState
  BY TierAssumption DEF NoVow, VowState, YieldMode, Classes
<1>5. NoEscrow \in UnstakeEscrow
  BY DEF NoEscrow, UnstakeEscrow
<1>6. pool \in StakePool
  BY <1>1 DEF StakePool
<1> QED
  BY <1>1, <1>3, <1>4, <1>5, <1>6 DEF Init, TypeInv, TypeOK, TokensWithinSupply

(* What each instruction does to the accounts, field by field, and that it *)
(* keeps their types.  The proofs about invariants start from these facts. *)

(* The accounts but one are left alone.                                    *)
OnlyVow(n) == \A m \in Nonces : m # n => vow'[m] = vow[m]

LEMMA MintEffect ==
    ASSUME TypeInv, NEW w \in Wallets, NEW l \in StakeAmounts, NEW m \in Modes, Mint(w, l, m)
    PROVE  LET n == config.total_minted
               s == SharesFor(l, config.current_share_price)
           IN  /\ TypeInv'
               /\ n \in Nonces \ idents
               /\ OnlyVow(n)
               /\ vow'[n].shares = s
               /\ vow'[n].yield_balance = 0
               /\ ~vow'[n].matured
               /\ vow'[n].active_stake
               /\ vow'[n].total_commitments = 1
               /\ vow'[n].total_fulfilled = 0
               /\ s \in Nat
               /\ config'.total_shares = config.total_shares + s
               /\ config'.total_yield_claims = config.total_yield_claims
               /\ config'.total_pending_unstake = config.total_pending_unstake
               /\ config'.total_minted = config.total_minted + 1
<1> DEFINE shares == SharesFor(l, config.current_share_price)
<1>1. l \in Nat /\ config.current_share_price \in Nat \ {0} /\ now \in Nat
  BY CoreAssumption, ConfigFields DEF TypeInv, TypeOK, Mint, CanBuyShares
<1>2. shares \in Nat
  BY <1>1, SharesForNat
<1>3. class_for_stake(l) \in Classes /\ lock_duration(class_for_stake(l)) \in Nat
  BY <1>1, ClassType, LockType
<1>4. vow' \in [Nonces -> VowState]
  BY <1>1, <1>2, <1>3, CoreAssumption DEF Mint, FreshAccount, TypeInv, TypeOK, VowState, YieldMode
<1>5. config' = [config EXCEPT !.total_shares = config.total_shares + shares,
                               !.total_minted = config.total_minted + 1]
  BY DEF Mint, FreshAccount
<1>6. /\ config' \in ProtocolConfig
      /\ config'.total_shares = config.total_shares + shares
      /\ config'.total_yield_claims = config.total_yield_claims
      /\ config'.total_pending_unstake = config.total_pending_unstake
      /\ config'.total_minted = config.total_minted + 1
  <2> HIDE DEF shares
  <2>1. config.total_shares + shares \in Nat /\ config.total_minted + 1 \in Nat
    BY <1>2, ConfigFields
  <2>2. config \in ProtocolConfig
    BY ConfigFields
  <2>3. config' \in ProtocolConfig
    BY <1>5, <2>1, <2>2 DEF ProtocolConfig
  <2>4. /\ config'.current_share_price = config.current_share_price
        /\ config'.total_shares = config.total_shares + shares
        /\ config'.total_yield_claims = config.total_yield_claims
        /\ config'.total_pending_unstake = config.total_pending_unstake
        /\ config'.total_minted = config.total_minted + 1
    BY <1>5, <2>2 DEF ProtocolConfig
  <2> QED
    BY <2>3, <2>4
<1>7. TypeInv'
  BY <1>1, <1>4, <1>6 DEF Mint, FreshAccount, TypeInv, TypeOK, TokensWithinSupply
<1>8. config.total_minted \in Nonces \ idents
  BY DEF Mint, FreshAccount
<1>9. /\ OnlyVow(config.total_minted)
      /\ vow'[config.total_minted].shares = shares
      /\ vow'[config.total_minted].yield_balance = 0
      /\ ~vow'[config.total_minted].matured
      /\ vow'[config.total_minted].active_stake
      /\ vow'[config.total_minted].total_commitments = 1
      /\ vow'[config.total_minted].total_fulfilled = 0
  BY <1>8 DEF Mint, FreshAccount, TypeInv, TypeOK, OnlyVow
<1> QED
  BY <1>2, <1>6, <1>7, <1>8, <1>9

LEMMA AddStakeEffect ==
    ASSUME TypeInv, NEW n \in Nonces, NEW l \in TopUpAmounts, AddStake(n, l)
    PROVE  LET s == SharesFor(l, config.current_share_price)
           IN  /\ TypeInv'
               /\ OnlyVow(n)
               /\ s \in Nat
               /\ vow'[n].shares = vow[n].shares + s
               /\ vow'[n].yield_balance = vow[n].yield_balance
               /\ vow'[n].active_stake = vow[n].active_stake
               /\ vow'[n].matured => vow[n].matured /\ vow'[n].unlock_at = vow[n].unlock_at
               /\ vow'[n].total_commitments = vow[n].total_commitments
               /\ vow'[n].total_fulfilled = vow[n].total_fulfilled
               /\ config'.total_shares = config.total_shares + s
               /\ config'.total_yield_claims = config.total_yield_claims
               /\ config'.total_pending_unstake = config.total_pending_unstake
               /\ config'.total_minted = config.total_minted
<1> DEFINE v == settle_idnft(vow[n])
           principal == v.principal_lamports + l
           class == class_for_stake(principal)
           shares == SharesFor(l, config.current_share_price)
           raised == RaiseClass(v, class)
           tiered == IF class > v.class THEN raised ELSE v
           total == v.shares + shares
           after == [tiered EXCEPT !.principal_lamports = principal, !.shares = total]
<1>1. /\ l \in Nat /\ config.current_share_price \in Nat \ {0} /\ now \in Nat /\ reserve \in Nat
      /\ vow[n] \in VowState
  BY CoreAssumption, ConfigFields DEF TypeInv, TypeOK, AddStake, CanBuyShares
<1>2. shares \in Nat
  BY <1>1, SharesForNat
<1>3. /\ v \in VowState
      /\ v.shares = vow[n].shares
      /\ v.yield_balance = vow[n].yield_balance
      /\ v.active_stake = vow[n].active_stake
      /\ v.matured = vow[n].matured
      /\ v.unlock_at = vow[n].unlock_at
      /\ v.total_commitments = vow[n].total_commitments
      /\ v.total_fulfilled = vow[n].total_fulfilled
  BY <1>1, SettleType
<1>4. /\ vow' = [vow EXCEPT ![n] = [tiered EXCEPT !.principal_lamports = principal,
                                                  !.shares = tiered.shares + shares]]
      /\ config' = [config EXCEPT !.total_shares = config.total_shares + shares]
      /\ reserve' = reserve + l
      /\ UNCHANGED <<idents, escrow, tokens, pool, now, epoch>>
  BY DEF AddStake
<1> HIDE DEF v, shares
<1>5. principal \in Nat
  BY <1>1, <1>3, VowFields
<1> HIDE DEF principal
<1>6. class \in Classes /\ lock_duration(class) \in Nat
  BY <1>5, ClassType, LockType
<1> HIDE DEF class
<1>7. /\ raised \in VowState
      /\ raised.shares = v.shares
      /\ raised.yield_balance = v.yield_balance
      /\ raised.active_stake = v.active_stake
      /\ ~raised.matured
      /\ raised.total_commitments = v.total_commitments
      /\ raised.total_fulfilled = v.total_fulfilled
  <2>1. now + lock_duration(class) \in Nat
    BY <1>1, <1>6
  <2>2. Higher(v.highest_class_ever, class) \in Classes
    BY <1>3, <1>6, VowFields, HigherType
  <2> QED
    BY <1>3, <1>6, <2>1, <2>2 DEF RaiseClass, VowState
<1> HIDE DEF raised
<1>8. /\ tiered \in VowState
      /\ tiered.shares = v.shares
      /\ tiered.yield_balance = v.yield_balance
      /\ tiered.active_stake = v.active_stake
      /\ tiered.matured => v.matured /\ tiered.unlock_at = v.unlock_at
      /\ tiered.total_commitments = v.total_commitments
      /\ tiered.total_fulfilled = v.total_fulfilled
  BY <1>3, <1>7
<1> HIDE DEF tiered
<1>9. total \in Nat
  BY <1>2, <1>3, VowFields
<1>10. vow' = [vow EXCEPT ![n] = after]
  BY <1>4, <1>8
<1> HIDE DEF total
<1>11. /\ after \in VowState
       /\ after.shares = total
       /\ after.yield_balance = tiered.yield_balance
       /\ after.active_stake = tiered.active_stake
       /\ after.matured = tiered.matured
       /\ after.unlock_at = tiered.unlock_at
       /\ after.total_commitments = tiered.total_commitments
       /\ after.total_fulfilled = tiered.total_fulfilled
  BY <1>5, <1>8, <1>9 DEF VowState
<1> HIDE DEF after
<1>12. vow' \in [Nonces -> VowState] /\ vow'[n] = after /\ OnlyVow(n)
  BY <1>10, <1>11 DEF TypeInv, TypeOK, OnlyVow
<1>13. /\ config' \in ProtocolConfig
       /\ config'.current_share_price = config.current_share_price
       /\ config'.total_shares = config.total_shares + shares
       /\ config'.total_yield_claims = config.total_yield_claims
       /\ config'.total_pending_unstake = config.total_pending_unstake
       /\ config'.total_minted = config.total_minted
  <2>1. config \in ProtocolConfig /\ config.total_shares + shares \in Nat
    BY <1>2, ConfigFields
  <2> QED
    BY <1>4, <2>1 DEF ProtocolConfig
<1>14. TypeInv'
  BY <1>1, <1>4, <1>12, <1>13 DEF TypeInv, TypeOK, TokensWithinSupply
<1> QED
  BY <1>2, <1>3, <1>8, <1>11, <1>12, <1>13, <1>14 DEF shares, total

LEMMA ActivateStakeEffect ==
    ASSUME TypeInv, NEW n \in Nonces, NEW l \in StakeAmounts, NEW m \in Modes,
           ActivateStake(n, l, m)
    PROVE  LET s == SharesFor(l, config.current_share_price)
           IN  /\ TypeInv'
               /\ OnlyVow(n)
               /\ s \in Nat
               /\ ~vow[n].active_stake
               /\ vow'[n].shares = s
               /\ vow'[n].yield_balance = vow[n].yield_balance
               /\ vow'[n].active_stake
               /\ ~vow'[n].matured
               /\ vow'[n].total_commitments = vow[n].total_commitments + 1
               /\ vow'[n].total_fulfilled = vow[n].total_fulfilled
               /\ config'.total_shares = SatSub(config.total_shares, vow[n].shares) + s
               /\ config'.total_yield_claims = config.total_yield_claims
               /\ config'.total_pending_unstake = config.total_pending_unstake
               /\ config'.total_minted = config.total_minted
<1> DEFINE v == settle_idnft(vow[n])
           class == class_for_stake(l)
           shares == SharesFor(l, config.current_share_price)
           unlock == now + lock_duration(class)
           count == v.total_commitments + 1
           highest == Higher(v.highest_class_ever, class)
           total == SatSub(config.total_shares, v.shares) + shares
           after == [v EXCEPT !.class = class,
                              !.principal_lamports = l,
                              !.shares = shares,
                              !.last_share_price = config.current_share_price,
                              !.accrued_gain = 0,
                              !.yield_mode = m,
                              !.unlock_at = unlock,
                              !.matured = FALSE,
                              !.active_stake = TRUE,
                              !.sessions_invalidated_at = now,
                              !.current_stake_started_at = now,
                              !.total_commitments = count,
                              !.highest_class_ever = highest]
<1>1. /\ l \in Nat /\ config.current_share_price \in Nat \ {0} /\ now \in Nat /\ reserve \in Nat
      /\ vow[n] \in VowState /\ m \in YieldMode
  BY CoreAssumption, ConfigFields DEF TypeInv, TypeOK, YieldMode, ActivateStake, CanBuyShares
<1>2. shares \in Nat
  BY <1>1, SharesForNat
<1>3. /\ v \in VowState
      /\ v.shares = vow[n].shares
      /\ v.yield_balance = vow[n].yield_balance
      /\ v.total_commitments = vow[n].total_commitments
      /\ v.total_fulfilled = vow[n].total_fulfilled
  BY <1>1, SettleType
<1>4. /\ vow' = [vow EXCEPT ![n] = after]
      /\ config' = [config EXCEPT !.total_shares = total]
      /\ reserve' = reserve + l
      /\ UNCHANGED <<idents, escrow, tokens, pool, now, epoch>>
      /\ ~vow[n].active_stake
  BY DEF ActivateStake
<1> HIDE DEF v, shares
<1>5. class \in Classes /\ unlock \in Nat
  BY <1>1, ClassType, LockType
<1>6. count \in Nat /\ highest \in Classes
  BY <1>3, <1>5, VowFields, HigherType
<1>7. total \in Nat
  <2>1. v.shares \in Nat /\ config.total_shares \in Nat
    BY <1>3, VowFields, ConfigFields
  <2>2. SatSub(config.total_shares, v.shares) \in Nat
    BY <2>1, SatSubNat
  <2> QED
    BY <1>2, <2>2
<1>8. count = vow[n].total_commitments + 1
      /\ total = SatSub(config.total_shares, vow[n].shares) + shares
  BY <1>3
<1> HIDE DEF class, unlock, count, highest, total
<1>9. /\ after \in VowState
      /\ after.shares = shares
      /\ after.yield_balance = v.yield_balance
      /\ after.active_stake
      /\ ~after.matured
      /\ after.total_commitments = count
      /\ after.total_fulfilled = v.total_fulfilled
  <2>1. after \in VowState
    <3> DEFINE position == [v EXCEPT !.class = class,
                                     !.principal_lamports = l,
                                     !.shares = shares,
                                     !.last_share_price = config.current_share_price,
                                     !.accrued_gain = 0,
                                     !.yield_mode = m]
               lock == [position EXCEPT !.unlock_at = unlock,
                                        !.matured = FALSE,
                                        !.active_stake = TRUE]
               record == [lock EXCEPT !.sessions_invalidated_at = now,
                                      !.current_stake_started_at = now,
                                      !.total_commitments = count,
                                      !.highest_class_ever = highest]
    <3>1. position \in VowState
      <4> DEFINE stake == [v EXCEPT !.class = class,
                                    !.principal_lamports = l,
                                    !.shares = shares]
                 price == config.current_share_price
                 priced == [stake EXCEPT !.last_share_price = price,
                                         !.accrued_gain = 0,
                                         !.yield_mode = m]
      <4>1. stake \in VowState
        BY <1>1, <1>2, <1>3, <1>5 DEF VowState
      <4>2. position = priced
        OBVIOUS
      <4>3. price \in Nat /\ m \in YieldMode /\ 0 \in Int
        BY <1>1
      <4> HIDE DEF stake, price
      <4>4. priced \in VowState
        BY <4>1, <4>3 DEF VowState
      <4> QED
        BY <4>2, <4>4
    <3>2. after = record
      BY DEF VowState
    <3> HIDE DEF position
    <3>3. lock \in VowState
      BY <1>5, <3>1 DEF VowState
    <3> HIDE DEF lock
    <3>4. record \in VowState
      BY <1>1, <1>6, <3>3 DEF VowState
    <3> QED
      BY <3>2, <3>4
  <2>2. /\ after.shares = shares
        /\ after.yield_balance = v.yield_balance
        /\ after.total_commitments = count
        /\ after.total_fulfilled = v.total_fulfilled
    BY <1>3 DEF VowState
  <2>3. after.active_stake /\ ~after.matured
    BY <1>3 DEF VowState
  <2> QED
    BY <2>1, <2>2, <2>3
<1> HIDE DEF after
<1>10. vow' \in [Nonces -> VowState] /\ vow'[n] = after /\ OnlyVow(n)
  BY <1>4, <1>9 DEF TypeInv, TypeOK, OnlyVow
<1>11. /\ config' \in ProtocolConfig
       /\ config'.current_share_price = config.current_share_price
       /\ config'.total_shares = total
       /\ config'.total_yield_claims = config.total_yield_claims
       /\ config'.total_pending_unstake = config.total_pending_unstake
       /\ config'.total_minted = config.total_minted
  <2>1. config \in ProtocolConfig
    BY ConfigFields
  <2> QED
    BY <1>4, <1>7, <2>1 DEF ProtocolConfig
<1>12. TypeInv'
  BY <1>1, <1>4, <1>10, <1>11 DEF TypeInv, TypeOK, TokensWithinSupply
<1> QED
  BY <1>2, <1>3, <1>4, <1>8, <1>9, <1>10, <1>11, <1>12 DEF shares

(* begin_unstake moves the position and the yield balance into the claim.  *)
LEMMA BeginUnstakeEffect ==
    ASSUME TypeInv, NEW n \in Nonces, BeginUnstake(n)
    PROVE  LET owed == escrow'[n].lamports_owed
           IN  /\ TypeInv'
               /\ OnlyVow(n)
               /\ owed \in Nat
               /\ ~escrow[n].live
               /\ vow[n].active_stake
               /\ vow[n].matured \/ now >= vow[n].unlock_at
               /\ escrow' = [escrow EXCEPT ![n] = [live |-> TRUE, lamports_owed |-> owed,
                                                   deactivation_epoch |-> epoch]]
               /\ vow'[n].shares = 0
               /\ vow'[n].yield_balance = 0
               /\ vow'[n].active_stake
               /\ vow'[n].matured
               /\ vow'[n].unlock_at = vow[n].unlock_at
               /\ vow'[n].total_commitments = vow[n].total_commitments
               /\ vow'[n].total_fulfilled = vow[n].total_fulfilled
               /\ config'.total_shares = SatSub(config.total_shares, vow[n].shares)
               /\ config'.total_yield_claims =
                      SatSub(config.total_yield_claims, vow[n].yield_balance)
               /\ config'.total_pending_unstake = config.total_pending_unstake + owed
               /\ config'.total_minted = config.total_minted
<1> DEFINE mv == Matured(vow[n])
           v == settle_idnft(mv)
           owed == ValueOf(v.shares, config.current_share_price) + v.yield_balance
           shares == SatSub(config.total_shares, v.shares)
           claims == SatSub(config.total_yield_claims, v.yield_balance)
           pending == config.total_pending_unstake + owed
           after == [v EXCEPT !.shares = 0, !.yield_balance = 0]
<1>1. config.current_share_price \in Nat /\ now \in Nat /\ vow[n] \in VowState
      /\ epoch \in Nat
  BY ConfigFields DEF TypeInv, TypeOK
<1>2. /\ mv \in VowState
      /\ mv.shares = vow[n].shares
      /\ mv.yield_balance = vow[n].yield_balance
      /\ mv.active_stake = vow[n].active_stake
      /\ mv.unlock_at = vow[n].unlock_at
      /\ mv.total_commitments = vow[n].total_commitments
      /\ mv.total_fulfilled = vow[n].total_fulfilled
  BY <1>1, MaturedType
<1>3. mv.matured = (vow[n].matured \/ now >= vow[n].unlock_at)
  BY <1>1, MaturedFlag
<1>4. /\ config' = [config EXCEPT !.total_shares = shares,
                                  !.total_yield_claims = claims,
                                  !.total_pending_unstake = pending]
      /\ vow' = [vow EXCEPT ![n] = after]
      /\ escrow' = [escrow EXCEPT ![n] = [live |-> TRUE, lamports_owed |-> owed,
                                          deactivation_epoch |-> epoch]]
      /\ UNCHANGED <<idents, reserve, tokens, pool, now, epoch>>
      /\ ~escrow[n].live /\ vow[n].active_stake /\ v.matured
  BY DEF BeginUnstake, Escrowed
<1> HIDE DEF mv
<1>5. /\ v \in VowState
      /\ v.shares = mv.shares
      /\ v.yield_balance = mv.yield_balance
      /\ v.active_stake = mv.active_stake
      /\ v.matured = mv.matured
      /\ v.unlock_at = mv.unlock_at
      /\ v.total_commitments = mv.total_commitments
      /\ v.total_fulfilled = mv.total_fulfilled
  BY <1>2, SettleType
<1> HIDE DEF v
<1>6. v.shares \in Nat /\ v.yield_balance \in Nat
  BY <1>5, VowFields
<1>7. owed \in Nat
  <2>1. ValueOf(v.shares, config.current_share_price) \in Nat
    BY <1>1, <1>6, ValueOfNat
  <2> QED
    BY <1>6, <2>1
<1>8. shares \in Nat /\ claims \in Nat /\ pending \in Nat
  <2>1. /\ config.total_shares \in Nat /\ config.total_yield_claims \in Nat
        /\ config.total_pending_unstake \in Nat
    BY ConfigFields
  <2>2. /\ SatSub(config.total_shares, v.shares) \in Nat
        /\ SatSub(config.total_yield_claims, v.yield_balance) \in Nat
    BY <1>6, <2>1, SatSubNat
  <2> QED
    BY <1>7, <2>1, <2>2
<1>9. /\ shares = SatSub(config.total_shares, vow[n].shares)
      /\ claims = SatSub(config.total_yield_claims, vow[n].yield_balance)
      /\ pending = config.total_pending_unstake + owed
  BY <1>2, <1>5
<1> HIDE DEF owed, shares, claims, pending
<1>10. /\ after \in VowState
       /\ after.shares = 0
       /\ after.yield_balance = 0
       /\ after.active_stake = v.active_stake
       /\ after.matured = v.matured
       /\ after.unlock_at = v.unlock_at
       /\ after.total_commitments = v.total_commitments
       /\ after.total_fulfilled = v.total_fulfilled
  BY <1>5 DEF VowState
<1> HIDE DEF after
<1>11. vow' \in [Nonces -> VowState] /\ vow'[n] = after /\ OnlyVow(n)
  BY <1>4, <1>10 DEF TypeInv, TypeOK, OnlyVow
<1>12. escrow' \in [Nonces -> UnstakeEscrow] /\ escrow'[n].lamports_owed = owed
  BY <1>1, <1>4, <1>7 DEF TypeInv, TypeOK, UnstakeEscrow
<1>13. /\ config' \in ProtocolConfig
       /\ config'.current_share_price = config.current_share_price
       /\ config'.total_shares = shares
       /\ config'.total_yield_claims = claims
       /\ config'.total_pending_unstake = pending
       /\ config'.total_minted = config.total_minted
  <2>1. config \in ProtocolConfig
    BY ConfigFields
  <2> QED
    BY <1>4, <1>8, <2>1 DEF ProtocolConfig
<1>14. TypeInv'
  BY <1>4, <1>11, <1>12, <1>13 DEF TypeInv, TypeOK, TokensWithinSupply
<1> QED
  BY <1>2, <1>3, <1>4, <1>5, <1>7, <1>9, <1>10, <1>11, <1>12, <1>13, <1>14

(* A payout is an amount of lamports.                                      *)
LEMMA PayAmountType ==
    ASSUME TypeInv, NEW n \in Nonces
    PROVE  PayAmount(n) \in Nat
<1> DEFINE owed == escrow[n].lamports_owed
           pending == config.total_pending_unstake
<1>1. owed \in Nat /\ pending \in Nat /\ reserve \in Nat
  BY EscrowFields, ConfigFields DEF TypeInv, TypeOK
<1>2. PayAmount(n) = IF pending = 0 \/ reserve >= pending THEN owed
                     ELSE (owed * reserve) \div pending
  BY DEF PayAmount
<1> HIDE DEF owed, pending
<1>3. CASE pending = 0
  BY <1>1, <1>2, <1>3
<1>4. CASE pending # 0
  <2>1. (owed * reserve) \div pending \in Nat
    BY <1>1, <1>4, MulNat, DivNat
  <2> QED
    BY <1>1, <1>2, <2>1
<1> QED
  BY <1>3, <1>4

LEMMA CompleteUnstakeEffect ==
    ASSUME TypeInv, NEW n \in Nonces, CompleteUnstake(n)
    PROVE  /\ TypeInv'
           /\ OnlyVow(n)
           /\ escrow[n].live
           /\ escrow' = [escrow EXCEPT ![n] = NoEscrow]
           /\ vow'[n].shares = vow[n].shares
           /\ vow'[n].yield_balance = vow[n].yield_balance
           /\ ~vow'[n].active_stake
           /\ vow'[n].matured = vow[n].matured
           /\ vow'[n].unlock_at = vow[n].unlock_at
           /\ vow'[n].total_commitments = vow[n].total_commitments
           /\ vow'[n].total_fulfilled =
                  IF vow[n].matured THEN vow[n].total_fulfilled + 1
                  ELSE vow[n].total_fulfilled
           /\ config'.total_shares = config.total_shares
           /\ config'.total_yield_claims = config.total_yield_claims
           /\ config'.total_pending_unstake =
                  SatSub(config.total_pending_unstake, escrow[n].lamports_owed)
           /\ config'.total_minted = config.total_minted
<1> DEFINE v == vow[n]
           days == v.cumulative_stake_days + SatSub(now, v.current_stake_started_at) \div DAY
           fulfilled == IF v.matured THEN v.total_fulfilled + 1 ELSE v.total_fulfilled
           pending == SatSub(config.total_pending_unstake, escrow[n].lamports_owed)
           after == [v EXCEPT !.cumulative_stake_days = days,
                              !.total_fulfilled = fulfilled,
                              !.active_stake = FALSE,
                              !.sessions_invalidated_at = now]
<1>1. now \in Nat /\ reserve \in Nat /\ v \in VowState /\ DAY \in Nat \ {0}
  BY CoreAssumption DEF TypeInv, TypeOK
<1>2. /\ vow' = [vow EXCEPT ![n] = after]
      /\ config' = [config EXCEPT !.total_pending_unstake = pending]
      /\ escrow' = [escrow EXCEPT ![n] = NoEscrow]
      /\ reserve >= PayAmount(n) /\ reserve' = reserve - PayAmount(n)
      /\ UNCHANGED <<idents, tokens, pool, now, epoch>>
      /\ escrow[n].live
  BY DEF CompleteUnstake, CountFulfilled, TypeInv, TypeOK
<1>3. reserve' \in Nat
  BY <1>1, <1>2, PayAmountType
<1>4. fulfilled \in Nat /\ days \in Nat
  <2>1. v.total_fulfilled \in Nat /\ v.cumulative_stake_days \in Nat
        /\ v.current_stake_started_at \in Nat
    BY <1>1, VowFields
  <2>2. SatSub(now, v.current_stake_started_at) \in Nat
    BY <1>1, <2>1, SatSubNat
  <2>3. SatSub(now, v.current_stake_started_at) \div DAY \in Nat
    BY <1>1, <2>2, DivNat
  <2> QED
    BY <2>1, <2>3
<1>5. pending \in Nat
  BY EscrowFields, ConfigFields, SatSubNat
<1>6. fulfilled = IF vow[n].matured THEN vow[n].total_fulfilled + 1
                  ELSE vow[n].total_fulfilled
  OBVIOUS
<1> HIDE DEF days, fulfilled, pending
<1>7. /\ after \in VowState
      /\ after.shares = v.shares
      /\ after.yield_balance = v.yield_balance
      /\ ~after.active_stake
      /\ after.matured = v.matured
      /\ after.unlock_at = v.unlock_at
      /\ after.total_commitments = v.total_commitments
      /\ after.total_fulfilled = fulfilled
  <2> HIDE DEF v
  <2> QED
    BY <1>1, <1>4 DEF VowState
<1> HIDE DEF after
<1>8. vow' \in [Nonces -> VowState] /\ vow'[n] = after /\ OnlyVow(n)
  BY <1>2, <1>7 DEF TypeInv, TypeOK, OnlyVow
<1>9. escrow' \in [Nonces -> UnstakeEscrow]
  BY <1>2 DEF TypeInv, TypeOK, UnstakeEscrow, NoEscrow
<1>10. /\ config' \in ProtocolConfig
       /\ config'.current_share_price = config.current_share_price
       /\ config'.total_shares = config.total_shares
       /\ config'.total_yield_claims = config.total_yield_claims
       /\ config'.total_pending_unstake = pending
       /\ config'.total_minted = config.total_minted
  <2>1. config \in ProtocolConfig
    BY ConfigFields
  <2> QED
    BY <1>2, <1>5, <2>1 DEF ProtocolConfig
<1>11. TypeInv'
  BY <1>2, <1>3, <1>8, <1>9, <1>10 DEF TypeInv, TypeOK, TokensWithinSupply
<1> QED
  BY <1>2, <1>6, <1>7, <1>8, <1>10, <1>11 DEF pending

LEMMA UpdateYieldModeEffect ==
    ASSUME TypeInv, NEW n \in Nonces, NEW m \in Modes, UpdateYieldMode(n, m)
    PROVE  /\ TypeInv'
           /\ OnlyVow(n)
           /\ vow'[n].shares = vow[n].shares
           /\ vow'[n].yield_balance = vow[n].yield_balance
           /\ vow'[n].active_stake = vow[n].active_stake
           /\ vow'[n].matured = vow[n].matured
           /\ vow'[n].unlock_at = vow[n].unlock_at
           /\ vow'[n].total_commitments = vow[n].total_commitments
           /\ vow'[n].total_fulfilled = vow[n].total_fulfilled
<1> DEFINE v == settle_idnft(vow[n])
           after == [v EXCEPT !.yield_mode = m]
<1>1. vow[n] \in VowState /\ m \in YieldMode
  BY CoreAssumption DEF TypeInv, TypeOK, YieldMode
<1>2. /\ v \in VowState
      /\ v.shares = vow[n].shares
      /\ v.yield_balance = vow[n].yield_balance
      /\ v.active_stake = vow[n].active_stake
      /\ v.matured = vow[n].matured
      /\ v.unlock_at = vow[n].unlock_at
      /\ v.total_commitments = vow[n].total_commitments
      /\ v.total_fulfilled = vow[n].total_fulfilled
  BY <1>1, SettleType
<1>3. /\ vow' = [vow EXCEPT ![n] = after]
      /\ UNCHANGED <<config, idents, escrow, reserve, tokens, pool, now, epoch>>
  BY DEF UpdateYieldMode, TypeInv, TypeOK
<1> HIDE DEF v
<1>4. /\ after \in VowState
      /\ after.shares = v.shares
      /\ after.yield_balance = v.yield_balance
      /\ after.active_stake = v.active_stake
      /\ after.matured = v.matured
      /\ after.unlock_at = v.unlock_at
      /\ after.total_commitments = v.total_commitments
      /\ after.total_fulfilled = v.total_fulfilled
  BY <1>1, <1>2 DEF VowState
<1> HIDE DEF after
<1>5. vow' \in [Nonces -> VowState] /\ vow'[n] = after /\ OnlyVow(n)
  BY <1>3, <1>4 DEF TypeInv, TypeOK, OnlyVow
<1>6. TypeInv'
  BY <1>3, <1>5 DEF TypeInv, TypeOK, TokensWithinSupply
<1> QED
  BY <1>2, <1>4, <1>5, <1>6

(* harvest moves an amount to the yield balance and burns shares for it.   *)
LEMMA HarvestEffect ==
    ASSUME TypeInv, NEW n \in Nonces, Harvest(n)
    PROVE  /\ TypeInv'
           /\ OnlyVow(n)
           /\ \E amount \in Nat, burned \in Nat :
                /\ burned <= vow[n].shares
                /\ vow'[n].shares = vow[n].shares - burned
                /\ vow'[n].yield_balance = vow[n].yield_balance + amount
                /\ config'.total_shares = SatSub(config.total_shares, burned)
                /\ config'.total_yield_claims = config.total_yield_claims + amount
           /\ vow'[n].active_stake = vow[n].active_stake
           /\ vow[n].matured => vow'[n].matured
           /\ vow'[n].matured => vow[n].matured \/ now >= vow[n].unlock_at
           /\ vow'[n].unlock_at = vow[n].unlock_at
           /\ vow'[n].total_commitments = vow[n].total_commitments
           /\ vow'[n].total_fulfilled = vow[n].total_fulfilled
           /\ config'.total_pending_unstake = config.total_pending_unstake
           /\ config'.total_minted = config.total_minted
<1> DEFINE mv == Matured(vow[n])
           v == settle_idnft(mv)
           gain == IF v.accrued_gain > 0 THEN v.accrued_gain ELSE 0
           amount == IF v.accrued_gain > 0 THEN TreasuryAmount(v) ELSE 0
           burned == BurnFor(amount)
           left == v.shares - burned
           balance == v.yield_balance + amount
           harvested == v.total_harvested + gain
           rest == Remainder(v)
           shares == SatSub(config.total_shares, burned)
           claims == config.total_yield_claims + amount
           after == [v EXCEPT !.shares = left, !.yield_balance = balance,
                              !.total_harvested = harvested, !.accrued_gain = rest]
<1>1. config.current_share_price \in Nat /\ now \in Nat /\ vow[n] \in VowState
  BY ConfigFields DEF TypeInv, TypeOK
<1>2. /\ mv \in VowState
      /\ mv.shares = vow[n].shares
      /\ mv.yield_balance = vow[n].yield_balance
      /\ mv.active_stake = vow[n].active_stake
      /\ mv.unlock_at = vow[n].unlock_at
      /\ mv.total_commitments = vow[n].total_commitments
      /\ mv.total_fulfilled = vow[n].total_fulfilled
  BY <1>1, MaturedType
<1>3. mv.matured = (vow[n].matured \/ now >= vow[n].unlock_at)
  BY <1>1, MaturedFlag
<1>4. /\ vow' = [vow EXCEPT ![n] = after]
      /\ config' = [config EXCEPT !.total_shares = shares, !.total_yield_claims = claims]
      /\ UNCHANGED <<idents, escrow, reserve, tokens, pool, now, epoch>>
      /\ v.shares >= burned
  BY DEF Harvest
<1> HIDE DEF mv
<1>5. /\ v \in VowState
      /\ v.shares = mv.shares
      /\ v.yield_balance = mv.yield_balance
      /\ v.active_stake = mv.active_stake
      /\ v.matured = mv.matured
      /\ v.unlock_at = mv.unlock_at
      /\ v.total_commitments = mv.total_commitments
      /\ v.total_fulfilled = mv.total_fulfilled
  BY <1>2, SettleType
<1> HIDE DEF v
<1>6. /\ v.shares \in Nat /\ v.yield_balance \in Nat /\ v.total_harvested \in Nat
      /\ v.accrued_gain \in Int /\ v.yield_mode \in YieldMode
  BY <1>5, VowFields
<1>7. gain \in Nat /\ rest \in Int
  BY <1>6 DEF Remainder
<1>8. amount \in Nat
  <2>1. CASE v.accrued_gain > 0
    <3>1. v.accrued_gain \in Nat /\ v.accrued_gain \div 2 \in Nat
      BY <1>6, <2>1
    <3> QED
      BY <1>6, <2>1, <3>1 DEF TreasuryAmount, YieldMode
  <2> QED
    BY <1>6, <2>1
<1> HIDE DEF gain, amount, rest
<1>9. burned \in Nat
  BY <1>1, <1>8, SharesForNat DEF BurnFor
<1> HIDE DEF burned
<1>10. left \in Nat /\ balance \in Nat /\ harvested \in Nat
  BY <1>4, <1>6, <1>7, <1>8, <1>9
<1>11. shares \in Nat /\ claims \in Nat
  <2>1. config.total_shares \in Nat /\ config.total_yield_claims \in Nat
    BY ConfigFields
  <2>2. SatSub(config.total_shares, burned) \in Nat
    BY <1>9, <2>1, SatSubNat
  <2> QED
    BY <1>8, <2>1, <2>2
<1>12. /\ burned <= vow[n].shares /\ left = vow[n].shares - burned
       /\ balance = vow[n].yield_balance + amount
  BY <1>2, <1>4, <1>5, <1>6, <1>9
<1> HIDE DEF left, balance, harvested
<1>13. /\ after \in VowState
       /\ after.shares = left
       /\ after.yield_balance = balance
       /\ after.active_stake = v.active_stake
       /\ after.matured = v.matured
       /\ after.unlock_at = v.unlock_at
       /\ after.total_commitments = v.total_commitments
       /\ after.total_fulfilled = v.total_fulfilled
  BY <1>5, <1>7, <1>10 DEF VowState
<1> HIDE DEF after
<1>14. vow' \in [Nonces -> VowState] /\ vow'[n] = after /\ OnlyVow(n)
  BY <1>4, <1>13 DEF TypeInv, TypeOK, OnlyVow
<1>15. /\ config' \in ProtocolConfig
       /\ config'.current_share_price = config.current_share_price
       /\ config'.total_shares = shares
       /\ config'.total_yield_claims = claims
       /\ config'.total_pending_unstake = config.total_pending_unstake
       /\ config'.total_minted = config.total_minted
  <2>1. config \in ProtocolConfig
    BY ConfigFields
  <2> HIDE DEF shares, claims
  <2> QED
    BY <1>4, <1>11, <2>1 DEF ProtocolConfig
<1>16. TypeInv'
  BY <1>4, <1>14, <1>15 DEF TypeInv, TypeOK, TokensWithinSupply
<1>17. \E a \in Nat, b \in Nat :
          /\ b <= vow[n].shares
          /\ vow'[n].shares = vow[n].shares - b
          /\ vow'[n].yield_balance = vow[n].yield_balance + a
          /\ config'.total_shares = SatSub(config.total_shares, b)
          /\ config'.total_yield_claims = config.total_yield_claims + a
  BY <1>8, <1>9, <1>12, <1>13, <1>14, <1>15
<1> QED
  BY <1>2, <1>3, <1>5, <1>13, <1>14, <1>15, <1>16, <1>17

(* Deposits and payments of yield change the balance and the total alike.  *)
LEMMA YieldEffect ==
    ASSUME TypeInv, NEW n \in Nonces,
           NEW amount \in Nat,
           DepositYieldBalance(n, amount) \/ PayYield(n, amount)
    PROVE  /\ TypeInv'
           /\ OnlyVow(n)
           /\ vow' = [vow EXCEPT ![n].yield_balance = vow'[n].yield_balance]
           /\ \/ /\ vow'[n].yield_balance = vow[n].yield_balance + amount
                 /\ config'.total_yield_claims = config.total_yield_claims + amount
              \/ /\ amount <= vow[n].yield_balance
                 /\ vow'[n].yield_balance = vow[n].yield_balance - amount
                 /\ config'.total_yield_claims = SatSub(config.total_yield_claims, amount)
           /\ config'.total_shares = config.total_shares
           /\ config'.total_pending_unstake = config.total_pending_unstake
           /\ config'.total_minted = config.total_minted
           /\ UNCHANGED <<idents, escrow, now, epoch>>
<1>1. reserve \in Nat /\ vow[n] \in VowState /\ vow[n].yield_balance \in Nat
  BY VowFields DEF TypeInv, TypeOK
<1>2. PICK balance \in Nat, claims \in Nat :
        /\ vow' = [vow EXCEPT ![n].yield_balance = balance]
        /\ config' = [config EXCEPT !.total_yield_claims = claims]
        /\ reserve' \in Nat
        /\ \/ /\ balance = vow[n].yield_balance + amount
              /\ claims = config.total_yield_claims + amount
           \/ /\ amount <= vow[n].yield_balance
              /\ balance = vow[n].yield_balance - amount
              /\ claims = SatSub(config.total_yield_claims, amount)
  <2>1. config.total_yield_claims \in Nat
    BY ConfigFields
  <2>2. CASE DepositYieldBalance(n, amount)
    <3>1. vow[n].yield_balance + amount \in Nat /\ config.total_yield_claims + amount \in Nat
      BY <1>1, <2>1
    <3>2. reserve' \in Nat
      BY <1>1, <2>2 DEF DepositYieldBalance
    <3> QED
      BY <2>2, <3>1, <3>2 DEF DepositYieldBalance
  <2>3. CASE PayYield(n, amount)
    <3>1. vow[n].yield_balance - amount \in Nat /\ SatSub(config.total_yield_claims, amount) \in Nat
      BY <1>1, <2>1, <2>3, SatSubNat DEF PayYield
    <3>2. reserve' \in Nat /\ amount <= vow[n].yield_balance
      BY <1>1, <2>3 DEF PayYield
    <3> QED
      BY <2>3, <3>1, <3>2 DEF PayYield
  <2> QED
    BY <2>2, <2>3
<1>3. UNCHANGED <<idents, escrow, tokens, pool, now, epoch>>
  BY DEF DepositYieldBalance, PayYield
<1>4. /\ vow' \in [Nonces -> VowState]
      /\ vow'[n].yield_balance = balance
      /\ OnlyVow(n)
  BY <1>1, <1>2 DEF TypeInv, TypeOK, OnlyVow, VowState
<1>5. /\ config' \in ProtocolConfig
      /\ config'.current_share_price = config.current_share_price
      /\ config'.total_shares = config.total_shares
      /\ config'.total_yield_claims = claims
      /\ config'.total_pending_unstake = config.total_pending_unstake
      /\ config'.total_minted = config.total_minted
  <2>1. config \in ProtocolConfig
    BY ConfigFields
  <2> QED
    BY <1>2, <2>1 DEF ProtocolConfig
<1>6. TypeInv'
  BY <1>2, <1>3, <1>4, <1>5 DEF TypeInv, TypeOK, TokensWithinSupply
<1> QED
  BY <1>2, <1>3, <1>4, <1>5, <1>6

-----------------------------------------------------------------------------
(* The instructions that touch no identity and no escrow.                  *)

(* What the totals, the identities and the escrows are left as.            *)
LedgerKept ==
    /\ config'.total_shares = config.total_shares
    /\ config'.total_yield_claims = config.total_yield_claims
    /\ config'.total_pending_unstake = config.total_pending_unstake
    /\ config'.total_minted = config.total_minted
    /\ UNCHANGED <<idents, vow, escrow>>

LEMMA PriceEffect ==
    ASSUME TypeInv,
           \/ UpdateSharePrice
           \/ \E new_price \in DevPrices : DevSetSharePrice(new_price)
    PROVE  TypeInv' /\ LedgerKept /\ UNCHANGED <<now, epoch>>
<1>1. PICK price \in Nat, seen \in Nat :
        /\ config' = [config EXCEPT !.current_share_price = price, !.last_pool_lamports = seen]
  <2>1. /\ config \in ProtocolConfig /\ config.current_share_price \in Nat
        /\ config.last_pool_lamports \in Nat
    BY ConfigFields
  <2>2. CASE UpdateSharePrice
    <3> DEFINE price == IF pool.pool_token_supply = 0 THEN config.current_share_price
                        ELSE IF PoolPrice(pool) = 0 THEN 1 ELSE PoolPrice(pool)
    <3>1. pool.total_lamports \in Nat /\ pool.pool_token_supply \in Nat
      BY PoolFields
    <3>2. pool.pool_token_supply # 0 => PoolPrice(pool) \in Nat
      BY <3>1, PrecisionAssumption, MulNat, DivNat DEF PoolPrice
    <3>3. price \in Nat
      BY <2>1, <3>1, <3>2
    <3>4. config' = [config EXCEPT !.current_share_price = price,
                                   !.last_pool_lamports = pool.total_lamports]
      BY <2>2 DEF UpdateSharePrice
    <3> QED
      BY <3>1, <3>3, <3>4
  <2>3. ASSUME NEW new_price \in DevPrices, DevSetSharePrice(new_price)
        PROVE  /\ new_price \in Nat
               /\ config' = [config EXCEPT !.current_share_price = new_price,
                                           !.last_pool_lamports = config.last_pool_lamports]
    <3>1. new_price \in Nat
      BY CoreAssumption
    <3>2. config' = [config EXCEPT !.current_share_price = new_price]
      BY <2>3 DEF DevSetSharePrice
    <3> QED
      BY <2>1, <3>1, <3>2 DEF ProtocolConfig
  <2> QED
    BY <2>1, <2>2, <2>3
<1>2. UNCHANGED <<idents, vow, escrow, reserve, tokens, pool, now, epoch>>
  BY DEF UpdateSharePrice, DevSetSharePrice
<1>3. /\ config' \in ProtocolConfig
      /\ config'.current_share_price = price
      /\ config'.total_shares = config.total_shares
      /\ config'.total_yield_claims = config.total_yield_claims
      /\ config'.total_pending_unstake = config.total_pending_unstake
      /\ config'.total_minted = config.total_minted
  <2>1. config \in ProtocolConfig
    BY ConfigFields
  <2> QED
    BY <1>1, <2>1 DEF ProtocolConfig
<1>4. TypeInv'
  BY <1>1, <1>2, <1>3 DEF TypeInv, TypeOK, TokensWithinSupply
<1> QED
  BY <1>2, <1>3, <1>4 DEF LedgerKept

LEMMA FlushEffect ==
    ASSUME TypeInv, FlushReserveToPool
    PROVE  TypeInv' /\ LedgerKept /\ UNCHANGED <<now, epoch>>
<1> DEFINE amount == reserve - RENT_EXEMPT
           minted == PoolTokensFor(amount)
           lamports == pool.total_lamports + amount
           supply == pool.pool_token_supply + minted
<1>1. /\ pool \in StakePool /\ pool.total_lamports \in Nat /\ pool.pool_token_supply \in Nat
      /\ tokens \in Nat /\ tokens <= pool.pool_token_supply
  BY PoolFields
<1>2. /\ reserve > RENT_EXEMPT
      /\ reserve' = RENT_EXEMPT
      /\ tokens' = tokens + minted
      /\ pool' = [pool EXCEPT !.total_lamports = lamports, !.pool_token_supply = supply]
      /\ UNCHANGED <<config, idents, vow, escrow, now, epoch>>
  BY DEF FlushReserveToPool
<1>3. amount \in Nat /\ RENT_EXEMPT \in Nat
  BY <1>2, CoreAssumption DEF TypeInv, TypeOK
<1> HIDE DEF amount
<1>4. minted \in Nat
  BY <1>1, <1>3, MulNat, DivNat DEF PoolTokensFor
<1> HIDE DEF minted
<1>5. lamports \in Nat /\ supply \in Nat /\ tokens + minted \in Nat
      /\ tokens + minted <= supply
  BY <1>1, <1>3, <1>4
<1> HIDE DEF lamports, supply
<1>6. pool' \in StakePool /\ pool'.pool_token_supply = supply
  BY <1>1, <1>2, <1>5 DEF StakePool
<1>7. TypeInv'
  BY <1>2, <1>3, <1>5, <1>6 DEF TypeInv, TypeOK, TokensWithinSupply
<1> QED
  BY <1>2, <1>7 DEF LedgerKept

(* The tokens withdraw_from_pool burns are tokens of the reserve.          *)
LEMMA TokensToBurnBound ==
    ASSUME TypeInv, NEW n \in Nonces,
           reserve < escrow[n].lamports_owed, pool.total_lamports > 0
    PROVE  TokensToBurn(n) \in Nat /\ TokensToBurn(n) <= tokens
<1> DEFINE needed == escrow[n].lamports_owed - reserve
           product == needed * pool.pool_token_supply
           rounded == product + pool.total_lamports - 1
           wanted == rounded \div pool.total_lamports
<1>1. /\ pool.total_lamports \in Nat \ {0} /\ pool.pool_token_supply \in Nat /\ tokens \in Nat
      /\ escrow[n].lamports_owed \in Nat /\ reserve \in Nat
  BY PoolFields, EscrowFields DEF TypeInv, TypeOK
<1>2. TokensToBurn(n) = IF wanted <= tokens THEN wanted ELSE tokens
  BY DEF TokensToBurn
<1>3. needed \in Nat
  BY <1>1
<1> HIDE DEF needed
<1>4. product \in Nat
  BY <1>1, <1>3, MulNat
<1> HIDE DEF product
<1>5. rounded \in Nat
  BY <1>1, <1>4
<1> HIDE DEF rounded
<1>6. wanted \in Nat
  BY <1>1, <1>5, DivNat
<1> HIDE DEF wanted
<1> QED
  BY <1>1, <1>2, <1>6

LEMMA WithdrawFromPoolEffect ==
    ASSUME TypeInv, NEW n \in Nonces, WithdrawFromPool(n)
    PROVE  TypeInv' /\ LedgerKept /\ UNCHANGED <<now, epoch>>
<1> DEFINE burned == TokensToBurn(n)
           received == PoolLamportsFor(burned)
           lamports == pool.total_lamports - received
           supply == pool.pool_token_supply - burned
<1>1. /\ pool \in StakePool /\ pool.total_lamports \in Nat /\ pool.pool_token_supply \in Nat
      /\ tokens \in Nat /\ tokens <= pool.pool_token_supply /\ reserve \in Nat
  BY PoolFields DEF TypeInv, TypeOK
<1>2. /\ reserve < escrow[n].lamports_owed
      /\ pool.pool_token_supply > 0 /\ pool.total_lamports > 0
      /\ reserve' = reserve + received
      /\ tokens' = tokens - burned
      /\ pool' = [pool EXCEPT !.total_lamports = lamports, !.pool_token_supply = supply]
      /\ UNCHANGED <<config, idents, vow, escrow, now, epoch>>
  BY DEF WithdrawFromPool
<1>3. burned \in Nat /\ burned <= tokens
  BY <1>2, TokensToBurnBound
<1> HIDE DEF burned
<1>4. received \in Nat /\ received <= pool.total_lamports
  <2>1. burned <= pool.pool_token_supply /\ pool.pool_token_supply \in Nat \ {0}
    BY <1>1, <1>2, <1>3
  <2> QED
    BY <1>1, <1>3, <2>1, ProRataBound DEF PoolLamportsFor
<1> HIDE DEF received
<1>5. /\ lamports \in Nat /\ supply \in Nat /\ tokens - burned \in Nat
      /\ tokens - burned <= supply /\ reserve + received \in Nat
  BY <1>1, <1>3, <1>4
<1> HIDE DEF lamports, supply
<1>6. pool' \in StakePool /\ pool'.pool_token_supply = supply
  BY <1>1, <1>2, <1>5 DEF StakePool
<1>7. TypeInv'
  BY <1>2, <1>5, <1>6 DEF TypeInv, TypeOK, TokensWithinSupply
<1> QED
  BY <1>2, <1>7 DEF LedgerKept

LEMMA PoolUpdateEffect ==
    ASSUME TypeInv, NEW delta \in PoolDeltas, PoolUpdate(delta)
    PROVE  TypeInv' /\ LedgerKept /\ UNCHANGED <<now, epoch>>
<1> DEFINE lamports == pool.total_lamports + delta
<1>1. /\ pool \in StakePool /\ pool.total_lamports \in Nat /\ delta \in Int /\ epoch \in Nat
      /\ tokens <= pool.pool_token_supply
  BY PoolFields, CoreAssumption DEF TypeInv, TypeOK
<1>2. /\ lamports > 0
      /\ pool' = [pool EXCEPT !.total_lamports = lamports, !.last_update_epoch = epoch]
      /\ UNCHANGED <<config, idents, vow, escrow, reserve, tokens, now, epoch>>
  BY DEF PoolUpdate
<1>3. lamports \in Nat
  BY <1>1, <1>2
<1> HIDE DEF lamports
<1>4. pool' \in StakePool /\ pool'.pool_token_supply = pool.pool_token_supply
  BY <1>1, <1>2, <1>3 DEF StakePool
<1>5. TypeInv'
  BY <1>1, <1>2, <1>4 DEF TypeInv, TypeOK, TokensWithinSupply
<1> QED
  BY <1>2, <1>5 DEF LedgerKept

LEMMA ClockEffect ==
    ASSUME TypeInv, Tick \/ NextEpoch
    PROVE  /\ TypeInv' /\ LedgerKept
           /\ now' >= now /\ epoch' >= epoch
  BY DEF TypeInv, TypeOK, TokensWithinSupply, LedgerKept, Tick, NextEpoch

LEMMA DevFastUnlockEffect ==
    ASSUME TypeInv, NEW n \in Nonces, DevFastUnlock(n)
    PROVE  /\ TypeInv'
           /\ vow' = [vow EXCEPT ![n].unlock_at = 1]
           /\ UNCHANGED <<config, idents, escrow, now, epoch>>
<1>1. /\ vow' = [vow EXCEPT ![n].unlock_at = 1]
      /\ UNCHANGED <<config, idents, escrow, reserve, tokens, pool, now, epoch>>
  BY DEF DevFastUnlock
<1>2. vow' \in [Nonces -> VowState]
  BY <1>1 DEF TypeInv, TypeOK, VowState
<1> QED
  BY <1>1, <1>2 DEF TypeInv, TypeOK, TokensWithinSupply

-----------------------------------------------------------------------------
LEMMA NextType == TypeInv /\ [Next]_vars => TypeInv'
<1> SUFFICES ASSUME TypeInv, [Next]_vars PROVE TypeInv'
  OBVIOUS
<1>1. CASE UNCHANGED vars
  BY <1>1 DEF vars, TypeInv, TypeOK, TokensWithinSupply
<1>2. ASSUME NEW w \in Wallets, NEW l \in StakeAmounts, NEW m \in Modes, Mint(w, l, m)
      PROVE  TypeInv'
  BY <1>2, MintEffect
<1>3. ASSUME NEW n \in idents,
             \/ \E l \in TopUpAmounts : AddStake(n, l)
             \/ \E l \in StakeAmounts, m \in Modes : ActivateStake(n, l, m)
             \/ BeginUnstake(n)
             \/ CompleteUnstake(n)
             \/ \E m \in Modes : UpdateYieldMode(n, m)
             \/ Harvest(n)
             \/ \E amount \in YieldAmounts : DepositYieldBalance(n, amount)
             \/ WithdrawYield(n)
             \/ WithdrawFromPool(n)
             \/ DevFastUnlock(n)
      PROVE  TypeInv'
  <2>1. n \in Nonces /\ vow[n].yield_balance \in Nat /\ YieldAmounts \subseteq Nat
    <3>1. n \in Nonces /\ vow[n] \in VowState
      BY DEF TypeInv, TypeOK
    <3> QED
      BY <3>1, VowFields, CoreAssumption
  <2>2. WithdrawYield(n) => \E amount \in Nat : PayYield(n, amount)
    BY <2>1 DEF WithdrawYield
  <2> QED
    BY <1>3, <2>1, <2>2, AddStakeEffect, ActivateStakeEffect, BeginUnstakeEffect,
       CompleteUnstakeEffect, UpdateYieldModeEffect, HarvestEffect, YieldEffect,
       WithdrawFromPoolEffect, DevFastUnlockEffect
<1>4. CASE UpdateSharePrice \/ \E new_price \in DevPrices : DevSetSharePrice(new_price)
  BY <1>4, PriceEffect
<1>5. CASE FlushReserveToPool
  BY <1>5, FlushEffect
<1>6. CASE Tick \/ NextEpoch
  BY <1>6, ClockEffect
<1>7. ASSUME NEW delta \in PoolDeltas, PoolUpdate(delta) PROVE TypeInv'
  BY <1>7, PoolUpdateEffect
<1> QED
  BY <1>1, <1>2, <1>3, <1>4, <1>5, <1>6, <1>7 DEF Next

(* Every instruction, in every state the accounts can reach, keeps the     *)
(* accounts representable: no unchecked subtraction of the handlers goes   *)
(* below zero, whatever price the pool opened with, a price of zero too.   *)
THEOREM TypeCorrect == Spec => []TypeOK
<1>1. Spec => []TypeInv
  BY InitType, NextType, PTL DEF Spec
<1>2. TypeInv => TypeOK
  BY DEF TypeInv
<1> QED
  BY <1>1, <1>2, PTL
=============================================================================
