------------------------- MODULE VowLifecycleProofs -------------------------
(***************************************************************************)
(* The accounts of the vow program implement the identity lifecycle.       *)
(*                                                                         *)
(*   mint, activate_stake      Commit                                      *)
(*   add_stake                 Extend, or no step below a tier boundary    *)
(*   dev_fast_unlock           Waive                                       *)
(*   begin_unstake             Leave                                       *)
(*   complete_unstake          Rest                                        *)
(*   the clock                 Pass                                        *)
(*                                                                         *)
(* and everything else changes nothing the lifecycle sees.  The step that  *)
(* needs the invariant is begin_unstake: it trusts the flag `matured', and *)
(* the lifecycle the clock.                                                *)
(***************************************************************************)
EXTENDS VowLifecycle, VowPositionProofs

(* What the lifecycle sees of one identity is left alone.                  *)
Unseen(n) ==
    /\ PhaseOf(n)' = PhaseOf(n)
    /\ vow'[n].unlock_at = vow[n].unlock_at
    /\ vow'[n].total_commitments = vow[n].total_commitments
    /\ vow'[n].total_fulfilled = vow[n].total_fulfilled

UnseenElsewhere(n) == \A m \in Nonces : m # n => Unseen(m)

LEMMA Elsewhere ==
    ASSUME NEW n \in Nonces, OnlyVow(n), OnlyEscrow(n),
           idents' = idents \/ idents' = idents \cup {n}
    PROVE  UnseenElsewhere(n)
  BY DEF OnlyVow, OnlyEscrow, UnseenElsewhere, Unseen, PhaseOf

-----------------------------------------------------------------------------
(* Steps of the lifecycle, from what the accounts of one identity show.    *)
LEMMA UnseenStep ==
    ASSUME \A n \in Nonces : Unseen(n), now' = now
    PROVE  UNCHANGED Lifecycle!vars
<1>1. /\ [n \in Nonces |-> PhaseOf(n)]' = [n \in Nonces |-> PhaseOf(n)]
      /\ [n \in Nonces |-> vow[n].unlock_at]' = [n \in Nonces |-> vow[n].unlock_at]
      /\ [n \in Nonces |-> vow[n].total_commitments]' = [n \in Nonces |-> vow[n].total_commitments]
      /\ [n \in Nonces |-> vow[n].total_fulfilled]' = [n \in Nonces |-> vow[n].total_fulfilled]
  BY DEF Unseen
<1> QED
  BY <1>1 DEF Lifecycle!vars

LEMMA PassStep ==
    ASSUME \A n \in Nonces : Unseen(n), now' = now + 1
    PROVE  Lifecycle!Next
<1>1. /\ [n \in Nonces |-> PhaseOf(n)]' = [n \in Nonces |-> PhaseOf(n)]
      /\ [n \in Nonces |-> vow[n].unlock_at]' = [n \in Nonces |-> vow[n].unlock_at]
      /\ [n \in Nonces |-> vow[n].total_commitments]' = [n \in Nonces |-> vow[n].total_commitments]
      /\ [n \in Nonces |-> vow[n].total_fulfilled]' = [n \in Nonces |-> vow[n].total_fulfilled]
  BY DEF Unseen
<1>2. Lifecycle!Pass
  BY <1>1 DEF Lifecycle!Pass
<1> QED
  BY <1>2 DEF Lifecycle!Next

LEMMA CommitStep ==
    ASSUME NEW n \in Nonces, UnseenElsewhere(n), NEW class \in Classes,
           PhaseOf(n) \in {"None", "Dormant"}, PhaseOf(n)' = "Active",
           vow'[n].unlock_at = now + lock_duration(class),
           vow'[n].total_commitments = vow[n].total_commitments + 1,
           vow'[n].total_fulfilled = vow[n].total_fulfilled,
           now' = now
    PROVE  Lifecycle!Next
<1>1. Lifecycle!Commit(n)
  BY DEF Lifecycle!Commit, UnseenElsewhere, Unseen
<1> QED
  BY <1>1 DEF Lifecycle!Next

LEMMA ExtendStep ==
    ASSUME NEW n \in Nonces, UnseenElsewhere(n), NEW class \in Classes,
           PhaseOf(n) = "Active", PhaseOf(n)' = "Active",
           vow'[n].unlock_at = now + lock_duration(class),
           vow'[n].total_commitments = vow[n].total_commitments,
           vow'[n].total_fulfilled = vow[n].total_fulfilled,
           now' = now
    PROVE  Lifecycle!Next
<1>1. Lifecycle!Extend(n)
  BY DEF Lifecycle!Extend, UnseenElsewhere, Unseen
<1> QED
  BY <1>1 DEF Lifecycle!Next

LEMMA WaiveStep ==
    ASSUME NEW n \in Nonces, UnseenElsewhere(n), ~PoolConfigured,
           PhaseOf(n) # "None", PhaseOf(n)' = PhaseOf(n),
           vow'[n].unlock_at = 1,
           vow'[n].total_commitments = vow[n].total_commitments,
           vow'[n].total_fulfilled = vow[n].total_fulfilled,
           now' = now
    PROVE  Lifecycle!Next
<1>1. Lifecycle!Waive(n)
  BY DEF Lifecycle!Waive, UnseenElsewhere, Unseen
<1> QED
  BY <1>1 DEF Lifecycle!Next

LEMMA LeaveStep ==
    ASSUME NEW n \in Nonces, UnseenElsewhere(n),
           PhaseOf(n) = "Active", PhaseOf(n)' = "Unstaking",
           now >= vow[n].unlock_at,
           vow'[n].unlock_at = vow[n].unlock_at,
           vow'[n].total_commitments = vow[n].total_commitments,
           vow'[n].total_fulfilled = vow[n].total_fulfilled,
           now' = now
    PROVE  Lifecycle!Next
<1>1. Lifecycle!Leave(n)
  BY DEF Lifecycle!Leave, UnseenElsewhere, Unseen
<1> QED
  BY <1>1 DEF Lifecycle!Next

LEMMA RestStep ==
    ASSUME NEW n \in Nonces, UnseenElsewhere(n),
           PhaseOf(n) = "Unstaking", PhaseOf(n)' = "Dormant",
           vow'[n].unlock_at = vow[n].unlock_at,
           vow'[n].total_commitments = vow[n].total_commitments,
           vow'[n].total_fulfilled = vow[n].total_fulfilled + 1,
           now' = now
    PROVE  Lifecycle!Next
<1>1. Lifecycle!Rest(n)
  BY DEF Lifecycle!Rest, UnseenElsewhere, Unseen
<1> QED
  BY <1>1 DEF Lifecycle!Next

-----------------------------------------------------------------------------
(* Each instruction is such a step.                                        *)
LEMMA MintLifecycle ==
    ASSUME LedgerInv, NEW w \in Wallets, NEW l \in StakeAmounts, NEW m \in Modes, Mint(w, l, m)
    PROVE  Lifecycle!Next
<1>1. PICK n \in Nonces \ idents : n = config.total_minted
  BY DEF Mint, FreshAccount
<1>2. TypeInv /\ vow[n] = NoVow /\ escrow[n] = NoEscrow
  BY <1>1 DEF LedgerInv, Sound
<1>3. /\ OnlyVow(n) /\ vow'[n].active_stake
      /\ vow'[n].total_commitments = 1 /\ vow'[n].total_fulfilled = 0
  BY <1>1, <1>2, MintEffect
<1>4. vow'[n].unlock_at = now + lock_duration(class_for_stake(l)) /\ l \in Nat
  BY <1>1, <1>2, MintPosition
<1>5. idents' = idents \cup {n} /\ escrow' = escrow /\ now' = now
  BY <1>1 DEF Mint
<1>6. UnseenElsewhere(n)
  BY <1>3, <1>5, Elsewhere DEF OnlyEscrow
<1>7. PhaseOf(n) = "None" /\ PhaseOf(n)' = "Active"
  BY <1>1, <1>2, <1>3, <1>5 DEF PhaseOf, NoEscrow
<1>8. /\ vow'[n].total_commitments = vow[n].total_commitments + 1
      /\ vow'[n].total_fulfilled = vow[n].total_fulfilled
  BY <1>2, <1>3 DEF NoVow
<1>9. class_for_stake(l) \in Classes
  BY <1>4, ClassType
<1> QED
  BY <1>4, <1>5, <1>6, <1>7, <1>8, <1>9, CommitStep

LEMMA AddStakeLifecycle ==
    ASSUME LedgerInv, NEW n \in idents, n \in Nonces, NEW l \in TopUpAmounts, AddStake(n, l)
    PROVE  [Lifecycle!Next]_(Lifecycle!vars)
<1> DEFINE class == class_for_stake(vow[n].principal_lamports + l)
<1>1. TypeInv /\ Sound(n) /\ vow[n].shares \in Nat
  BY Before
<1>2. /\ OnlyVow(n) /\ vow'[n].active_stake = vow[n].active_stake
      /\ vow'[n].total_commitments = vow[n].total_commitments
      /\ vow'[n].total_fulfilled = vow[n].total_fulfilled
  BY <1>1, AddStakeEffect
<1>3. /\ class \in Classes
      /\ IF class > vow[n].class THEN vow'[n].unlock_at = now + lock_duration(class)
         ELSE vow'[n].unlock_at = vow[n].unlock_at
  BY <1>1, AddStakePosition
<1>4. /\ vow[n].active_stake /\ vow[n].shares > 0
      /\ UNCHANGED <<idents, escrow, now>>
  BY DEF AddStake, CanTopUp
<1>5. PhaseOf(n) = "Active" /\ PhaseOf(n)' = "Active"
  BY <1>1, <1>2, <1>4 DEF PhaseOf, Sound
<1>6. UnseenElsewhere(n)
  BY <1>2, <1>4, Elsewhere DEF OnlyEscrow
<1> HIDE DEF class
<1>7. CASE class > vow[n].class
  BY <1>2, <1>3, <1>4, <1>5, <1>6, <1>7, ExtendStep
<1>8. CASE ~(class > vow[n].class)
  <2>1. \A m \in Nonces : Unseen(m)
    BY <1>2, <1>3, <1>5, <1>6, <1>8 DEF UnseenElsewhere, Unseen
  <2> QED
    BY <1>4, <2>1, UnseenStep
<1> QED
  BY <1>7, <1>8

LEMMA ActivateStakeLifecycle ==
    ASSUME LedgerInv, NEW n \in idents, n \in Nonces, NEW l \in StakeAmounts, NEW m \in Modes,
           ActivateStake(n, l, m)
    PROVE  Lifecycle!Next
<1>1. TypeInv /\ Sound(n)
  BY Before
<1>2. /\ OnlyVow(n) /\ ~vow[n].active_stake /\ vow'[n].active_stake
      /\ vow'[n].total_commitments = vow[n].total_commitments + 1
      /\ vow'[n].total_fulfilled = vow[n].total_fulfilled
  BY <1>1, ActivateStakeEffect
<1>3. /\ class_for_stake(l) \in Classes
      /\ vow'[n].unlock_at = now + lock_duration(class_for_stake(l))
  BY <1>1, ActivateStakePosition
<1>4. UNCHANGED <<idents, escrow, now>>
  BY DEF ActivateStake
<1>5. PhaseOf(n) = "Dormant" /\ PhaseOf(n)' = "Active"
  BY <1>1, <1>2, <1>4 DEF PhaseOf, Sound
<1>6. UnseenElsewhere(n)
  BY <1>2, <1>4, Elsewhere DEF OnlyEscrow
<1> QED
  BY <1>2, <1>3, <1>4, <1>5, <1>6, CommitStep

LEMMA BeginUnstakeLifecycle ==
    ASSUME LedgerInv, NEW n \in idents, n \in Nonces, BeginUnstake(n)
    PROVE  Lifecycle!Next
<1>1. TypeInv /\ Sound(n)
  BY Before
<1>2. /\ OnlyVow(n) /\ ~escrow[n].live /\ vow[n].active_stake
      /\ vow[n].matured \/ now >= vow[n].unlock_at
      /\ vow'[n].unlock_at = vow[n].unlock_at
      /\ vow'[n].total_commitments = vow[n].total_commitments
      /\ vow'[n].total_fulfilled = vow[n].total_fulfilled
      /\ escrow' = [escrow EXCEPT ![n] = [live |-> TRUE,
                        lamports_owed |-> escrow'[n].lamports_owed,
                        deactivation_epoch |-> epoch]]
  BY <1>1, BeginUnstakeEffect
<1>3. now >= vow[n].unlock_at
  BY <1>1, <1>2 DEF Sound
<1>4. escrow'[n].live /\ OnlyEscrow(n)
  BY <1>1, <1>2 DEF OnlyEscrow, TypeInv, TypeOK
<1>5. UNCHANGED <<idents, now>>
  BY DEF BeginUnstake
<1>6. PhaseOf(n) = "Active" /\ PhaseOf(n)' = "Unstaking"
  BY <1>2, <1>4, <1>5 DEF PhaseOf
<1>7. UnseenElsewhere(n)
  BY <1>2, <1>4, <1>5, Elsewhere
<1> QED
  BY <1>2, <1>3, <1>5, <1>6, <1>7, LeaveStep

LEMMA CompleteUnstakeLifecycle ==
    ASSUME LedgerInv, NEW n \in idents, n \in Nonces, CompleteUnstake(n)
    PROVE  Lifecycle!Next
<1>1. TypeInv /\ Sound(n)
  BY Before
<1>2. /\ OnlyVow(n) /\ escrow[n].live /\ ~vow'[n].active_stake
      /\ vow'[n].unlock_at = vow[n].unlock_at
      /\ vow'[n].total_commitments = vow[n].total_commitments
      /\ vow'[n].total_fulfilled = IF vow[n].matured THEN vow[n].total_fulfilled + 1
                                   ELSE vow[n].total_fulfilled
      /\ escrow' = [escrow EXCEPT ![n] = NoEscrow]
  BY <1>1, CompleteUnstakeEffect
<1>3. vow'[n].total_fulfilled = vow[n].total_fulfilled + 1
  BY <1>1, <1>2 DEF Sound
<1>4. ~escrow'[n].live /\ OnlyEscrow(n)
  BY <1>1, <1>2 DEF OnlyEscrow, TypeInv, TypeOK, NoEscrow
<1>5. UNCHANGED <<idents, now>>
  BY DEF CompleteUnstake
<1>6. PhaseOf(n) = "Unstaking" /\ PhaseOf(n)' = "Dormant"
  BY <1>2, <1>4, <1>5 DEF PhaseOf
<1>7. UnseenElsewhere(n)
  BY <1>2, <1>4, <1>5, Elsewhere
<1> QED
  BY <1>2, <1>3, <1>5, <1>6, <1>7, RestStep

LEMMA DevFastUnlockLifecycle ==
    ASSUME LedgerInv, NEW n \in idents, n \in Nonces, DevFastUnlock(n)
    PROVE  Lifecycle!Next
<1>1. TypeInv
  BY Before
<1>2. /\ OnlyVow(n) /\ vow'[n].active_stake = vow[n].active_stake
      /\ vow'[n].unlock_at = 1
      /\ vow'[n].total_commitments = vow[n].total_commitments
      /\ vow'[n].total_fulfilled = vow[n].total_fulfilled
  BY <1>1, DevFastUnlockPosition
<1>3. UNCHANGED <<idents, escrow, now>> /\ ~PoolConfigured
  BY DEF DevFastUnlock
<1>4. PhaseOf(n) # "None" /\ PhaseOf(n)' = PhaseOf(n)
  BY <1>2, <1>3 DEF PhaseOf
<1>5. UnseenElsewhere(n)
  BY <1>2, <1>3, Elsewhere DEF OnlyEscrow
<1> QED
  BY <1>2, <1>3, <1>4, <1>5, WaiveStep

(* Settling, harvesting and moving yield are invisible.                    *)
LEMMA YieldLifecycle ==
    ASSUME LedgerInv, NEW n \in idents, n \in Nonces,
           \/ \E m \in Modes : UpdateYieldMode(n, m)
           \/ Harvest(n)
           \/ \E amount \in Nat : DepositYieldBalance(n, amount) \/ PayYield(n, amount)
    PROVE  UNCHANGED Lifecycle!vars
<1>1. TypeInv
  BY Before
<1>2. /\ OnlyVow(n) /\ vow'[n].active_stake = vow[n].active_stake
      /\ vow'[n].unlock_at = vow[n].unlock_at
      /\ vow'[n].total_commitments = vow[n].total_commitments
      /\ vow'[n].total_fulfilled = vow[n].total_fulfilled
  BY <1>1, UpdateYieldModeEffect, HarvestEffect, YieldEffect, YieldPosition
<1>3. UNCHANGED <<idents, escrow, now>>
  BY DEF UpdateYieldMode, Harvest, DepositYieldBalance, PayYield
<1>4. Unseen(n)
  BY <1>2, <1>3 DEF Unseen, PhaseOf
<1>5. UnseenElsewhere(n)
  BY <1>2, <1>3, Elsewhere DEF OnlyEscrow
<1> QED
  BY <1>3, <1>4, <1>5, UnseenStep DEF UnseenElsewhere

(* Steps that touch no identity and no escrow.                             *)
LEMMA KeptLifecycle ==
    ASSUME UNCHANGED <<idents, vow, escrow>>, now' = now \/ now' = now + 1
    PROVE  [Lifecycle!Next]_(Lifecycle!vars)
<1>1. \A n \in Nonces : Unseen(n)
  BY DEF Unseen, PhaseOf
<1> QED
  BY <1>1, UnseenStep, PassStep

-----------------------------------------------------------------------------
LEMMA InitLifecycle == Init => Lifecycle!Init
<1> SUFFICES ASSUME Init PROVE Lifecycle!Init
  OBVIOUS
<1>1. \A n \in Nonces : PhaseOf(n) = "None" /\ vow[n] = NoVow
  BY DEF Init, PhaseOf
<1> QED
  BY <1>1 DEF Init, Lifecycle!Init, NoVow

LEMMA NextLifecycle == LedgerInv /\ [Next]_vars => [Lifecycle!Next]_(Lifecycle!vars)
<1> SUFFICES ASSUME LedgerInv, [Next]_vars PROVE [Lifecycle!Next]_(Lifecycle!vars)
  OBVIOUS
<1>1. idents \subseteq Nonces
  BY DEF LedgerInv, TypeInv, TypeOK
<1>2. CASE UNCHANGED vars
  BY <1>2, KeptLifecycle DEF vars
<1>3. ASSUME NEW w \in Wallets, NEW l \in StakeAmounts, NEW m \in Modes, Mint(w, l, m)
      PROVE  Lifecycle!Next
  BY <1>3, MintLifecycle
<1>4. ASSUME NEW n \in idents,
             \/ \E l \in TopUpAmounts : AddStake(n, l)
             \/ \E l \in StakeAmounts, m \in Modes : ActivateStake(n, l, m)
             \/ BeginUnstake(n)
             \/ CompleteUnstake(n)
             \/ \E m \in Modes : UpdateYieldMode(n, m)
             \/ Harvest(n)
             \/ \E amount \in YieldAmounts : DepositYieldBalance(n, amount)
             \/ WithdrawYield(n)
             \/ DevFastUnlock(n)
      PROVE  [Lifecycle!Next]_(Lifecycle!vars)
  <2>1. n \in Nonces /\ vow[n].yield_balance \in Nat /\ YieldAmounts \subseteq Nat
    <3>1. n \in Nonces
      BY <1>1
    <3> QED
      BY <3>1, Before, CoreAssumption
  <2>2. WithdrawYield(n) => \E amount \in Nat : PayYield(n, amount)
    BY <2>1 DEF WithdrawYield
  <2>3. CASE \E l \in TopUpAmounts : AddStake(n, l)
    BY <2>1, <2>3, AddStakeLifecycle
  <2>4. CASE \/ \E l \in StakeAmounts, m \in Modes : ActivateStake(n, l, m)
             \/ BeginUnstake(n) \/ CompleteUnstake(n) \/ DevFastUnlock(n)
    BY <2>1, <2>4, ActivateStakeLifecycle, BeginUnstakeLifecycle, CompleteUnstakeLifecycle,
       DevFastUnlockLifecycle
  <2>5. CASE \/ \E m \in Modes : UpdateYieldMode(n, m)
             \/ Harvest(n)
             \/ \E amount \in YieldAmounts : DepositYieldBalance(n, amount)
             \/ WithdrawYield(n)
    BY <2>1, <2>2, <2>5, YieldLifecycle
  <2> QED
    BY <1>4, <2>3, <2>4, <2>5
<1>5. CASE \/ \E n \in idents : WithdrawFromPool(n)
           \/ UpdateSharePrice \/ \E new_price \in DevPrices : DevSetSharePrice(new_price)
           \/ FlushReserveToPool \/ Tick \/ NextEpoch
           \/ \E delta \in PoolDeltas : PoolUpdate(delta)
  <2>1. UNCHANGED <<idents, vow, escrow>> /\ (now' = now \/ now' = now + 1)
    BY <1>5 DEF WithdrawFromPool, UpdateSharePrice, DevSetSharePrice, FlushReserveToPool,
       Tick, NextEpoch, PoolUpdate
  <2> QED
    BY <2>1, KeptLifecycle
<1> QED
  BY <1>2, <1>3, <1>4, <1>5 DEF Next

(* Every behaviour of the accounts is a behaviour of the identity          *)
(* lifecycle: nobody leaves before the lock of the current commitment is   *)
(* over, also after a top-up restarted it, and each commitment that ends   *)
(* is counted once.                                                        *)
THEOREM LifecycleImplemented == Spec => ImplementsLifecycle
  BY InitLifecycle, NextLifecycle, LedgerInvariant, PTL
  DEF Spec, ImplementsLifecycle, Lifecycle!Spec
=============================================================================
