-------------------------- MODULE VowSafetyProofs --------------------------
(***************************************************************************)
(* The safety of VowCore for any number of identities, any amounts, prices *)
(* and tiers.  The inductive invariant LedgerInv joins the totals of the   *)
(* config to a per-identity part; neither is inductive alone.  The totals  *)
(* are exact because no saturating_sub saturates, which holds because the  *)
(* account subtracted from is a summand of the total.  A fulfilled         *)
(* commitment is counted because an escrow exists only for a matured       *)
(* identity, which stays matured because a position without shares cannot  *)
(* be topped up.                                                           *)
(***************************************************************************)
EXTENDS VowTypeProofs

(* The clock is at a positive time, the one dev_fast_unlock relies on.     *)
ClockStarted == now >= 1

(* The invariants of a single identity, together.                          *)
Sound(n) ==
    /\ n \notin idents => vow[n] = NoVow /\ escrow[n] = NoEscrow
    /\ escrow[n].live =>
          /\ n \in idents
          /\ vow[n].active_stake
          /\ vow[n].matured
          /\ vow[n].shares = 0
          /\ escrow[n].deactivation_epoch <= epoch
    /\ ~escrow[n].live => escrow[n].lamports_owed = 0
    /\ ~vow[n].active_stake => vow[n].shares = 0
    /\ n \in idents =>
          /\ vow[n].total_commitments =
                vow[n].total_fulfilled + (IF vow[n].active_stake THEN 1 ELSE 0)
          /\ vow[n].matured => now >= vow[n].unlock_at

LedgerInv ==
    /\ TypeInv
    /\ ClockStarted
    /\ TotalsAgree
    /\ \A n \in Nonces : Sound(n)

(* The escrows but one are left alone.                                     *)
OnlyEscrow(n) == \A m \in Nonces : m # n => escrow'[m] = escrow[m]

-----------------------------------------------------------------------------
(* What is held is a number per nonce.                                     *)
LEMMA HeldType ==
    ASSUME TypeInv
    PROVE  /\ MaxVows \in Nat
           /\ SharesHeld \in [0..(MaxVows - 1) -> Nat]
           /\ ClaimsHeld \in [0..(MaxVows - 1) -> Nat]
           /\ DebtsHeld \in [0..(MaxVows - 1) -> Nat]
<1>1. \A n \in Nonces : vow[n].shares \in Nat /\ vow[n].yield_balance \in Nat
  <2> TAKE n \in Nonces
  <2>1. vow[n] \in VowState
    BY DEF TypeInv, TypeOK
  <2> QED
    BY <2>1, VowFields
<1>2. \A n \in Nonces : escrow[n].lamports_owed \in Nat
  BY EscrowFields
<1> QED
  BY <1>1, <1>2, CoreAssumption DEF SharesHeld, ClaimsHeld, DebtsHeld, Nonces

(* The part of one identity is never more than the whole.                  *)
LEMMA HeldWithinTotals ==
    ASSUME TypeInv, TotalsAgree, NEW n \in Nonces
    PROVE  /\ vow[n].shares \in Nat /\ vow[n].shares <= config.total_shares
           /\ vow[n].yield_balance \in Nat
           /\ vow[n].yield_balance <= config.total_yield_claims
           /\ escrow[n].lamports_owed \in Nat
           /\ escrow[n].lamports_owed <= config.total_pending_unstake
<1>1. n \in 0..(MaxVows - 1)
  BY DEF Nonces
<1>2. /\ SharesHeld[n] <= SumTo(SharesHeld, MaxVows)
      /\ ClaimsHeld[n] <= SumTo(ClaimsHeld, MaxVows)
      /\ DebtsHeld[n] <= SumTo(DebtsHeld, MaxVows)
  BY <1>1, HeldType, SumBound
<1>3. /\ SharesHeld[n] = vow[n].shares
      /\ ClaimsHeld[n] = vow[n].yield_balance
      /\ DebtsHeld[n] = escrow[n].lamports_owed
  BY DEF SharesHeld, ClaimsHeld, DebtsHeld
<1>4. vow[n] \in VowState
  BY DEF TypeInv, TypeOK
<1> QED
  BY <1>2, <1>3, <1>4, VowFields, EscrowFields DEF TotalsAgree

(* A step that changes one identity keeps the totals exact when it books   *)
(* the same difference in the total as in the account.                     *)
LEMMA TotalsStep ==
    ASSUME TypeInv, TypeInv', TotalsAgree, NEW n \in Nonces,
           OnlyVow(n), OnlyEscrow(n),
           config'.total_shares = config.total_shares - vow[n].shares + vow'[n].shares,
           config'.total_yield_claims =
              config.total_yield_claims - vow[n].yield_balance + vow'[n].yield_balance,
           config'.total_pending_unstake =
              config.total_pending_unstake - escrow[n].lamports_owed + escrow'[n].lamports_owed
    PROVE  TotalsAgree'
<1>1. n \in 0..(MaxVows - 1)
  BY DEF Nonces
<1>2. /\ MaxVows \in Nat
      /\ SharesHeld \in [0..(MaxVows - 1) -> Nat]
      /\ ClaimsHeld \in [0..(MaxVows - 1) -> Nat]
      /\ DebtsHeld \in [0..(MaxVows - 1) -> Nat]
  BY HeldType
<1>3. /\ SharesHeld' \in [0..(MaxVows - 1) -> Nat]
      /\ ClaimsHeld' \in [0..(MaxVows - 1) -> Nat]
      /\ DebtsHeld' \in [0..(MaxVows - 1) -> Nat]
  <2>1. \A m \in Nonces : vow'[m].shares \in Nat /\ vow'[m].yield_balance \in Nat
    <3> TAKE m \in Nonces
    <3>1. vow'[m] \in VowState
      BY DEF TypeInv, TypeOK
    <3> QED
      BY <3>1, VowFields
  <2>2. \A m \in Nonces : escrow'[m].lamports_owed \in Nat
    BY DEF TypeInv, TypeOK, UnstakeEscrow
  <2> QED
    BY <2>1, <2>2 DEF SharesHeld, ClaimsHeld, DebtsHeld, Nonces
<1>4. \A m \in 0..(MaxVows - 1) : m # n =>
          /\ SharesHeld'[m] = SharesHeld[m]
          /\ ClaimsHeld'[m] = ClaimsHeld[m]
          /\ DebtsHeld'[m] = DebtsHeld[m]
  BY DEF SharesHeld, ClaimsHeld, DebtsHeld, Nonces, OnlyVow, OnlyEscrow
<1>5. /\ SumTo(SharesHeld', MaxVows) = SumTo(SharesHeld, MaxVows) - SharesHeld[n] + SharesHeld'[n]
      /\ SumTo(ClaimsHeld', MaxVows) = SumTo(ClaimsHeld, MaxVows) - ClaimsHeld[n] + ClaimsHeld'[n]
      /\ SumTo(DebtsHeld', MaxVows) = SumTo(DebtsHeld, MaxVows) - DebtsHeld[n] + DebtsHeld'[n]
  BY <1>1, <1>2, <1>3, <1>4, SumUpdate
<1>6. /\ SharesHeld[n] = vow[n].shares /\ SharesHeld'[n] = vow'[n].shares
      /\ ClaimsHeld[n] = vow[n].yield_balance /\ ClaimsHeld'[n] = vow'[n].yield_balance
      /\ DebtsHeld[n] = escrow[n].lamports_owed /\ DebtsHeld'[n] = escrow'[n].lamports_owed
  BY DEF SharesHeld, ClaimsHeld, DebtsHeld
<1>7. /\ config'.total_shares = SumTo(SharesHeld', MaxVows)
      /\ config'.total_yield_claims = SumTo(ClaimsHeld', MaxVows)
      /\ config'.total_pending_unstake = SumTo(DebtsHeld', MaxVows)
  BY <1>5, <1>6 DEF TotalsAgree
<1>8. /\ SumTo(SharesHeld', MaxVows) = SumTo(SharesHeld, MaxVows)'
      /\ SumTo(ClaimsHeld', MaxVows) = SumTo(ClaimsHeld, MaxVows)'
      /\ SumTo(DebtsHeld', MaxVows) = SumTo(DebtsHeld, MaxVows)'
  BY DEF SumTo
<1> QED
  BY <1>7, <1>8 DEF TotalsAgree

(* The other identities stay sound while one of them is changed.           *)
LEMMA SoundStep ==
    ASSUME LedgerInv, TypeInv', NEW n \in Nonces,
           OnlyVow(n), OnlyEscrow(n),
           idents' = idents \/ idents' = idents \cup {n},
           now' >= now, epoch' >= epoch,
           Sound(n)'
    PROVE  ClockStarted' /\ \A m \in Nonces : Sound(m)'
<1>1. now \in Nat /\ now' \in Nat /\ epoch \in Nat /\ epoch' \in Nat
  BY DEF LedgerInv, TypeInv, TypeOK
<1>2. ClockStarted'
  BY <1>1 DEF LedgerInv, ClockStarted
<1>3. ASSUME NEW m \in Nonces, m # n PROVE Sound(m)'
  <2>1. vow'[m] = vow[m] /\ escrow'[m] = escrow[m] /\ (m \in idents' <=> m \in idents)
    BY <1>3 DEF OnlyVow, OnlyEscrow
  <2>2. Sound(m) /\ vow[m] \in VowState /\ escrow[m] \in UnstakeEscrow
    BY DEF LedgerInv, TypeInv, TypeOK
  <2>3. vow[m].unlock_at \in Nat /\ escrow[m].deactivation_epoch \in Nat
    BY <2>2, VowFields DEF UnstakeEscrow
  <2>4. /\ now >= vow[m].unlock_at => now' >= vow[m].unlock_at
        /\ escrow[m].deactivation_epoch <= epoch => escrow[m].deactivation_epoch <= epoch'
    BY <1>1, <2>3
  <2> QED
    BY <2>1, <2>2, <2>4 DEF Sound
<1> QED
  BY <1>2, <1>3

(* The two previous lemmas combined.                                       *)
LEMMA LedgerStep ==
    ASSUME LedgerInv, TypeInv', NEW n \in Nonces,
           OnlyVow(n), OnlyEscrow(n),
           idents' = idents \/ idents' = idents \cup {n},
           now' >= now, epoch' >= epoch,
           Sound(n)',
           config'.total_shares = config.total_shares - vow[n].shares + vow'[n].shares,
           config'.total_yield_claims =
              config.total_yield_claims - vow[n].yield_balance + vow'[n].yield_balance,
           config'.total_pending_unstake =
              config.total_pending_unstake - escrow[n].lamports_owed + escrow'[n].lamports_owed
    PROVE  LedgerInv'
<1>1. TypeInv /\ TotalsAgree
  BY DEF LedgerInv
<1>2. TotalsAgree'
  BY <1>1, TotalsStep
<1>3. ClockStarted' /\ \A m \in Nonces : Sound(m)'
  BY SoundStep
<1> QED
  BY <1>2, <1>3 DEF LedgerInv

(* What the steps below know of the identity n before the instruction.     *)
LEMMA Before ==
    ASSUME LedgerInv, NEW n \in Nonces
    PROVE  /\ TypeInv /\ TotalsAgree /\ Sound(n) /\ ClockStarted
           /\ vow[n] \in VowState
           /\ vow[n].shares \in Nat /\ vow[n].yield_balance \in Nat
           /\ vow[n].unlock_at \in Nat
           /\ vow[n].total_commitments \in Nat /\ vow[n].total_fulfilled \in Nat
           /\ vow[n].matured \in BOOLEAN /\ vow[n].active_stake \in BOOLEAN
           /\ escrow[n].lamports_owed \in Nat /\ escrow[n].live \in BOOLEAN
           /\ config.total_shares \in Nat /\ config.total_yield_claims \in Nat
           /\ config.total_pending_unstake \in Nat
           /\ now \in Nat /\ epoch \in Nat
           /\ vow[n].shares <= config.total_shares
           /\ vow[n].yield_balance <= config.total_yield_claims
           /\ escrow[n].lamports_owed <= config.total_pending_unstake
<1>1. /\ TypeInv /\ TotalsAgree /\ Sound(n) /\ ClockStarted /\ vow[n] \in VowState
      /\ now \in Nat /\ epoch \in Nat
  BY DEF LedgerInv, TypeInv, TypeOK
<1> QED
  BY <1>1, VowFields, ConfigFields, EscrowFields, HeldWithinTotals

LEMMA MintLedger ==
    ASSUME LedgerInv, NEW w \in Wallets, NEW l \in StakeAmounts, NEW m \in Modes, Mint(w, l, m)
    PROVE  LedgerInv'
<1> DEFINE s == SharesFor(l, config.current_share_price)
<1>1. TypeInv
  BY DEF LedgerInv
<1>2. PICK n \in Nonces \ idents :
      /\ n = config.total_minted
      /\ TypeInv' /\ OnlyVow(n)
      /\ vow'[n].shares = s /\ vow'[n].yield_balance = 0
      /\ ~vow'[n].matured /\ vow'[n].active_stake
      /\ vow'[n].total_commitments = 1 /\ vow'[n].total_fulfilled = 0
      /\ s \in Nat
      /\ config'.total_shares = config.total_shares + s
      /\ config'.total_yield_claims = config.total_yield_claims
      /\ config'.total_pending_unstake = config.total_pending_unstake
  BY <1>1, MintEffect
<1>3. idents' = idents \cup {n} /\ UNCHANGED <<escrow, now, epoch>>
  BY <1>2 DEF Mint, FreshAccount
<1> HIDE DEF s
<1>4. vow[n] = NoVow /\ escrow[n] = NoEscrow
  BY <1>2 DEF LedgerInv, Sound
<1>5. Sound(n)'
  BY <1>2, <1>3, <1>4 DEF Sound, NoEscrow
<1>6. /\ now \in Nat /\ epoch \in Nat /\ config.total_shares \in Nat
      /\ config.total_yield_claims \in Nat /\ config.total_pending_unstake \in Nat
  BY <1>2, Before
<1>7. /\ config'.total_shares = config.total_shares - vow[n].shares + vow'[n].shares
      /\ config'.total_yield_claims =
            config.total_yield_claims - vow[n].yield_balance + vow'[n].yield_balance
      /\ config'.total_pending_unstake =
            config.total_pending_unstake - escrow[n].lamports_owed + escrow'[n].lamports_owed
  BY <1>2, <1>3, <1>4, <1>6 DEF NoVow, NoEscrow
<1>8. OnlyEscrow(n) /\ now' >= now /\ epoch' >= epoch
  BY <1>3, <1>6 DEF OnlyEscrow
<1> QED
  BY <1>2, <1>3, <1>5, <1>7, <1>8, LedgerStep

LEMMA AddStakeLedger ==
    ASSUME LedgerInv, NEW n \in idents, n \in Nonces, NEW l \in TopUpAmounts, AddStake(n, l)
    PROVE  LedgerInv'
<1> DEFINE s == SharesFor(l, config.current_share_price)
<1>1. /\ TypeInv /\ Sound(n) /\ now \in Nat /\ epoch \in Nat /\ vow[n].shares \in Nat
      /\ config.total_shares \in Nat /\ config.total_yield_claims \in Nat
      /\ config.total_pending_unstake \in Nat /\ vow[n].yield_balance \in Nat
      /\ escrow[n].lamports_owed \in Nat
  BY Before
<1>2. /\ TypeInv' /\ OnlyVow(n) /\ s \in Nat
      /\ vow'[n].shares = vow[n].shares + s
      /\ vow'[n].yield_balance = vow[n].yield_balance
      /\ vow'[n].active_stake = vow[n].active_stake
      /\ vow'[n].matured => vow[n].matured /\ vow'[n].unlock_at = vow[n].unlock_at
      /\ vow'[n].total_commitments = vow[n].total_commitments
      /\ vow'[n].total_fulfilled = vow[n].total_fulfilled
      /\ config'.total_shares = config.total_shares + s
      /\ config'.total_yield_claims = config.total_yield_claims
      /\ config'.total_pending_unstake = config.total_pending_unstake
  BY <1>1, AddStakeEffect
<1> HIDE DEF s
<1>3. /\ vow[n].active_stake /\ vow[n].shares > 0
      /\ UNCHANGED <<idents, escrow, now, epoch>>
  BY DEF AddStake, CanTopUp
<1>4. Sound(n)'
  BY <1>1, <1>2, <1>3 DEF Sound
<1>5. /\ config'.total_shares = config.total_shares - vow[n].shares + vow'[n].shares
      /\ config'.total_yield_claims =
            config.total_yield_claims - vow[n].yield_balance + vow'[n].yield_balance
      /\ config'.total_pending_unstake =
            config.total_pending_unstake - escrow[n].lamports_owed + escrow'[n].lamports_owed
  BY <1>1, <1>2, <1>3
<1>6. OnlyEscrow(n) /\ now' >= now /\ epoch' >= epoch
  BY <1>1, <1>3 DEF OnlyEscrow
<1> QED
  BY <1>2, <1>3, <1>4, <1>5, <1>6, LedgerStep

LEMMA ActivateStakeLedger ==
    ASSUME LedgerInv, NEW n \in idents, n \in Nonces, NEW l \in StakeAmounts, NEW m \in Modes,
           ActivateStake(n, l, m)
    PROVE  LedgerInv'
<1> DEFINE s == SharesFor(l, config.current_share_price)
<1>1. /\ TypeInv /\ Sound(n) /\ now \in Nat /\ epoch \in Nat
      /\ vow[n].shares \in Nat /\ vow[n].yield_balance \in Nat
      /\ vow[n].total_commitments \in Nat /\ vow[n].total_fulfilled \in Nat
      /\ config.total_shares \in Nat /\ config.total_yield_claims \in Nat
      /\ config.total_pending_unstake \in Nat /\ escrow[n].lamports_owed \in Nat
      /\ vow[n].shares <= config.total_shares
  BY Before
<1>2. /\ TypeInv' /\ OnlyVow(n) /\ s \in Nat /\ ~vow[n].active_stake
      /\ vow'[n].shares = s
      /\ vow'[n].yield_balance = vow[n].yield_balance
      /\ vow'[n].active_stake /\ ~vow'[n].matured
      /\ vow'[n].total_commitments = vow[n].total_commitments + 1
      /\ vow'[n].total_fulfilled = vow[n].total_fulfilled
      /\ config'.total_shares = SatSub(config.total_shares, vow[n].shares) + s
      /\ config'.total_yield_claims = config.total_yield_claims
      /\ config'.total_pending_unstake = config.total_pending_unstake
  BY <1>1, ActivateStakeEffect
<1> HIDE DEF s
<1>3. UNCHANGED <<idents, escrow, now, epoch>>
  BY DEF ActivateStake
<1>4. Sound(n)'
  BY <1>1, <1>2, <1>3 DEF Sound
<1>5. SatSub(config.total_shares, vow[n].shares) = config.total_shares - vow[n].shares
  BY <1>1, SatSubNat
<1>6. /\ config'.total_shares = config.total_shares - vow[n].shares + vow'[n].shares
      /\ config'.total_yield_claims =
            config.total_yield_claims - vow[n].yield_balance + vow'[n].yield_balance
      /\ config'.total_pending_unstake =
            config.total_pending_unstake - escrow[n].lamports_owed + escrow'[n].lamports_owed
  BY <1>1, <1>2, <1>3, <1>5
<1>7. OnlyEscrow(n) /\ now' >= now /\ epoch' >= epoch
  BY <1>1, <1>3 DEF OnlyEscrow
<1> QED
  BY <1>2, <1>3, <1>4, <1>6, <1>7, LedgerStep

LEMMA BeginUnstakeLedger ==
    ASSUME LedgerInv, NEW n \in idents, n \in Nonces, BeginUnstake(n)
    PROVE  LedgerInv'
<1> DEFINE owed == escrow'[n].lamports_owed
<1>1. /\ TypeInv /\ Sound(n) /\ now \in Nat /\ epoch \in Nat
      /\ vow[n].shares \in Nat /\ vow[n].yield_balance \in Nat /\ vow[n].unlock_at \in Nat
      /\ config.total_shares \in Nat /\ config.total_yield_claims \in Nat
      /\ config.total_pending_unstake \in Nat /\ escrow[n].lamports_owed \in Nat
      /\ vow[n].shares <= config.total_shares
      /\ vow[n].yield_balance <= config.total_yield_claims
  BY Before
<1>2. /\ TypeInv' /\ OnlyVow(n) /\ owed \in Nat
      /\ ~escrow[n].live /\ vow[n].active_stake
      /\ vow[n].matured \/ now >= vow[n].unlock_at
      /\ escrow' = [escrow EXCEPT ![n] = [live |-> TRUE, lamports_owed |-> owed,
                                          deactivation_epoch |-> epoch]]
      /\ vow'[n].shares = 0 /\ vow'[n].yield_balance = 0
      /\ vow'[n].active_stake /\ vow'[n].matured
      /\ vow'[n].unlock_at = vow[n].unlock_at
      /\ vow'[n].total_commitments = vow[n].total_commitments
      /\ vow'[n].total_fulfilled = vow[n].total_fulfilled
      /\ config'.total_shares = SatSub(config.total_shares, vow[n].shares)
      /\ config'.total_yield_claims = SatSub(config.total_yield_claims, vow[n].yield_balance)
      /\ config'.total_pending_unstake = config.total_pending_unstake + owed
  BY <1>1, BeginUnstakeEffect
<1>3. UNCHANGED <<idents, now, epoch>>
  BY DEF BeginUnstake
<1>4. escrow'[n].live /\ escrow'[n].deactivation_epoch = epoch /\ OnlyEscrow(n)
  BY <1>1, <1>2 DEF TypeInv, TypeOK, OnlyEscrow
<1>5. Sound(n)'
  BY <1>1, <1>2, <1>3, <1>4 DEF Sound
<1>6. /\ SatSub(config.total_shares, vow[n].shares) = config.total_shares - vow[n].shares
      /\ SatSub(config.total_yield_claims, vow[n].yield_balance)
            = config.total_yield_claims - vow[n].yield_balance
  BY <1>1, SatSubNat
<1>7. escrow[n].lamports_owed = 0
  BY <1>1, <1>2 DEF Sound
<1>8. /\ config'.total_shares = config.total_shares - vow[n].shares + vow'[n].shares
      /\ config'.total_yield_claims =
            config.total_yield_claims - vow[n].yield_balance + vow'[n].yield_balance
      /\ config'.total_pending_unstake =
            config.total_pending_unstake - escrow[n].lamports_owed + escrow'[n].lamports_owed
  BY <1>1, <1>2, <1>6, <1>7
<1>9. now' >= now /\ epoch' >= epoch
  BY <1>1, <1>3
<1> QED
  BY <1>2, <1>3, <1>4, <1>5, <1>8, <1>9, LedgerStep

LEMMA CompleteUnstakeLedger ==
    ASSUME LedgerInv, NEW n \in idents, n \in Nonces, CompleteUnstake(n)
    PROVE  LedgerInv'
<1>1. /\ TypeInv /\ Sound(n) /\ now \in Nat /\ epoch \in Nat
      /\ vow[n].shares \in Nat /\ vow[n].yield_balance \in Nat
      /\ vow[n].total_commitments \in Nat /\ vow[n].total_fulfilled \in Nat
      /\ config.total_shares \in Nat /\ config.total_yield_claims \in Nat
      /\ config.total_pending_unstake \in Nat /\ escrow[n].lamports_owed \in Nat
      /\ escrow[n].lamports_owed <= config.total_pending_unstake
  BY Before
<1>2. /\ TypeInv' /\ OnlyVow(n) /\ escrow[n].live
      /\ escrow' = [escrow EXCEPT ![n] = NoEscrow]
      /\ vow'[n].shares = vow[n].shares
      /\ vow'[n].yield_balance = vow[n].yield_balance
      /\ ~vow'[n].active_stake
      /\ vow'[n].matured = vow[n].matured
      /\ vow'[n].unlock_at = vow[n].unlock_at
      /\ vow'[n].total_commitments = vow[n].total_commitments
      /\ vow'[n].total_fulfilled = IF vow[n].matured THEN vow[n].total_fulfilled + 1
                                   ELSE vow[n].total_fulfilled
      /\ config'.total_shares = config.total_shares
      /\ config'.total_yield_claims = config.total_yield_claims
      /\ config'.total_pending_unstake =
            SatSub(config.total_pending_unstake, escrow[n].lamports_owed)
  BY <1>1, CompleteUnstakeEffect
<1>3. UNCHANGED <<idents, now, epoch>>
  BY DEF CompleteUnstake
<1>4. ~escrow'[n].live /\ escrow'[n].lamports_owed = 0 /\ OnlyEscrow(n)
  BY <1>1, <1>2 DEF TypeInv, TypeOK, OnlyEscrow, NoEscrow
<1>5. /\ vow[n].matured /\ vow[n].active_stake /\ vow[n].shares = 0
      /\ vow[n].total_commitments = vow[n].total_fulfilled + 1
      /\ now >= vow[n].unlock_at
  BY <1>1, <1>2 DEF Sound
<1>6. Sound(n)'
  BY <1>1, <1>2, <1>3, <1>4, <1>5 DEF Sound
<1>7. SatSub(config.total_pending_unstake, escrow[n].lamports_owed)
        = config.total_pending_unstake - escrow[n].lamports_owed
  BY <1>1, SatSubNat
<1>8. /\ config'.total_shares = config.total_shares - vow[n].shares + vow'[n].shares
      /\ config'.total_yield_claims =
            config.total_yield_claims - vow[n].yield_balance + vow'[n].yield_balance
      /\ config'.total_pending_unstake =
            config.total_pending_unstake - escrow[n].lamports_owed + escrow'[n].lamports_owed
  BY <1>1, <1>2, <1>4, <1>7
<1>9. now' >= now /\ epoch' >= epoch
  BY <1>1, <1>3
<1> QED
  BY <1>2, <1>3, <1>4, <1>6, <1>8, <1>9, LedgerStep

LEMMA UpdateYieldModeLedger ==
    ASSUME LedgerInv, NEW n \in idents, n \in Nonces, NEW m \in Modes, UpdateYieldMode(n, m)
    PROVE  LedgerInv'
<1>1. /\ TypeInv /\ Sound(n) /\ now \in Nat /\ epoch \in Nat
      /\ vow[n].shares \in Nat /\ vow[n].yield_balance \in Nat
      /\ config.total_shares \in Nat /\ config.total_yield_claims \in Nat
      /\ config.total_pending_unstake \in Nat /\ escrow[n].lamports_owed \in Nat
  BY Before
<1>2. /\ TypeInv' /\ OnlyVow(n)
      /\ vow'[n].shares = vow[n].shares
      /\ vow'[n].yield_balance = vow[n].yield_balance
      /\ vow'[n].active_stake = vow[n].active_stake
      /\ vow'[n].matured = vow[n].matured
      /\ vow'[n].unlock_at = vow[n].unlock_at
      /\ vow'[n].total_commitments = vow[n].total_commitments
      /\ vow'[n].total_fulfilled = vow[n].total_fulfilled
  BY <1>1, UpdateYieldModeEffect
<1>3. UNCHANGED <<config, idents, escrow, now, epoch>>
  BY DEF UpdateYieldMode
<1>4. Sound(n)'
  BY <1>1, <1>2, <1>3 DEF Sound
<1>5. /\ config'.total_shares = config.total_shares - vow[n].shares + vow'[n].shares
      /\ config'.total_yield_claims =
            config.total_yield_claims - vow[n].yield_balance + vow'[n].yield_balance
      /\ config'.total_pending_unstake =
            config.total_pending_unstake - escrow[n].lamports_owed + escrow'[n].lamports_owed
  BY <1>1, <1>2, <1>3
<1>6. OnlyEscrow(n) /\ now' >= now /\ epoch' >= epoch
  BY <1>1, <1>3 DEF OnlyEscrow
<1> QED
  BY <1>2, <1>3, <1>4, <1>5, <1>6, LedgerStep

LEMMA HarvestLedger ==
    ASSUME LedgerInv, NEW n \in idents, n \in Nonces, Harvest(n)
    PROVE  LedgerInv'
<1>1. /\ TypeInv /\ Sound(n) /\ now \in Nat /\ epoch \in Nat
      /\ vow[n].shares \in Nat /\ vow[n].yield_balance \in Nat
      /\ config.total_shares \in Nat /\ config.total_yield_claims \in Nat
      /\ config.total_pending_unstake \in Nat /\ escrow[n].lamports_owed \in Nat
      /\ vow[n].shares <= config.total_shares
  BY Before
<1>2. PICK amount \in Nat, burned \in Nat :
        /\ burned <= vow[n].shares
        /\ vow'[n].shares = vow[n].shares - burned
        /\ vow'[n].yield_balance = vow[n].yield_balance + amount
        /\ config'.total_shares = SatSub(config.total_shares, burned)
        /\ config'.total_yield_claims = config.total_yield_claims + amount
  BY <1>1, HarvestEffect
<1>3. /\ TypeInv' /\ OnlyVow(n)
      /\ vow'[n].active_stake = vow[n].active_stake
      /\ vow[n].matured => vow'[n].matured
      /\ vow'[n].matured => vow[n].matured \/ now >= vow[n].unlock_at
      /\ vow'[n].unlock_at = vow[n].unlock_at
      /\ vow'[n].total_commitments = vow[n].total_commitments
      /\ vow'[n].total_fulfilled = vow[n].total_fulfilled
      /\ config'.total_pending_unstake = config.total_pending_unstake
  BY <1>1, HarvestEffect
<1>4. UNCHANGED <<idents, escrow, now, epoch>>
  BY DEF Harvest
<1>5. vow[n].shares = 0 => vow'[n].shares = 0
  BY <1>1, <1>2
<1>6. Sound(n)'
  BY <1>1, <1>3, <1>4, <1>5 DEF Sound
<1>7. SatSub(config.total_shares, burned) = config.total_shares - burned
  BY <1>1, <1>2, SatSubNat
<1>8. /\ config'.total_shares = config.total_shares - vow[n].shares + vow'[n].shares
      /\ config'.total_yield_claims =
            config.total_yield_claims - vow[n].yield_balance + vow'[n].yield_balance
      /\ config'.total_pending_unstake =
            config.total_pending_unstake - escrow[n].lamports_owed + escrow'[n].lamports_owed
  BY <1>1, <1>2, <1>3, <1>4, <1>7
<1>9. OnlyEscrow(n) /\ now' >= now /\ epoch' >= epoch
  BY <1>1, <1>4 DEF OnlyEscrow
<1> QED
  BY <1>3, <1>4, <1>6, <1>8, <1>9, LedgerStep

LEMMA YieldLedger ==
    ASSUME LedgerInv, NEW n \in idents, n \in Nonces, NEW amount \in Nat,
           DepositYieldBalance(n, amount) \/ PayYield(n, amount)
    PROVE  LedgerInv'
<1>1. /\ TypeInv /\ Sound(n) /\ now \in Nat /\ epoch \in Nat /\ vow[n] \in VowState
      /\ vow[n].shares \in Nat /\ vow[n].yield_balance \in Nat
      /\ config.total_shares \in Nat /\ config.total_yield_claims \in Nat
      /\ config.total_pending_unstake \in Nat /\ escrow[n].lamports_owed \in Nat
      /\ vow[n].yield_balance <= config.total_yield_claims
  BY Before
<1>2. /\ TypeInv' /\ OnlyVow(n)
      /\ vow' = [vow EXCEPT ![n].yield_balance = vow'[n].yield_balance]
      /\ \/ /\ vow'[n].yield_balance = vow[n].yield_balance + amount
            /\ config'.total_yield_claims = config.total_yield_claims + amount
         \/ /\ amount <= vow[n].yield_balance
            /\ vow'[n].yield_balance = vow[n].yield_balance - amount
            /\ config'.total_yield_claims = SatSub(config.total_yield_claims, amount)
      /\ config'.total_shares = config.total_shares
      /\ config'.total_pending_unstake = config.total_pending_unstake
      /\ UNCHANGED <<idents, escrow, now, epoch>>
  BY <1>1, YieldEffect
<1>3. /\ vow'[n].shares = vow[n].shares
      /\ vow'[n].active_stake = vow[n].active_stake
      /\ vow'[n].matured = vow[n].matured
      /\ vow'[n].unlock_at = vow[n].unlock_at
      /\ vow'[n].total_commitments = vow[n].total_commitments
      /\ vow'[n].total_fulfilled = vow[n].total_fulfilled
  <2>1. \E b : vow' = [vow EXCEPT ![n].yield_balance = b]
    BY <1>2
  <2> QED
    BY <1>1, <2>1 DEF TypeInv, TypeOK, VowState
<1>4. Sound(n)'
  BY <1>1, <1>2, <1>3 DEF Sound
<1>5. amount <= config.total_yield_claims =>
          SatSub(config.total_yield_claims, amount) = config.total_yield_claims - amount
  BY <1>1, SatSubNat
<1>6. config'.total_yield_claims =
          config.total_yield_claims - vow[n].yield_balance + vow'[n].yield_balance
  BY <1>1, <1>2, <1>5
<1>7. /\ config'.total_shares = config.total_shares - vow[n].shares + vow'[n].shares
      /\ config'.total_pending_unstake =
            config.total_pending_unstake - escrow[n].lamports_owed + escrow'[n].lamports_owed
  BY <1>1, <1>2, <1>3
<1>8. OnlyEscrow(n) /\ now' >= now /\ epoch' >= epoch
  BY <1>1, <1>2 DEF OnlyEscrow
<1> QED
  BY <1>2, <1>4, <1>6, <1>7, <1>8, LedgerStep

LEMMA DevFastUnlockLedger ==
    ASSUME LedgerInv, NEW n \in idents, n \in Nonces, DevFastUnlock(n)
    PROVE  LedgerInv'
<1>1. /\ TypeInv /\ Sound(n) /\ ClockStarted
      /\ now \in Nat /\ epoch \in Nat /\ vow[n] \in VowState
      /\ vow[n].shares \in Nat /\ vow[n].yield_balance \in Nat
      /\ config.total_shares \in Nat /\ config.total_yield_claims \in Nat
      /\ config.total_pending_unstake \in Nat /\ escrow[n].lamports_owed \in Nat
  BY Before
<1>2. /\ TypeInv'
      /\ vow' = [vow EXCEPT ![n].unlock_at = 1]
      /\ UNCHANGED <<config, idents, escrow, now, epoch>>
  BY <1>1, DevFastUnlockEffect
<1>3. /\ vow'[n].shares = vow[n].shares
      /\ vow'[n].yield_balance = vow[n].yield_balance
      /\ vow'[n].active_stake = vow[n].active_stake
      /\ vow'[n].matured = vow[n].matured
      /\ vow'[n].unlock_at = 1
      /\ vow'[n].total_commitments = vow[n].total_commitments
      /\ vow'[n].total_fulfilled = vow[n].total_fulfilled
      /\ OnlyVow(n)
  BY <1>1, <1>2 DEF TypeInv, TypeOK, VowState, OnlyVow
<1>4. Sound(n)'
  BY <1>1, <1>2, <1>3 DEF Sound, ClockStarted
<1>5. /\ config'.total_shares = config.total_shares - vow[n].shares + vow'[n].shares
      /\ config'.total_yield_claims =
            config.total_yield_claims - vow[n].yield_balance + vow'[n].yield_balance
      /\ config'.total_pending_unstake =
            config.total_pending_unstake - escrow[n].lamports_owed + escrow'[n].lamports_owed
  BY <1>1, <1>2, <1>3
<1>6. OnlyEscrow(n) /\ now' >= now /\ epoch' >= epoch
  BY <1>1, <1>2 DEF OnlyEscrow
<1> QED
  BY <1>2, <1>3, <1>4, <1>5, <1>6, LedgerStep

(* A step that touches no identity and no escrow.                          *)
LEMMA KeptLedger ==
    ASSUME LedgerInv, TypeInv', LedgerKept, now' >= now, epoch' >= epoch
    PROVE  LedgerInv'
<1>1. SharesHeld' = SharesHeld /\ ClaimsHeld' = ClaimsHeld /\ DebtsHeld' = DebtsHeld
  BY DEF LedgerKept, SharesHeld, ClaimsHeld, DebtsHeld
<1>2. TotalsAgree'
  BY <1>1 DEF LedgerInv, TotalsAgree, LedgerKept, SumTo
<1>3. ASSUME NEW n \in Nonces
      PROVE  ClockStarted' /\ Sound(n)'
  <2>1. OnlyVow(n) /\ OnlyEscrow(n) /\ idents' = idents
    BY DEF LedgerKept, OnlyVow, OnlyEscrow
  <2>2. Sound(n) /\ ClockStarted /\ vow[n].unlock_at \in Nat /\ now \in Nat /\ epoch \in Nat
    BY Before
  <2>3. now' \in Nat /\ epoch' \in Nat /\ escrow[n].deactivation_epoch \in Nat
    BY DEF LedgerInv, TypeInv, TypeOK, UnstakeEscrow
  <2>4. /\ now >= vow[n].unlock_at => now' >= vow[n].unlock_at
        /\ escrow[n].deactivation_epoch <= epoch => escrow[n].deactivation_epoch <= epoch'
        /\ now' >= 1
    BY <2>2, <2>3 DEF ClockStarted
  <2>5. vow' = vow /\ escrow' = escrow
    BY DEF LedgerKept
  <2> QED
    BY <2>1, <2>2, <2>4, <2>5 DEF Sound, ClockStarted
<1>4. ClockStarted'
  BY DEF LedgerInv, TypeInv, TypeOK, ClockStarted
<1> QED
  BY <1>2, <1>3, <1>4 DEF LedgerInv

-----------------------------------------------------------------------------
LEMMA InitLedger == Init => LedgerInv
<1> SUFFICES ASSUME Init PROVE LedgerInv
  OBVIOUS
<1>1. TypeInv
  BY InitType
<1>2. ClockStarted
  BY DEF Init, OpeningConfig, ClockStarted
<1>3. \A n \in Nonces : vow[n] = NoVow /\ escrow[n] = NoEscrow
  BY DEF Init, OpeningConfig
<1>4. /\ \A n \in 0..(MaxVows - 1) : SharesHeld[n] = 0
      /\ \A n \in 0..(MaxVows - 1) : ClaimsHeld[n] = 0
      /\ \A n \in 0..(MaxVows - 1) : DebtsHeld[n] = 0
  BY <1>3 DEF SharesHeld, ClaimsHeld, DebtsHeld, Nonces, NoVow, NoEscrow
<1>5. /\ SumTo(SharesHeld, MaxVows) = 0
      /\ SumTo(ClaimsHeld, MaxVows) = 0
      /\ SumTo(DebtsHeld, MaxVows) = 0
  BY <1>1, <1>4, HeldType, SumZero
<1>6. /\ config.total_shares = 0 /\ config.total_yield_claims = 0
      /\ config.total_pending_unstake = 0
  BY DEF Init, OpeningConfig
<1>7. TotalsAgree
  BY <1>5, <1>6 DEF TotalsAgree
<1>8. idents = {}
  BY DEF Init, OpeningConfig
<1>9. \A n \in Nonces : Sound(n)
  <2>1. ~NoVow.active_stake /\ NoVow.shares = 0 /\ ~NoEscrow.live /\ NoEscrow.lamports_owed = 0
    BY DEF NoVow, NoEscrow
  <2> QED
    BY <1>3, <1>8, <2>1 DEF Sound
<1> QED
  BY <1>1, <1>2, <1>7, <1>9 DEF LedgerInv

LEMMA NextLedger == LedgerInv /\ [Next]_vars => LedgerInv'
<1> SUFFICES ASSUME LedgerInv, [Next]_vars PROVE LedgerInv'
  OBVIOUS
<1> USE DEF LedgerInv
<1>1. TypeInv /\ TypeInv' /\ now \in Nat /\ epoch \in Nat /\ idents \subseteq Nonces
  BY NextType DEF TypeInv, TypeOK
<1> HIDE DEF LedgerInv
<1>2. CASE UNCHANGED vars
  <2>1. LedgerKept /\ now' >= now /\ epoch' >= epoch
    BY <1>1, <1>2 DEF vars, LedgerKept
  <2> QED
    BY <1>1, <2>1, KeptLedger
<1>3. ASSUME NEW w \in Wallets, NEW l \in StakeAmounts, NEW m \in Modes, Mint(w, l, m)
      PROVE  LedgerInv'
  BY <1>3, MintLedger
<1>4. ASSUME NEW n \in idents,
             \/ \E l \in TopUpAmounts : AddStake(n, l)
             \/ \E l \in StakeAmounts, m \in Modes : ActivateStake(n, l, m)
             \/ BeginUnstake(n)
             \/ CompleteUnstake(n)
             \/ \E m \in Modes : UpdateYieldMode(n, m)
             \/ Harvest(n)
             \/ \E amount \in YieldAmounts : DepositYieldBalance(n, amount)
             \/ WithdrawYield(n)
             \/ DevFastUnlock(n)
      PROVE  LedgerInv'
  <2>1. n \in Nonces /\ vow[n].yield_balance \in Nat /\ YieldAmounts \subseteq Nat
    <3>1. n \in Nonces
      BY <1>1
    <3> QED
      BY <3>1, Before, CoreAssumption
  <2>2. WithdrawYield(n) => \E amount \in Nat : PayYield(n, amount)
    BY <2>1 DEF WithdrawYield
  <2> QED
    BY <1>4, <2>1, <2>2, AddStakeLedger, ActivateStakeLedger, BeginUnstakeLedger,
       CompleteUnstakeLedger, UpdateYieldModeLedger, HarvestLedger, YieldLedger,
       DevFastUnlockLedger
<1>5. ASSUME NEW n \in idents, WithdrawFromPool(n) PROVE LedgerInv'
  BY <1>1, <1>5, WithdrawFromPoolEffect, KeptLedger
<1>6. CASE UpdateSharePrice \/ \E new_price \in DevPrices : DevSetSharePrice(new_price)
  BY <1>1, <1>6, PriceEffect, KeptLedger
<1>7. CASE FlushReserveToPool
  BY <1>1, <1>7, FlushEffect, KeptLedger
<1>8. CASE Tick \/ NextEpoch
  BY <1>1, <1>8, ClockEffect, KeptLedger
<1>9. ASSUME NEW delta \in PoolDeltas, PoolUpdate(delta) PROVE LedgerInv'
  BY <1>1, <1>9, PoolUpdateEffect, KeptLedger
<1> QED
  BY <1>2, <1>3, <1>4, <1>5, <1>6, <1>7, <1>8, <1>9 DEF Next

LEMMA LedgerInvariant == Spec => []LedgerInv
  BY InitLedger, NextLedger, PTL DEF Spec

-----------------------------------------------------------------------------
(* The totals of the config are exact however the instructions of          *)
(* different owners interleave; no saturating_sub of the handlers loses.   *)
THEOREM TotalsExact == Spec => []TotalsAgree
<1>1. LedgerInv => TotalsAgree
  BY DEF LedgerInv
<1> QED
  BY <1>1, LedgerInvariant, PTL

(* An escrow belongs to an active and matured identity, and holds its      *)
(* whole position.                                                         *)
THEOREM EscrowSound == Spec => []EscrowHoldsPosition
<1>1. LedgerInv => EscrowHoldsPosition
  BY DEF LedgerInv, Sound, EscrowHoldsPosition
<1> QED
  BY <1>1, LedgerInvariant, PTL

(* Every commitment of an identity is fulfilled, or is the one in          *)
(* progress: complete_unstake counts each of them, and exactly once.       *)
THEOREM FulfilmentExact == Spec => []FulfilmentLedger
<1>1. LedgerInv => FulfilmentLedger
  <2>1. TypeInv => idents \subseteq Nonces
    BY DEF TypeInv, TypeOK
  <2> QED
    BY <2>1 DEF LedgerInv, Sound, FulfilmentLedger
<1> QED
  BY <1>1, LedgerInvariant, PTL

(* An identity counts as matured only after the lock it has now.           *)
THEOREM LockRespected == Spec => []MaturedAfterLock
<1>1. LedgerInv => MaturedAfterLock
  <2>1. TypeInv => idents \subseteq Nonces
    BY DEF TypeInv, TypeOK
  <2> QED
    BY <2>1 DEF LedgerInv, Sound, MaturedAfterLock
<1> QED
  BY <1>1, LedgerInvariant, PTL

-----------------------------------------------------------------------------
(* The payout of a claim that is a part of the pending claims.             *)
LEMMA PayoutBound ==
    ASSUME LedgerInv, NEW n \in Nonces
    PROVE  /\ PayAmount(n) <= reserve
           /\ \/ reserve >= config.total_pending_unstake
                 /\ PayAmount(n) = escrow[n].lamports_owed
              \/ config.total_pending_unstake * PayAmount(n)
                   <= escrow[n].lamports_owed * reserve
<1> DEFINE owed == escrow[n].lamports_owed
           pending == config.total_pending_unstake
           part == (owed * reserve) \div pending
<1>1. TypeInv /\ owed \in Nat /\ pending \in Nat /\ owed <= pending
  BY Before
<1>2. reserve \in Nat
  BY <1>1 DEF TypeInv, TypeOK
<1>3. PayAmount(n) = IF pending = 0 \/ reserve >= pending THEN owed ELSE part
  BY DEF PayAmount
<1>4. PayAmount(n) \in Nat
  BY <1>1, PayAmountType
<1> HIDE DEF owed, pending
<1>5. CASE pending = 0 \/ reserve >= pending
  <2>1. reserve >= pending /\ PayAmount(n) = owed
    BY <1>1, <1>2, <1>3, <1>5
  <2> QED
    BY <1>1, <1>2, <1>4, <2>1 DEF owed, pending
<1>6. CASE ~(pending = 0 \/ reserve >= pending)
  <2>1. pending \in Nat \ {0} /\ PayAmount(n) = part
    BY <1>1, <1>3, <1>6
  <2>2. part <= reserve
    BY <1>1, <1>2, <2>1, ProRataBound
  <2>3. owed * reserve \in Nat
    BY <1>1, <1>2, MulNat
  <2>4. pending * part <= owed * reserve
    BY <2>1, <2>3, DivBounds
  <2> QED
    BY <1>4, <2>1, <2>2, <2>4 DEF owed, pending
<1> QED
  BY <1>5, <1>6

(* complete_unstake never owes more than the reserve holds.                *)
THEOREM PayoutAlwaysCovered == Spec => []PayoutCovered
<1>1. LedgerInv => PayoutCovered
  BY PayoutBound DEF PayoutCovered
<1> QED
  BY <1>1, LedgerInvariant, PTL

(* Only complete_unstake ends an escrow.                                   *)
LEMMA EscrowEnd ==
    ASSUME LedgerInv, Next, NEW n \in Nonces, escrow[n].live, ~escrow'[n].live
    PROVE  CompleteUnstake(n)
<1>1. escrow \in [Nonces -> UnstakeEscrow] /\ escrow' # escrow
  BY DEF LedgerInv, TypeInv, TypeOK
<1>2. PICK m \in idents : BeginUnstake(m) \/ CompleteUnstake(m)
  BY <1>1 DEF Next, Mint, FreshAccount, AddStake, ActivateStake, UpdateYieldMode, Harvest,
     DepositYieldBalance, WithdrawYield, PayYield, WithdrawFromPool, DevFastUnlock,
     UpdateSharePrice, FlushReserveToPool, DevSetSharePrice, Tick, NextEpoch, PoolUpdate
<1>3. m \in Nonces
  BY DEF LedgerInv, TypeInv, TypeOK
<1>4. CASE BeginUnstake(m)
  <2>1. PICK e : escrow' = [escrow EXCEPT ![m] = e] /\ e.live
    BY <1>4 DEF BeginUnstake
  <2> QED
    BY <1>1, <1>3, <2>1
<1>5. CASE CompleteUnstake(m)
  <2>1. escrow' = [escrow EXCEPT ![m] = NoEscrow]
    BY <1>5 DEF CompleteUnstake
  <2>2. m = n
    BY <1>1, <2>1
  <2> QED
    BY <1>5, <2>2
<1> QED
  BY <1>2, <1>4, <1>5

(* A part p of the reserve r, at most pro rata to the claim o among the    *)
(* pending claims q, leaves the others no less than they had.              *)
LEMMA FairPart ==
    ASSUME NEW r \in Nat, NEW q \in Nat, NEW o \in Nat, NEW p \in Nat, q * p <= o * r
    PROVE  (r - p) * q >= r * (q - o)
<1>1. (r - p) * q = r * q - q * p /\ r * (q - o) = r * q - o * r
  OBVIOUS
<1>2. r * q \in Int /\ q * p \in Int /\ o * r \in Int
  OBVIOUS
<1> QED
  BY <1>1, <1>2

(* A payout in a shortage takes no more than its share: the reserve per    *)
(* lamport of pending claim never falls for those who stay behind.         *)
THEOREM PayoutFair == Spec => ProRataFair
<1> DEFINE Fair ==
       (\E n \in Nonces : escrow[n].live /\ ~escrow'[n].live) =>
          \/ reserve >= config.total_pending_unstake
               /\ reserve' >= config'.total_pending_unstake
          \/ reserve' * config.total_pending_unstake
               >= reserve * config'.total_pending_unstake
<1>1. LedgerInv /\ [Next]_vars => [Fair]_vars
  <2> SUFFICES ASSUME LedgerInv, Next, NEW n \in Nonces, escrow[n].live, ~escrow'[n].live
               PROVE  \/ reserve >= config.total_pending_unstake
                           /\ reserve' >= config'.total_pending_unstake
                      \/ reserve' * config.total_pending_unstake
                           >= reserve * config'.total_pending_unstake
    OBVIOUS
  <2> DEFINE q == config.total_pending_unstake
             o == escrow[n].lamports_owed
             p == PayAmount(n)
  <2>1. TypeInv /\ q \in Nat /\ o \in Nat /\ o <= q
    BY Before
  <2>2. reserve \in Nat
    BY <2>1 DEF TypeInv, TypeOK
  <2>3. p \in Nat
    BY <2>1, PayAmountType
  <2>4. CompleteUnstake(n)
    BY EscrowEnd
  <2>5. reserve' = reserve - p
    BY <2>4 DEF CompleteUnstake
  <2>6. config'.total_pending_unstake = q - o
    BY <2>1, <2>4, CompleteUnstakeEffect, SatSubNat
  <2>7. \/ reserve >= q /\ p = o
        \/ q * p <= o * reserve
    BY PayoutBound
  <2> HIDE DEF q, o, p
  <2>8. CASE reserve >= q /\ p = o
    <3>1. reserve - p >= q - o
      BY <2>1, <2>2, <2>3, <2>8
    <3> QED
      BY <2>5, <2>6, <2>8, <3>1 DEF q
  <2>9. CASE q * p <= o * reserve
    <3>1. (reserve - p) * q >= reserve * (q - o)
      BY <2>1, <2>2, <2>3, <2>9, FairPart
    <3> QED
      BY <2>5, <2>6, <3>1 DEF q
  <2> QED
    BY <2>7, <2>8, <2>9
<1> QED
  BY <1>1, LedgerInvariant, PTL DEF Spec, ProRataFair
=============================================================================
