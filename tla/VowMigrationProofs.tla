-------------------------- MODULE VowMigrationProofs --------------------------
(***************************************************************************)
(* What survives a migration of the config.  Here the totals of the config *)
(* are not the sums they summarise, so the proofs start from what every    *)
(* instruction does to one identity and to the totals: it books the same   *)
(* difference in both, up to the saturation of a subtraction.              *)
(***************************************************************************)
EXTENDS VowMigration, VowPositionProofs

(* An account that was never created is empty, and so is an escrow that is *)
(* closed.                                                                 *)
Clean(n) ==
    /\ n \notin idents => vow[n] = NoVow
    /\ ~escrow[n].live => escrow[n].lamports_owed = 0

(* The total t changes with the number a of one account: x is taken away   *)
(* from both, at zero at the lowest for the total, and y is added to both. *)
Booked(a, a1, t, t1) ==
    \E x \in 0..a, y \in Nat : a1 = a - x + y /\ t1 = SatSub(t, x) + y

(* What an identity keeps for ever.                                        *)
Permanent(n) ==
    /\ vow'[n].owner = vow[n].owner
    /\ vow'[n].total_commitments >= vow[n].total_commitments
    /\ vow'[n].total_fulfilled >= vow[n].total_fulfilled
    /\ vow'[n].cumulative_stake_days >= vow[n].cumulative_stake_days
    /\ vow'[n].highest_class_ever >= vow[n].highest_class_ever

(* The next identity is created, or one that exists is kept.               *)
Minted(n) ==
    /\ n = config.total_minted /\ n \notin idents
    /\ idents' = idents \cup {n}
    /\ config'.total_minted = n + 1
    /\ vow'[n].owner \in Wallets

Kept(n) ==
    /\ n \in idents /\ idents' = idents
    /\ config'.total_minted = config.total_minted
    /\ Permanent(n)

(* A step about the identity n.                                            *)
StepOf(n) ==
    /\ OnlyVow(n) /\ OnlyEscrow(n)
    /\ Minted(n) \/ Kept(n)
    /\ Booked(vow[n].shares, vow'[n].shares, config.total_shares, config'.total_shares)
    /\ Booked(vow[n].yield_balance, vow'[n].yield_balance,
              config.total_yield_claims, config'.total_yield_claims)
    /\ Booked(escrow[n].lamports_owed, escrow'[n].lamports_owed,
              config.total_pending_unstake, config'.total_pending_unstake)
    /\ Clean(n)'

-----------------------------------------------------------------------------
LEMMA BookedSame ==
    ASSUME NEW a \in Nat, NEW t \in Nat
    PROVE  Booked(a, a, t, t)
  BY DEF Booked, SatSub

LEMMA BookedMore ==
    ASSUME NEW a \in Nat, NEW t \in Nat, NEW y \in Nat
    PROVE  Booked(a, a + y, t, t + y)
<1>1. 0 \in 0..a /\ a + y = a - 0 + y /\ t + y = SatSub(t, 0) + y
  BY DEF SatSub
<1> QED
  BY <1>1 DEF Booked

LEMMA BookedLess ==
    ASSUME NEW a \in Nat, NEW t \in Nat, NEW x \in 0..a
    PROVE  Booked(a, a - x, t, SatSub(t, x))
<1>1. a - x = a - x + 0 /\ SatSub(t, x) = SatSub(t, x) + 0
  BY SatSubNat
<1> QED
  BY <1>1 DEF Booked

(* The numbers of one identity.                                            *)
LEMMA Numbers ==
    ASSUME TypeInv, NEW n \in Nonces
    PROVE  /\ vow[n] \in VowState /\ escrow[n] \in UnstakeEscrow
           /\ vow[n].shares \in Nat /\ vow[n].yield_balance \in Nat
           /\ escrow[n].lamports_owed \in Nat
           /\ vow[n].total_commitments \in Nat /\ vow[n].total_fulfilled \in Nat
           /\ vow[n].cumulative_stake_days \in Nat /\ vow[n].highest_class_ever \in Nat
           /\ config.total_shares \in Nat /\ config.total_yield_claims \in Nat
           /\ config.total_pending_unstake \in Nat /\ config.total_minted \in Nat
<1>1. vow[n] \in VowState
  BY DEF TypeInv, TypeOK
<1> QED
  BY <1>1, VowFields, EscrowFields, ConfigFields, PositionNumbers

LEMMA MintStep ==
    ASSUME TypeInv, \A n \in Nonces : Clean(n),
           NEW w \in Wallets, NEW l \in StakeAmounts, NEW m \in Modes, Mint(w, l, m),
           NEW n \in Nonces, n = config.total_minted
    PROVE  StepOf(n)
<1> DEFINE s == SharesFor(l, config.current_share_price)
<1>1. /\ n \notin idents /\ OnlyVow(n) /\ s \in Nat
      /\ vow'[n].shares = s /\ vow'[n].yield_balance = 0
      /\ config'.total_shares = config.total_shares + s
      /\ config'.total_yield_claims = config.total_yield_claims
      /\ config'.total_pending_unstake = config.total_pending_unstake
      /\ config'.total_minted = config.total_minted + 1
  BY MintEffect
<1>2. vow'[n].owner \in Wallets
  BY MintPosition
<1>3. idents' = idents \cup {n} /\ escrow' = escrow
  BY DEF Mint
<1>4. vow[n].shares = 0 /\ vow[n].yield_balance = 0
  BY <1>1 DEF Clean, NoVow
<1> HIDE DEF s
<1>5. /\ config.total_shares \in Nat /\ config.total_yield_claims \in Nat
      /\ config.total_pending_unstake \in Nat /\ escrow[n].lamports_owed \in Nat
  BY Numbers
<1>6. Booked(vow[n].shares, vow'[n].shares, config.total_shares, config'.total_shares)
  <2>1. Booked(0, 0 + s, config.total_shares, config.total_shares + s)
    BY <1>1, <1>5, BookedMore
  <2>2. 0 + s = s
    BY <1>1
  <2> QED
    BY <1>1, <1>4, <2>1, <2>2
<1>7. Booked(vow[n].yield_balance, vow'[n].yield_balance,
             config.total_yield_claims, config'.total_yield_claims)
  BY <1>1, <1>4, <1>5, BookedSame
<1>8. Booked(escrow[n].lamports_owed, escrow'[n].lamports_owed,
             config.total_pending_unstake, config'.total_pending_unstake)
  BY <1>1, <1>3, <1>5, BookedSame
<1>9. Clean(n)'
  BY <1>3 DEF Clean
<1>10. OnlyEscrow(n) /\ Minted(n)
  BY <1>1, <1>2, <1>3 DEF OnlyEscrow, Minted
<1> QED
  BY <1>1, <1>6, <1>7, <1>8, <1>9, <1>10 DEF StepOf

LEMMA AddStakeStep ==
    ASSUME TypeInv, NEW n \in idents, n \in Nonces, Clean(n),
           NEW l \in TopUpAmounts, AddStake(n, l)
    PROVE  StepOf(n)
<1> DEFINE s == SharesFor(l, config.current_share_price)
<1>1. /\ OnlyVow(n) /\ s \in Nat
      /\ vow'[n].shares = vow[n].shares + s
      /\ vow'[n].yield_balance = vow[n].yield_balance
      /\ vow'[n].total_commitments = vow[n].total_commitments
      /\ vow'[n].total_fulfilled = vow[n].total_fulfilled
      /\ config'.total_shares = config.total_shares + s
      /\ config'.total_yield_claims = config.total_yield_claims
      /\ config'.total_pending_unstake = config.total_pending_unstake
      /\ config'.total_minted = config.total_minted
  BY AddStakeEffect
<1>2. /\ vow'[n].owner = vow[n].owner
      /\ vow'[n].cumulative_stake_days = vow[n].cumulative_stake_days
      /\ \/ vow'[n].highest_class_ever = vow[n].highest_class_ever
         \/ \E c \in Classes : vow'[n].highest_class_ever = Higher(vow[n].highest_class_ever, c)
  BY AddStakePosition
<1>3. idents' = idents /\ escrow' = escrow
  BY DEF AddStake
<1> HIDE DEF s
<1>4. /\ vow[n].shares \in Nat /\ vow[n].yield_balance \in Nat /\ escrow[n].lamports_owed \in Nat
      /\ vow[n].total_commitments \in Nat /\ vow[n].total_fulfilled \in Nat
      /\ vow[n].cumulative_stake_days \in Nat /\ vow[n].highest_class_ever \in Nat
      /\ config.total_shares \in Nat /\ config.total_yield_claims \in Nat
      /\ config.total_pending_unstake \in Nat
  BY Numbers
<1>5. vow'[n].highest_class_ever >= vow[n].highest_class_ever
  BY <1>2, <1>4, TierAssumption DEF Higher, Classes
<1>6. Permanent(n)
  BY <1>1, <1>2, <1>4, <1>5 DEF Permanent
<1>7. /\ Booked(vow[n].shares, vow'[n].shares, config.total_shares, config'.total_shares)
      /\ Booked(vow[n].yield_balance, vow'[n].yield_balance,
                config.total_yield_claims, config'.total_yield_claims)
      /\ Booked(escrow[n].lamports_owed, escrow'[n].lamports_owed,
                config.total_pending_unstake, config'.total_pending_unstake)
  BY <1>1, <1>3, <1>4, BookedMore, BookedSame
<1>8. Clean(n)' /\ OnlyEscrow(n)
  BY <1>3 DEF Clean, OnlyEscrow
<1> QED
  BY <1>1, <1>3, <1>6, <1>7, <1>8 DEF StepOf, Kept

LEMMA ActivateStakeStep ==
    ASSUME TypeInv, NEW n \in idents, n \in Nonces, Clean(n),
           NEW l \in StakeAmounts, NEW m \in Modes, ActivateStake(n, l, m)
    PROVE  StepOf(n)
<1> DEFINE s == SharesFor(l, config.current_share_price)
<1>1. /\ OnlyVow(n) /\ s \in Nat
      /\ vow'[n].shares = s
      /\ vow'[n].yield_balance = vow[n].yield_balance
      /\ vow'[n].total_commitments = vow[n].total_commitments + 1
      /\ vow'[n].total_fulfilled = vow[n].total_fulfilled
      /\ config'.total_shares = SatSub(config.total_shares, vow[n].shares) + s
      /\ config'.total_yield_claims = config.total_yield_claims
      /\ config'.total_pending_unstake = config.total_pending_unstake
      /\ config'.total_minted = config.total_minted
  BY ActivateStakeEffect
<1>2. /\ vow'[n].owner = vow[n].owner
      /\ vow'[n].cumulative_stake_days = vow[n].cumulative_stake_days
      /\ \E c \in Classes : vow'[n].highest_class_ever = Higher(vow[n].highest_class_ever, c)
  BY ActivateStakePosition
<1>3. idents' = idents /\ escrow' = escrow
  BY DEF ActivateStake
<1> HIDE DEF s
<1>4. /\ vow[n].shares \in Nat /\ vow[n].yield_balance \in Nat /\ escrow[n].lamports_owed \in Nat
      /\ vow[n].total_commitments \in Nat /\ vow[n].total_fulfilled \in Nat
      /\ vow[n].cumulative_stake_days \in Nat /\ vow[n].highest_class_ever \in Nat
      /\ config.total_shares \in Nat /\ config.total_yield_claims \in Nat
      /\ config.total_pending_unstake \in Nat
  BY Numbers
<1>5. vow'[n].highest_class_ever >= vow[n].highest_class_ever
  BY <1>2, <1>4, TierAssumption DEF Higher, Classes
<1>6. Permanent(n)
  BY <1>1, <1>2, <1>4, <1>5 DEF Permanent
<1>7. Booked(vow[n].shares, vow'[n].shares, config.total_shares, config'.total_shares)
  <2>1. /\ vow[n].shares \in 0..vow[n].shares
        /\ vow'[n].shares = vow[n].shares - vow[n].shares + s
    BY <1>1, <1>4
  <2> QED
    BY <1>1, <2>1 DEF Booked
<1>8. /\ Booked(vow[n].yield_balance, vow'[n].yield_balance,
                config.total_yield_claims, config'.total_yield_claims)
      /\ Booked(escrow[n].lamports_owed, escrow'[n].lamports_owed,
                config.total_pending_unstake, config'.total_pending_unstake)
  BY <1>1, <1>3, <1>4, BookedSame
<1>9. Clean(n)' /\ OnlyEscrow(n)
  BY <1>3 DEF Clean, OnlyEscrow
<1> QED
  BY <1>1, <1>3, <1>6, <1>7, <1>8, <1>9 DEF StepOf, Kept

LEMMA BeginUnstakeStep ==
    ASSUME TypeInv, NEW n \in idents, n \in Nonces, Clean(n), BeginUnstake(n)
    PROVE  StepOf(n)
<1> DEFINE owed == escrow'[n].lamports_owed
<1>1. /\ OnlyVow(n) /\ owed \in Nat /\ ~escrow[n].live
      /\ escrow' = [escrow EXCEPT ![n] = [live |-> TRUE, lamports_owed |-> owed,
                                          deactivation_epoch |-> epoch]]
      /\ vow'[n].shares = 0 /\ vow'[n].yield_balance = 0
      /\ vow'[n].total_commitments = vow[n].total_commitments
      /\ vow'[n].total_fulfilled = vow[n].total_fulfilled
  BY BeginUnstakeEffect
<1>2. /\ config'.total_shares = SatSub(config.total_shares, vow[n].shares)
      /\ config'.total_yield_claims = SatSub(config.total_yield_claims, vow[n].yield_balance)
      /\ config'.total_pending_unstake = config.total_pending_unstake + owed
      /\ config'.total_minted = config.total_minted
  BY BeginUnstakeEffect
<1>3. /\ vow'[n].owner = vow[n].owner
      /\ vow'[n].cumulative_stake_days = vow[n].cumulative_stake_days
      /\ vow'[n].highest_class_ever = vow[n].highest_class_ever
  BY BeginUnstakePosition DEF TierKept
<1>4. idents' = idents
  BY DEF BeginUnstake
<1>5. /\ vow[n].shares \in Nat /\ vow[n].yield_balance \in Nat
      /\ vow[n].total_commitments \in Nat /\ vow[n].total_fulfilled \in Nat
      /\ vow[n].cumulative_stake_days \in Nat /\ vow[n].highest_class_ever \in Nat
      /\ config.total_shares \in Nat /\ config.total_yield_claims \in Nat
      /\ config.total_pending_unstake \in Nat
  BY Numbers
<1>6. Permanent(n)
  BY <1>1, <1>3, <1>5 DEF Permanent
<1>7. /\ Booked(vow[n].shares, vow'[n].shares, config.total_shares, config'.total_shares)
      /\ Booked(vow[n].yield_balance, vow'[n].yield_balance,
                config.total_yield_claims, config'.total_yield_claims)
  <2>1. /\ vow[n].shares \in 0..vow[n].shares /\ vow[n].shares - vow[n].shares = 0
        /\ vow[n].yield_balance \in 0..vow[n].yield_balance
        /\ vow[n].yield_balance - vow[n].yield_balance = 0
    BY <1>5
  <2> QED
    BY <1>1, <1>2, <1>5, <2>1, BookedLess
<1>8. escrow'[n].live /\ OnlyEscrow(n)
  BY <1>1 DEF TypeInv, TypeOK, OnlyEscrow
<1> HIDE DEF owed
<1>9. Booked(escrow[n].lamports_owed, escrow'[n].lamports_owed,
             config.total_pending_unstake, config'.total_pending_unstake)
  <2>1. escrow[n].lamports_owed = 0 /\ escrow'[n].lamports_owed = 0 + owed
    BY <1>1 DEF Clean, owed
  <2> QED
    BY <1>1, <1>2, <1>5, <2>1, BookedMore
<1>10. Clean(n)'
  BY <1>4, <1>8 DEF Clean
<1> QED
  BY <1>1, <1>2, <1>4, <1>6, <1>7, <1>8, <1>9, <1>10 DEF StepOf, Kept

LEMMA CompleteUnstakeStep ==
    ASSUME TypeInv, NEW n \in idents, n \in Nonces, Clean(n), CompleteUnstake(n)
    PROVE  StepOf(n)
<1>1. /\ OnlyVow(n) /\ escrow' = [escrow EXCEPT ![n] = NoEscrow]
      /\ vow'[n].shares = vow[n].shares
      /\ vow'[n].yield_balance = vow[n].yield_balance
      /\ vow'[n].total_commitments = vow[n].total_commitments
      /\ vow'[n].total_fulfilled = IF vow[n].matured THEN vow[n].total_fulfilled + 1
                                   ELSE vow[n].total_fulfilled
  BY CompleteUnstakeEffect
<1>2. /\ config'.total_shares = config.total_shares
      /\ config'.total_yield_claims = config.total_yield_claims
      /\ config'.total_pending_unstake =
             SatSub(config.total_pending_unstake, escrow[n].lamports_owed)
      /\ config'.total_minted = config.total_minted
  BY CompleteUnstakeEffect
<1>3. /\ vow'[n].owner = vow[n].owner
      /\ vow'[n].cumulative_stake_days >= vow[n].cumulative_stake_days
      /\ vow'[n].highest_class_ever = vow[n].highest_class_ever
  BY CompleteUnstakePosition DEF TierKept
<1>4. idents' = idents
  BY DEF CompleteUnstake
<1>5. /\ vow[n].shares \in Nat /\ vow[n].yield_balance \in Nat /\ escrow[n].lamports_owed \in Nat
      /\ vow[n].total_commitments \in Nat /\ vow[n].total_fulfilled \in Nat
      /\ vow[n].highest_class_ever \in Nat
      /\ config.total_shares \in Nat /\ config.total_yield_claims \in Nat
      /\ config.total_pending_unstake \in Nat
  BY Numbers
<1>6. Permanent(n)
  BY <1>1, <1>3, <1>5 DEF Permanent
<1>7. /\ Booked(vow[n].shares, vow'[n].shares, config.total_shares, config'.total_shares)
      /\ Booked(vow[n].yield_balance, vow'[n].yield_balance,
                config.total_yield_claims, config'.total_yield_claims)
  BY <1>1, <1>2, <1>5, BookedSame
<1>8. escrow'[n].lamports_owed = 0 /\ OnlyEscrow(n)
  BY <1>1 DEF TypeInv, TypeOK, OnlyEscrow, NoEscrow
<1>9. Booked(escrow[n].lamports_owed, escrow'[n].lamports_owed,
             config.total_pending_unstake, config'.total_pending_unstake)
  <2>1. /\ escrow[n].lamports_owed \in 0..escrow[n].lamports_owed
        /\ escrow[n].lamports_owed - escrow[n].lamports_owed = 0
    BY <1>5
  <2> QED
    BY <1>2, <1>5, <1>8, <2>1, BookedLess
<1>10. Clean(n)'
  BY <1>4, <1>8 DEF Clean
<1> QED
  BY <1>1, <1>2, <1>4, <1>6, <1>7, <1>8, <1>9, <1>10 DEF StepOf, Kept

LEMMA UpdateYieldModeStep ==
    ASSUME TypeInv, NEW n \in idents, n \in Nonces, Clean(n),
           NEW m \in Modes, UpdateYieldMode(n, m)
    PROVE  StepOf(n)
<1>1. /\ OnlyVow(n)
      /\ vow'[n].shares = vow[n].shares
      /\ vow'[n].yield_balance = vow[n].yield_balance
      /\ vow'[n].total_commitments = vow[n].total_commitments
      /\ vow'[n].total_fulfilled = vow[n].total_fulfilled
  BY UpdateYieldModeEffect
<1>2. /\ vow'[n].owner = vow[n].owner
      /\ vow'[n].cumulative_stake_days = vow[n].cumulative_stake_days
      /\ vow'[n].highest_class_ever = vow[n].highest_class_ever
  BY UpdateYieldModePosition DEF TierKept
<1>3. UNCHANGED <<config, idents, escrow>>
  BY DEF UpdateYieldMode
<1>4. /\ vow[n].shares \in Nat /\ vow[n].yield_balance \in Nat /\ escrow[n].lamports_owed \in Nat
      /\ vow[n].total_commitments \in Nat /\ vow[n].total_fulfilled \in Nat
      /\ vow[n].cumulative_stake_days \in Nat /\ vow[n].highest_class_ever \in Nat
      /\ config.total_shares \in Nat /\ config.total_yield_claims \in Nat
      /\ config.total_pending_unstake \in Nat
  BY Numbers
<1>5. Permanent(n)
  BY <1>1, <1>2, <1>4 DEF Permanent
<1>6. /\ Booked(vow[n].shares, vow'[n].shares, config.total_shares, config'.total_shares)
      /\ Booked(vow[n].yield_balance, vow'[n].yield_balance,
                config.total_yield_claims, config'.total_yield_claims)
      /\ Booked(escrow[n].lamports_owed, escrow'[n].lamports_owed,
                config.total_pending_unstake, config'.total_pending_unstake)
  BY <1>1, <1>3, <1>4, BookedSame
<1>7. Clean(n)' /\ OnlyEscrow(n)
  BY <1>3 DEF Clean, OnlyEscrow
<1> QED
  BY <1>1, <1>3, <1>5, <1>6, <1>7 DEF StepOf, Kept

LEMMA HarvestStep ==
    ASSUME TypeInv, NEW n \in idents, n \in Nonces, Clean(n), Harvest(n)
    PROVE  StepOf(n)
<1>1. PICK amount \in Nat, burned \in Nat :
        /\ burned <= vow[n].shares
        /\ vow'[n].shares = vow[n].shares - burned
        /\ vow'[n].yield_balance = vow[n].yield_balance + amount
        /\ config'.total_shares = SatSub(config.total_shares, burned)
        /\ config'.total_yield_claims = config.total_yield_claims + amount
  BY HarvestEffect
<1>2. /\ OnlyVow(n)
      /\ vow'[n].total_commitments = vow[n].total_commitments
      /\ vow'[n].total_fulfilled = vow[n].total_fulfilled
      /\ config'.total_pending_unstake = config.total_pending_unstake
      /\ config'.total_minted = config.total_minted
  BY HarvestEffect
<1>3. /\ vow'[n].owner = vow[n].owner
      /\ vow'[n].cumulative_stake_days = vow[n].cumulative_stake_days
      /\ vow'[n].highest_class_ever = vow[n].highest_class_ever
  BY HarvestPosition DEF TierKept
<1>4. UNCHANGED <<idents, escrow>>
  BY DEF Harvest
<1>5. /\ vow[n].shares \in Nat /\ vow[n].yield_balance \in Nat /\ escrow[n].lamports_owed \in Nat
      /\ vow[n].total_commitments \in Nat /\ vow[n].total_fulfilled \in Nat
      /\ vow[n].cumulative_stake_days \in Nat /\ vow[n].highest_class_ever \in Nat
      /\ config.total_shares \in Nat /\ config.total_yield_claims \in Nat
      /\ config.total_pending_unstake \in Nat
  BY Numbers
<1>6. Permanent(n)
  BY <1>2, <1>3, <1>5 DEF Permanent
<1>7. burned \in 0..vow[n].shares
  BY <1>1, <1>5
<1>8. /\ Booked(vow[n].shares, vow'[n].shares, config.total_shares, config'.total_shares)
      /\ Booked(vow[n].yield_balance, vow'[n].yield_balance,
                config.total_yield_claims, config'.total_yield_claims)
      /\ Booked(escrow[n].lamports_owed, escrow'[n].lamports_owed,
                config.total_pending_unstake, config'.total_pending_unstake)
  BY <1>1, <1>2, <1>4, <1>5, <1>7, BookedSame, BookedMore, BookedLess
<1>9. Clean(n)' /\ OnlyEscrow(n)
  BY <1>4 DEF Clean, OnlyEscrow
<1> QED
  BY <1>2, <1>4, <1>6, <1>8, <1>9 DEF StepOf, Kept

LEMMA YieldStep ==
    ASSUME TypeInv, NEW n \in idents, n \in Nonces, Clean(n), NEW amount \in Nat,
           DepositYieldBalance(n, amount) \/ PayYield(n, amount)
    PROVE  StepOf(n)
<1>1. /\ OnlyVow(n)
      /\ \/ /\ vow'[n].yield_balance = vow[n].yield_balance + amount
            /\ config'.total_yield_claims = config.total_yield_claims + amount
         \/ /\ amount <= vow[n].yield_balance
            /\ vow'[n].yield_balance = vow[n].yield_balance - amount
            /\ config'.total_yield_claims = SatSub(config.total_yield_claims, amount)
      /\ config'.total_shares = config.total_shares
      /\ config'.total_pending_unstake = config.total_pending_unstake
      /\ config'.total_minted = config.total_minted
      /\ UNCHANGED <<idents, escrow>>
  BY YieldEffect
<1>2. /\ TierKept(n) /\ GainKept(n)
      /\ vow'[n].cumulative_stake_days = vow[n].cumulative_stake_days
      /\ vow'[n].total_commitments = vow[n].total_commitments
      /\ vow'[n].total_fulfilled = vow[n].total_fulfilled
  BY YieldPosition
<1>3. /\ vow[n].shares \in Nat /\ vow[n].yield_balance \in Nat /\ escrow[n].lamports_owed \in Nat
      /\ vow[n].total_commitments \in Nat /\ vow[n].total_fulfilled \in Nat
      /\ vow[n].cumulative_stake_days \in Nat /\ vow[n].highest_class_ever \in Nat
      /\ config.total_shares \in Nat /\ config.total_yield_claims \in Nat
      /\ config.total_pending_unstake \in Nat
  BY Numbers
<1>4. Permanent(n)
  BY <1>2, <1>3 DEF Permanent, TierKept
<1>5. amount <= vow[n].yield_balance => amount \in 0..vow[n].yield_balance
  BY <1>3
<1>6. /\ Booked(vow[n].shares, vow'[n].shares, config.total_shares, config'.total_shares)
      /\ Booked(vow[n].yield_balance, vow'[n].yield_balance,
                config.total_yield_claims, config'.total_yield_claims)
      /\ Booked(escrow[n].lamports_owed, escrow'[n].lamports_owed,
                config.total_pending_unstake, config'.total_pending_unstake)
  BY <1>1, <1>2, <1>3, <1>5, BookedSame, BookedMore, BookedLess DEF GainKept
<1>7. Clean(n)' /\ OnlyEscrow(n)
  BY <1>1 DEF Clean, OnlyEscrow
<1> QED
  BY <1>1, <1>4, <1>6, <1>7 DEF StepOf, Kept

LEMMA DevFastUnlockStep ==
    ASSUME TypeInv, NEW n \in idents, n \in Nonces, Clean(n), DevFastUnlock(n)
    PROVE  StepOf(n)
<1>1. /\ TierKept(n) /\ GainKept(n) /\ OnlyVow(n)
      /\ vow'[n].cumulative_stake_days = vow[n].cumulative_stake_days
      /\ vow'[n].total_commitments = vow[n].total_commitments
      /\ vow'[n].total_fulfilled = vow[n].total_fulfilled
      /\ vow'[n].yield_balance = vow[n].yield_balance
  BY DevFastUnlockPosition
<1>2. UNCHANGED <<config, idents, escrow>>
  BY DEF DevFastUnlock
<1>3. /\ vow[n].shares \in Nat /\ vow[n].yield_balance \in Nat /\ escrow[n].lamports_owed \in Nat
      /\ vow[n].total_commitments \in Nat /\ vow[n].total_fulfilled \in Nat
      /\ vow[n].cumulative_stake_days \in Nat /\ vow[n].highest_class_ever \in Nat
      /\ config.total_shares \in Nat /\ config.total_yield_claims \in Nat
      /\ config.total_pending_unstake \in Nat
  BY Numbers
<1>4. Permanent(n)
  BY <1>1, <1>3 DEF Permanent, TierKept
<1>5. /\ Booked(vow[n].shares, vow'[n].shares, config.total_shares, config'.total_shares)
      /\ Booked(vow[n].yield_balance, vow'[n].yield_balance,
                config.total_yield_claims, config'.total_yield_claims)
      /\ Booked(escrow[n].lamports_owed, escrow'[n].lamports_owed,
                config.total_pending_unstake, config'.total_pending_unstake)
  BY <1>1, <1>2, <1>3, BookedSame DEF GainKept
<1>6. Clean(n)' /\ OnlyEscrow(n)
  BY <1>2 DEF Clean, OnlyEscrow
<1> QED
  BY <1>1, <1>2, <1>4, <1>5, <1>6 DEF StepOf, Kept

(* Every step of the core is about one identity, or leaves them all and    *)
(* the totals alone.                                                       *)
LEMMA CoreSteps ==
    ASSUME TypeInv, \A n \in Nonces : Clean(n), Next
    PROVE  LedgerKept \/ \E n \in Nonces : StepOf(n)
<1>1. idents \subseteq Nonces
  BY DEF TypeInv, TypeOK
<1>2. ASSUME NEW w \in Wallets, NEW l \in StakeAmounts, NEW m \in Modes, Mint(w, l, m)
      PROVE  \E n \in Nonces : StepOf(n)
  <2>1. PICK n \in Nonces : n = config.total_minted
    BY <1>2 DEF Mint, FreshAccount
  <2> QED
    BY <1>2, <2>1, MintStep
<1>3. ASSUME NEW n \in idents,
             \/ \E l \in TopUpAmounts : AddStake(n, l)
             \/ \E l \in StakeAmounts, m \in Modes : ActivateStake(n, l, m)
             \/ BeginUnstake(n)
             \/ CompleteUnstake(n)
             \/ \E m \in Modes : UpdateYieldMode(n, m)
             \/ Harvest(n)
             \/ \E amount \in YieldAmounts : DepositYieldBalance(n, amount)
             \/ WithdrawYield(n)
             \/ DevFastUnlock(n)
      PROVE  StepOf(n)
  <2>1. n \in Nonces /\ Clean(n) /\ vow[n].yield_balance \in Nat /\ YieldAmounts \subseteq Nat
    BY <1>1, Numbers, CoreAssumption
  <2>2. WithdrawYield(n) => \E amount \in Nat : PayYield(n, amount)
    BY <2>1 DEF WithdrawYield
  <2> QED
    BY <1>3, <2>1, <2>2, AddStakeStep, ActivateStakeStep, BeginUnstakeStep,
       CompleteUnstakeStep, UpdateYieldModeStep, HarvestStep, YieldStep, DevFastUnlockStep
<1>4. ASSUME NEW n \in idents, WithdrawFromPool(n) PROVE LedgerKept
  BY <1>1, <1>4, WithdrawFromPoolEffect
<1>5. CASE UpdateSharePrice \/ \E new_price \in DevPrices : DevSetSharePrice(new_price)
  BY <1>5, PriceEffect
<1>6. CASE FlushReserveToPool
  BY <1>6, FlushEffect
<1>7. CASE Tick \/ NextEpoch
  BY <1>7, ClockEffect
<1>8. ASSUME NEW delta \in PoolDeltas, PoolUpdate(delta) PROVE LedgerKept
  BY <1>8, PoolUpdateEffect
<1> QED
  BY <1>1, <1>2, <1>3, <1>4, <1>5, <1>6, <1>7, <1>8 DEF Next

-----------------------------------------------------------------------------
(* The commitment records.                                                 *)
LEMMA RecordFields ==
    ASSUME NEW r \in CommitmentRecord
    PROVE  /\ r.live \in BOOLEAN /\ r.total_xnfts_minted \in Nat
           /\ r.total_xnt_committed \in Nat /\ r.total_xnt_fulfilled \in Nat
           /\ r.highest_class_ever \in Classes /\ r.highest_class_ever \in Nat
           /\ r.total_commitment_days \in Nat /\ r.commitment_score \in Nat
  BY TierAssumption DEF CommitmentRecord, Classes

LEMMA ScoreNat ==
    ASSUME NEW r \in CommitmentRecord
    PROVE  compute_score(r) \in Nat
<1> DEFINE tiers == r.highest_class_ever * 100
           minted == (IF r.total_xnfts_minted <= 50 THEN r.total_xnfts_minted ELSE 50) * 10
           rate == IF r.total_xnt_committed > 0
                   THEN (r.total_xnt_fulfilled * 100) \div r.total_xnt_committed ELSE 0
<1>1. /\ r.total_xnfts_minted \in Nat /\ r.total_xnt_committed \in Nat
      /\ r.total_xnt_fulfilled \in Nat /\ r.highest_class_ever \in Nat
  BY RecordFields
<1>2. tiers \in Nat /\ minted \in Nat
  BY <1>1
<1>3. rate \in Nat
  <2>1. r.total_xnt_fulfilled * 100 \in Nat
    BY <1>1
  <2> QED
    BY <1>1, <2>1, DivNat
<1>4. compute_score(r) = tiers + minted + rate
  BY DEF compute_score
<1> HIDE DEF tiers, minted, rate
<1> QED
  BY <1>2, <1>3, <1>4

(* Writing the score changes no field but the score.                       *)
LEMMA ScoredFields ==
    ASSUME NEW r \in CommitmentRecord
    PROVE  /\ Scored(r) \in CommitmentRecord
           /\ Scored(r).live = r.live
           /\ Scored(r).total_xnfts_minted = r.total_xnfts_minted
           /\ Scored(r).total_xnt_fulfilled = r.total_xnt_fulfilled
           /\ Scored(r).highest_class_ever = r.highest_class_ever
           /\ Scored(r).commitment_score = compute_score(Scored(r))
<1> DEFINE score == compute_score(r)
           after == [r EXCEPT !.commitment_score = score]
<1>1. score \in Nat
  BY ScoreNat
<1>2. Scored(r) = after
  BY DEF Scored
<1> HIDE DEF score
<1>3. /\ after \in CommitmentRecord
      /\ after.live = r.live
      /\ after.total_xnfts_minted = r.total_xnfts_minted
      /\ after.total_xnt_committed = r.total_xnt_committed
      /\ after.total_xnt_fulfilled = r.total_xnt_fulfilled
      /\ after.highest_class_ever = r.highest_class_ever
      /\ after.commitment_score = score
  BY <1>1 DEF CommitmentRecord
<1> HIDE DEF after
<1>4. compute_score(after) = compute_score(r)
  BY <1>3 DEF compute_score
<1> QED
  BY <1>2, <1>3, <1>4 DEF score

RecordsOK == records \in [Wallets -> CommitmentRecord]

LEMMA RecordCommitmentEffect ==
    ASSUME TypeInv, RecordsOK, NEW n \in Nonces, NEW w \in Wallets, w = vow[n].owner,
           RecordCommitment(n)
    PROVE  /\ RecordsOK'
           /\ \A x \in Wallets : x # w => records'[x] = records[x]
           /\ records'[w].live
           /\ records'[w].total_xnfts_minted = records[w].total_xnfts_minted + 1
           /\ records'[w].total_xnt_fulfilled = records[w].total_xnt_fulfilled
           /\ records'[w].highest_class_ever =
                 Higher(records[w].highest_class_ever, vow[n].class)
           /\ records'[w].commitment_score = compute_score(records'[w])
<1> DEFINE r == records[w]
           minted == r.total_xnfts_minted + 1
           stake == r.total_xnt_committed + vow[n].principal_lamports
           best == Higher(r.highest_class_ever, vow[n].class)
           days == r.total_commitment_days + lock_duration(vow[n].class) \div DAY
           after == [r EXCEPT !.live = TRUE, !.total_xnfts_minted = minted,
                              !.total_xnt_committed = stake, !.highest_class_ever = best,
                              !.total_commitment_days = days]
<1>1. /\ r \in CommitmentRecord /\ r.total_xnfts_minted \in Nat
      /\ r.total_xnt_committed \in Nat /\ r.highest_class_ever \in Classes
      /\ r.total_commitment_days \in Nat
  <2>1. r \in CommitmentRecord
    BY DEF RecordsOK
  <2> QED
    BY <2>1, RecordFields
<1>2. vow[n].principal_lamports \in Nat /\ vow[n].class \in Classes
  BY VowFields DEF TypeInv, TypeOK
<1>3. minted \in Nat /\ stake \in Nat /\ best \in Classes
  BY <1>1, <1>2, HigherType
<1>4. days \in Nat
  <2>1. lock_duration(vow[n].class) \in Nat /\ DAY \in Nat \ {0}
    BY <1>2, LockType, CoreAssumption
  <2>2. lock_duration(vow[n].class) \div DAY \in Nat
    BY <2>1, DivNat
  <2> QED
    BY <1>1, <2>2
<1>5. records' = [records EXCEPT ![w] = Scored(after)]
  BY DEF RecordCommitment
<1> HIDE DEF r, minted, stake, best, days
<1>6. /\ after \in CommitmentRecord /\ after.live
      /\ after.total_xnfts_minted = minted
      /\ after.total_xnt_fulfilled = r.total_xnt_fulfilled
      /\ after.highest_class_ever = best
  BY <1>1, <1>3, <1>4 DEF CommitmentRecord
<1> HIDE DEF after
<1>7. /\ Scored(after) \in CommitmentRecord /\ Scored(after).live
      /\ Scored(after).total_xnfts_minted = minted
      /\ Scored(after).total_xnt_fulfilled = r.total_xnt_fulfilled
      /\ Scored(after).highest_class_ever = best
      /\ Scored(after).commitment_score = compute_score(Scored(after))
  BY <1>6, ScoredFields
<1>8. /\ RecordsOK' /\ records'[w] = Scored(after)
      /\ \A x \in Wallets : x # w => records'[x] = records[x]
  BY <1>5, <1>7 DEF RecordsOK
<1> QED
  BY <1>7, <1>8 DEF r, minted, best

LEMMA RecordFulfillmentEffect ==
    ASSUME TypeInv, RecordsOK, NEW n \in Nonces, NEW w \in Wallets, w = vow[n].owner,
           RecordFulfillment(n)
    PROVE  /\ RecordsOK'
           /\ \A x \in Wallets : x # w => records'[x] = records[x]
           /\ records[w].live /\ records'[w].live
           /\ records'[w].total_xnfts_minted = records[w].total_xnfts_minted
           /\ records'[w].total_xnt_fulfilled =
                 records[w].total_xnt_fulfilled + vow[n].principal_lamports
           /\ records'[w].highest_class_ever = records[w].highest_class_ever
           /\ records'[w].commitment_score = compute_score(records'[w])
<1> DEFINE r == records[w]
           stake == r.total_xnt_fulfilled + vow[n].principal_lamports
           after == [r EXCEPT !.total_xnt_fulfilled = stake]
<1>1. r \in CommitmentRecord /\ r.total_xnt_fulfilled \in Nat
  <2>1. r \in CommitmentRecord
    BY DEF RecordsOK
  <2> QED
    BY <2>1, RecordFields
<1>2. stake \in Nat
  <2>1. vow[n].principal_lamports \in Nat
    BY VowFields DEF TypeInv, TypeOK
  <2> QED
    BY <1>1, <2>1
<1>3. records' = [records EXCEPT ![w] = Scored(after)] /\ r.live
  BY DEF RecordFulfillment
<1> HIDE DEF r, stake
<1>4. /\ after \in CommitmentRecord /\ after.live
      /\ after.total_xnfts_minted = r.total_xnfts_minted
      /\ after.total_xnt_fulfilled = stake
      /\ after.highest_class_ever = r.highest_class_ever
  BY <1>1, <1>2, <1>3 DEF CommitmentRecord
<1> HIDE DEF after
<1>5. /\ Scored(after) \in CommitmentRecord /\ Scored(after).live
      /\ Scored(after).total_xnfts_minted = r.total_xnfts_minted
      /\ Scored(after).total_xnt_fulfilled = stake
      /\ Scored(after).highest_class_ever = r.highest_class_ever
      /\ Scored(after).commitment_score = compute_score(Scored(after))
  BY <1>4, ScoredFields
<1>6. /\ RecordsOK' /\ records'[w] = Scored(after)
      /\ \A x \in Wallets : x # w => records'[x] = records[x]
  BY <1>3, <1>5 DEF RecordsOK
<1> QED
  BY <1>3, <1>5, <1>6 DEF r, stake

-----------------------------------------------------------------------------
Owned(n) == n \in idents => vow[n].owner \in Wallets

(* What holds of the accounts in every migration: they have their types,   *)
(* the positions are sound, and what does not exist is empty.              *)
MigrationInv ==
    /\ MigrationTypeOK /\ PositionInv
    /\ \A n \in Nonces : Clean(n) /\ Owned(n)

(* A step that leaves the identities, escrows and records alone: it keeps  *)
(* the totals or resets them.                                              *)
AccountsKept ==
    /\ UNCHANGED <<idents, vow, escrow, recordVars>>
    /\ \/ /\ config'.total_shares = config.total_shares
          /\ config'.total_yield_claims = config.total_yield_claims
          /\ config'.total_pending_unstake = config.total_pending_unstake
       \/ /\ config'.total_shares = 0
          /\ config'.total_yield_claims = 0
          /\ config'.total_pending_unstake = 0

(* With or without a config, a step of the core is one of Next.            *)
LEMMA CoreIsNext ==
    ASSUME CoreStep
    PROVE  Next /\ UNCHANGED <<recordVars, migrationVars>>
  BY DEF CoreStep, Next

LEMMA CoreCases ==
    ASSUME MigrationInv, CoreStep
    PROVE  \/ LedgerKept
           \/ config_live /\ \E n \in Nonces : StepOf(n)
<1>1. TypeInv /\ \A n \in Nonces : Clean(n)
  BY DEF MigrationInv, PositionInv
<1>2. CASE config_live /\ Next
  BY <1>1, <1>2, CoreSteps
<1>3. CASE Tick \/ NextEpoch
  BY <1>1, <1>3, ClockEffect
<1>4. ASSUME NEW delta \in PoolDeltas, PoolUpdate(delta) PROVE LedgerKept
  BY <1>1, <1>4, PoolUpdateEffect
<1> QED
  BY <1>2, <1>3, <1>4 DEF CoreStep

LEMMA CounterSet ==
    ASSUME TypeInv, NEW c \in Nat, SetMintCounter(c)
    PROVE  /\ config' \in ProtocolConfig
           /\ config'.total_shares = config.total_shares
           /\ config'.total_yield_claims = config.total_yield_claims
           /\ config'.total_pending_unstake = config.total_pending_unstake
           /\ config'.total_minted = c /\ c > config.total_minted
           /\ UNCHANGED <<idents, vow, escrow, reserve, tokens, pool, now, epoch>>
<1>1. config \in ProtocolConfig
  BY ConfigFields
<1> QED
  BY <1>1 DEF SetMintCounter, CounterGrows, ProtocolConfig

LEMMA ClosedConfig ==
    /\ NoConfig \in ProtocolConfig
    /\ NoConfig.total_shares = 0 /\ NoConfig.total_yield_claims = 0
    /\ NoConfig.total_pending_unstake = 0 /\ NoConfig.total_minted = 0
  BY DEF NoConfig, ProtocolConfig

LEMMA OpenedConfig ==
    ASSUME TypeInv, NEW a \in Admins, Reinitialize(a)
    PROVE  /\ config' \in ProtocolConfig
           /\ config'.total_shares = 0 /\ config'.total_yield_claims = 0
           /\ config'.total_pending_unstake = 0 /\ config'.total_minted = 0
<1>1. PICK readable \in BOOLEAN :
        (readable => Readable(pool)) /\ config' = OpeningConfig(pool, readable)
  BY DEF Reinitialize
<1>2. config' \in ProtocolConfig
  BY <1>1, PoolFields, OpeningType
<1> QED
  BY <1>1, <1>2 DEF OpeningConfig

(* The script's count is a number, and sends a number.                     *)
LEMMA NeededNat ==
    ASSUME TypeInv
    PROVE  IsFiniteSet(idents) /\ Needed \in Nat
<1>1. IsFiniteSet(Nonces) /\ idents \subseteq Nonces
  BY FS_Interval, CoreAssumption DEF Nonces, TypeInv, TypeOK
<1>2. IsFiniteSet(idents)
  BY <1>1, FS_Subset
<1> QED
  BY <1>2, FS_CardinalityType DEF Needed

LEMMA ScriptFields ==
    ASSUME MigrationInv
    PROVE  /\ script.seen \in Nat /\ script.needed \in Nat /\ script.on \in Nat
           /\ script.gapless \in BOOLEAN /\ migrations \in Nat
  BY DEF MigrationInv, MigrationTypeOK, Script

(* The steps around the core: what they write and what they leave alone.   *)
LEMMA AroundCore ==
    ASSUME MigrationInv,
           \/ UNCHANGED allVars
           \/ \E a \in Admins : SetAdmin(a)
           \/ \E a \in Admins : Reinitialize(a)
           \/ CloseProtocolConfig
           \/ \E c \in 1..MaxVows : SetMintCounterByHand(c)
           \/ ScriptFetch \/ ScriptCount \/ ScriptAdvance \/ ScriptFails
    PROVE  /\ AccountsKept
           /\ config' \in ProtocolConfig
           /\ UNCHANGED <<reserve, tokens, pool, now, epoch>>
<1>1. TypeInv /\ config \in ProtocolConfig /\ script.needed \in Nat
  BY ConfigFields, ScriptFields DEF MigrationInv, PositionInv
<1>2. CASE \/ UNCHANGED allVars \/ \E a \in Admins : SetAdmin(a)
           \/ ScriptFetch \/ ScriptCount \/ ScriptFails
  <2>1. UNCHANGED <<vars, recordVars>>
    BY <1>2 DEF allVars, SetAdmin, ScriptFetch, ScriptCount, ScriptFails
  <2> QED
    BY <1>1, <2>1 DEF vars, AccountsKept
<1>3. ASSUME NEW a \in Admins, Reinitialize(a)
      PROVE  /\ AccountsKept
             /\ config' \in ProtocolConfig
             /\ UNCHANGED <<reserve, tokens, pool, now, epoch>>
  BY <1>1, <1>3, OpenedConfig DEF Reinitialize, AccountsKept
<1>4. CASE CloseProtocolConfig
  BY <1>4, ClosedConfig DEF CloseProtocolConfig, AccountsKept
<1>5. ASSUME NEW c \in 1..MaxVows, SetMintCounterByHand(c)
      PROVE  /\ AccountsKept
             /\ config' \in ProtocolConfig
             /\ UNCHANGED <<reserve, tokens, pool, now, epoch>>
  <2>1. SetMintCounter(c) /\ UNCHANGED recordVars /\ c \in Nat
    BY <1>5, CoreAssumption DEF SetMintCounterByHand
  <2> QED
    BY <1>1, <2>1, CounterSet DEF AccountsKept
<1>6. CASE ScriptAdvance
  <2>1. SetMintCounter(script.needed) /\ UNCHANGED recordVars
    BY <1>6 DEF ScriptAdvance
  <2> QED
    BY <1>1, <2>1, CounterSet DEF AccountsKept
<1> QED
  BY <1>2, <1>3, <1>4, <1>5, <1>6

(* The kinds of steps.                                                     *)
LEMMA MigrationCases ==
    ASSUME MigrationInv, [MigrationNext]_allVars
    PROVE  \/ /\ UNCHANGED <<recordVars, migrationVars>>
              /\ config_live /\ \E n \in Nonces : StepOf(n)
           \/ /\ UNCHANGED vars
              /\ \E n \in idents : RecordCommitment(n) \/ RecordFulfillment(n)
           \/ AccountsKept
<1>1. CASE CoreStep
  BY <1>1, CoreCases, CoreIsNext DEF LedgerKept, AccountsKept
<1>2. ASSUME NEW n \in idents, RecordCommitment(n) \/ RecordFulfillment(n)
      PROVE  UNCHANGED vars
  BY <1>2 DEF RecordCommitment, RecordFulfillment
<1> QED
  BY <1>1, <1>2, AroundCore DEF MigrationNext

(* Types of the variables around the core.                                 *)
AroundOK ==
    /\ admin \in Admins /\ config_live \in BOOLEAN /\ migrations \in Nat
    /\ script \in Script /\ advanced \in BOOLEAN

LEMMA IdleType == Idle \in Script
  BY DEF Idle, Script

LEMMA AroundType ==
    ASSUME MigrationInv, [MigrationNext]_allVars
    PROVE  AroundOK'
<1>1. AroundOK /\ TypeInv
  BY DEF MigrationInv, MigrationTypeOK, AroundOK, PositionInv
<1>2. CASE UNCHANGED migrationVars
  BY <1>1, <1>2 DEF AroundOK, migrationVars
<1>3. ASSUME NEW a \in Admins, SetAdmin(a) \/ Reinitialize(a)
      PROVE  AroundOK'
  BY <1>1, <1>3 DEF AroundOK, SetAdmin, Reinitialize
<1>4. CASE CloseProtocolConfig
  <2>1. migrations' \in Nat
    BY <1>1, <1>4 DEF AroundOK, CloseProtocolConfig
  <2> QED
    BY <1>1, <1>4, <2>1 DEF AroundOK, CloseProtocolConfig
<1>5. CASE ScriptFetch
  <2>1. config.total_minted \in Nat
    BY <1>1, ConfigFields
  <2> QED
    BY <1>1, <1>5, <2>1 DEF AroundOK, ScriptFetch, Script
<1>6. CASE ScriptCount
  <2>1. Needed \in Nat /\ Gapless \in BOOLEAN
    BY <1>1, NeededNat DEF Gapless
  <2>2. script' \in Script
    BY <1>1, <1>6, <2>1, IdleType DEF AroundOK, ScriptCount, ScriptDone, Script
  <2>3. advanced' \in BOOLEAN
    BY <1>1, <1>6 DEF AroundOK, ScriptCount, ScriptDone
  <2> QED
    BY <1>1, <1>6, <2>2, <2>3 DEF AroundOK, ScriptCount
<1>7. CASE ScriptAdvance
  BY <1>1, <1>7, IdleType DEF AroundOK, ScriptAdvance, ScriptDone
<1>8. CASE ScriptFails
  BY <1>1, <1>8, IdleType DEF AroundOK, ScriptFails
<1> QED
  BY <1>2, <1>3, <1>4, <1>5, <1>6, <1>7, <1>8, CoreIsNext
  DEF MigrationNext, SetMintCounterByHand, allVars, migrationVars

LEMMA InitMigration == MigrationInit => MigrationInv
<1> SUFFICES ASSUME MigrationInit PROVE MigrationInv
  OBVIOUS
<1>1. PositionInv /\ TypeOK
  BY InitPosition DEF MigrationInit, PositionInv, TypeInv
<1>2. NoRecord \in CommitmentRecord
  BY TierAssumption DEF NoRecord, CommitmentRecord, Classes
<1>3. \A n \in Nonces : Clean(n) /\ Owned(n)
  BY DEF MigrationInit, Init, Clean, Owned, NoEscrow
<1>4. MigrationTypeOK
  BY <1>1, <1>2, IdleType DEF MigrationInit, RecordsInit, MigrationTypeOK
<1> QED
  BY <1>1, <1>3, <1>4 DEF MigrationInv

LEMMA NextMigration == MigrationInv /\ [MigrationNext]_allVars => MigrationInv'
<1> SUFFICES ASSUME MigrationInv, [MigrationNext]_allVars PROVE MigrationInv'
  OBVIOUS
<1>1. /\ TypeInv /\ PositionInv /\ RecordsOK /\ idents \subseteq Nonces
      /\ committed \subseteq idents /\ fulfilments \subseteq idents
      /\ \A n \in Nonces : Clean(n) /\ Owned(n)
  BY DEF MigrationInv, MigrationTypeOK, PositionInv, TypeInv, TypeOK, RecordsOK
<1>2. PositionInv'
  <2>1. CASE CoreStep
    BY <1>1, <2>1, CoreIsNext, NextPosition
  <2>2. ASSUME NEW n \in idents, RecordCommitment(n) \/ RecordFulfillment(n)
        PROVE  PositionInv'
    BY <1>1, <2>2, NextPosition DEF RecordCommitment, RecordFulfillment
  <2>3. ASSUME /\ AccountsKept
               /\ config' \in ProtocolConfig
               /\ UNCHANGED <<reserve, tokens, pool, now, epoch>>
        PROVE  PositionInv'
    BY <1>1, <2>3 DEF AccountsKept, PositionInv, PositionSound, TypeInv, TypeOK, TokensWithinSupply
  <2> QED
    BY <2>1, <2>2, <2>3, AroundCore DEF MigrationNext
<1>3. /\ RecordsOK' /\ committed' \subseteq idents' /\ fulfilments' \subseteq idents'
      /\ \A n \in Nonces : (Clean(n) /\ Owned(n))'
  <2>1. ASSUME NEW n \in Nonces, StepOf(n), UNCHANGED recordVars
        PROVE  /\ RecordsOK' /\ committed' \subseteq idents' /\ fulfilments' \subseteq idents'
               /\ \A k \in Nonces : (Clean(k) /\ Owned(k))'
    <3>1. ASSUME NEW k \in Nonces, k # n PROVE (Clean(k) /\ Owned(k))'
      BY <1>1, <2>1, <3>1
      DEF StepOf, Minted, Kept, OnlyVow, OnlyEscrow, Clean, Owned
    <3>2. (Clean(n) /\ Owned(n))'
      BY <1>1, <2>1 DEF StepOf, Minted, Kept, Permanent, Owned
    <3>3. idents \subseteq idents'
      BY <2>1 DEF StepOf, Minted, Kept
    <3> QED
      BY <1>1, <2>1, <3>1, <3>2, <3>3 DEF recordVars, RecordsOK
  <2>2. ASSUME NEW n \in idents, RecordCommitment(n) \/ RecordFulfillment(n), UNCHANGED vars
        PROVE  /\ RecordsOK' /\ committed' \subseteq idents' /\ fulfilments' \subseteq idents'
               /\ \A k \in Nonces : (Clean(k) /\ Owned(k))'
    <3>1. n \in Nonces /\ vow[n].owner \in Wallets
      BY <1>1 DEF Owned
    <3>2. RecordsOK'
      BY <1>1, <2>2, <3>1, RecordCommitmentEffect, RecordFulfillmentEffect
    <3>3. committed' \subseteq idents /\ fulfilments' \subseteq idents
      BY <1>1, <2>2 DEF RecordCommitment, RecordFulfillment
    <3> QED
      BY <1>1, <2>2, <3>2, <3>3 DEF vars, Clean, Owned
  <2>3. CASE AccountsKept
    BY <1>1, <2>3 DEF AccountsKept, recordVars, RecordsOK, Clean, Owned
  <2> QED
    BY <2>1, <2>2, <2>3, MigrationCases
<1>4. AroundOK'
  BY AroundType
<1> QED
  BY <1>2, <1>3, <1>4
  DEF MigrationInv, MigrationTypeOK, PositionInv, TypeInv, RecordsOK, AroundOK

LEMMA MigrationInvariant == MigrationSpec => []MigrationInv
  BY InitMigration, NextMigration, PTL DEF MigrationSpec

(* Closing, initializing again and advancing the counter, by hand or by    *)
(* the script, leave every account, every record and the script's own      *)
(* numbers representable.                                                  *)
THEOREM MigrationTypes == MigrationSpec => []MigrationTypeOK
<1>1. MigrationInv => MigrationTypeOK
  BY DEF MigrationInv
<1> QED
  BY <1>1, MigrationInvariant, PTL

-----------------------------------------------------------------------------
(* An identity is never taken from its owner, minted again or set back,    *)
(* and a wallet's record never shrinks, through any number of migrations   *)
(* and whatever the counter is set to.                                     *)
THEOREM IdentitiesPermanent == MigrationSpec => IdentityPermanent
<1> DEFINE Keeps ==
       /\ \A n \in idents :
            /\ n \in idents'
            /\ vow'[n].owner = vow[n].owner
            /\ vow'[n].total_commitments >= vow[n].total_commitments
            /\ vow'[n].total_fulfilled >= vow[n].total_fulfilled
            /\ vow'[n].cumulative_stake_days >= vow[n].cumulative_stake_days
            /\ vow'[n].highest_class_ever >= vow[n].highest_class_ever
       /\ \A w \in Wallets :
            /\ records'[w].total_xnfts_minted >= records[w].total_xnfts_minted
            /\ records'[w].total_xnt_fulfilled >= records[w].total_xnt_fulfilled
            /\ records'[w].highest_class_ever >= records[w].highest_class_ever
<1>1. MigrationInv /\ [MigrationNext]_allVars => [Keeps]_allVars
  <2> SUFFICES ASSUME MigrationInv, [MigrationNext]_allVars PROVE Keeps
    OBVIOUS
  <2>1. /\ TypeInv /\ RecordsOK /\ idents \subseteq Nonces
        /\ \A n \in Nonces : Owned(n)
    BY DEF MigrationInv, MigrationTypeOK, PositionInv, TypeInv, TypeOK, RecordsOK
  <2>2. \A n \in idents :
          /\ vow[n].total_commitments \in Nat /\ vow[n].total_fulfilled \in Nat
          /\ vow[n].cumulative_stake_days \in Nat /\ vow[n].highest_class_ever \in Nat
    BY <2>1, Numbers
  <2>3. \A w \in Wallets :
          /\ records[w].total_xnfts_minted \in Nat /\ records[w].total_xnt_fulfilled \in Nat
          /\ records[w].highest_class_ever \in Nat
    BY <2>1, RecordFields DEF RecordsOK
  <2>4. ASSUME UNCHANGED <<idents, vow>>
        PROVE  \A n \in idents : n \in idents' /\ Permanent(n)
    BY <2>2, <2>4 DEF Permanent
  <2>5. ASSUME UNCHANGED recordVars
        PROVE  \A w \in Wallets :
                  /\ records'[w].total_xnfts_minted >= records[w].total_xnfts_minted
                  /\ records'[w].total_xnt_fulfilled >= records[w].total_xnt_fulfilled
                  /\ records'[w].highest_class_ever >= records[w].highest_class_ever
    BY <2>3, <2>5 DEF recordVars
  <2>6. ASSUME NEW n \in Nonces, StepOf(n)
        PROVE  \A k \in idents : k \in idents' /\ Permanent(k)
    <3> TAKE k \in idents
    <3>1. k \in idents' /\ k \in Nonces
      BY <2>1, <2>6 DEF StepOf, Minted, Kept
    <3>2. CASE k = n
      BY <2>6, <3>1, <3>2 DEF StepOf, Minted, Kept
    <3>3. CASE k # n
      BY <2>2, <2>6, <3>1, <3>3 DEF StepOf, OnlyVow, Permanent
    <3> QED
      BY <3>1, <3>2, <3>3
  <2>7. ASSUME NEW n \in idents, RecordCommitment(n) \/ RecordFulfillment(n)
        PROVE  \A w \in Wallets :
                  /\ records'[w].total_xnfts_minted >= records[w].total_xnfts_minted
                  /\ records'[w].total_xnt_fulfilled >= records[w].total_xnt_fulfilled
                  /\ records'[w].highest_class_ever >= records[w].highest_class_ever
    <3>1. PICK o \in Wallets : o = vow[n].owner /\ n \in Nonces
      BY <2>1 DEF Owned
    <3>2. /\ \A w \in Wallets : w # o => records'[w] = records[w]
          /\ \/ records'[o].total_xnfts_minted = records[o].total_xnfts_minted
             \/ records'[o].total_xnfts_minted = records[o].total_xnfts_minted + 1
          /\ \/ records'[o].total_xnt_fulfilled = records[o].total_xnt_fulfilled
             \/ records'[o].total_xnt_fulfilled =
                   records[o].total_xnt_fulfilled + vow[n].principal_lamports
          /\ \/ records'[o].highest_class_ever = records[o].highest_class_ever
             \/ records'[o].highest_class_ever =
                   Higher(records[o].highest_class_ever, vow[n].class)
      BY <2>1, <2>7, <3>1, RecordCommitmentEffect, RecordFulfillmentEffect
    <3>3. vow[n].class \in Nat /\ vow[n].principal_lamports \in Nat
      BY <2>1, <3>1, PositionNumbers
    <3>4. /\ records'[o].total_xnfts_minted >= records[o].total_xnfts_minted
          /\ records'[o].total_xnt_fulfilled >= records[o].total_xnt_fulfilled
          /\ records'[o].highest_class_ever >= records[o].highest_class_ever
      BY <2>3, <3>2, <3>3 DEF Higher
    <3> QED
      BY <2>3, <3>2, <3>4
  <2> QED
    BY <2>4, <2>5, <2>6, <2>7, MigrationCases DEF AccountsKept, vars, Permanent
<1> QED
  BY <1>1, MigrationInvariant, PTL DEF MigrationSpec, IdentityPermanent

-----------------------------------------------------------------------------
(* A total that does not exceed its sum does not exceed it after a booking. *)
LEMMA BookedBelow ==
    ASSUME NEW N \in Nat, NEW f \in [0..(N - 1) -> Nat], NEW g \in [0..(N - 1) -> Nat],
           NEW i \in 0..(N - 1), \A j \in 0..(N - 1) : j # i => g[j] = f[j],
           NEW t \in Nat, NEW t1, t <= SumTo(f, N), Booked(f[i], g[i], t, t1)
    PROVE  t1 <= SumTo(g, N)
<1> DEFINE F == SumTo(f, N)
           G == SumTo(g, N)
           a == f[i]
           b == g[i]
<1>1. F \in Nat /\ a \in Nat /\ b \in Nat /\ a <= F
  BY SumNat, SumBound
<1>2. G = F - a + b
  BY SumUpdate
<1>3. PICK x \in 0..a, y \in Nat : b = a - x + y /\ t1 = SatSub(t, x) + y
  BY DEF Booked
<1>4. t <= F
  OBVIOUS
<1> HIDE DEF F, G, a, b
<1>5. t1 <= G
  BY <1>1, <1>2, <1>3, <1>4 DEF SatSub
<1> QED
  BY <1>5 DEF G

LEMMA InitOverstate == MigrationInit => TotalsNeverOverstate
<1> SUFFICES ASSUME MigrationInit PROVE TotalsNeverOverstate
  OBVIOUS
<1>1. TypeInv
  BY InitType DEF MigrationInit
<1>2. config.total_shares = 0 /\ config.total_yield_claims = 0 /\ config.total_pending_unstake = 0
  BY DEF MigrationInit, Init, OpeningConfig
<1>3. /\ SumTo(SharesHeld, MaxVows) \in Nat
      /\ SumTo(ClaimsHeld, MaxVows) \in Nat
      /\ SumTo(DebtsHeld, MaxVows) \in Nat
  BY <1>1, HeldType, SumNat
<1> QED
  BY <1>2, <1>3 DEF TotalsNeverOverstate

LEMMA NextOverstate ==
    MigrationInv /\ MigrationInv' /\ TotalsNeverOverstate /\ [MigrationNext]_allVars
        => TotalsNeverOverstate'
<1> SUFFICES ASSUME MigrationInv, MigrationInv', TotalsNeverOverstate, [MigrationNext]_allVars
             PROVE  TotalsNeverOverstate'
  OBVIOUS
<1>1. TypeInv /\ TypeInv'
  BY DEF MigrationInv, PositionInv
<1>2. /\ MaxVows \in Nat
      /\ SharesHeld \in [0..(MaxVows - 1) -> Nat]
      /\ ClaimsHeld \in [0..(MaxVows - 1) -> Nat]
      /\ DebtsHeld \in [0..(MaxVows - 1) -> Nat]
  BY <1>1, HeldType
<1>3. /\ SharesHeld' \in [0..(MaxVows - 1) -> Nat]
      /\ ClaimsHeld' \in [0..(MaxVows - 1) -> Nat]
      /\ DebtsHeld' \in [0..(MaxVows - 1) -> Nat]
  <2>1. \A m \in Nonces : vow'[m].shares \in Nat /\ vow'[m].yield_balance \in Nat
    <3> TAKE m \in Nonces
    <3>1. vow'[m] \in VowState
      BY <1>1 DEF TypeInv, TypeOK
    <3> QED
      BY <3>1, VowFields
  <2>2. \A m \in Nonces : escrow'[m].lamports_owed \in Nat
    BY <1>1 DEF TypeInv, TypeOK, UnstakeEscrow
  <2> QED
    BY <2>1, <2>2 DEF SharesHeld, ClaimsHeld, DebtsHeld, Nonces
<1>4. /\ config.total_shares \in Nat /\ config.total_yield_claims \in Nat
      /\ config.total_pending_unstake \in Nat
  BY <1>1, ConfigFields
<1>5. SUFFICES /\ config'.total_shares <= SumTo(SharesHeld', MaxVows)
               /\ config'.total_yield_claims <= SumTo(ClaimsHeld', MaxVows)
               /\ config'.total_pending_unstake <= SumTo(DebtsHeld', MaxVows)
  <2>1. /\ SumTo(SharesHeld', MaxVows) = SumTo(SharesHeld, MaxVows)'
        /\ SumTo(ClaimsHeld', MaxVows) = SumTo(ClaimsHeld, MaxVows)'
        /\ SumTo(DebtsHeld', MaxVows) = SumTo(DebtsHeld, MaxVows)'
    BY DEF SumTo
  <2> QED
    BY <2>1 DEF TotalsNeverOverstate
<1>6. ASSUME NEW n \in Nonces, StepOf(n)
      PROVE  /\ config'.total_shares <= SumTo(SharesHeld', MaxVows)
             /\ config'.total_yield_claims <= SumTo(ClaimsHeld', MaxVows)
             /\ config'.total_pending_unstake <= SumTo(DebtsHeld', MaxVows)
  <2>1. n \in 0..(MaxVows - 1)
    BY DEF Nonces
  <2>2. \A m \in 0..(MaxVows - 1) : m # n =>
          /\ SharesHeld'[m] = SharesHeld[m]
          /\ ClaimsHeld'[m] = ClaimsHeld[m]
          /\ DebtsHeld'[m] = DebtsHeld[m]
    BY <1>6 DEF StepOf, SharesHeld, ClaimsHeld, DebtsHeld, Nonces, OnlyVow, OnlyEscrow
  <2>3. /\ SharesHeld[n] = vow[n].shares /\ SharesHeld'[n] = vow'[n].shares
        /\ ClaimsHeld[n] = vow[n].yield_balance /\ ClaimsHeld'[n] = vow'[n].yield_balance
        /\ DebtsHeld[n] = escrow[n].lamports_owed /\ DebtsHeld'[n] = escrow'[n].lamports_owed
    BY DEF SharesHeld, ClaimsHeld, DebtsHeld
  <2>4. /\ Booked(SharesHeld[n], SharesHeld'[n], config.total_shares, config'.total_shares)
        /\ Booked(ClaimsHeld[n], ClaimsHeld'[n],
                  config.total_yield_claims, config'.total_yield_claims)
        /\ Booked(DebtsHeld[n], DebtsHeld'[n],
                  config.total_pending_unstake, config'.total_pending_unstake)
    BY <1>6, <2>3 DEF StepOf
  <2>5. /\ config.total_shares <= SumTo(SharesHeld, MaxVows)
        /\ config.total_yield_claims <= SumTo(ClaimsHeld, MaxVows)
        /\ config.total_pending_unstake <= SumTo(DebtsHeld, MaxVows)
    BY DEF TotalsNeverOverstate
  <2>6. config'.total_shares <= SumTo(SharesHeld', MaxVows)
    BY <1>2, <1>3, <1>4, <2>1, <2>2, <2>4, <2>5, BookedBelow
  <2>7. config'.total_yield_claims <= SumTo(ClaimsHeld', MaxVows)
    BY <1>2, <1>3, <1>4, <2>1, <2>2, <2>4, <2>5, BookedBelow
  <2>8. config'.total_pending_unstake <= SumTo(DebtsHeld', MaxVows)
    BY <1>2, <1>3, <1>4, <2>1, <2>2, <2>4, <2>5, BookedBelow
  <2> QED
    BY <2>6, <2>7, <2>8
<1>7. ASSUME UNCHANGED <<vow, escrow>>,
             \/ /\ config'.total_shares = config.total_shares
                /\ config'.total_yield_claims = config.total_yield_claims
                /\ config'.total_pending_unstake = config.total_pending_unstake
             \/ /\ config'.total_shares = 0
                /\ config'.total_yield_claims = 0
                /\ config'.total_pending_unstake = 0
      PROVE  /\ config'.total_shares <= SumTo(SharesHeld', MaxVows)
             /\ config'.total_yield_claims <= SumTo(ClaimsHeld', MaxVows)
             /\ config'.total_pending_unstake <= SumTo(DebtsHeld', MaxVows)
  <2>1. SharesHeld' = SharesHeld /\ ClaimsHeld' = ClaimsHeld /\ DebtsHeld' = DebtsHeld
    BY <1>7 DEF SharesHeld, ClaimsHeld, DebtsHeld
  <2>2. /\ SumTo(SharesHeld, MaxVows) \in Nat
        /\ SumTo(ClaimsHeld, MaxVows) \in Nat
        /\ SumTo(DebtsHeld, MaxVows) \in Nat
    BY <1>2, SumNat
  <2> QED
    BY <1>7, <2>1, <2>2 DEF TotalsNeverOverstate
<1> QED
  BY <1>6, <1>7, MigrationCases DEF AccountsKept, vars

(* The totals never claim more than the accounts hold: what a second       *)
(* initialize forgets is never counted twice later.                        *)
THEOREM TotalsBounded == MigrationSpec => []TotalsNeverOverstate
  BY MigrationInvariant, InitOverstate, NextOverstate, PTL DEF MigrationSpec

-----------------------------------------------------------------------------
(* RecordsReflectIdentities is not inductive by itself: a record that does *)
(* not exist yet must know no tier.                                        *)
RecordSound(w) ==
    LET r == records[w]
    IN  /\ r.total_xnfts_minted = Cardinality(OwnedBy(w, committed))
        /\ r.live <=> OwnedBy(w, committed) # {}
        /\ r.live =>
              /\ \E n \in OwnedBy(w, committed) :
                    r.highest_class_ever <= vow[n].highest_class_ever
              /\ r.commitment_score = compute_score(r)
        /\ r.total_xnt_fulfilled > 0 => OwnedBy(w, fulfilments) # {}
        /\ ~r.live => r.highest_class_ever = 0

RecordInv == \A w \in Wallets : RecordSound(w)

LEMMA InitRecords == MigrationInit => RecordInv
<1> SUFFICES ASSUME MigrationInit, NEW w \in Wallets PROVE RecordSound(w)
  BY DEF RecordInv
<1>1. records[w] = NoRecord /\ OwnedBy(w, committed) = {}
  BY DEF MigrationInit, RecordsInit, OwnedBy
<1>2. Cardinality({}) = 0
  BY FS_EmptySet
<1> QED
  BY <1>1, <1>2 DEF RecordSound, NoRecord

(* Steps that write no record.                                             *)
LEMMA RecordsStay ==
    ASSUME MigrationInv, MigrationInv', RecordInv, UNCHANGED recordVars,
           \A k \in idents : /\ vow'[k].owner = vow[k].owner
                             /\ vow'[k].highest_class_ever >= vow[k].highest_class_ever
    PROVE  RecordInv'
<1> SUFFICES ASSUME NEW w \in Wallets PROVE RecordSound(w)'
  BY DEF RecordInv
<1>1. /\ committed \subseteq idents /\ fulfilments \subseteq idents /\ idents \subseteq Nonces
      /\ RecordsOK /\ TypeInv /\ TypeInv' /\ RecordSound(w)
  BY DEF MigrationInv, MigrationTypeOK, PositionInv, TypeInv, TypeOK, RecordInv, RecordsOK
<1>2. records' = records /\ committed' = committed /\ fulfilments' = fulfilments
  BY DEF recordVars
<1>3. /\ OwnedBy(w, committed)' = OwnedBy(w, committed)
      /\ OwnedBy(w, fulfilments)' = OwnedBy(w, fulfilments)
  BY <1>1, <1>2 DEF OwnedBy
<1>4. ASSUME NEW n \in OwnedBy(w, committed),
             records[w].highest_class_ever <= vow[n].highest_class_ever
      PROVE  records[w].highest_class_ever <= vow'[n].highest_class_ever
  <2>1. n \in idents /\ n \in Nonces
    BY <1>1, <1>4 DEF OwnedBy
  <2>2. vow[n].highest_class_ever \in Nat
    BY <1>1, <2>1, Numbers
  <2>3. vow'[n].highest_class_ever \in Nat
    <3>1. vow'[n] \in VowState
      BY <1>1, <2>1 DEF TypeInv, TypeOK
    <3> QED
      BY <3>1, VowFields, TierAssumption DEF Classes
  <2>4. records[w].highest_class_ever \in Nat
    BY <1>1, RecordFields DEF RecordsOK
  <2> QED
    BY <1>4, <2>1, <2>2, <2>3, <2>4
<1> QED
  BY <1>1, <1>2, <1>3, <1>4 DEF RecordSound

LEMMA CommitmentKeepsRecords ==
    ASSUME MigrationInv, RecordInv, NEW n \in idents, RecordCommitment(n)
    PROVE  RecordInv'
<1>1. /\ committed \subseteq idents /\ idents \subseteq Nonces /\ n \in Nonces
      /\ RecordsOK /\ TypeInv /\ PositionSound(n) /\ Owned(n)
  BY DEF MigrationInv, MigrationTypeOK, PositionInv, TypeInv, TypeOK, RecordsOK
<1>2. PICK o \in Wallets : o = vow[n].owner
  BY <1>1 DEF Owned
<1>3. /\ \A x \in Wallets : x # o => records'[x] = records[x]
      /\ records'[o].live
      /\ records'[o].total_xnfts_minted = records[o].total_xnfts_minted + 1
      /\ records'[o].total_xnt_fulfilled = records[o].total_xnt_fulfilled
      /\ records'[o].highest_class_ever = Higher(records[o].highest_class_ever, vow[n].class)
      /\ records'[o].commitment_score = compute_score(records'[o])
  BY <1>1, <1>2, RecordCommitmentEffect
<1>4. /\ n \notin committed /\ committed' = committed \cup {n}
      /\ fulfilments' = fulfilments /\ vow' = vow
  BY DEF RecordCommitment, GateFree, vars
<1>5. ASSUME NEW w \in Wallets, w # o PROVE RecordSound(w)'
  <2>1. /\ OwnedBy(w, committed)' = OwnedBy(w, committed)
        /\ OwnedBy(w, fulfilments)' = OwnedBy(w, fulfilments)
    BY <1>2, <1>4, <1>5 DEF OwnedBy
  <2>2. RecordSound(w) /\ records'[w] = records[w]
    BY <1>3, <1>5 DEF RecordInv
  <2> QED
    BY <1>4, <2>1, <2>2 DEF RecordSound
<1>6. RecordSound(o)'
  <2> DEFINE C == OwnedBy(o, committed)
             r == records[o]
  <2>1. RecordSound(o)
    BY DEF RecordInv
  <2>2. C \cup {n} = OwnedBy(o, committed)' /\ n \notin C
    BY <1>2, <1>4 DEF OwnedBy
  <2>3. OwnedBy(o, fulfilments)' = OwnedBy(o, fulfilments)
    BY <1>4 DEF OwnedBy
  <2>4. IsFiniteSet(C)
    <3>1. C \subseteq idents /\ IsFiniteSet(idents)
      BY <1>1, NeededNat DEF OwnedBy
    <3> QED
      BY <3>1, FS_Subset
  <2>5. Cardinality(C \cup {n}) = Cardinality(C) + 1
    BY <2>2, <2>4, FS_AddElement
  <2>6. /\ r.highest_class_ever \in Nat /\ vow[n].class \in Nat
        /\ vow[n].highest_class_ever \in Nat /\ vow[n].class <= vow[n].highest_class_ever
    BY <1>1, RecordFields, PositionNumbers DEF RecordsOK, PositionSound
  <2>7. \E k \in C \cup {n} : Higher(r.highest_class_ever, vow[n].class)
                                 <= vow[k].highest_class_ever
    <3>1. CASE Higher(r.highest_class_ever, vow[n].class) <= vow[n].highest_class_ever
      BY <3>1
    <3>2. CASE ~(Higher(r.highest_class_ever, vow[n].class) <= vow[n].highest_class_ever)
      <4>1. Higher(r.highest_class_ever, vow[n].class) = r.highest_class_ever
            /\ r.highest_class_ever # 0
        BY <2>6, <3>2 DEF Higher
      <4>2. PICK k \in C : r.highest_class_ever <= vow[k].highest_class_ever
        BY <2>1, <4>1 DEF RecordSound
      <4> QED
        BY <4>1, <4>2
    <3> QED
      BY <3>1, <3>2
  <2>8. r.total_xnfts_minted = Cardinality(C)
        /\ (r.total_xnt_fulfilled > 0 => OwnedBy(o, fulfilments) # {})
    BY <2>1 DEF RecordSound
  <2> HIDE DEF C, r
  <2>9. /\ records'[o].total_xnfts_minted = Cardinality(OwnedBy(o, committed)')
        /\ records'[o].live /\ OwnedBy(o, committed)' # {}
        /\ records'[o].total_xnt_fulfilled > 0 => OwnedBy(o, fulfilments)' # {}
    BY <1>3, <2>2, <2>3, <2>5, <2>8 DEF r
  <2>10. \E k \in OwnedBy(o, committed)' :
            records'[o].highest_class_ever <= vow'[k].highest_class_ever
    BY <1>3, <1>4, <2>2, <2>7 DEF r
  <2> QED
    BY <1>3, <2>9, <2>10 DEF RecordSound
<1> QED
  BY <1>5, <1>6 DEF RecordInv

LEMMA FulfilmentKeepsRecords ==
    ASSUME MigrationInv, RecordInv, NEW n \in idents, RecordFulfillment(n)
    PROVE  RecordInv'
<1>1. /\ idents \subseteq Nonces /\ n \in Nonces /\ RecordsOK /\ TypeInv /\ Owned(n)
  BY DEF MigrationInv, MigrationTypeOK, PositionInv, TypeInv, TypeOK, RecordsOK
<1>2. PICK o \in Wallets : o = vow[n].owner
  BY <1>1 DEF Owned
<1>3. /\ \A x \in Wallets : x # o => records'[x] = records[x]
      /\ records[o].live /\ records'[o].live
      /\ records'[o].total_xnfts_minted = records[o].total_xnfts_minted
      /\ records'[o].highest_class_ever = records[o].highest_class_ever
      /\ records'[o].commitment_score = compute_score(records'[o])
  BY <1>1, <1>2, RecordFulfillmentEffect
<1>4. /\ fulfilments' = fulfilments \cup {n} /\ committed' = committed /\ vow' = vow
  BY DEF RecordFulfillment, vars
<1>5. \A w \in Wallets : /\ OwnedBy(w, committed)' = OwnedBy(w, committed)
                         /\ w # o => OwnedBy(w, fulfilments)' = OwnedBy(w, fulfilments)
  BY <1>2, <1>4 DEF OwnedBy
<1>6. ASSUME NEW w \in Wallets, w # o PROVE RecordSound(w)'
  <2>1. RecordSound(w) /\ records'[w] = records[w]
    BY <1>3, <1>6 DEF RecordInv
  <2> QED
    BY <1>4, <1>5, <1>6, <2>1 DEF RecordSound
<1>7. RecordSound(o)'
  <2>1. RecordSound(o)
    BY DEF RecordInv
  <2>2. OwnedBy(o, fulfilments)' # {}
    BY <1>2, <1>4 DEF OwnedBy
  <2> QED
    BY <1>3, <1>4, <1>5, <2>1, <2>2 DEF RecordSound
<1> QED
  BY <1>6, <1>7 DEF RecordInv

LEMMA NextRecords ==
    MigrationInv /\ MigrationInv' /\ RecordInv /\ [MigrationNext]_allVars => RecordInv'
<1> SUFFICES ASSUME MigrationInv, MigrationInv', RecordInv, [MigrationNext]_allVars
             PROVE  RecordInv'
  OBVIOUS
<1>1. TypeInv /\ idents \subseteq Nonces
  BY DEF MigrationInv, PositionInv, TypeInv, TypeOK
<1>2. \A k \in idents : vow[k].highest_class_ever \in Nat
  BY <1>1, Numbers
<1>3. ASSUME NEW n \in Nonces, StepOf(n), UNCHANGED recordVars PROVE RecordInv'
  <2>1. ASSUME NEW k \in idents
        PROVE  /\ vow'[k].owner = vow[k].owner
               /\ vow'[k].highest_class_ever >= vow[k].highest_class_ever
    <3>1. CASE k = n
      BY <1>3, <3>1 DEF StepOf, Minted, Kept, Permanent
    <3>2. CASE k # n
      BY <1>1, <1>2, <1>3, <3>2 DEF StepOf, OnlyVow
    <3> QED
      BY <3>1, <3>2
  <2> QED
    BY <1>3, <2>1, RecordsStay
<1>4. CASE AccountsKept
  BY <1>2, <1>4, RecordsStay DEF AccountsKept
<1> QED
  BY <1>3, <1>4, CommitmentKeepsRecords, FulfilmentKeepsRecords, MigrationCases

(* A record counts each identity of its wallet once and shows no tier and  *)
(* no fulfilment that none of them can show, also when the identities were *)
(* topped up, left or staked again in between.                             *)
THEOREM RecordsTruthful == MigrationSpec => []RecordsReflectIdentities
<1>1. MigrationSpec => []RecordInv
  BY MigrationInvariant, InitRecords, NextRecords, PTL DEF MigrationSpec
<1>2. RecordInv => RecordsReflectIdentities
  BY DEF RecordInv, RecordSound, RecordsReflectIdentities
<1> QED
  BY <1>1, <1>2, PTL

-----------------------------------------------------------------------------
Passed == \A n \in idents : n < config.total_minted

(* What the script knows of the config it fetched: the counter only grows  *)
(* while that config lives, and a mint takes the number of the counter, so *)
(* a count without a gap is passed by the mint or by the script.           *)
ScriptSound ==
    /\ script.on <= migrations
    /\ script.pc # "idle" /\ script.on = migrations =>
          config_live /\ script.seen <= config.total_minted
    /\ script.pc = "counted" /\ script.on = migrations /\ script.gapless =>
          idents = 0..(script.needed - 1) \/ script.needed <= config.total_minted

CounterInv == ScriptSound /\ (advanced => config_live /\ Passed)

LEMMA InitCounter == MigrationInit => CounterInv
  BY DEF MigrationInit, CounterInv, ScriptSound, Idle

(* The script stands where it stood, and the counter may have grown.       *)
LEMMA CounterGrown ==
    ASSUME MigrationInv, MigrationInv', CounterInv,
           UNCHANGED <<config_live, migrations, script, advanced>>,
           idents' = idents, config'.total_minted >= config.total_minted
    PROVE  CounterInv'
<1>1. /\ config.total_minted \in Nat /\ config'.total_minted \in Nat
      /\ script.seen \in Nat /\ script.needed \in Nat /\ \A n \in idents : n \in Nat
  <2>1. TypeInv /\ TypeInv' /\ idents \subseteq Nonces /\ Nonces \subseteq Nat
    BY CoreAssumption DEF MigrationInv, PositionInv, TypeInv, TypeOK, Nonces
  <2>2. config' \in ProtocolConfig
    BY <2>1 DEF TypeInv, TypeOK
  <2> QED
    BY <2>1, <2>2, ConfigFields, ScriptFields DEF ProtocolConfig
<1>2. Passed => Passed'
  BY <1>1 DEF Passed
<1>3. ScriptSound'
  BY <1>1 DEF CounterInv, ScriptSound
<1> QED
  BY <1>2, <1>3 DEF CounterInv

LEMMA CounterMinted ==
    ASSUME MigrationInv, CounterInv, UNCHANGED migrationVars, NEW n \in Nonces, Minted(n)
    PROVE  CounterInv'
<1>1. /\ n = config.total_minted /\ n \notin idents /\ idents' = idents \cup {n}
      /\ config'.total_minted = n + 1
  BY DEF Minted
<1>2. /\ n \in Nat /\ script.seen \in Nat /\ script.needed \in Nat
      /\ \A k \in idents : k \in Nat
  <2>1. idents \subseteq Nonces /\ Nonces \subseteq Nat
    BY CoreAssumption DEF MigrationInv, PositionInv, TypeInv, TypeOK, Nonces
  <2> QED
    BY <2>1, ScriptFields
<1>3. UNCHANGED <<config_live, migrations, script, advanced>>
  BY DEF migrationVars
<1>4. Passed => Passed'
  BY <1>1, <1>2 DEF Passed
<1>5. idents = 0..(script.needed - 1) => script.needed <= n
  BY <1>1, <1>2
<1>6. ScriptSound'
  BY <1>1, <1>2, <1>3, <1>5 DEF CounterInv, ScriptSound
<1> QED
  BY <1>3, <1>4, <1>6 DEF CounterInv

LEMMA NextCounter ==
    MigrationInv /\ MigrationInv' /\ CounterInv /\ [MigrationNext]_allVars => CounterInv'
<1> SUFFICES ASSUME MigrationInv, MigrationInv', CounterInv, [MigrationNext]_allVars
             PROVE  CounterInv'
  OBVIOUS
<1>1. /\ TypeInv /\ config.total_minted \in Nat
      /\ script.seen \in Nat /\ script.needed \in Nat /\ script.on \in Nat
      /\ script.gapless \in BOOLEAN /\ migrations \in Nat
      /\ script \in Script /\ advanced \in BOOLEAN
  BY ConfigFields, ScriptFields DEF MigrationInv, MigrationTypeOK, PositionInv
<1>2. CASE UNCHANGED allVars
  BY <1>1, <1>2, CounterGrown DEF allVars, vars, migrationVars
<1>3. CASE CoreStep
  <2>1. UNCHANGED migrationVars
    BY <1>3, CoreIsNext
  <2>2. CASE LedgerKept
    BY <1>1, <2>1, <2>2, CounterGrown DEF LedgerKept, migrationVars
  <2>3. ASSUME NEW n \in Nonces, StepOf(n) PROVE CounterInv'
    <3>1. CASE Minted(n)
      BY <2>1, <3>1, CounterMinted
    <3>2. CASE Kept(n)
      BY <1>1, <2>1, <3>2, CounterGrown DEF Kept, migrationVars
    <3> QED
      BY <2>3, <3>1, <3>2 DEF StepOf
  <2> QED
    BY <1>3, <2>2, <2>3, CoreCases
<1>4. ASSUME NEW n \in idents, RecordCommitment(n) \/ RecordFulfillment(n),
             UNCHANGED migrationVars
      PROVE  CounterInv'
  BY <1>1, <1>4, CounterGrown DEF RecordCommitment, RecordFulfillment, vars, migrationVars
<1>5. ASSUME NEW a \in Admins, SetAdmin(a) PROVE CounterInv'
  BY <1>1, <1>5, CounterGrown DEF SetAdmin, vars
<1>6. ASSUME NEW a \in Admins, Reinitialize(a) PROVE CounterInv'
  <2>1. /\ ~config_live /\ UNCHANGED <<migrations, script, advanced>>
    BY <1>6 DEF Reinitialize
  <2>2. ~advanced /\ (script.pc = "idle" \/ script.on # migrations)
    BY <2>1 DEF CounterInv, ScriptSound
  <2> QED
    BY <2>1, <2>2 DEF CounterInv, ScriptSound
<1>7. CASE CloseProtocolConfig
  <2>1. migrations' = migrations + 1 /\ script' = script /\ advanced' = FALSE
    BY <1>7 DEF CloseProtocolConfig
  <2>2. script.on <= migrations' /\ script.on # migrations'
    BY <1>1, <2>1 DEF CounterInv, ScriptSound
  <2> QED
    BY <2>1, <2>2 DEF CounterInv, ScriptSound
<1>8. ASSUME NEW c \in 1..MaxVows, SetMintCounterByHand(c) PROVE CounterInv'
  <2>1. SetMintCounter(c) /\ c \in Nat /\ UNCHANGED migrationVars
    BY <1>8, CoreAssumption DEF SetMintCounterByHand
  <2>2. config'.total_minted >= config.total_minted /\ idents' = idents
    BY <1>1, <2>1, CounterSet
  <2> QED
    BY <2>1, <2>2, CounterGrown DEF migrationVars
<1>9. CASE ScriptFetch
  <2>1. /\ config_live /\ UNCHANGED <<idents, config, config_live, migrations, advanced>>
        /\ script'.pc = "fetched" /\ script'.on = migrations
        /\ script'.seen = config.total_minted
    BY <1>9 DEF ScriptFetch, vars
  <2>2. ScriptSound'
    BY <1>1, <2>1 DEF ScriptSound
  <2> QED
    BY <2>1, <2>2 DEF CounterInv, Passed
<1>10. CASE ScriptCount
  <2>1. UNCHANGED <<idents, config, config_live, migrations>> /\ script.pc = "fetched"
    BY <1>10 DEF ScriptCount, vars
  <2>2. Needed \in Nat
    BY <1>1, NeededNat
  <2>3. CASE script.seen >= Needed
    <3>1. /\ script' = Idle
          /\ advanced' = (advanced \/ (config_live /\ script.on = migrations /\ Gapless))
      BY <1>10, <2>3 DEF ScriptCount, ScriptDone
    <3>2. ASSUME config_live, script.on = migrations, Gapless PROVE Passed
      <4>1. idents = 0..(Needed - 1)
        BY <3>2 DEF Gapless, Needed
      <4>2. script.seen <= config.total_minted
        BY <2>1, <3>2 DEF CounterInv, ScriptSound
      <4> QED
        BY <1>1, <2>2, <2>3, <4>1, <4>2 DEF Passed
    <3>3. ScriptSound'
      BY <1>1, <2>1, <3>1 DEF ScriptSound, Idle
    <3>4. advanced' => config_live' /\ Passed'
      BY <2>1, <3>1, <3>2 DEF CounterInv, Passed
    <3> QED
      BY <3>3, <3>4 DEF CounterInv
  <2>4. CASE ~(script.seen >= Needed)
    <3>1. /\ script' = [script EXCEPT !.pc = "counted", !.needed = Needed, !.gapless = Gapless]
          /\ advanced' = advanced
      BY <1>10, <2>4 DEF ScriptCount
    <3>2. /\ script'.pc = "counted" /\ script'.needed = Needed /\ script'.gapless = Gapless
          /\ script'.on = script.on /\ script'.seen = script.seen
      BY <1>1, <3>1 DEF Script
    <3>3. Gapless => idents = 0..(Needed - 1)
      BY DEF Gapless, Needed
    <3>4. ScriptSound'
      BY <2>1, <3>2, <3>3 DEF CounterInv, ScriptSound
    <3> QED
      BY <2>1, <3>1, <3>4 DEF CounterInv, Passed
  <2> QED
    BY <2>3, <2>4
<1>11. CASE ScriptAdvance
  <2>1. /\ script.pc = "counted" /\ UNCHANGED <<config_live, migrations>>
        /\ script' = Idle
        /\ advanced' = (advanced \/ (config_live /\ script.on = migrations /\ script.gapless))
    BY <1>11 DEF ScriptAdvance, ScriptDone
  <2>2. /\ config'.total_minted = script.needed /\ script.needed > config.total_minted
        /\ idents' = idents
    BY <1>1, <1>11, CounterSet DEF ScriptAdvance
  <2>3. idents \subseteq Nat
    BY CoreAssumption DEF MigrationInv, PositionInv, TypeInv, TypeOK, Nonces
  <2>4. Passed => Passed'
    BY <1>1, <2>2, <2>3 DEF Passed
  <2>5. ASSUME script.on = migrations, script.gapless PROVE Passed'
    <3>1. idents = 0..(script.needed - 1)
      BY <1>1, <2>1, <2>2, <2>5 DEF CounterInv, ScriptSound
    <3> QED
      BY <1>1, <2>2, <3>1 DEF Passed
  <2>6. ScriptSound'
    BY <1>1, <2>1 DEF ScriptSound, Idle
  <2> QED
    BY <2>1, <2>4, <2>5, <2>6 DEF CounterInv
<1>12. CASE ScriptFails
  <2>1. /\ UNCHANGED <<idents, config, config_live, migrations, advanced>> /\ script' = Idle
    BY <1>12 DEF ScriptFails, vars
  <2>2. ScriptSound'
    BY <1>1, <2>1 DEF ScriptSound, Idle
  <2> QED
    BY <2>1, <2>2 DEF CounterInv, Passed
<1> QED
  BY <1>2, <1>3, <1>4, <1>5, <1>6, <1>7, <1>8, <1>9, <1>10, <1>11, <1>12 DEF MigrationNext

(* Once the script has come to its end on a config, having counted         *)
(* identities without a gap, mint never runs into one of them again,       *)
(* whatever was minted or set while the script ran.                        *)
THEOREM CounterAhead == MigrationSpec => []CounterPastIdentities
<1>1. MigrationSpec => []CounterInv
  BY MigrationInvariant, InitCounter, NextCounter, PTL DEF MigrationSpec
<1>2. CounterInv => CounterPastIdentities
  BY DEF CounterInv, Passed, CounterPastIdentities
<1> QED
  BY <1>1, <1>2, PTL

-----------------------------------------------------------------------------
(* The lock of an identity that counts as matured is over.                 *)
Ripe(n) == vow[n].matured => now >= vow[n].unlock_at

(* A step about the identity n keeps the locks if it keeps the one of n.   *)
LEMMA RipeStep ==
    ASSUME MaturedAfterLock, idents \subseteq Nonces, NEW n \in Nonces, OnlyVow(n),
           now' = now, idents' = idents \/ idents' = idents \cup {n}, Ripe(n)'
    PROVE  MaturedAfterLock'
  BY DEF MaturedAfterLock, OnlyVow, Ripe

LEMMA LocksKept ==
    ASSUME TypeInv, TypeInv', ClockStarted, MaturedAfterLock,
           UNCHANGED <<idents, vow>>, now' >= now
    PROVE  ClockStarted' /\ MaturedAfterLock'
<1>1. /\ now \in Nat /\ now' \in Nat
      /\ \A n \in idents : n \in Nonces /\ vow[n] \in VowState
  BY DEF TypeInv, TypeOK
<1>2. \A n \in idents : vow[n].unlock_at \in Nat
  BY <1>1, VowFields
<1> QED
  BY <1>1, <1>2 DEF ClockStarted, MaturedAfterLock

LEMMA CoreLocks ==
    ASSUME TypeInv, ClockStarted, MaturedAfterLock, Next
    PROVE  ClockStarted' /\ MaturedAfterLock'
<1>1. TypeInv' /\ idents \subseteq Nonces /\ now \in Nat
  BY NextType DEF TypeInv, TypeOK
<1>2. ASSUME NEW w \in Wallets, NEW l \in StakeAmounts, NEW m \in Modes, Mint(w, l, m)
      PROVE  now' = now /\ MaturedAfterLock'
  <2> DEFINE n == config.total_minted
  <2>1. n \in Nonces /\ OnlyVow(n) /\ ~vow'[n].matured
    BY <1>2, MintEffect
  <2>2. idents' = idents \cup {n} /\ now' = now
    BY <1>2 DEF Mint
  <2> QED
    BY <1>1, <2>1, <2>2, RipeStep DEF Ripe
<1>3. ASSUME NEW n \in idents,
             \/ \E l \in TopUpAmounts : AddStake(n, l)
             \/ \E l \in StakeAmounts, m \in Modes : ActivateStake(n, l, m)
             \/ BeginUnstake(n)
             \/ CompleteUnstake(n)
             \/ \E m \in Modes : UpdateYieldMode(n, m)
             \/ Harvest(n)
      PROVE  now' = now /\ MaturedAfterLock'
  <2>1. n \in Nonces /\ Ripe(n)
    BY <1>1 DEF MaturedAfterLock, Ripe
  <2>2. UNCHANGED <<now, idents>>
    BY <1>3 DEF AddStake, ActivateStake, BeginUnstake, CompleteUnstake, UpdateYieldMode, Harvest
  <2>3. /\ OnlyVow(n)
        /\ vow'[n].matured =>
              /\ vow[n].matured \/ now >= vow[n].unlock_at
              /\ vow'[n].unlock_at = vow[n].unlock_at
    BY <1>3, <2>1, AddStakeEffect, ActivateStakeEffect, BeginUnstakeEffect,
       CompleteUnstakeEffect, UpdateYieldModeEffect, HarvestEffect
  <2> QED
    BY <1>1, <2>1, <2>2, <2>3, RipeStep DEF Ripe
<1>4. ASSUME NEW n \in idents,
             \/ \E amount \in YieldAmounts : DepositYieldBalance(n, amount)
             \/ WithdrawYield(n)
      PROVE  now' = now /\ MaturedAfterLock'
  <2>1. /\ UNCHANGED <<now, idents>>
        /\ \E b : vow' = [vow EXCEPT ![n].yield_balance = b]
    BY <1>4 DEF DepositYieldBalance, WithdrawYield, PayYield
  <2>2. n \in Nonces /\ Ripe(n) /\ vow \in [Nonces -> VowState]
    BY <1>1 DEF MaturedAfterLock, Ripe, TypeInv, TypeOK
  <2>3. OnlyVow(n) /\ Ripe(n)'
    BY <2>1, <2>2 DEF OnlyVow, Ripe, VowState
  <2> QED
    BY <1>1, <2>1, <2>2, <2>3, RipeStep
<1>5. ASSUME NEW n \in idents, DevFastUnlock(n) PROVE now' = now /\ MaturedAfterLock'
  <2>1. /\ n \in Nonces /\ vow \in [Nonces -> VowState]
        /\ vow' = [vow EXCEPT ![n].unlock_at = 1] /\ UNCHANGED <<idents, now>>
    BY <1>1, <1>5, DevFastUnlockEffect DEF TypeInv, TypeOK
  <2>2. OnlyVow(n) /\ vow'[n].unlock_at = 1
    BY <2>1 DEF OnlyVow, VowState
  <2>3. Ripe(n)'
    BY <2>1, <2>2 DEF Ripe, ClockStarted
  <2> QED
    BY <1>1, <2>1, <2>2, <2>3, RipeStep
<1>6. ASSUME \/ \E n \in idents : WithdrawFromPool(n)
             \/ UpdateSharePrice
             \/ FlushReserveToPool
             \/ \E new_price \in DevPrices : DevSetSharePrice(new_price)
             \/ Tick \/ NextEpoch
             \/ \E delta \in PoolDeltas : PoolUpdate(delta)
      PROVE  ClockStarted' /\ MaturedAfterLock'
  <2>1. UNCHANGED <<idents, vow>> /\ (now' = now \/ now' = now + 1)
    BY <1>6 DEF WithdrawFromPool, UpdateSharePrice, FlushReserveToPool,
       DevSetSharePrice, Tick, NextEpoch, PoolUpdate
  <2>2. now' >= now
    BY <1>1, <2>1
  <2> QED
    BY <1>1, <2>1, <2>2, LocksKept
<1>7. now' = now => ClockStarted'
  BY DEF ClockStarted
<1> QED
  BY <1>2, <1>3, <1>4, <1>5, <1>6, <1>7 DEF Next

LEMMA NextLocks ==
    MigrationInv /\ ClockStarted /\ MaturedAfterLock /\ [MigrationNext]_allVars
        => ClockStarted' /\ MaturedAfterLock'
<1> SUFFICES ASSUME MigrationInv, ClockStarted, MaturedAfterLock, [MigrationNext]_allVars
             PROVE  ClockStarted' /\ MaturedAfterLock'
  OBVIOUS
<1>1. TypeInv /\ TypeInv' /\ now \in Nat
  BY NextMigration DEF MigrationInv, PositionInv, TypeInv, TypeOK
<1>2. CASE CoreStep
  BY <1>1, <1>2, CoreIsNext, CoreLocks
<1>3. CASE UNCHANGED <<idents, vow, now>>
  BY <1>1, <1>3, LocksKept
<1>4. CoreStep \/ UNCHANGED <<idents, vow, now>>
  BY DEF MigrationNext, allVars, vars, RecordCommitment, RecordFulfillment, SetAdmin,
     Reinitialize, CloseProtocolConfig, SetMintCounterByHand, SetMintCounter,
     ScriptFetch, ScriptCount, ScriptAdvance, ScriptFails
<1> QED
  BY <1>2, <1>3, <1>4

(* The lock of an identity that counts as matured is over, also when the   *)
(* config was closed and initialized again in between.                     *)
LEMMA LocksSurvive == MigrationSpec => [](ClockStarted /\ MaturedAfterLock)
<1>1. MigrationInit => ClockStarted /\ MaturedAfterLock
  BY DEF MigrationInit, Init, ClockStarted, MaturedAfterLock
<1> QED
  BY <1>1, NextLocks, MigrationInvariant, PTL DEF MigrationSpec

(* record_fulfillment: a wallet's fulfilled stake grows by the principal   *)
(* of an identity of its own whose lock is over on the clock, and by each  *)
(* identity once, whatever was topped up, left, staked again or migrated.  *)
THEOREM FulfilmentsAreEarned == MigrationSpec => FulfilmentsEarned
<1> DEFINE Earned ==
       \A w \in Wallets :
          LET earned == records'[w].total_xnt_fulfilled - records[w].total_xnt_fulfilled
          IN  earned # 0 =>
                  \E n \in fulfilments' \ fulfilments :
                      /\ vow[n].owner = w
                      /\ now >= vow[n].unlock_at
                      /\ earned = vow[n].principal_lamports
<1>1. MigrationInv /\ MaturedAfterLock /\ [MigrationNext]_allVars => [Earned]_recordVars
  <2> SUFFICES ASSUME MigrationInv, MaturedAfterLock, [MigrationNext]_allVars,
                      NEW w \in Wallets,
                      records'[w].total_xnt_fulfilled - records[w].total_xnt_fulfilled # 0
               PROVE  \E n \in fulfilments' \ fulfilments :
                         /\ vow[n].owner = w
                         /\ now >= vow[n].unlock_at
                         /\ records'[w].total_xnt_fulfilled - records[w].total_xnt_fulfilled
                               = vow[n].principal_lamports
    OBVIOUS
  <2>1. /\ TypeInv /\ RecordsOK /\ idents \subseteq Nonces
        /\ \A n \in Nonces : Owned(n)
    BY DEF MigrationInv, MigrationTypeOK, PositionInv, TypeInv, TypeOK, RecordsOK
  <2>2. records[w].total_xnt_fulfilled \in Nat
    BY <2>1, RecordFields DEF RecordsOK
  <2>3. records'[w].total_xnt_fulfilled # records[w].total_xnt_fulfilled
    BY <2>2
  <2>4. ~ UNCHANGED recordVars
    BY <2>3 DEF recordVars
  <2>5. PICK n \in idents : RecordCommitment(n) \/ RecordFulfillment(n)
    BY <2>4, MigrationCases DEF AccountsKept, recordVars
  <2>6. PICK o \in Wallets : o = vow[n].owner /\ n \in Nonces
    BY <2>1 DEF Owned
  <2>7. ~RecordCommitment(n)
    <3> SUFFICES ASSUME RecordCommitment(n) PROVE FALSE
      OBVIOUS
    <3>1. /\ \A x \in Wallets : x # o => records'[x] = records[x]
          /\ records'[o].total_xnt_fulfilled = records[o].total_xnt_fulfilled
      BY <2>1, <2>6, RecordCommitmentEffect
    <3> QED
      BY <2>3, <3>1
  <2>8. RecordFulfillment(n)
    BY <2>5, <2>7
  <2>9. /\ \A x \in Wallets : x # o => records'[x] = records[x]
        /\ records'[o].total_xnt_fulfilled =
              records[o].total_xnt_fulfilled + vow[n].principal_lamports
    BY <2>1, <2>6, <2>8, RecordFulfillmentEffect
  <2>10. w = o
    BY <2>3, <2>9
  <2>11. vow[n].principal_lamports \in Nat
    BY <2>1, <2>6, PositionNumbers
  <2>12. records'[w].total_xnt_fulfilled - records[w].total_xnt_fulfilled
            = vow[n].principal_lamports
    BY <2>2, <2>9, <2>10, <2>11
  <2>13. n \in fulfilments' \ fulfilments /\ vow[n].matured
    BY <2>8 DEF RecordFulfillment, GateFree
  <2>14. now >= vow[n].unlock_at
    BY <2>13 DEF MaturedAfterLock
  <2> QED
    BY <2>6, <2>10, <2>12, <2>13, <2>14
<1> QED
  BY <1>1, LocksSurvive, MigrationInvariant, PTL DEF MigrationSpec, FulfilmentsEarned

(* The booked gain of a position that is not unstaking stays covered by    *)
(* its shares when the config is closed and initialized again, be it at a  *)
(* price of zero: harvest finds the shares that pay for the gain.          *)
THEOREM GainBackedThroughMigrations == MigrationSpec => []GainBackedByShares
<1>1. MigrationInv => GainBackedByShares
  <2>1. TypeInv => idents \subseteq Nonces
    BY DEF TypeInv, TypeOK
  <2> QED
    BY <2>1 DEF MigrationInv, PositionInv, PositionSound, GainBackedByShares
<1> QED
  BY <1>1, MigrationInvariant, PTL
=============================================================================
