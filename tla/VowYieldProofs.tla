--------------------------- MODULE VowYieldProofs ---------------------------
(***************************************************************************)
(* Harvests pay out gains and never principal, as long as the share price  *)
(* does not fall.  The invariant says why: the principal and the gain that *)
(* is booked but not harvested are together covered by the shares at the   *)
(* price of the last settlement, up to one share per purchase.             *)
(*                                                                         *)
(* The second part is about the program as a whole: an instruction adds to *)
(* what is owed no more than it adds to what is owned, up to one rounding; *)
(* and an identity that has left earns less than a share from a harvest.   *)
(***************************************************************************)
EXTENDS VowHistory, VowPositionProofs

(* The cover of one position.                                              *)
Covered(n) ==
    /\ vow[n].last_share_price <= config.current_share_price
    /\ vow[n].accrued_gain >= 0
    /\ vow[n].principal_lamports + vow[n].accrued_gain
         <= ValueOf(vow[n].shares, vow[n].last_share_price) + dust[n]

HistoryInv ==
    /\ LedgerInv
    /\ dust \in [Nonces -> Nat]
    /\ fell \in [Nonces -> BOOLEAN]
    /\ \A n \in idents : Invested(n) /\ ~fell[n] => Covered(n)

-----------------------------------------------------------------------------
(* The history variables of one identity after a step.                     *)
LEMMA HistoryStep ==
    ASSUME HistoryInv, HistoryNext, NEW n \in Nonces
    PROVE  /\ fell'[n] = (~Opened(n) /\ (fell[n] \/ config'.current_share_price
                                                      < config.current_share_price))
           /\ dust'[n] = IF Opened(n) THEN OneShare
                         ELSE IF ToppedUp(n) THEN dust[n] + OneShare ELSE dust[n]
           /\ dust[n] \in Nat
           /\ OneShare \in Nat
<1>1. config.current_share_price \in Nat
  BY ConfigFields DEF HistoryInv, LedgerInv
<1>2. OneShare \in Nat
  BY <1>1, PrecisionAssumption, DivNat DEF OneShare
<1> QED
  BY <1>2 DEF HistoryInv, HistoryNext

(* The types of the history variables after a step.                        *)
LEMMA HistoryType ==
    ASSUME HistoryInv, HistoryNext
    PROVE  dust' \in [Nonces -> Nat] /\ fell' \in [Nonces -> BOOLEAN]
<1>1. \A n \in Nonces : dust[n] \in Nat /\ OneShare \in Nat
  BY HistoryStep
<1>2. \A n \in Nonces : fell[n] \in BOOLEAN
  BY DEF HistoryInv
<1> QED
  BY <1>1, <1>2 DEF HistoryNext

(* An identity whose accounts a step leaves alone stays covered: when the  *)
(* price does not fall, the last settlement was at no higher a price.      *)
LEMMA CoveredOthers ==
    ASSUME HistoryInv, HistoryNext, TypeInv', NEW n \in idents, n \in Nonces,
           vow'[n] = vow[n], escrow'[n] = escrow[n], Invested(n)', ~fell'[n]
    PROVE  Covered(n)'
<1>1. ~Opened(n) /\ ~ToppedUp(n)
  BY DEF Opened, ToppedUp
<1>2. /\ dust'[n] = dust[n] /\ ~fell[n]
      /\ ~(config'.current_share_price < config.current_share_price)
  BY <1>1, HistoryStep DEF HistoryInv
<1>3. Covered(n)
  BY <1>2 DEF HistoryInv, Invested
<1>4. TypeInv
  BY DEF HistoryInv, LedgerInv
<1>5. /\ config.current_share_price \in Nat /\ vow[n].last_share_price \in Nat
      /\ config'.current_share_price \in Nat
  BY <1>4, PositionNumbers DEF TypeInv, TypeOK, ProtocolConfig
<1>6. vow[n].last_share_price <= config'.current_share_price
  BY <1>2, <1>3, <1>5 DEF Covered
<1> QED
  BY <1>2, <1>3, <1>6 DEF Covered

(* A position that is opened, by mint or activate_stake, is covered up to  *)
(* the rounding of its shares.                                             *)
LEMMA CoveredOpened ==
    ASSUME HistoryInv, HistoryNext, NEW n \in Nonces, NEW l \in Nat, Opened(n),
           config.current_share_price \in Nat \ {0},
           config'.current_share_price = config.current_share_price,
           vow'[n].principal_lamports = l,
           vow'[n].shares = SharesFor(l, config.current_share_price),
           vow'[n].last_share_price = config.current_share_price,
           vow'[n].accrued_gain = 0
    PROVE  Covered(n)'
<1> DEFINE p == config.current_share_price
           v == ValueOf(SharesFor(l, p), p)
<1>1. dust'[n] = p \div SHARE_PRECISION + 1
  BY HistoryStep DEF OneShare
<1>2. l <= v + p \div SHARE_PRECISION + 1
  BY PurchaseValue
<1>3. p \div SHARE_PRECISION \in Nat /\ v \in Nat
  BY PrecisionAssumption, DivNat, SharesForNat, ValueOfNat
<1>4. v = ValueOf(vow'[n].shares, vow'[n].last_share_price)
  OBVIOUS
<1> HIDE DEF v
<1>5. l + 0 <= v + dust'[n]
  BY <1>1, <1>2, <1>3
<1>6. vow'[n].last_share_price <= config'.current_share_price
  OBVIOUS
<1> QED
  BY <1>4, <1>5, <1>6 DEF Covered

(* A top-up keeps the cover: what its shares lose to rounding is dust.     *)
LEMMA CoveredAddStake ==
    ASSUME HistoryInv, HistoryNext, NEW n \in idents, n \in Nonces,
           NEW l \in TopUpAmounts, AddStake(n, l), Invested(n)', ~fell'[n]
    PROVE  Covered(n)'
<1> DEFINE p == config.current_share_price
           s == SharesFor(l, p)
           a == ValueOf(vow[n].shares, p)
           b == ValueOf(vow[n].shares, vow[n].last_share_price)
           c == ValueOf(s, p)
           d == ValueOf(vow'[n].shares, p)
<1>1. TypeInv
  BY DEF HistoryInv, LedgerInv
<1>2. /\ vow'[n].principal_lamports = vow[n].principal_lamports + l
      /\ vow'[n].last_share_price = p
      /\ vow'[n].accrued_gain = Settled(n)
      /\ config'.current_share_price = p
      /\ p \in Nat \ {0} /\ l \in Nat \ {0}
  BY <1>1, AddStakePosition
<1>3. /\ s \in Nat /\ vow'[n].shares = vow[n].shares + s
      /\ vow'[n].active_stake = vow[n].active_stake
      /\ vow'[n].total_commitments = vow[n].total_commitments
  BY <1>1, AddStakeEffect
<1>4. escrow' = escrow
  BY DEF AddStake
<1>5. /\ vow[n].principal_lamports \in Nat /\ vow[n].shares \in Nat
      /\ vow[n].last_share_price \in Nat /\ vow[n].accrued_gain \in Int
      /\ a \in Nat /\ b \in Nat
  BY <1>1, PositionNumbers
<1>6. ~Opened(n) /\ ToppedUp(n)
  BY <1>2, <1>3, <1>5 DEF Opened, ToppedUp
<1>7. dust'[n] = dust[n] + OneShare /\ ~fell[n] /\ dust[n] \in Nat /\ OneShare \in Nat
  BY <1>2, <1>6, HistoryStep DEF HistoryInv
<1>8. Covered(n)
  BY <1>3, <1>4, <1>7 DEF HistoryInv, Invested
<1>9. l <= c + OneShare /\ c \in Nat
  <2>1. l <= c + p \div SHARE_PRECISION + 1 /\ c \in Nat
    BY <1>2, <1>3, PurchaseValue, ValueOfNat
  <2>2. p \div SHARE_PRECISION \in Nat
    BY <1>2, PrecisionAssumption, DivNat
  <2> HIDE DEF c
  <2> QED
    BY <2>1, <2>2 DEF OneShare
<1>10. a + c <= d /\ d \in Nat
  <2>1. vow[n].shares + s \in Nat
    BY <1>3, <1>5
  <2> QED
    BY <1>2, <1>3, <1>5, <2>1, ValueSum, ValueOfNat
<1>11. b <= a
  BY <1>2, <1>5, <1>8, ValueMono DEF Covered
<1>12. /\ vow[n].accrued_gain >= 0
       /\ vow[n].principal_lamports + vow[n].accrued_gain <= b + dust[n]
       /\ Settled(n) = vow[n].accrued_gain + a - b
  BY <1>8 DEF Covered, Settled
<1>13. ValueOf(vow'[n].shares, vow'[n].last_share_price) = d
  BY <1>2
<1> HIDE DEF a, b, c, d, p
<1>14. /\ Settled(n) >= 0
       /\ vow[n].principal_lamports + l + Settled(n) <= d + dust[n] + OneShare
  BY <1>2, <1>5, <1>7, <1>9, <1>10, <1>11, <1>12
<1> QED
  BY <1>2, <1>7, <1>10, <1>13, <1>14 DEF Covered

(* A harvest takes from the shares no more than the gain it takes from the *)
(* booked gain.                                                            *)
LEMMA CoveredHarvest ==
    ASSUME HistoryInv, HistoryNext, NEW n \in idents, n \in Nonces, Harvest(n),
           Invested(n)', ~fell'[n]
    PROVE  Covered(n)'
<1> DEFINE p == config.current_share_price
           a == ValueOf(vow[n].shares, p)
           b == ValueOf(vow[n].shares, vow[n].last_share_price)
           d == ValueOf(vow'[n].shares, p)
<1>1. TypeInv
  BY DEF HistoryInv, LedgerInv
<1>2. /\ TierKept(n)
      /\ vow'[n].last_share_price = p
      /\ config'.current_share_price = p
  BY <1>1, HarvestPosition
<1>3. PICK amount \in Nat :
        /\ BurnFor(amount) \in Nat /\ BurnFor(amount) <= vow[n].shares
        /\ vow'[n].shares = vow[n].shares - BurnFor(amount)
        /\ vow'[n].accrued_gain \in Nat
        /\ IF Settled(n) > 0 THEN amount + vow'[n].accrued_gain <= Settled(n)
           ELSE amount = 0 /\ vow'[n].accrued_gain = 0
  BY <1>1, HarvestPosition
<1>4. /\ vow'[n].active_stake = vow[n].active_stake
      /\ vow'[n].total_commitments = vow[n].total_commitments
  BY <1>1, HarvestEffect
<1>5. escrow' = escrow
  BY DEF Harvest
<1>6. /\ vow[n].principal_lamports \in Nat /\ vow[n].shares \in Nat
      /\ vow[n].last_share_price \in Nat /\ vow[n].accrued_gain \in Int
      /\ a \in Nat /\ b \in Nat /\ p \in Nat
  BY <1>1, PositionNumbers
<1>7. ~Opened(n) /\ ~ToppedUp(n)
  BY <1>2, <1>4 DEF Opened, ToppedUp, TierKept
<1>8. dust'[n] = dust[n] /\ ~fell[n] /\ dust[n] \in Nat
  BY <1>2, <1>7, HistoryStep DEF HistoryInv
<1>9. Covered(n)
  BY <1>4, <1>5, <1>8 DEF HistoryInv, Invested
<1>10. a <= d + amount /\ d \in Nat
  <2>1. vow'[n].shares \in Nat
    BY <1>3, <1>6
  <2> QED
    BY <1>3, <1>6, <2>1, BurnValue, ValueOfNat
<1>11. b <= a
  BY <1>6, <1>9, ValueMono DEF Covered
<1>12. /\ vow[n].accrued_gain >= 0
       /\ vow[n].principal_lamports + vow[n].accrued_gain <= b + dust[n]
       /\ Settled(n) = vow[n].accrued_gain + a - b
  BY <1>9 DEF Covered, Settled
<1>13. /\ ValueOf(vow'[n].shares, vow'[n].last_share_price) = d
       /\ vow'[n].principal_lamports = vow[n].principal_lamports
       /\ vow'[n].last_share_price <= config'.current_share_price
  BY <1>2, <1>6 DEF TierKept
<1> HIDE DEF a, b, d, p
<1>14. /\ vow'[n].accrued_gain >= 0
       /\ vow[n].principal_lamports + vow'[n].accrued_gain <= d + dust[n]
  <2>1. CASE Settled(n) > 0
    BY <1>3, <1>6, <1>8, <1>10, <1>11, <1>12, <2>1
  <2>2. CASE ~(Settled(n) > 0)
    BY <1>3, <1>6, <1>8, <1>10, <1>11, <1>12, <2>2
  <2> QED
    BY <2>1, <2>2
<1> QED
  BY <1>8, <1>13, <1>14 DEF Covered

(* Settling keeps the cover, and so does leaving the position alone.       *)
LEMMA CoveredKept ==
    ASSUME HistoryInv, HistoryNext, NEW n \in idents, n \in Nonces,
           TierKept(n), vow'[n].total_commitments = vow[n].total_commitments,
           vow'[n].active_stake = vow[n].active_stake, escrow' = escrow,
           config'.current_share_price = config.current_share_price,
           vow'[n].shares = vow[n].shares,
           \/ GainKept(n)
           \/ /\ vow'[n].last_share_price = config.current_share_price
              /\ vow'[n].accrued_gain = Settled(n),
           Invested(n)', ~fell'[n]
    PROVE  Covered(n)'
<1> DEFINE p == config.current_share_price
           a == ValueOf(vow[n].shares, p)
           b == ValueOf(vow[n].shares, vow[n].last_share_price)
<1>1. TypeInv
  BY DEF HistoryInv, LedgerInv
<1>2. ~Opened(n) /\ ~ToppedUp(n)
  BY DEF Opened, ToppedUp, TierKept
<1>3. dust'[n] = dust[n] /\ ~fell[n] /\ dust[n] \in Nat
  BY <1>2, HistoryStep DEF HistoryInv
<1>4. Covered(n)
  BY <1>3 DEF HistoryInv, Invested
<1>5. /\ vow[n].principal_lamports \in Nat /\ vow[n].shares \in Nat
      /\ vow[n].last_share_price \in Nat /\ vow[n].accrued_gain \in Int
      /\ a \in Nat /\ b \in Nat /\ p \in Nat
  BY <1>1, PositionNumbers
<1>6. CASE GainKept(n)
  BY <1>3, <1>4, <1>6 DEF Covered, GainKept, TierKept
<1>7. CASE /\ vow'[n].last_share_price = config.current_share_price
           /\ vow'[n].accrued_gain = Settled(n)
  <2>1. b <= a
    BY <1>4, <1>5, ValueMono DEF Covered
  <2>2. /\ vow[n].accrued_gain >= 0
        /\ vow[n].principal_lamports + vow[n].accrued_gain <= b + dust[n]
        /\ Settled(n) = vow[n].accrued_gain + a - b
    BY <1>4 DEF Covered, Settled
  <2>3. /\ ValueOf(vow'[n].shares, vow'[n].last_share_price) = a
        /\ vow'[n].last_share_price <= config'.current_share_price
    BY <1>5, <1>7
  <2> HIDE DEF a, b, p
  <2>4. /\ Settled(n) >= 0
        /\ vow[n].principal_lamports + Settled(n) <= a + dust[n]
    BY <1>3, <1>5, <2>1, <2>2
  <2> QED
    BY <1>3, <1>7, <2>3, <2>4 DEF Covered, TierKept
<1> QED
  BY <1>6, <1>7

-----------------------------------------------------------------------------
LEMMA HistoryInitInv == HistoryInit => HistoryInv
  BY InitLedger DEF HistoryInit, HistoryInv, Init

LEMMA HistoryNextInv == HistoryInv /\ [HistoryNext]_historyVars => HistoryInv'
<1> SUFFICES ASSUME HistoryInv, [HistoryNext]_historyVars PROVE HistoryInv'
  OBVIOUS
<1>1. CASE UNCHANGED historyVars
  <2>1. LedgerInv'
    <3>1. [Next]_vars
      BY <1>1 DEF historyVars
    <3> QED
      BY <3>1, NextLedger DEF HistoryInv
  <2>2. UNCHANGED <<config, idents, vow, escrow, dust, fell>>
    BY <1>1 DEF historyVars, vars
  <2> QED
    BY <2>1, <2>2 DEF HistoryInv, Covered, Invested
<1>2. CASE HistoryNext
  <2>1. TypeInv /\ LedgerInv /\ Next
    BY <1>2 DEF HistoryInv, LedgerInv, HistoryNext
  <2>2. LedgerInv' /\ TypeInv' /\ idents \subseteq Nonces
    BY <2>1, NextLedger DEF LedgerInv, TypeInv, TypeOK
  <2>3. dust' \in [Nonces -> Nat] /\ fell' \in [Nonces -> BOOLEAN]
    BY <1>2, HistoryType
  <2> SUFFICES ASSUME NEW k \in idents', Invested(k)', ~fell'[k] PROVE Covered(k)'
    BY <2>2, <2>3 DEF HistoryInv
  <2>4. k \in Nonces
    BY <2>2 DEF TypeInv, TypeOK
  <2>5. CASE k \in idents /\ vow'[k] = vow[k] /\ escrow'[k] = escrow[k]
    BY <1>2, <2>2, <2>4, <2>5, CoveredOthers
  <2>6. ASSUME NEW w \in Wallets, NEW l \in StakeAmounts, NEW m \in Modes, Mint(w, l, m)
        PROVE  Covered(k)'
    <3>1. PICK n \in Nonces \ idents : n = config.total_minted
      BY <2>6 DEF Mint, FreshAccount
    <3>2. OnlyVow(n) /\ idents' = idents \cup {n} /\ escrow' = escrow
      BY <2>1, <2>6, <3>1, MintEffect DEF Mint
    <3>3. CASE k # n
      BY <2>4, <2>5, <3>2, <3>3 DEF OnlyVow
    <3>4. CASE k = n
      <4>1. vow'[n].total_commitments = 1
            /\ vow'[n].shares = SharesFor(l, config.current_share_price)
        BY <2>1, <2>6, <3>1, MintEffect
      <4>2. vow[n] = NoVow
        BY <2>1, <3>1 DEF LedgerInv, Sound
      <4>3. Opened(n)
        BY <4>1, <4>2 DEF Opened, NoVow
      <4>4. /\ vow'[n].principal_lamports = l
            /\ vow'[n].last_share_price = config.current_share_price
            /\ vow'[n].accrued_gain = 0
            /\ config'.current_share_price = config.current_share_price
            /\ config.current_share_price \in Nat \ {0}
            /\ l \in Nat
        BY <2>1, <2>6, <3>1, MintPosition
      <4> QED
        BY <1>2, <3>1, <3>4, <4>1, <4>3, <4>4, CoveredOpened
    <3> QED
      BY <3>3, <3>4
  <2>7. ASSUME NEW n \in idents,
               \/ \E l \in TopUpAmounts : AddStake(n, l)
               \/ \E l \in StakeAmounts, m \in Modes : ActivateStake(n, l, m)
               \/ BeginUnstake(n)
               \/ CompleteUnstake(n)
               \/ \E m \in Modes : UpdateYieldMode(n, m)
               \/ Harvest(n)
               \/ \E amount \in YieldAmounts : DepositYieldBalance(n, amount)
               \/ WithdrawYield(n)
               \/ DevFastUnlock(n)
        PROVE  Covered(k)'
    <3>1. n \in Nonces /\ vow[n].yield_balance \in Nat /\ YieldAmounts \subseteq Nat
      <4>1. n \in Nonces /\ vow[n] \in VowState
        BY <2>1 DEF TypeInv, TypeOK
      <4> QED
        BY <4>1, VowFields, CoreAssumption
    <3>2. WithdrawYield(n) => \E amount \in Nat : PayYield(n, amount)
      BY <3>1 DEF WithdrawYield
    <3>3. OnlyVow(n) /\ OnlyEscrow(n) /\ idents' = idents
      <4>1. OnlyVow(n)
        BY <2>1, <2>7, <3>1, <3>2, AddStakeEffect, ActivateStakeEffect, BeginUnstakeEffect,
           CompleteUnstakeEffect, UpdateYieldModeEffect, HarvestEffect, YieldEffect,
           DevFastUnlockPosition
      <4>2. OnlyEscrow(n) /\ idents' = idents
        BY <2>1, <2>7, <3>1, <3>2 DEF TypeInv, TypeOK, OnlyEscrow, AddStake, ActivateStake,
           BeginUnstake, CompleteUnstake, UpdateYieldMode, Harvest, DepositYieldBalance,
           PayYield, DevFastUnlock
      <4> QED
        BY <4>1, <4>2
    <3>4. CASE k # n
      BY <2>4, <2>5, <3>3, <3>4 DEF OnlyVow, OnlyEscrow
    <3>5. CASE k = n
      <4>1. Invested(n)' /\ ~fell'[n]
        BY <3>5
      <4>2. ASSUME NEW l \in TopUpAmounts, AddStake(n, l) PROVE Covered(n)'
        BY <1>2, <3>1, <4>1, <4>2, CoveredAddStake
      <4>3. ASSUME NEW l \in StakeAmounts, NEW m \in Modes, ActivateStake(n, l, m)
            PROVE  Covered(n)'
        <5>1. /\ vow'[n].total_commitments = vow[n].total_commitments + 1
              /\ vow'[n].shares = SharesFor(l, config.current_share_price)
          BY <2>1, <3>1, <4>3, ActivateStakeEffect
        <5>2. vow[n].total_commitments \in Nat
          BY <2>1, <3>1, Before
        <5>3. Opened(n)
          BY <5>1, <5>2 DEF Opened
        <5>4. /\ vow'[n].principal_lamports = l
              /\ vow'[n].last_share_price = config.current_share_price
              /\ vow'[n].accrued_gain = 0
              /\ config'.current_share_price = config.current_share_price
              /\ config.current_share_price \in Nat \ {0}
              /\ l \in Nat
          BY <2>1, <3>1, <4>3, ActivateStakePosition
        <5> QED
          BY <1>2, <3>1, <5>1, <5>3, <5>4, CoveredOpened
      <4>4. ~BeginUnstake(n)
        <5>1. BeginUnstake(n) => escrow'[n].live
          BY <2>1, <3>1 DEF BeginUnstake, TypeInv, TypeOK
        <5> QED
          BY <4>1, <5>1 DEF Invested
      <4>5. ~CompleteUnstake(n)
        BY <2>1, <3>1, <4>1, CompleteUnstakeEffect DEF Invested
      <4>6. ASSUME NEW m \in Modes, UpdateYieldMode(n, m) PROVE Covered(n)'
        <5>1. /\ TierKept(n)
              /\ vow'[n].last_share_price = config.current_share_price
              /\ vow'[n].accrued_gain = Settled(n)
          BY <2>1, <3>1, <4>6, UpdateYieldModePosition
        <5>2. /\ vow'[n].shares = vow[n].shares
              /\ vow'[n].active_stake = vow[n].active_stake
              /\ vow'[n].total_commitments = vow[n].total_commitments
          BY <2>1, <3>1, <4>6, UpdateYieldModeEffect
        <5>3. escrow' = escrow /\ config' = config
          BY <4>6 DEF UpdateYieldMode
        <5> QED
          BY <1>2, <3>1, <4>1, <5>1, <5>2, <5>3, CoveredKept
      <4>7. ASSUME Harvest(n) PROVE Covered(n)'
        BY <1>2, <3>1, <4>1, <4>7, CoveredHarvest
      <4>8. ASSUME NEW amount \in Nat,
                   DepositYieldBalance(n, amount) \/ PayYield(n, amount)
            PROVE  Covered(n)'
        <5>1. /\ TierKept(n) /\ GainKept(n) /\ vow'[n].active_stake = vow[n].active_stake
              /\ vow'[n].total_commitments = vow[n].total_commitments
              /\ config'.current_share_price = config.current_share_price
          BY <2>1, <3>1, <4>8, YieldPosition
        <5>2. escrow' = escrow /\ vow'[n].shares = vow[n].shares
          BY <4>8, <5>1 DEF DepositYieldBalance, PayYield, GainKept
        <5> QED
          BY <1>2, <3>1, <4>1, <5>1, <5>2, CoveredKept
      <4>9. ASSUME DevFastUnlock(n) PROVE Covered(n)'
        <5>1. /\ TierKept(n) /\ GainKept(n) /\ vow'[n].active_stake = vow[n].active_stake
              /\ vow'[n].total_commitments = vow[n].total_commitments
          BY <2>1, <3>1, <4>9, DevFastUnlockPosition
        <5>2. escrow' = escrow /\ config' = config /\ vow'[n].shares = vow[n].shares
          BY <4>9, <5>1 DEF DevFastUnlock, GainKept
        <5> QED
          BY <1>2, <3>1, <4>1, <5>1, <5>2, CoveredKept
      <4>10. Covered(n)'
        BY <2>7, <3>1, <3>2, <4>2, <4>3, <4>4, <4>5, <4>6, <4>7, <4>8, <4>9
      <4> QED
        BY <3>5, <4>10
    <3> QED
      BY <3>4, <3>5
  <2>8. CASE \/ \E n \in idents : WithdrawFromPool(n)
             \/ UpdateSharePrice \/ \E new_price \in DevPrices : DevSetSharePrice(new_price)
             \/ FlushReserveToPool \/ Tick \/ NextEpoch
             \/ \E delta \in PoolDeltas : PoolUpdate(delta)
    <3>1. UNCHANGED <<idents, vow, escrow>>
      BY <2>8 DEF WithdrawFromPool, UpdateSharePrice, DevSetSharePrice, FlushReserveToPool,
         Tick, NextEpoch, PoolUpdate
    <3> QED
      BY <2>5, <3>1
  <2> QED
    BY <2>1, <2>6, <2>7, <2>8 DEF Next
<1> QED
  BY <1>1, <1>2

(* The position is worth its principal, up to the dust of its purchases,   *)
(* however often and in whatever mode it was harvested, as long as the     *)
(* share price has not fallen since it was opened.                         *)
THEOREM YieldIsGain == HistorySpec => []YieldNotFromPrincipal
<1>1. HistorySpec => []HistoryInv
  BY HistoryInitInv, HistoryNextInv, PTL DEF HistorySpec
<1>2. HistoryInv => YieldNotFromPrincipal
  <2> SUFFICES ASSUME HistoryInv, NEW n \in idents, Invested(n), ~fell[n]
               PROVE  PrincipalKept(n)
    BY DEF YieldNotFromPrincipal
  <2> DEFINE a == ValueOf(vow[n].shares, config.current_share_price)
             b == ValueOf(vow[n].shares, vow[n].last_share_price)
  <2>1. TypeInv /\ n \in Nonces /\ Covered(n) /\ dust[n] \in Nat
    BY DEF HistoryInv, LedgerInv, TypeInv, TypeOK
  <2>2. /\ vow[n].principal_lamports \in Nat /\ vow[n].shares \in Nat
        /\ vow[n].last_share_price \in Nat /\ vow[n].accrued_gain \in Int
        /\ a \in Nat /\ b \in Nat /\ config.current_share_price \in Nat
    BY <2>1, PositionNumbers
  <2>3. b <= a
    BY <2>1, <2>2, ValueMono DEF Covered
  <2>4. /\ vow[n].accrued_gain >= 0
        /\ vow[n].principal_lamports + vow[n].accrued_gain <= b + dust[n]
    BY <2>1 DEF Covered
  <2> HIDE DEF a, b
  <2>5. a + dust[n] >= vow[n].principal_lamports
    BY <2>1, <2>2, <2>3, <2>4
  <2> QED
    BY <2>5 DEF PrincipalKept, a
<1> QED
  BY <1>1, <1>2, PTL

-----------------------------------------------------------------------------
(* The second part: no instruction creates claims out of nothing.  First   *)
(* what the conversions of the pool can lose.                              *)

LEMMA MulCancel ==
    ASSUME NEW u \in Nat, NEW v \in Nat, NEW c \in Nat \ {0}, c * u <= c * v
    PROVE  u <= v
  OBVIOUS

LEMMA DivGreatest ==
    ASSUME NEW q \in Nat, NEW a \in Nat, NEW c \in Nat \ {0}, c * q <= a
    PROVE  q <= a \div c
<1> DEFINE z == a \div c
<1>1. z \in Nat /\ a < c * z + c
  BY DivNat, DivBounds
<1> HIDE DEF z
<1>2. c * q < c * (z + 1)
  BY <1>1
<1>3. q < z + 1
  BY <1>1, <1>2
<1> QED
  BY <1>1, <1>3 DEF z

(* Tokens are worth no less at the better of two rates.                    *)
LEMMA RateMono ==
    ASSUME NEW a \in Nat, NEW x \in Nat, NEW y \in Nat,
           NEW s \in Nat \ {0}, NEW r \in Nat \ {0}, x * r <= y * s
    PROVE  (a * x) \div s <= (a * y) \div r
<1> DEFINE q == (a * x) \div s
<1>1. a * x \in Nat /\ a * y \in Nat /\ x * r \in Nat /\ y * s \in Nat
  BY MulNat
<1>2. q \in Nat /\ s * q <= a * x
  BY <1>1, DivNat, DivBounds
<1> HIDE DEF q
<1>3. s * q \in Nat /\ (s * q) * r <= (a * x) * r
  BY <1>1, <1>2, MulNat, MulMono
<1>4. (x * r) * a <= (y * s) * a
  BY <1>1, MulMono
<1>5. (s * q) * r = s * (r * q) /\ (a * x) * r = (x * r) * a /\ (y * s) * a = s * (a * y)
  BY <1>2
<1>6. s * (r * q) <= s * (a * y)
  <2>1. (a * x) * r \in Nat /\ (x * r) * a \in Nat /\ (y * s) * a \in Nat
    BY <1>1, MulNat
  <2> DEFINE i == s * (r * q)
             j == (x * r) * a
             k == s * (a * y)
  <2>2. i <= j /\ j <= k /\ j \in Nat
    BY <1>3, <1>4, <1>5, <2>1
  <2>3. i \in Nat /\ k \in Nat
    BY <1>1, <1>2, MulNat
  <2> HIDE DEF i, j, k
  <2>4. i <= k
    BY <2>2, <2>3
  <2> QED
    BY <2>4 DEF i, k
<1>7. r * q <= a * y
  <2>1. r * q \in Nat
    BY <1>2, MulNat
  <2> QED
    BY <1>1, <1>6, <2>1, MulCancel
<1> QED
  BY <1>1, <1>2, <1>7, DivGreatest DEF q

(* A deposit of d lamports into a pool of x lamports and s tokens: what    *)
(* the tokens t and the minted ones are worth afterwards is at most the    *)
(* value of one token below what t and the deposit were worth before.      *)
LEMMA DepositValue ==
    ASSUME NEW t \in Nat, NEW x \in Nat \ {0}, NEW s \in Nat \ {0}, NEW d \in Nat,
           NEW m \in Nat, m = (d * s) \div x
    PROVE  d + (t * x) \div s <= ((t + m) * (x + d)) \div (s + m) + x \div s + 1
<1> DEFINE old == (t * x) \div s
           new == (m * x) \div s
           both == ((t + m) * x) \div s
           after == ((t + m) * (x + d)) \div (s + m)
           one == x \div s
<1>1. d * s \in Nat /\ t * x \in Nat /\ m * x \in Nat /\ x * m \in Nat
  BY MulNat
<1>2. x * m <= d * s /\ d * s < x * m + x
  BY <1>1, DivBounds
<1>3. (t + m) * x = t * x + m * x /\ t + m \in Nat
  OBVIOUS
<1>4. old \in Nat /\ new \in Nat /\ one \in Nat /\ both \in Nat /\ old + new <= both
  <2>1. old \in Nat /\ new \in Nat /\ one \in Nat
    BY <1>1, DivNat
  <2>2. t * x + m * x \in Nat
    BY <1>1
  <2>3. (t * x + m * x) \div s \in Nat
    BY <2>2, DivNat
  <2>4. old + new <= (t * x + m * x) \div s
    BY <1>1, DivSum
  <2>5. both = (t * x + m * x) \div s
    BY <1>3
  <2> QED
    BY <2>1, <2>3, <2>4, <2>5
<1>5. both <= after
  <2>1. x * (s + m) <= (x + d) * s
    <3>1. x * (s + m) = x * s + x * m /\ (x + d) * s = x * s + d * s /\ x * s \in Nat
      BY MulNat
    <3> QED
      BY <1>1, <1>2, <3>1
  <2>2. x + d \in Nat /\ s + m \in Nat \ {0}
    OBVIOUS
  <2> QED
    BY <1>3, <2>1, <2>2, RateMono
<1>6. d <= new + one + 1
  <2>1. m * x + x \in Nat /\ s * d <= m * x + x
    BY <1>1, <1>2
  <2>2. d <= (m * x + x) \div s
    BY <2>1, DivGreatest
  <2>3. (m * x + x) \div s <= new + one + 1
    BY <1>1, DivSum
  <2>4. (m * x + x) \div s \in Nat
    BY <2>1, DivNat
  <2> HIDE DEF new, one
  <2> QED
    BY <1>4, <2>2, <2>3, <2>4
<1>7. after \in Nat
  <2>1. (t + m) * (x + d) \in Nat /\ s + m \in Nat \ {0}
    BY MulNat
  <2> QED
    BY <2>1, DivNat
<1> HIDE DEF old, new, both, after, one
<1>8. d + old <= after + one + 1
  BY <1>4, <1>5, <1>6, <1>7
<1> QED
  BY <1>8 DEF old, after, one

(* A redemption of b of the tokens t for r lamports.                       *)
LEMMA RedemptionValue ==
    ASSUME NEW t \in Nat, NEW x \in Nat, NEW s \in Nat \ {0}, NEW b \in Nat, b <= t, t <= s,
           NEW r \in Nat, r = (b * x) \div s, r <= x
    PROVE  (t * x) \div s
              <= r + (IF s - b = 0 THEN 0 ELSE ((t - b) * (x - r)) \div (s - b)) + 1
<1> DEFINE old == (t * x) \div s
           left == ((t - b) * x) \div s
<1>1. b * x \in Nat /\ (t - b) * x \in Nat /\ t - b \in Nat /\ s - b \in Nat /\ x - r \in Nat
  BY MulNat
<1>2. (t - b) * x + b * x = t * x
  OBVIOUS
<1>3. left \in Nat /\ old \in Nat /\ old <= left + r + 1
  BY <1>1, <1>2, DivNat, DivSum
<1>4. CASE s - b = 0
  <2>1. t = s /\ b = s
    BY <1>4
  <2>2. t * x = b * x
    BY <2>1
  <2> QED
    BY <1>3, <1>4, <2>2
<1>5. CASE s - b # 0
  <2> DEFINE after == ((t - b) * (x - r)) \div (s - b)
  <2>1. x * (s - b) <= (x - r) * s
    <3>1. s * r <= b * x
      BY <1>1, DivBounds
    <3>2. x * (s - b) = x * s - b * x /\ (x - r) * s = x * s - s * r
      BY <1>1
    <3>3. x * s \in Nat /\ s * r \in Nat
      BY MulNat
    <3> QED
      BY <1>1, <3>1, <3>2, <3>3
  <2>2. left <= after
    BY <1>1, <1>5, <2>1, RateMono
  <2>3. after \in Nat
    <3>1. (t - b) * (x - r) \in Nat
      BY <1>1, MulNat
    <3> QED
      BY <1>1, <1>5, <3>1, DivNat
  <2> HIDE DEF old, left, after
  <2>4. old <= r + after + 1
    BY <1>3, <2>2, <2>3
  <2> QED
    BY <1>5, <2>4 DEF old, after
<1> QED
  BY <1>4, <1>5

-----------------------------------------------------------------------------
(* What a step may not do when the price stands still.                     *)
Backed == Liabilities' - Liabilities <= Assets' - Assets + RoundingDust

(* The positions, the two totals and the assets are numbers.               *)
LEMMA BooksType ==
    ASSUME TypeInv
    PROVE  /\ [n \in Nonces |-> ValueOf(vow[n].shares, config.current_share_price)]
                 \in [0..(MaxVows - 1) -> Nat]
           /\ Liabilities \in Nat
           /\ Assets \in Nat
<1> DEFINE f == [n \in Nonces |-> ValueOf(vow[n].shares, config.current_share_price)]
<1>1. f \in [0..(MaxVows - 1) -> Nat]
  BY PositionNumbers DEF Nonces
<1>2. SumTo(f, MaxVows) \in Nat
  BY <1>1, SumNat, CoreAssumption
<1>3. config.total_yield_claims \in Nat /\ config.total_pending_unstake \in Nat
  BY ConfigFields
<1>4. Liabilities \in Nat
  <2> DEFINE v == SumTo(f, MaxVows)
  <2>1. Liabilities = v + config.total_yield_claims + config.total_pending_unstake
    BY DEF Liabilities
  <2>2. v \in Nat
    BY <1>2
  <2> HIDE DEF v
  <2> QED
    BY <1>3, <2>1, <2>2
<1>5. Assets \in Nat
  <2>1. reserve \in Nat
    BY DEF TypeInv, TypeOK
  <2>2. CASE pool.pool_token_supply = 0
    BY <2>1, <2>2 DEF Assets
  <2>3. CASE pool.pool_token_supply # 0
    <3>1. tokens * pool.total_lamports \in Nat
      BY PoolFields, MulNat
    <3>2. PoolLamportsFor(tokens) \in Nat
      BY <2>3, <3>1, PoolFields, DivNat DEF PoolLamportsFor
    <3> QED
      BY <2>1, <2>3, <3>2 DEF Assets
  <2> QED
    BY <2>2, <2>3
<1> QED
  BY <1>1, <1>4, <1>5

(* An instruction on one position changes what is owed to it only.         *)
LEMMA LiabilityStep ==
    ASSUME TypeInv, TypeInv', NEW n \in Nonces, OnlyVow(n),
           config'.current_share_price = config.current_share_price
    PROVE  Liabilities' - Liabilities =
              ValueOf(vow'[n].shares, config.current_share_price)
                - ValueOf(vow[n].shares, config.current_share_price)
                + config'.total_yield_claims - config.total_yield_claims
                + config'.total_pending_unstake - config.total_pending_unstake
<1> DEFINE p == config.current_share_price
           f == [k \in Nonces |-> ValueOf(vow[k].shares, p)]
           g == [k \in Nonces |-> ValueOf(vow'[k].shares, p)]
           s == SumTo(f, MaxVows)
           t == SumTo(g, MaxVows)
<1>1. f \in [0..(MaxVows - 1) -> Nat] /\ p \in Nat
  BY BooksType, ConfigFields
<1>2. g \in [0..(MaxVows - 1) -> Nat]
  <2>1. ASSUME NEW k \in Nonces PROVE ValueOf(vow'[k].shares, p) \in Nat
    <3>1. vow'[k] \in VowState
      BY DEF TypeInv, TypeOK
    <3>2. vow'[k].shares \in Nat
      BY <3>1, VowFields
    <3> QED
      BY <1>1, <3>2, ValueOfNat
  <2> QED
    BY <2>1 DEF Nonces
<1>3. n \in 0..(MaxVows - 1) /\ MaxVows \in Nat
  BY CoreAssumption DEF Nonces
<1>4. \A j \in 0..(MaxVows - 1) : j # n => g[j] = f[j]
  BY DEF OnlyVow, Nonces
<1> HIDE DEF p
<1>5. t = s - f[n] + g[n]
  <2> HIDE DEF f, g
  <2> QED
    BY <1>1, <1>2, <1>3, <1>4, SumUpdate
<1>6. /\ Liabilities = s + config.total_yield_claims + config.total_pending_unstake
      /\ Liabilities' = t + config'.total_yield_claims + config'.total_pending_unstake
  BY DEF Liabilities, p
<1>7. /\ config.total_yield_claims \in Nat /\ config.total_pending_unstake \in Nat
      /\ config'.total_yield_claims \in Nat /\ config'.total_pending_unstake \in Nat
  <2>1. config' \in ProtocolConfig
    BY DEF TypeInv, TypeOK
  <2> QED
    BY <2>1, ConfigFields DEF ProtocolConfig
<1>8. s \in Nat /\ t \in Nat /\ f[n] \in Nat /\ g[n] \in Nat
  <2> HIDE DEF f, g
  <2> QED
    BY <1>1, <1>2, <1>3, SumNat
<1>9. f[n] = ValueOf(vow[n].shares, p) /\ g[n] = ValueOf(vow'[n].shares, p)
  OBVIOUS
<1> DEFINE vn == ValueOf(vow[n].shares, p)
           vm == ValueOf(vow'[n].shares, p)
<1>10. t = s - vn + vm /\ vn \in Nat /\ vm \in Nat
  BY <1>5, <1>8, <1>9
<1> HIDE DEF f, g, s, t, vn, vm
<1>11. Liabilities' - Liabilities = vm - vn
                + config'.total_yield_claims - config.total_yield_claims
                + config'.total_pending_unstake - config.total_pending_unstake
  BY <1>6, <1>7, <1>8, <1>10
<1> QED
  BY <1>11 DEF vn, vm, p

(* What a rounding may shift.                                              *)
LEMMA DustType ==
    ASSUME TypeInv
    PROVE  /\ config.current_share_price \div SHARE_PRECISION \in Nat
           /\ RoundingDust \in Nat
           /\ config.current_share_price \div SHARE_PRECISION + 1 <= RoundingDust
           /\ tokens' # tokens /\ pool.pool_token_supply # 0 =>
                 pool.total_lamports \div pool.pool_token_supply + 1 <= RoundingDust
<1>1. config.current_share_price \div SHARE_PRECISION \in Nat
  BY ConfigFields, PrecisionAssumption, DivNat
<1>2. CASE tokens' = tokens \/ pool.pool_token_supply = 0
  BY <1>1, <1>2 DEF RoundingDust
<1>3. CASE ~(tokens' = tokens \/ pool.pool_token_supply = 0)
  <2>1. pool.total_lamports \div pool.pool_token_supply \in Nat
    BY <1>3, PoolFields, DivNat
  <2> DEFINE a == config.current_share_price \div SHARE_PRECISION
             b == pool.total_lamports \div pool.pool_token_supply
  <2>2. RoundingDust = a + 1 + (b + 1)
    BY <1>3 DEF RoundingDust
  <2>3. a \in Nat /\ b \in Nat
    BY <1>1, <2>1
  <2> HIDE DEF a, b
  <2>4. RoundingDust \in Nat /\ a + 1 <= RoundingDust /\ b + 1 <= RoundingDust
    BY <2>2, <2>3
  <2> QED
    BY <1>1, <2>4 DEF a, b
<1> QED
  BY <1>2, <1>3

(* An instruction on one position that leaves the pool alone is backed     *)
(* when what it adds to the claims on the program enters the reserve.      *)
LEMMA PositionBacked ==
    ASSUME TypeInv, TypeInv', NEW n \in Nonces, OnlyVow(n),
           config'.current_share_price = config.current_share_price,
           UNCHANGED <<tokens, pool>>,
           ValueOf(vow'[n].shares, config.current_share_price)
                + config'.total_yield_claims + config'.total_pending_unstake + reserve
             <= ValueOf(vow[n].shares, config.current_share_price)
                + config.total_yield_claims + config.total_pending_unstake + reserve'
                + config.current_share_price \div SHARE_PRECISION + 1
    PROVE  Backed
<1> DEFINE vn == ValueOf(vow[n].shares, config.current_share_price)
           vm == ValueOf(vow'[n].shares, config.current_share_price)
           a  == config.current_share_price \div SHARE_PRECISION
           w  == IF pool.pool_token_supply = 0 THEN 0 ELSE PoolLamportsFor(tokens)
<1>1. Liabilities' - Liabilities = vm - vn
                + config'.total_yield_claims - config.total_yield_claims
                + config'.total_pending_unstake - config.total_pending_unstake
  BY LiabilityStep
<1>2. /\ config.total_yield_claims \in Nat /\ config.total_pending_unstake \in Nat
      /\ config'.total_yield_claims \in Nat /\ config'.total_pending_unstake \in Nat
      /\ reserve \in Nat /\ reserve' \in Nat
  <2>1. config' \in ProtocolConfig /\ reserve \in Nat /\ reserve' \in Nat
    BY DEF TypeInv, TypeOK
  <2> QED
    BY <2>1, ConfigFields DEF ProtocolConfig
<1>3. vn \in Nat /\ vm \in Nat
  <2>1. vow'[n] \in VowState
    BY DEF TypeInv, TypeOK
  <2>2. vow'[n].shares \in Nat
    BY <2>1, VowFields
  <2> QED
    BY <2>2, PositionNumbers, ConfigFields, ValueOfNat
<1>4. a \in Nat /\ RoundingDust \in Nat /\ a + 1 <= RoundingDust
  BY DustType
<1>5. /\ Assets = reserve + w /\ Assets' = reserve' + w
      /\ Assets \in Nat
  BY BooksType DEF Assets, PoolLamportsFor
<1>6. w \in Int
  <2>1. CASE pool.pool_token_supply = 0
    BY <2>1
  <2>2. CASE pool.pool_token_supply # 0
    <3>1. tokens * pool.total_lamports \in Nat
      BY PoolFields, MulNat
    <3> QED
      BY <2>2, <3>1, PoolFields, DivNat DEF PoolLamportsFor
  <2> QED
    BY <2>1, <2>2
<1>7. vm + config'.total_yield_claims + config'.total_pending_unstake + reserve
         <= vn + config.total_yield_claims + config.total_pending_unstake + reserve' + a + 1
  OBVIOUS
<1> HIDE DEF vn, vm, a, w
<1> QED
  BY <1>1, <1>2, <1>3, <1>4, <1>5, <1>6, <1>7 DEF Backed

-----------------------------------------------------------------------------
(* The instructions on one position, one by one.                           *)
LEMMA PurchaseBacked ==
    ASSUME LedgerInv, NEW n \in Nonces, NEW l \in Nat, TypeInv', OnlyVow(n),
           config.current_share_price \in Nat \ {0},
           config'.current_share_price = config.current_share_price,
           UNCHANGED <<tokens, pool>>,
           vow'[n].shares = vow[n].shares + SharesFor(l, config.current_share_price),
           config'.total_yield_claims = config.total_yield_claims,
           config'.total_pending_unstake = config.total_pending_unstake,
           reserve' = reserve + l
    PROVE  Backed
<1> DEFINE p  == config.current_share_price
           b  == SharesFor(l, p)
           vn == ValueOf(vow[n].shares, p)
           vb == ValueOf(b, p)
           vm == ValueOf(vow'[n].shares, p)
           a  == p \div SHARE_PRECISION
<1>1. TypeInv /\ vow[n].shares \in Nat /\ b \in Nat
  BY Before, SharesForNat
<1>2. vn \in Nat /\ vb \in Nat /\ vm \in Nat
  <2>1. vow'[n].shares \in Nat /\ p \in Nat
    BY <1>1
  <2> QED
    BY <1>1, <2>1, ValueOfNat
<1>3. vm <= vn + vb + 1
  BY <1>1, ValueSum
<1>4. vb <= l
  BY PurchaseValue
<1>5. a \in Nat
  BY <1>1, DustType
<1>6. reserve \in Nat /\ config.total_yield_claims \in Nat /\ config.total_pending_unstake \in Nat
  BY <1>1, Before DEF TypeInv, TypeOK
<1> HIDE DEF vn, vb, vm, a
<1>7. vm + config'.total_yield_claims + config'.total_pending_unstake + reserve
         <= vn + config.total_yield_claims + config.total_pending_unstake + reserve' + a + 1
  BY <1>2, <1>3, <1>4, <1>5, <1>6
<1> QED
  BY <1>1, <1>7, PositionBacked DEF vn, vm, a

LEMMA MintBacked ==
    ASSUME LedgerInv, NEW w \in Wallets, NEW l \in StakeAmounts, NEW m \in Modes, Mint(w, l, m)
    PROVE  Backed
<1> DEFINE n == config.total_minted
<1>1. TypeInv
  BY DEF LedgerInv
<1>2. /\ TypeInv' /\ n \in Nonces /\ n \notin idents /\ OnlyVow(n)
      /\ vow'[n].shares = SharesFor(l, config.current_share_price)
      /\ SharesFor(l, config.current_share_price) \in Nat
      /\ config'.total_yield_claims = config.total_yield_claims
      /\ config'.total_pending_unstake = config.total_pending_unstake
  BY <1>1, MintEffect
<1>3. /\ config.current_share_price \in Nat \ {0} /\ l \in Nat
      /\ config'.current_share_price = config.current_share_price
  BY <1>1, MintPosition
<1>4. reserve' = reserve + l /\ UNCHANGED <<tokens, pool>>
  BY DEF Mint
<1>5. vow[n].shares = 0
  BY <1>2, Before DEF Sound, NoVow
<1>6. vow'[n].shares = vow[n].shares + SharesFor(l, config.current_share_price)
  BY <1>2, <1>5
<1> HIDE DEF n
<1> QED
  BY <1>2, <1>3, <1>4, <1>6, PurchaseBacked

LEMMA AddStakeBacked ==
    ASSUME LedgerInv, NEW n \in Nonces, NEW l \in TopUpAmounts, AddStake(n, l)
    PROVE  Backed
<1>1. TypeInv
  BY DEF LedgerInv
<1>2. /\ TypeInv' /\ OnlyVow(n)
      /\ vow'[n].shares = vow[n].shares + SharesFor(l, config.current_share_price)
      /\ config'.total_yield_claims = config.total_yield_claims
      /\ config'.total_pending_unstake = config.total_pending_unstake
  BY <1>1, AddStakeEffect
<1>3. /\ config.current_share_price \in Nat \ {0} /\ l \in Nat
      /\ config'.current_share_price = config.current_share_price
  BY <1>1, AddStakePosition
<1>4. reserve' = reserve + l /\ UNCHANGED <<tokens, pool>>
  BY DEF AddStake
<1> QED
  BY <1>2, <1>3, <1>4, PurchaseBacked

LEMMA ActivateStakeBacked ==
    ASSUME LedgerInv, NEW n \in Nonces, NEW l \in StakeAmounts, NEW m \in Modes,
           ActivateStake(n, l, m)
    PROVE  Backed
<1>1. TypeInv
  BY DEF LedgerInv
<1>2. /\ TypeInv' /\ OnlyVow(n) /\ ~vow[n].active_stake
      /\ vow'[n].shares = SharesFor(l, config.current_share_price)
      /\ SharesFor(l, config.current_share_price) \in Nat
      /\ config'.total_yield_claims = config.total_yield_claims
      /\ config'.total_pending_unstake = config.total_pending_unstake
  BY <1>1, ActivateStakeEffect
<1>3. /\ config.current_share_price \in Nat \ {0} /\ l \in Nat
      /\ config'.current_share_price = config.current_share_price
  BY <1>1, ActivateStakePosition
<1>4. reserve' = reserve + l /\ UNCHANGED <<tokens, pool>>
  BY DEF ActivateStake
<1>5. vow[n].shares = 0
  BY <1>2, Before DEF Sound
<1>6. vow'[n].shares = vow[n].shares + SharesFor(l, config.current_share_price)
  BY <1>2, <1>5
<1> QED
  BY <1>2, <1>3, <1>4, <1>6, PurchaseBacked

LEMMA BeginUnstakeBacked ==
    ASSUME LedgerInv, NEW n \in Nonces, BeginUnstake(n)
    PROVE  Backed
<1> DEFINE p  == config.current_share_price
           vn == ValueOf(vow[n].shares, p)
           vm == ValueOf(vow'[n].shares, p)
           a  == p \div SHARE_PRECISION
<1>1. /\ TypeInv /\ vow[n].yield_balance \in Nat
      /\ config.total_yield_claims \in Nat /\ config.total_pending_unstake \in Nat
      /\ vow[n].yield_balance <= config.total_yield_claims
  BY Before
<1>2. /\ TypeInv' /\ OnlyVow(n) /\ vow'[n].shares = 0
      /\ config'.total_yield_claims = SatSub(config.total_yield_claims, vow[n].yield_balance)
      /\ config'.total_pending_unstake = config.total_pending_unstake
                                            + escrow'[n].lamports_owed
  BY <1>1, BeginUnstakeEffect
<1>3. escrow'[n].lamports_owed = vn + vow[n].yield_balance
  BY <1>1, BeginUnstakePosition
<1>4. config'.current_share_price = config.current_share_price
  BY <1>1, BeginUnstakePosition
<1>5. UNCHANGED <<reserve, tokens, pool>> /\ reserve \in Nat
  BY <1>1 DEF BeginUnstake, TypeInv, TypeOK
<1>6. config'.total_yield_claims = config.total_yield_claims - vow[n].yield_balance
  BY <1>1, <1>2, SatSubNat
<1>7. vn \in Nat /\ vm = 0 /\ a \in Nat
  <2>1. vn \in Nat /\ p \in Nat
    BY <1>1, PositionNumbers
  <2>2. 0 \div SHARE_PRECISION = 0 /\ 0 * p = 0
    BY <2>1, PrecisionAssumption
  <2> QED
    BY <1>1, <1>2, <2>1, <2>2, DustType DEF ValueOf
<1> HIDE DEF vn, vm, a
<1>8. vm + config'.total_yield_claims + config'.total_pending_unstake + reserve
         <= vn + config.total_yield_claims + config.total_pending_unstake + reserve' + a + 1
  BY <1>1, <1>2, <1>3, <1>5, <1>6, <1>7
<1> QED
  BY <1>1, <1>2, <1>4, <1>5, <1>8, PositionBacked DEF vn, vm, a

LEMMA CompleteUnstakeBacked ==
    ASSUME LedgerInv, NEW n \in Nonces, CompleteUnstake(n)
    PROVE  Backed
<1> DEFINE p  == config.current_share_price
           vn == ValueOf(vow[n].shares, p)
           a  == p \div SHARE_PRECISION
           o  == escrow[n].lamports_owed
           q  == config.total_pending_unstake
<1>1. /\ TypeInv /\ o \in Nat /\ config.total_yield_claims \in Nat /\ q \in Nat /\ o <= q
  BY Before
<1>2. /\ TypeInv' /\ OnlyVow(n) /\ vow'[n].shares = vow[n].shares
      /\ config'.total_yield_claims = config.total_yield_claims
      /\ config'.total_pending_unstake = SatSub(q, o)
  BY <1>1, CompleteUnstakeEffect
<1>3. config'.current_share_price = config.current_share_price
  BY <1>1, CompleteUnstakePosition
<1>4. /\ UNCHANGED <<tokens, pool>> /\ reserve \in Nat
      /\ reserve' = reserve - PayAmount(n) /\ PayAmount(n) \in Nat
  BY <1>1, PayAmountType DEF CompleteUnstake, TypeInv, TypeOK
<1>5. config'.total_pending_unstake = q - o
  BY <1>1, <1>2, SatSubNat
<1>6. PayAmount(n) <= o
  <2>1. CASE q = 0 \/ reserve >= q
    BY <1>1, <2>1 DEF PayAmount
  <2>2. CASE ~(q = 0 \/ reserve >= q)
    <3>1. PayAmount(n) = (o * reserve) \div q
      BY <2>2 DEF PayAmount
    <3>2. q \in Nat \ {0} /\ reserve <= q
      BY <1>1, <1>4, <2>2
    <3>3. (reserve * o) \div q <= o
      BY <1>1, <1>4, <3>2, ProRataBound
    <3>4. o * reserve = reserve * o
      BY <1>1, <1>4
    <3> QED
      BY <3>1, <3>3, <3>4
  <2> QED
    BY <2>1, <2>2
<1>7. vn \in Nat /\ a \in Nat
  BY <1>1, PositionNumbers, DustType
<1> HIDE DEF vn, a
<1>8. vn + config'.total_yield_claims + config'.total_pending_unstake + reserve
         <= vn + config.total_yield_claims + q + reserve' + a + 1
  BY <1>1, <1>2, <1>4, <1>5, <1>6, <1>7
<1> QED
  BY <1>1, <1>2, <1>3, <1>4, <1>8, PositionBacked DEF vn, a

LEMMA HarvestBacked ==
    ASSUME LedgerInv, config.current_share_price # 0, NEW n \in Nonces, Harvest(n)
    PROVE  Backed
<1> DEFINE p == config.current_share_price
<1>1. /\ TypeInv /\ vow[n].shares \in Nat /\ p \in Nat \ {0}
      /\ config.total_yield_claims \in Nat /\ config.total_pending_unstake \in Nat
  BY Before, ConfigFields
<1>2. /\ TypeInv' /\ OnlyVow(n)
      /\ config'.total_pending_unstake = config.total_pending_unstake
  BY <1>1, HarvestEffect
<1>3. config'.current_share_price = config.current_share_price
  BY <1>1, HarvestPosition
<1>4. UNCHANGED <<reserve, tokens, pool>> /\ reserve \in Nat
  BY <1>1 DEF Harvest, TypeInv, TypeOK
<1>5. PICK amount \in Nat :
           /\ BurnFor(amount) \in Nat /\ BurnFor(amount) <= vow[n].shares
           /\ vow'[n].shares = vow[n].shares - BurnFor(amount)
           /\ config'.total_yield_claims = config.total_yield_claims + amount
  BY <1>1, HarvestPosition
<1> DEFINE b  == BurnFor(amount)
           vn == ValueOf(vow[n].shares, p)
           vm == ValueOf(vow'[n].shares, p)
           vb == ValueOf(b, p)
           a  == p \div SHARE_PRECISION
<1>6. b = SharesFor(amount, p) /\ b \in Nat /\ vow'[n].shares \in Nat
      /\ vow'[n].shares + b = vow[n].shares
  BY <1>1, <1>5 DEF BurnFor
<1>7. vn \in Nat /\ vm \in Nat /\ vb \in Nat /\ a \in Nat
  BY <1>1, <1>6, ValueOfNat, DustType
<1>8. vm + vb <= vn
  BY <1>1, <1>6, ValueSum
<1>9. amount <= vb + a + 1
  BY <1>1, <1>6, PurchaseValue
<1> HIDE DEF b, vn, vm, vb, a
<1>10. vm + config'.total_yield_claims + config'.total_pending_unstake + reserve
         <= vn + config.total_yield_claims + config.total_pending_unstake + reserve' + a + 1
  BY <1>1, <1>2, <1>4, <1>5, <1>7, <1>8, <1>9
<1> QED
  BY <1>1, <1>2, <1>3, <1>4, <1>10, PositionBacked DEF vn, vm, a

LEMMA YieldBacked ==
    ASSUME LedgerInv, NEW n \in Nonces, NEW amount \in Nat,
           DepositYieldBalance(n, amount) \/ PayYield(n, amount)
    PROVE  Backed
<1> DEFINE p  == config.current_share_price
           vn == ValueOf(vow[n].shares, p)
           a  == p \div SHARE_PRECISION
<1>1. /\ TypeInv /\ config.total_yield_claims \in Nat /\ config.total_pending_unstake \in Nat
      /\ vow[n].yield_balance \in Nat /\ vow[n].yield_balance <= config.total_yield_claims
      /\ config \in ProtocolConfig
  BY Before, ConfigFields
<1>2. /\ TypeInv' /\ OnlyVow(n)
      /\ config'.total_pending_unstake = config.total_pending_unstake
  BY <1>1, YieldEffect
<1>3. config'.current_share_price = config.current_share_price
  BY <1>1, YieldPosition
<1>4. vow'[n].shares = vow[n].shares
  BY <1>1, YieldPosition DEF GainKept
<1>5. UNCHANGED <<tokens, pool>> /\ reserve \in Nat
  BY <1>1 DEF DepositYieldBalance, PayYield, TypeInv, TypeOK
<1>6. reserve' - reserve = config'.total_yield_claims - config.total_yield_claims
      /\ reserve' \in Int /\ config'.total_yield_claims \in Int
  <2>1. CASE DepositYieldBalance(n, amount)
    <3>1. /\ reserve' = reserve + amount
          /\ config' = [config EXCEPT !.total_yield_claims = @ + amount]
      BY <2>1 DEF DepositYieldBalance
    <3>2. config'.total_yield_claims = config.total_yield_claims + amount
      BY <1>1, <3>1 DEF ProtocolConfig
    <3> QED
      BY <1>1, <1>5, <3>1, <3>2
  <2>2. CASE PayYield(n, amount)
    <3>1. /\ reserve' = reserve - amount /\ amount <= vow[n].yield_balance
          /\ config' = [config EXCEPT !.total_yield_claims = SatSub(@, amount)]
      BY <1>1, <2>2 DEF PayYield
    <3>2. config'.total_yield_claims = SatSub(config.total_yield_claims, amount)
      BY <1>1, <3>1 DEF ProtocolConfig
    <3>3. amount <= config.total_yield_claims
      BY <1>1, <3>1
    <3>4. config'.total_yield_claims = config.total_yield_claims - amount
      BY <1>1, <3>2, <3>3, SatSubNat
    <3> QED
      BY <1>1, <1>5, <3>1, <3>4
  <2> QED
    BY <2>1, <2>2
<1>7. vn \in Nat /\ a \in Nat
  BY <1>1, PositionNumbers, DustType
<1> HIDE DEF vn, a
<1>8. vn + config'.total_yield_claims + config'.total_pending_unstake + reserve
         <= vn + config.total_yield_claims + config.total_pending_unstake + reserve' + a + 1
  BY <1>1, <1>2, <1>5, <1>6, <1>7
<1> QED
  BY <1>1, <1>2, <1>3, <1>4, <1>5, <1>8, PositionBacked DEF vn, a

-----------------------------------------------------------------------------
(* The steps that leave every position alone.                              *)
LEMMA LiabilitiesKept ==
    ASSUME LedgerKept, config'.current_share_price = config.current_share_price
    PROVE  Liabilities' = Liabilities
  BY DEF LedgerKept, Liabilities

LEMMA NothingMoved ==
    ASSUME TypeInv, TypeInv', Liabilities' = Liabilities, UNCHANGED <<reserve, tokens, pool>>
    PROVE  Backed
<1>1. Assets' = Assets
  BY DEF Assets, PoolLamportsFor
<1> QED
  BY <1>1, BooksType, DustType DEF Backed

(* The price and the pool can be divided by when the code does it.         *)
PriceInv ==
    /\ LedgerInv
    /\ config.current_share_price = 0 => idents = {}
    /\ pool.total_lamports = 0 => pool.pool_token_supply = 0

LEMMA FlushBacked ==
    ASSUME PriceInv, FlushReserveToPool
    PROVE  Backed
<1> DEFINE x == pool.total_lamports
           s == pool.pool_token_supply
           t == tokens
           d == reserve - RENT_EXEMPT
           m == PoolTokensFor(d)
<1>1. TypeInv /\ (x = 0 => s = 0)
  BY DEF PriceInv, LedgerInv
<1>2. /\ x \in Nat /\ s \in Nat /\ t \in Nat /\ t <= s /\ pool \in StakePool
      /\ reserve \in Nat /\ RENT_EXEMPT \in Nat
  BY <1>1, PoolFields, CoreAssumption DEF TypeInv, TypeOK
<1>3. /\ m > 0 /\ d > 0 /\ d \in Nat /\ reserve' = RENT_EXEMPT /\ tokens' = t + m
      /\ pool' = [pool EXCEPT !.total_lamports = @ + d, !.pool_token_supply = @ + m]
      /\ config' = config
  BY <1>2 DEF FlushReserveToPool
<1>4. pool'.total_lamports = x + d /\ pool'.pool_token_supply = s + m
  BY <1>2, <1>3 DEF StakePool
<1>5. TypeInv' /\ Liabilities' = Liabilities
  BY <1>1, <1>3, FlushEffect, LiabilitiesKept
<1>6. Liabilities \in Nat /\ RoundingDust \in Nat
  BY <1>1, BooksType, DustType
<1>7. CASE s = 0
  <2>1. m = d /\ t = 0
    BY <1>2, <1>7 DEF PoolTokensFor
  <2> DEFINE after == (d * (x + d)) \div d
  <2>2. d * d <= d * (x + d) /\ d * (x + d) \in Nat /\ d \in Nat \ {0}
    <3>1. d * (x + d) = d * x + d * d /\ d * x \in Nat /\ d * d \in Nat
      BY <1>2, <1>3, MulNat
    <3> HIDE DEF d
    <3> QED
      BY <1>3, <3>1
  <2>3. d <= after /\ after \in Nat
    BY <2>2, DivGreatest, DivNat
  <2>4. Assets' = RENT_EXEMPT + after
    <3>1. t + m = d /\ s + m = d /\ d # 0
      BY <1>2, <1>3, <1>7, <2>1
    <3>2. Assets' = reserve' + (IF pool'.pool_token_supply = 0 THEN 0
                                ELSE (tokens' * pool'.total_lamports)
                                        \div pool'.pool_token_supply)
      BY DEF Assets, PoolLamportsFor
    <3> HIDE DEF d, m
    <3> QED
      BY <1>3, <1>4, <3>1, <3>2
  <2>5. Assets = reserve
    BY <1>2, <1>7 DEF Assets
  <2> HIDE DEF after
  <2> QED
    BY <1>2, <1>5, <1>6, <2>3, <2>4, <2>5 DEF Backed
<1>8. CASE s # 0
  <2>1. x # 0 /\ m = (d * s) \div x
    BY <1>1, <1>8 DEF PoolTokensFor
  <2>2. d * s \in Nat
    BY <1>2, <1>3, MulNat
  <2>3. m \in Nat /\ x \in Nat \ {0} /\ s \in Nat \ {0}
    BY <1>2, <1>8, <2>1, <2>2, DivNat
  <2> DEFINE old   == (t * x) \div s
             after == ((t + m) * (x + d)) \div (s + m)
             one   == x \div s
  <2>4. d + old <= after + one + 1
    <3> HIDE DEF m, d, x, s, t
    <3> QED
      BY <1>2, <1>3, <2>1, <2>3, DepositValue
  <2>5. old \in Nat /\ one \in Nat /\ after \in Nat
    <3>1. t * x \in Nat /\ t + m \in Nat /\ x + d \in Nat /\ s + m \in Nat \ {0}
      BY <1>2, <1>3, <2>3, MulNat
    <3>2. (t + m) * (x + d) \in Nat
      BY <3>1, MulNat
    <3> QED
      BY <1>2, <2>3, <3>1, <3>2, DivNat
  <2>6. Assets = reserve + old
    BY <1>8 DEF Assets, PoolLamportsFor
  <2>7. Assets' = RENT_EXEMPT + after
    <3>1. s + m # 0
      BY <1>2, <2>3
    <3>2. Assets' = reserve' + (IF pool'.pool_token_supply = 0 THEN 0
                                ELSE (tokens' * pool'.total_lamports)
                                        \div pool'.pool_token_supply)
      BY DEF Assets, PoolLamportsFor
    <3> HIDE DEF d, m
    <3> QED
      BY <1>3, <1>4, <3>1, <3>2
  <2>8. one + 1 <= RoundingDust
    <3>1. tokens' # tokens
      BY <1>2, <1>3, <2>3
    <3> QED
      BY <1>1, <1>8, <3>1, DustType
  <2> HIDE DEF old, after, one
  <2> QED
    BY <1>2, <1>5, <1>6, <2>4, <2>5, <2>6, <2>7, <2>8 DEF Backed
<1> QED
  BY <1>7, <1>8

(* What withdraw_from_pool burns and receives.                             *)
LEMMA RedemptionEffect ==
    ASSUME PriceInv, NEW n \in Nonces, WithdrawFromPool(n)
    PROVE  LET b == TokensToBurn(n)
               r == PoolLamportsFor(b)
           IN  /\ b \in Nat \ {0} /\ b <= tokens /\ tokens <= pool.pool_token_supply
               /\ pool.pool_token_supply \in Nat \ {0} /\ pool.total_lamports \in Nat \ {0}
               /\ r \in Nat /\ r <= pool.total_lamports
               /\ r = (b * pool.total_lamports) \div pool.pool_token_supply
               /\ reserve' = reserve + r /\ tokens' = tokens - b
               /\ pool'.total_lamports = pool.total_lamports - r
               /\ pool'.pool_token_supply = pool.pool_token_supply - b
<1> DEFINE b == TokensToBurn(n)
           r == PoolLamportsFor(b)
<1>1. TypeInv
  BY DEF PriceInv, LedgerInv
<1>2. /\ pool.pool_token_supply \in Nat \ {0} /\ pool.total_lamports \in Nat \ {0}
      /\ tokens \in Nat /\ tokens <= pool.pool_token_supply /\ pool \in StakePool
  BY <1>1, PoolFields DEF WithdrawFromPool
<1>3. /\ reserve < escrow[n].lamports_owed /\ b > 0
      /\ reserve' = reserve + r /\ tokens' = tokens - b
      /\ pool' = [pool EXCEPT !.total_lamports = @ - r, !.pool_token_supply = @ - b]
  BY DEF WithdrawFromPool
<1>4. b \in Nat /\ b <= tokens
  BY <1>1, <1>2, <1>3, TokensToBurnBound
<1>5. b <= pool.pool_token_supply
  <2> HIDE DEF b
  <2> QED
    BY <1>2, <1>4
<1>6. r = (b * pool.total_lamports) \div pool.pool_token_supply
  BY DEF PoolLamportsFor
<1>7. r \in Nat /\ r <= pool.total_lamports
  <2> HIDE DEF b, r
  <2> QED
    BY <1>2, <1>4, <1>5, <1>6, ProRataBound
<1>8. /\ pool'.total_lamports = pool.total_lamports - r
      /\ pool'.pool_token_supply = pool.pool_token_supply - b
  <2> HIDE DEF b, r
  <2> QED
    BY <1>2, <1>3 DEF StakePool
<1> HIDE DEF b, r
<1> QED
  BY <1>2, <1>3, <1>4, <1>6, <1>7, <1>8 DEF b, r

LEMMA WithdrawFromPoolBacked ==
    ASSUME PriceInv, NEW n \in Nonces, WithdrawFromPool(n)
    PROVE  Backed
<1> DEFINE x == pool.total_lamports
           s == pool.pool_token_supply
           t == tokens
           b == TokensToBurn(n)
           r == PoolLamportsFor(b)
<1>1. TypeInv /\ reserve \in Nat
  BY DEF PriceInv, LedgerInv, TypeInv, TypeOK
<1>2. /\ b \in Nat \ {0} /\ b <= t /\ t <= s /\ t \in Nat
      /\ s \in Nat \ {0} /\ x \in Nat \ {0} /\ r \in Nat /\ r <= x
      /\ r = (b * x) \div s
      /\ reserve' = reserve + r /\ tokens' = t - b
      /\ pool'.total_lamports = x - r /\ pool'.pool_token_supply = s - b
  BY <1>1, RedemptionEffect, PoolFields
<1>3. Liabilities' = Liabilities
  BY <1>1, WithdrawFromPoolEffect, LiabilitiesKept DEF WithdrawFromPool
<1>4. Liabilities \in Nat /\ RoundingDust \in Nat
  BY <1>1, BooksType, DustType
<1> DEFINE old   == (t * x) \div s
           after == IF s - b = 0 THEN 0 ELSE ((t - b) * (x - r)) \div (s - b)
           one   == x \div s
<1>5. old <= r + after + 1
  <2>1. t \in Nat /\ x \in Nat /\ s \in Nat \ {0} /\ b \in Nat /\ r \in Nat
    BY <1>2
  <2>2. b <= t /\ t <= s /\ r = (b * x) \div s /\ r <= x
    BY <1>2
  <2> HIDE DEF x, s, t, b, r
  <2>3. (t * x) \div s
           <= r + (IF s - b = 0 THEN 0 ELSE ((t - b) * (x - r)) \div (s - b)) + 1
    BY <2>1, <2>2, RedemptionValue, Zenon
  <2> QED
    BY <2>3
<1>6. Assets = reserve + old
  BY <1>2 DEF Assets, PoolLamportsFor
<1>7. Assets' = reserve + r + after
  <2>1. Assets' = reserve' + (IF pool'.pool_token_supply = 0 THEN 0
                              ELSE (tokens' * pool'.total_lamports)
                                      \div pool'.pool_token_supply)
    BY DEF Assets, PoolLamportsFor
  <2> HIDE DEF b, r
  <2> QED
    BY <1>2, <2>1
<1>8. old \in Nat /\ one \in Nat /\ after \in Nat
  <2>1. t * x \in Nat
    BY <1>2, MulNat
  <2>2. after \in Nat
    <3> HIDE DEF x, s, t, b, r
    <3>1. t - b \in Nat /\ x - r \in Nat /\ s - b \in Nat
      BY <1>2
    <3>2. (t - b) * (x - r) \in Nat
      BY <3>1, MulNat
    <3>3. CASE s - b = 0
      BY <3>3
    <3>4. CASE s - b # 0
      <4>1. ((t - b) * (x - r)) \div (s - b) \in Nat
        BY <3>1, <3>2, <3>4, DivNat
      <4> QED
        BY <3>4, <4>1
    <3> QED
      BY <3>3, <3>4
  <2> QED
    BY <1>2, <2>1, <2>2, DivNat
<1>9. one + 1 <= RoundingDust
  <2>1. tokens' # tokens
    <3> HIDE DEF b
    <3> QED
      BY <1>2
  <2> QED
    BY <1>1, <1>2, <2>1, DustType
<1> HIDE DEF old, after, one, r
<1> QED
  BY <1>1, <1>2, <1>3, <1>4, <1>5, <1>6, <1>7, <1>8, <1>9 DEF Backed

-----------------------------------------------------------------------------
LEMMA InitPrice == Init => PriceInv
<1> SUFFICES ASSUME Init PROVE PriceInv
  OBVIOUS
<1>1. LedgerInv /\ idents = {}
  BY InitLedger DEF Init
<1>2. pool.total_lamports = 0 => pool.pool_token_supply = 0
  BY PoolAssumption DEF Init
<1> QED
  BY <1>1, <1>2 DEF PriceInv

(* A price that is not zero stays so, and zero is left only upwards; the   *)
(* last lamport leaves the pool with the last token.                       *)
LEMMA NextPrice == PriceInv /\ [Next]_vars => PriceInv'
<1> SUFFICES ASSUME PriceInv, [Next]_vars PROVE PriceInv'
  OBVIOUS
<1>1. LedgerInv /\ LedgerInv' /\ TypeInv /\ TypeInv' /\ idents \subseteq Nonces
  BY NextLedger DEF PriceInv, LedgerInv, TypeInv, TypeOK
<1>2. /\ config \in ProtocolConfig /\ config.current_share_price \in Nat
      /\ pool \in StakePool /\ pool.total_lamports \in Nat /\ pool.pool_token_supply \in Nat
      /\ reserve \in Nat /\ RENT_EXEMPT \in Nat
  BY <1>1, ConfigFields, PoolFields, CoreAssumption DEF TypeInv, TypeOK
<1>3. config'.current_share_price = 0 => idents' = {}
  <2>1. CASE UNCHANGED vars
    BY <2>1 DEF vars, PriceInv
  <2>2. ASSUME NEW w \in Wallets, NEW l \in StakeAmounts, NEW m \in Modes, Mint(w, l, m)
        PROVE  config'.current_share_price # 0
    BY <1>1, <2>2, MintPosition
  <2>3. ASSUME idents # {} PROVE config.current_share_price # 0
    BY <2>3 DEF PriceInv
  <2>4. ASSUME NEW n \in idents,
               \/ \E l \in TopUpAmounts : AddStake(n, l)
               \/ \E l \in StakeAmounts, m \in Modes : ActivateStake(n, l, m)
               \/ BeginUnstake(n)
               \/ CompleteUnstake(n)
               \/ \E m \in Modes : UpdateYieldMode(n, m)
               \/ Harvest(n)
               \/ \E amount \in YieldAmounts : DepositYieldBalance(n, amount)
               \/ WithdrawYield(n)
               \/ WithdrawFromPool(n)
               \/ DevFastUnlock(n)
        PROVE  config'.current_share_price = config.current_share_price
    BY <1>2, <2>4 DEF AddStake, ActivateStake, BeginUnstake, Escrowed, CompleteUnstake,
       UpdateYieldMode, Harvest, DepositYieldBalance, WithdrawYield, PayYield,
       WithdrawFromPool, DevFastUnlock, ProtocolConfig
  <2>5. CASE UpdateSharePrice
    <3>1. idents' = idents
      BY <2>5 DEF UpdateSharePrice
    <3>2. config'.current_share_price = IF pool.pool_token_supply = 0
                                        THEN config.current_share_price
                                        ELSE IF PoolPrice(pool) = 0 THEN 1 ELSE PoolPrice(pool)
      BY <1>2, <2>5 DEF UpdateSharePrice, ProtocolConfig
    <3> QED
      BY <3>1, <3>2 DEF PriceInv
  <2>6. ASSUME NEW new_price \in DevPrices, DevSetSharePrice(new_price)
        PROVE  config'.current_share_price # 0
    BY <1>2, <2>6, CoreAssumption DEF DevSetSharePrice, ProtocolConfig
  <2>7. ASSUME FlushReserveToPool \/ Tick \/ NextEpoch
                 \/ \E delta \in PoolDeltas : PoolUpdate(delta)
        PROVE  UNCHANGED <<config, idents>>
    BY <2>7 DEF FlushReserveToPool, Tick, NextEpoch, PoolUpdate
  <2>8. PriceInv => (config.current_share_price = 0 => idents = {})
    BY DEF PriceInv
  <2> QED
    BY <2>1, <2>2, <2>3, <2>4, <2>5, <2>6, <2>7, <2>8 DEF Next
<1>4. pool'.total_lamports = 0 => pool'.pool_token_supply = 0
  <2>1. CASE pool' = pool
    BY <2>1 DEF PriceInv
  <2>2. ASSUME NEW n \in idents, WithdrawFromPool(n), pool'.total_lamports = 0
        PROVE  pool'.pool_token_supply = 0
    <3> DEFINE x == pool.total_lamports
               s == pool.pool_token_supply
               b == TokensToBurn(n)
               r == PoolLamportsFor(b)
    <3>1. /\ b \in Nat /\ b <= tokens /\ tokens <= s /\ tokens \in Nat
          /\ s \in Nat \ {0} /\ x \in Nat \ {0} /\ r \in Nat
          /\ r = (b * x) \div s
          /\ pool'.total_lamports = x - r /\ pool'.pool_token_supply = s - b
      BY <1>1, <2>2, RedemptionEffect, PoolFields
    <3> HIDE DEF x, s, b, r
    <3>2. r = x /\ b * x \in Nat
      BY <2>2, <3>1, MulNat
    <3>3. s * r <= b * x
      BY <3>1, <3>2, DivBounds
    <3>4. x * s <= x * b
      BY <3>1, <3>2, <3>3
    <3>5. s <= b
      BY <3>1, <3>4, MulCancel
    <3> QED
      BY <3>1, <3>5
  <2>3. ASSUME FlushReserveToPool PROVE pool'.total_lamports # 0
    <3>1. pool'.total_lamports = pool.total_lamports + (reserve - RENT_EXEMPT)
          /\ reserve > RENT_EXEMPT
      BY <1>2, <2>3 DEF FlushReserveToPool, StakePool
    <3> QED
      BY <1>2, <3>1
  <2>4. ASSUME NEW delta \in PoolDeltas, PoolUpdate(delta) PROVE pool'.total_lamports # 0
    <3>1. pool'.total_lamports = pool.total_lamports + delta /\ pool.total_lamports + delta > 0
      BY <1>2, <2>4 DEF PoolUpdate, StakePool
    <3>2. delta \in Int
      BY CoreAssumption
    <3> QED
      BY <1>2, <3>1, <3>2
  <2>5. \/ pool' = pool
        \/ \E n \in idents : WithdrawFromPool(n)
        \/ FlushReserveToPool
        \/ \E delta \in PoolDeltas : PoolUpdate(delta)
    BY DEF Next, vars, Mint, AddStake, ActivateStake, BeginUnstake, CompleteUnstake,
       UpdateYieldMode, Harvest, DepositYieldBalance, WithdrawYield, PayYield, DevFastUnlock,
       UpdateSharePrice, DevSetSharePrice, Tick, NextEpoch
  <2> QED
    BY <2>1, <2>2, <2>3, <2>4, <2>5
<1> QED
  BY <1>1, <1>3, <1>4 DEF PriceInv

LEMMA NextBacked ==
    ASSUME PriceInv, Next, config'.current_share_price = config.current_share_price,
           pool' = pool \/ tokens' # tokens
    PROVE  Backed
<1>1. LedgerInv /\ TypeInv /\ TypeInv' /\ idents \subseteq Nonces
  BY NextType DEF PriceInv, LedgerInv, TypeInv, TypeOK
<1>2. ASSUME NEW w \in Wallets, NEW l \in StakeAmounts, NEW m \in Modes, Mint(w, l, m)
      PROVE  Backed
  BY <1>1, <1>2, MintBacked
<1>3. ASSUME NEW n \in idents,
             \/ \E l \in TopUpAmounts : AddStake(n, l)
             \/ \E l \in StakeAmounts, m \in Modes : ActivateStake(n, l, m)
             \/ BeginUnstake(n)
             \/ CompleteUnstake(n)
             \/ Harvest(n)
             \/ \E amount \in YieldAmounts : DepositYieldBalance(n, amount)
             \/ WithdrawYield(n)
             \/ WithdrawFromPool(n)
      PROVE  Backed
  <2>1. n \in Nonces /\ YieldAmounts \subseteq Nat
    BY <1>1, CoreAssumption
  <2>2. vow[n].yield_balance \in Nat /\ config.current_share_price # 0
    BY <1>1, <2>1, Before DEF PriceInv
  <2>3. WithdrawYield(n) => \E amount \in Nat : PayYield(n, amount)
    BY <2>1, <2>2 DEF WithdrawYield
  <2> QED
    BY <1>1, <1>3, <2>1, <2>2, <2>3, AddStakeBacked, ActivateStakeBacked,
       BeginUnstakeBacked, CompleteUnstakeBacked, HarvestBacked, YieldBacked,
       WithdrawFromPoolBacked
<1>4. ASSUME NEW n \in idents,
             (\E m \in Modes : UpdateYieldMode(n, m)) \/ DevFastUnlock(n)
      PROVE  Backed
  <2>1. n \in Nonces
    BY <1>1
  <2>2. OnlyVow(n) /\ vow'[n].shares = vow[n].shares
    BY <1>1, <1>4, <2>1, UpdateYieldModeEffect, DevFastUnlockPosition DEF GainKept
  <2>3. UNCHANGED <<config, reserve, tokens, pool>>
    BY <1>4 DEF UpdateYieldMode, DevFastUnlock
  <2> DEFINE v == ValueOf(vow[n].shares, config.current_share_price)
             a == config.current_share_price \div SHARE_PRECISION
  <2>4. /\ v \in Nat /\ a \in Nat /\ reserve \in Nat
        /\ config.total_yield_claims \in Nat /\ config.total_pending_unstake \in Nat
    BY <1>1, <2>1, PositionNumbers, DustType, ConfigFields DEF TypeInv, TypeOK
  <2> HIDE DEF v, a
  <2>5. v + config'.total_yield_claims + config'.total_pending_unstake + reserve
          <= v + config.total_yield_claims + config.total_pending_unstake + reserve' + a + 1
    BY <2>3, <2>4
  <2> QED
    BY <1>1, <2>1, <2>2, <2>3, <2>5, PositionBacked DEF v, a
<1>5. CASE FlushReserveToPool
  BY <1>5, FlushBacked
<1>6. ASSUME \/ UpdateSharePrice
             \/ \E new_price \in DevPrices : DevSetSharePrice(new_price)
             \/ Tick \/ NextEpoch
      PROVE  Backed
  <2>1. LedgerKept /\ UNCHANGED <<reserve, tokens, pool>>
    BY <1>1, <1>6, PriceEffect, ClockEffect DEF UpdateSharePrice, DevSetSharePrice,
       Tick, NextEpoch
  <2> QED
    BY <1>1, <2>1, LiabilitiesKept, NothingMoved
<1>7. ASSUME NEW delta \in PoolDeltas, PoolUpdate(delta) PROVE Backed
  <2>1. UNCHANGED <<reserve, tokens>> /\ LedgerKept
    BY <1>1, <1>7, PoolUpdateEffect DEF PoolUpdate
  <2> QED
    BY <1>1, <2>1, LiabilitiesKept, NothingMoved
<1> QED
  BY <1>2, <1>3, <1>4, <1>5, <1>6, <1>7 DEF Next

(* Every instruction, for every number of identities, every price and      *)
(* every state of the pool: what it adds to the claims on the program is   *)
(* matched by lamports that came in, up to the rounding of one share and   *)
(* one pool token.                                                         *)
THEOREM ClaimsBacked == Spec => NoUnbackedClaims
<1>1. Spec => []PriceInv
  BY InitPrice, NextPrice, PTL DEF Spec
<1> DEFINE Step == /\ config'.current_share_price = config.current_share_price
                   /\ pool' = pool \/ tokens' # tokens
                   => Backed
<1>2. PriceInv /\ [Next]_vars => [Step]_vars
  BY NextBacked
<1>3. NoUnbackedClaims <=> [][Step]_vars
  BY DEF NoUnbackedClaims, Backed
<1> HIDE DEF Step
<1> QED
  BY <1>1, <1>2, <1>3, PTL DEF Spec

-----------------------------------------------------------------------------
(* An identity without shares pays for what harvest credits with no share, *)
(* so the credit is worth less than one.                                   *)
LEMMA HarvestWithoutShares ==
    ASSUME PriceInv, NEW n \in idents, Harvest(n), vow[n].shares = 0
    PROVE  (vow'[n].yield_balance - vow[n].yield_balance) * SHARE_PRECISION
              < config.current_share_price
<1> DEFINE p == config.current_share_price
<1>1. TypeInv /\ n \in Nonces /\ vow[n].yield_balance \in Nat /\ p \in Nat /\ p # 0
  <2>1. LedgerInv /\ n \in Nonces /\ p # 0
    BY DEF PriceInv, LedgerInv, TypeInv, TypeOK
  <2> QED
    BY <2>1, Before, ConfigFields
<1>2. PICK amount \in Nat :
         /\ BurnFor(amount) \in Nat /\ BurnFor(amount) <= vow[n].shares
         /\ vow'[n].yield_balance = vow[n].yield_balance + amount
  BY <1>1, HarvestPosition
<1>3. BurnFor(amount) = (amount * SHARE_PRECISION) \div p /\ BurnFor(amount) = 0
  BY <1>1, <1>2 DEF BurnFor, SharesFor
<1>4. amount * SHARE_PRECISION \in Nat
  BY PrecisionAssumption, MulNat
<1> DEFINE a == amount * SHARE_PRECISION
<1>5. vow'[n].yield_balance - vow[n].yield_balance = amount
  BY <1>1, <1>2
<1> HIDE DEF p
<1>6. a < p
  BY <1>1, <1>3, <1>4, DivBounds
<1> QED
  BY <1>5, <1>6 DEF p

(* Only a harvest adds to the yield balance of an identity that is         *)
(* unstaking or dormant.                                                   *)
LEMMA LeaverCredited ==
    ASSUME LedgerInv, [Next]_vars, NEW n \in idents,
           escrow[n].live \/ ~vow[n].active_stake,
           vow'[n].yield_balance - vow[n].yield_balance > 0
    PROVE  Harvest(n) /\ vow[n].shares = 0
<1>1. n \in Nonces /\ idents \subseteq Nonces
  BY DEF LedgerInv, TypeInv, TypeOK
<1>2. TypeInv /\ Sound(n) /\ vow[n].yield_balance \in Nat
  BY <1>1, Before
<1>3. vow[n].shares = 0
  BY <1>2 DEF Sound
<1>4. ~(vow'[n].yield_balance = vow[n].yield_balance)
  BY <1>2
<1>5. ASSUME NEW k \in idents, OnlyVow(k) PROVE k = n
  BY <1>1, <1>4, <1>5 DEF OnlyVow
<1>6. ASSUME NEW w \in Wallets, NEW l \in StakeAmounts, NEW m \in Modes, Mint(w, l, m)
      PROVE  FALSE
  <2>1. config.total_minted \in Nonces \ idents /\ OnlyVow(config.total_minted)
    BY <1>2, <1>6, MintEffect
  <2> QED
    BY <1>1, <1>4, <2>1 DEF OnlyVow
<1>7. ASSUME NEW k \in idents,
             \/ \E l \in TopUpAmounts : AddStake(k, l)
             \/ \E l \in StakeAmounts, m \in Modes : ActivateStake(k, l, m)
             \/ CompleteUnstake(k)
             \/ \E m \in Modes : UpdateYieldMode(k, m)
      PROVE  FALSE
  <2>1. k \in Nonces /\ OnlyVow(k) /\ vow'[k].yield_balance = vow[k].yield_balance
    BY <1>1, <1>2, <1>7, AddStakeEffect, ActivateStakeEffect, CompleteUnstakeEffect,
       UpdateYieldModeEffect
  <2> QED
    BY <1>4, <1>5, <2>1
<1>8. ASSUME NEW k \in idents, BeginUnstake(k) PROVE FALSE
  <2>1. OnlyVow(k) /\ vow'[k].yield_balance = 0
    BY <1>1, <1>2, <1>8, BeginUnstakeEffect
  <2> QED
    BY <1>2, <1>5, <2>1
<1>9. ASSUME NEW k \in idents, NEW amount \in YieldAmounts, DepositYieldBalance(k, amount)
      PROVE  FALSE
  <2>1. OnlyVow(k) /\ vow[k].active_stake /\ ~escrow[k].live
    BY <1>1, <1>2, <1>9, YieldEffect, CoreAssumption DEF DepositYieldBalance
  <2> QED
    BY <1>5, <2>1
<1>10. ASSUME NEW k \in idents, WithdrawYield(k) PROVE FALSE
  <2>1. PICK amount \in YieldAmounts \cup {vow[k].yield_balance} : PayYield(k, amount)
    BY <1>10 DEF WithdrawYield
  <2>2. k \in Nonces /\ vow[k].yield_balance \in Nat
    BY <1>1, Before
  <2>3. amount \in Nat
    BY <2>2, CoreAssumption
  <2>4. vow' = [vow EXCEPT ![k].yield_balance = vow[k].yield_balance - amount]
    BY <2>1 DEF PayYield
  <2>5. vow'[k].yield_balance = vow[k].yield_balance - amount /\ OnlyVow(k)
    BY <1>2, <2>2, <2>4 DEF TypeInv, TypeOK, VowState, OnlyVow
  <2> QED
    BY <1>5, <2>2, <2>3, <2>5
<1>11. ASSUME NEW k \in idents, DevFastUnlock(k) PROVE FALSE
  <2>1. vow' = [vow EXCEPT ![k].unlock_at = 1] /\ vow \in [Nonces -> VowState]
    BY <1>1, <1>2, <1>11, DevFastUnlockEffect DEF TypeInv, TypeOK
  <2> QED
    BY <1>1, <1>4, <2>1 DEF VowState
<1>12. ASSUME NEW k \in idents, Harvest(k) PROVE Harvest(n)
  BY <1>1, <1>2, <1>5, <1>12, HarvestEffect
<1>13. ASSUME vow' = vow PROVE FALSE
  BY <1>4, <1>13
<1> QED
  BY <1>3, <1>6, <1>7, <1>8, <1>9, <1>10, <1>11, <1>12, <1>13
     DEF Next, vars, WithdrawFromPool, UpdateSharePrice, FlushReserveToPool,
         DevSetSharePrice, Tick, NextEpoch, PoolUpdate

(* harvest, callable by anyone, credits an identity that is unstaking or   *)
(* dormant with less than the price of one share, in whatever mode and     *)
(* whatever gain begin_unstake left booked.                                *)
THEOREM LeaverGainsDust == Spec => LeaverEarnsDust
<1>1. Spec => []PriceInv
  BY InitPrice, NextPrice, PTL DEF Spec
<1>2. PriceInv /\ [Next]_vars =>
         [ \A n \in idents :
             LET credited == vow'[n].yield_balance - vow[n].yield_balance
             IN  (escrow[n].live \/ ~vow[n].active_stake) /\ credited > 0 =>
                     credited * SHARE_PRECISION < config.current_share_price ]_vars
  <2> SUFFICES ASSUME PriceInv, [Next]_vars, NEW n \in idents,
                      escrow[n].live \/ ~vow[n].active_stake,
                      vow'[n].yield_balance - vow[n].yield_balance > 0
               PROVE  (vow'[n].yield_balance - vow[n].yield_balance) * SHARE_PRECISION
                         < config.current_share_price
    OBVIOUS
  <2>1. Harvest(n) /\ vow[n].shares = 0
    BY LeaverCredited DEF PriceInv
  <2> QED
    BY <2>1, HarvestWithoutShares
<1> QED
  BY <1>1, <1>2, PTL DEF Spec, LeaverEarnsDust
=============================================================================
