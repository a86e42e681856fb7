-------------------------- MODULE VowPositionProofs --------------------------
(***************************************************************************)
(* The position of one identity: its stake and tier, its shares, and the   *)
(* gain that is booked for them.  The first half says what each            *)
(* instruction does to these fields, from the type invariant alone, so     *)
(* that the facts also serve where the totals of the config are not exact. *)
(***************************************************************************)
EXTENDS VowSafetyProofs

-----------------------------------------------------------------------------
(* More shares, or a higher price, are worth no less.                      *)
LEMMA ValueMono ==
    ASSUME NEW s \in Nat, NEW t \in Nat, NEW p \in Nat, NEW q \in Nat, s <= t, p <= q
    PROVE  ValueOf(s, p) <= ValueOf(t, q)
<1>1. s * p <= t * p
  BY MulMono
<1>2. p * t <= q * t
  BY MulMono
<1>3. s * p \in Nat /\ t * p \in Nat /\ t * q \in Nat /\ p * t = t * p /\ q * t = t * q
  BY MulNat
<1>4. s * p <= t * q
  <2> DEFINE a == s * p
             b == t * p
             c == t * q
  <2>1. a \in Nat /\ b \in Nat /\ c \in Nat /\ a <= b /\ b <= c
    BY <1>1, <1>2, <1>3
  <2> HIDE DEF a, b, c
  <2>2. a <= c
    BY <2>1
  <2> QED
    BY <2>2 DEF a, c
<1> QED
  BY <1>3, <1>4, PrecisionAssumption, DivMono DEF ValueOf

(* A quotient of a sum is at least the sum of the quotients, and at most   *)
(* one more.                                                               *)
LEMMA DivSum ==
    ASSUME NEW a \in Nat, NEW b \in Nat, NEW c \in Nat \ {0}
    PROVE  /\ a \div c + b \div c <= (a + b) \div c
           /\ (a + b) \div c <= a \div c + b \div c + 1
<1> DEFINE x == a \div c
           y == b \div c
           z == (a + b) \div c
<1>1. /\ x \in Nat /\ c * x <= a /\ a < c * x + c
      /\ y \in Nat /\ c * y <= b /\ b < c * y + c
  BY DivNat, DivBounds
<1>2. z \in Nat /\ c * z <= a + b /\ a + b < c * z + c
  <2>1. a + b \in Nat
    OBVIOUS
  <2> HIDE DEF x, y
  <2> QED
    BY <2>1, DivNat, DivBounds
<1> HIDE DEF x, y, z
<1>3. c * (x + y) < c * (z + 1) /\ c * z < c * (x + y + 2)
  BY <1>1, <1>2
<1>4. x + y < z + 1 /\ z < x + y + 2
  BY <1>1, <1>2, <1>3
<1>5. x + y <= z /\ z <= x + y + 1
  BY <1>1, <1>2, <1>4
<1> QED
  BY <1>5 DEF x, y, z

(* The value of shares bought together with others.                        *)
LEMMA ValueSum ==
    ASSUME NEW s \in Nat, NEW t \in Nat, NEW p \in Nat
    PROVE  /\ ValueOf(s, p) + ValueOf(t, p) <= ValueOf(s + t, p)
           /\ ValueOf(s + t, p) <= ValueOf(s, p) + ValueOf(t, p) + 1
<1>1. s * p \in Nat /\ t * p \in Nat /\ (s + t) * p = s * p + t * p
  BY MulNat
<1> QED
  BY <1>1, PrecisionAssumption, DivSum DEF ValueOf

(* Shares for lamports, at most what the lamports are worth and short of   *)
(* them by less than one share.                                            *)
LEMMA PurchaseValue ==
    ASSUME NEW l \in Nat, NEW p \in Nat \ {0}
    PROVE  /\ ValueOf(SharesFor(l, p), p) <= l
           /\ l <= ValueOf(SharesFor(l, p), p) + p \div SHARE_PRECISION + 1
<1> DEFINE P == SHARE_PRECISION
           s == SharesFor(l, p)
           v == ValueOf(s, p)
           q == p \div P
<1>1. P \in Nat \ {0} /\ l * P \in Nat
  BY PrecisionAssumption, MulNat
<1>2. s \in Nat /\ p * s <= l * P /\ l * P < p * s + p
  BY <1>1, DivNat, DivBounds DEF SharesFor
<1> HIDE DEF s
<1>3. s * p \in Nat /\ s * p = p * s
  BY <1>2, MulNat
<1>4. v \in Nat /\ P * v <= s * p /\ s * p < P * v + P
  BY <1>1, <1>3, DivNat, DivBounds DEF ValueOf
<1>5. q \in Nat /\ p < P * q + P
  BY <1>1, DivNat, DivBounds
<1> HIDE DEF P, v, q
<1>6. P * v <= l * P
  BY <1>1, <1>2, <1>3, <1>4
<1>7. v <= l
  BY <1>1, <1>4, <1>6
<1>8. l * P < P * (v + q + 2)
  BY <1>1, <1>2, <1>3, <1>4, <1>5
<1>9. l < v + q + 2
  BY <1>1, <1>4, <1>5, <1>8
<1>10. l <= v + q + 1
  BY <1>4, <1>5, <1>9
<1> QED
  BY <1>7, <1>10 DEF v, s, q, P

(* Burning the shares for an amount lowers the value of a position by the  *)
(* amount at most.                                                         *)
LEMMA BurnValue ==
    ASSUME NEW a \in Nat, NEW s \in Nat, config.current_share_price \in Nat, BurnFor(a) <= s
    PROVE  /\ BurnFor(a) \in Nat
           /\ ValueOf(s, config.current_share_price)
                <= ValueOf(s - BurnFor(a), config.current_share_price) + a
<1> DEFINE P == SHARE_PRECISION
           p == config.current_share_price
           b == BurnFor(a)
           v == ValueOf(s, p)
           w == ValueOf(s - b, p)
<1>1. P \in Nat \ {0} /\ a * P \in Nat /\ p \in Nat
  BY PrecisionAssumption, MulNat
<1>2. b \in Nat /\ p * b <= a * P
  <2>1. CASE p = 0
    BY <1>1, <2>1 DEF BurnFor
  <2>2. CASE p # 0
    BY <1>1, <2>2, DivNat, DivBounds DEF BurnFor, SharesFor
  <2> QED
    BY <2>1, <2>2
<1>3. s - b \in Nat
  BY <1>2
<1> HIDE DEF b, p
<1>4. s * p \in Nat /\ (s - b) * p \in Nat /\ (s - b) * p = s * p - p * b
  BY <1>1, <1>2, <1>3, MulNat
<1>5. v \in Nat /\ P * v <= s * p
  BY <1>1, <1>4, DivNat, DivBounds DEF ValueOf
<1>6. w \in Nat /\ (s - b) * p < P * w + P
  BY <1>1, <1>4, DivNat, DivBounds DEF ValueOf
<1> HIDE DEF P, v, w
<1>7. P * v < P * (w + a + 1)
  BY <1>1, <1>2, <1>4, <1>5, <1>6
<1>8. v < w + a + 1
  BY <1>1, <1>5, <1>6, <1>7
<1>9. v <= w + a
  BY <1>5, <1>6, <1>8
<1> QED
  BY <1>2, <1>9 DEF v, w, p, b

(* A larger stake has no lower tier.                                       *)
LEMMA ClassMono ==
    ASSUME NEW l \in Nat, NEW k \in Nat, l <= k
    PROVE  class_for_stake(l) <= class_for_stake(k)
<1> DEFINE S(x) == {i \in 1..Len(CLASS_CEIL) : CLASS_CEIL[i] < x \div LAMPORTS_PER_XNT}
<1>1. l \div LAMPORTS_PER_XNT <= k \div LAMPORTS_PER_XNT
  BY PrecisionAssumption, DivMono
<1>2. l \div LAMPORTS_PER_XNT \in Nat /\ k \div LAMPORTS_PER_XNT \in Nat
  BY PrecisionAssumption, DivNat
<1>3. Len(CLASS_CEIL) \in Nat /\ \A i \in 1..Len(CLASS_CEIL) : CLASS_CEIL[i] \in Nat
  BY TierAssumption
<1>4. S(l) \in SUBSET S(k)
  BY <1>1, <1>2, <1>3
<1>5. IsFiniteSet(1..Len(CLASS_CEIL))
  BY <1>3, FS_Interval
<1>6. S(k) \in SUBSET (1..Len(CLASS_CEIL))
  OBVIOUS
<1>7. S(l) = {i \in 1..Len(CLASS_CEIL) : CLASS_CEIL[i] < l \div LAMPORTS_PER_XNT}
      /\ S(k) = {i \in 1..Len(CLASS_CEIL) : CLASS_CEIL[i] < k \div LAMPORTS_PER_XNT}
  OBVIOUS
<1> HIDE DEF S
<1>8. IsFiniteSet(S(k))
  BY <1>5, <1>6, FS_Subset
<1>9. Cardinality(S(l)) <= Cardinality(S(k))
  BY <1>4, <1>8, FS_Subset
<1> QED
  BY <1>7, <1>9 DEF class_for_stake

-----------------------------------------------------------------------------
(* What each instruction does to the position of its identity.             *)

(* The gain once the change of the value since the last settlement is      *)
(* booked.                                                                 *)
Settled(n) ==
    vow[n].accrued_gain + ValueOf(vow[n].shares, config.current_share_price)
                        - ValueOf(vow[n].shares, vow[n].last_share_price)

(* The owner, the stake and the tier of an identity are left alone.        *)
TierKept(n) ==
    /\ vow'[n].owner = vow[n].owner
    /\ vow'[n].class = vow[n].class
    /\ vow'[n].principal_lamports = vow[n].principal_lamports
    /\ vow'[n].highest_class_ever = vow[n].highest_class_ever

(* The price, the shares and the gain are left alone.                      *)
GainKept(n) ==
    /\ vow'[n].shares = vow[n].shares
    /\ vow'[n].last_share_price = vow[n].last_share_price
    /\ vow'[n].accrued_gain = vow[n].accrued_gain

LEMMA SettleFields ==
    ASSUME NEW v \in VowState
    PROVE  /\ settle_idnft(v).owner = v.owner
           /\ settle_idnft(v).accrued_gain =
                 v.accrued_gain + ValueOf(v.shares, config.current_share_price)
                                - ValueOf(v.shares, v.last_share_price)
           /\ settle_idnft(v).last_share_price = config.current_share_price
           /\ settle_idnft(v).yield_mode = v.yield_mode
           /\ settle_idnft(v).cumulative_stake_days = v.cumulative_stake_days
<1> DEFINE gain == v.accrued_gain + ValueOf(v.shares, config.current_share_price)
                                 - ValueOf(v.shares, v.last_share_price)
           price == config.current_share_price
<1>1. settle_idnft(v) = [v EXCEPT !.accrued_gain = gain, !.last_share_price = price]
  BY DEF settle_idnft
<1> HIDE DEF gain, price
<1>2. /\ settle_idnft(v).owner = v.owner
      /\ settle_idnft(v).accrued_gain = gain
      /\ settle_idnft(v).last_share_price = price
      /\ settle_idnft(v).yield_mode = v.yield_mode
      /\ settle_idnft(v).cumulative_stake_days = v.cumulative_stake_days
  BY <1>1 DEF VowState
<1> QED
  BY <1>2 DEF gain, price

LEMMA MaturedFields ==
    ASSUME NEW v \in VowState
    PROVE  /\ Matured(v).owner = v.owner
           /\ Matured(v).accrued_gain = v.accrued_gain
           /\ Matured(v).last_share_price = v.last_share_price
           /\ Matured(v).yield_mode = v.yield_mode
           /\ Matured(v).cumulative_stake_days = v.cumulative_stake_days
  BY DEF Matured, VowState

(* The settled account of an identity.                                     *)
LEMMA SettledFields ==
    ASSUME TypeInv, NEW n \in Nonces
    PROVE  LET v == settle_idnft(vow[n])
           IN  /\ v \in VowState
               /\ v.owner = vow[n].owner
               /\ v.class = vow[n].class
               /\ v.principal_lamports = vow[n].principal_lamports
               /\ v.highest_class_ever = vow[n].highest_class_ever
               /\ v.shares = vow[n].shares
               /\ v.unlock_at = vow[n].unlock_at
               /\ v.cumulative_stake_days = vow[n].cumulative_stake_days
               /\ v.yield_mode = vow[n].yield_mode
               /\ v.last_share_price = config.current_share_price
               /\ v.accrued_gain = Settled(n)
<1>1. vow[n] \in VowState
  BY DEF TypeInv, TypeOK
<1> QED
  BY <1>1, SettleType, SettleFields DEF Settled

(* The same after the maturity latch of begin_unstake and harvest.         *)
LEMMA LatchedFields ==
    ASSUME TypeInv, NEW n \in Nonces
    PROVE  LET v == settle_idnft(Matured(vow[n]))
           IN  /\ v \in VowState
               /\ v.owner = vow[n].owner
               /\ v.class = vow[n].class
               /\ v.principal_lamports = vow[n].principal_lamports
               /\ v.highest_class_ever = vow[n].highest_class_ever
               /\ v.shares = vow[n].shares
               /\ v.unlock_at = vow[n].unlock_at
               /\ v.cumulative_stake_days = vow[n].cumulative_stake_days
               /\ v.yield_mode = vow[n].yield_mode
               /\ v.last_share_price = config.current_share_price
               /\ v.accrued_gain = Settled(n)
               /\ v.yield_balance = vow[n].yield_balance
<1> DEFINE m == Matured(vow[n])
<1>1. vow[n] \in VowState
  BY DEF TypeInv, TypeOK
<1>2. /\ m \in VowState
      /\ m.owner = vow[n].owner
      /\ m.class = vow[n].class
      /\ m.principal_lamports = vow[n].principal_lamports
      /\ m.highest_class_ever = vow[n].highest_class_ever
      /\ m.shares = vow[n].shares
      /\ m.unlock_at = vow[n].unlock_at
      /\ m.cumulative_stake_days = vow[n].cumulative_stake_days
      /\ m.yield_mode = vow[n].yield_mode
      /\ m.last_share_price = vow[n].last_share_price
      /\ m.accrued_gain = vow[n].accrued_gain
      /\ m.yield_balance = vow[n].yield_balance
  BY <1>1, MaturedType, MaturedFields
<1> HIDE DEF m
<1>3. /\ settle_idnft(m).accrued_gain =
                 m.accrued_gain + ValueOf(m.shares, config.current_share_price)
                                - ValueOf(m.shares, m.last_share_price)
  BY <1>2, SettleFields
<1>4. settle_idnft(m).accrued_gain = Settled(n)
  BY <1>2, <1>3 DEF Settled
<1>5. settle_idnft(m) \in VowState
  BY <1>2, SettleType
<1>6. /\ settle_idnft(m).owner = m.owner
      /\ settle_idnft(m).class = m.class
      /\ settle_idnft(m).principal_lamports = m.principal_lamports
      /\ settle_idnft(m).highest_class_ever = m.highest_class_ever
      /\ settle_idnft(m).shares = m.shares
      /\ settle_idnft(m).unlock_at = m.unlock_at
      /\ settle_idnft(m).cumulative_stake_days = m.cumulative_stake_days
      /\ settle_idnft(m).yield_mode = m.yield_mode
      /\ settle_idnft(m).last_share_price = config.current_share_price
      /\ settle_idnft(m).yield_balance = m.yield_balance
  BY <1>2, SettleType, SettleFields
<1> QED
  BY <1>2, <1>4, <1>5, <1>6 DEF m

LEMMA MintPosition ==
    ASSUME TypeInv, NEW w \in Wallets, NEW l \in StakeAmounts, NEW m \in Modes, Mint(w, l, m)
    PROVE  LET n == config.total_minted
           IN  /\ vow'[n].owner = w
               /\ vow'[n].class = class_for_stake(l)
               /\ vow'[n].principal_lamports = l
               /\ vow'[n].highest_class_ever = class_for_stake(l)
               /\ vow'[n].unlock_at = now + lock_duration(class_for_stake(l))
               /\ vow'[n].last_share_price = config.current_share_price
               /\ vow'[n].accrued_gain = 0
               /\ config'.current_share_price = config.current_share_price
               /\ config.current_share_price \in Nat \ {0}
               /\ l \in Nat
<1>1. l \in Nat /\ config.current_share_price \in Nat \ {0} /\ config \in ProtocolConfig
  BY CoreAssumption, ConfigFields DEF Mint, CanBuyShares
<1>2. config'.current_share_price = config.current_share_price
  BY <1>1 DEF Mint, ProtocolConfig
<1>3. config.total_minted \in Nonces
  BY DEF Mint, FreshAccount
<1>4. LET n == config.total_minted
      IN  /\ vow'[n].owner = w
          /\ vow'[n].class = class_for_stake(l)
          /\ vow'[n].principal_lamports = l
          /\ vow'[n].highest_class_ever = class_for_stake(l)
          /\ vow'[n].unlock_at = now + lock_duration(class_for_stake(l))
          /\ vow'[n].last_share_price = config.current_share_price
          /\ vow'[n].accrued_gain = 0
  BY <1>3 DEF Mint, TypeInv, TypeOK
<1> QED
  BY <1>1, <1>2, <1>4

LEMMA AddStakePosition ==
    ASSUME TypeInv, NEW n \in Nonces, NEW l \in TopUpAmounts, AddStake(n, l)
    PROVE  LET principal == vow[n].principal_lamports + l
               class     == class_for_stake(principal)
           IN  /\ vow'[n].owner = vow[n].owner
               /\ vow'[n].principal_lamports = principal
               /\ IF class > vow[n].class
                  THEN /\ vow'[n].class = class
                       /\ vow'[n].highest_class_ever = Higher(vow[n].highest_class_ever, class)
                       /\ vow'[n].unlock_at = now + lock_duration(class)
                  ELSE /\ vow'[n].class = vow[n].class
                       /\ vow'[n].highest_class_ever = vow[n].highest_class_ever
                       /\ vow'[n].unlock_at = vow[n].unlock_at
               /\ vow'[n].cumulative_stake_days = vow[n].cumulative_stake_days
               /\ vow'[n].last_share_price = config.current_share_price
               /\ vow'[n].accrued_gain = Settled(n)
               /\ config'.current_share_price = config.current_share_price
               /\ config.current_share_price \in Nat \ {0}
               /\ l \in Nat \ {0}
               /\ class \in Classes
<1> DEFINE v == settle_idnft(vow[n])
           principal == v.principal_lamports + l
           class == class_for_stake(principal)
           highest == Higher(v.highest_class_ever, class)
           unlock == now + lock_duration(class)
           raised == [v EXCEPT !.unlock_at = unlock, !.matured = FALSE, !.class = class,
                               !.highest_class_ever = highest]
           tiered == IF class > v.class THEN raised ELSE v
           total == tiered.shares + SharesFor(l, config.current_share_price)
           after == [tiered EXCEPT !.principal_lamports = principal, !.shares = total]
<1>1. /\ l \in Nat \ {0} /\ config.current_share_price \in Nat \ {0}
      /\ config \in ProtocolConfig
  BY CoreAssumption, ConfigFields DEF AddStake, CanBuyShares
<1>2. config'.current_share_price = config.current_share_price
  BY <1>1 DEF AddStake, ProtocolConfig
<1>3. /\ v \in VowState
      /\ v.owner = vow[n].owner
      /\ v.class = vow[n].class
      /\ v.principal_lamports = vow[n].principal_lamports
      /\ v.highest_class_ever = vow[n].highest_class_ever
      /\ v.unlock_at = vow[n].unlock_at
      /\ v.cumulative_stake_days = vow[n].cumulative_stake_days
      /\ v.last_share_price = config.current_share_price
      /\ v.accrued_gain = Settled(n)
  BY SettledFields
<1>4. vow'[n] = after
  BY DEF AddStake, RaiseClass, TypeInv, TypeOK
<1>5. /\ principal = vow[n].principal_lamports + l
      /\ class = class_for_stake(vow[n].principal_lamports + l)
      /\ highest = Higher(vow[n].highest_class_ever, class)
  BY <1>3
<1>6. unlock = now + lock_duration(class)
  OBVIOUS
<1>7. class \in Classes
  BY <1>1, <1>3, VowFields, ClassType
<1> HIDE DEF v, principal, class, highest, unlock, total
<1>8. /\ raised.owner = v.owner
      /\ raised.class = class
      /\ raised.highest_class_ever = highest
      /\ raised.unlock_at = unlock
      /\ raised.cumulative_stake_days = v.cumulative_stake_days
      /\ raised.last_share_price = v.last_share_price
      /\ raised.accrued_gain = v.accrued_gain
      /\ DOMAIN raised = DOMAIN v
  BY <1>3 DEF VowState
<1> HIDE DEF raised
<1>9. /\ tiered.owner = v.owner
      /\ IF class > v.class
         THEN tiered.class = class /\ tiered.highest_class_ever = highest
              /\ tiered.unlock_at = unlock
         ELSE tiered.class = v.class /\ tiered.highest_class_ever = v.highest_class_ever
              /\ tiered.unlock_at = v.unlock_at
      /\ tiered.cumulative_stake_days = v.cumulative_stake_days
      /\ tiered.last_share_price = v.last_share_price
      /\ tiered.accrued_gain = v.accrued_gain
      /\ DOMAIN tiered = DOMAIN v
  BY <1>8
<1>10. "principal_lamports" \in DOMAIN v
  BY <1>3 DEF VowState
<1> HIDE DEF tiered
<1>11. /\ after.owner = tiered.owner
       /\ after.principal_lamports = principal
       /\ after.class = tiered.class
       /\ after.highest_class_ever = tiered.highest_class_ever
       /\ after.unlock_at = tiered.unlock_at
       /\ after.cumulative_stake_days = tiered.cumulative_stake_days
       /\ after.last_share_price = tiered.last_share_price
       /\ after.accrued_gain = tiered.accrued_gain
  BY <1>9, <1>10
<1> HIDE DEF after
<1> QED
  BY <1>1, <1>2, <1>3, <1>4, <1>5, <1>6, <1>7, <1>9, <1>11

LEMMA ActivateStakePosition ==
    ASSUME TypeInv, NEW n \in Nonces, NEW l \in StakeAmounts, NEW m \in Modes,
           ActivateStake(n, l, m)
    PROVE  LET class == class_for_stake(l)
           IN  /\ vow'[n].owner = vow[n].owner
               /\ vow'[n].class = class
               /\ vow'[n].principal_lamports = l
               /\ vow'[n].highest_class_ever = Higher(vow[n].highest_class_ever, class)
               /\ vow'[n].unlock_at = now + lock_duration(class)
               /\ vow'[n].cumulative_stake_days = vow[n].cumulative_stake_days
               /\ vow'[n].last_share_price = config.current_share_price
               /\ vow'[n].accrued_gain = 0
               /\ config'.current_share_price = config.current_share_price
               /\ config.current_share_price \in Nat \ {0}
               /\ l \in Nat
               /\ class \in Classes
<1> DEFINE v == settle_idnft(vow[n])
           class == class_for_stake(l)
           shares == SharesFor(l, config.current_share_price)
           price == config.current_share_price
           highest == Higher(v.highest_class_ever, class)
           count == v.total_commitments + 1
           unlock == now + lock_duration(class)
           after == [v EXCEPT !.class = class,
                              !.principal_lamports = l,
                              !.shares = shares,
                              !.last_share_price = price,
                              !.accrued_gain = 0,
                              !.yield_mode = m,
                              !.unlock_at = unlock,
                              !.matured = FALSE,
                              !.active_stake = TRUE,
                              !.sessions_invalidated_at = now,
                              !.current_stake_started_at = now,
                              !.total_commitments = count,
                              !.highest_class_ever = highest]
<1>1. l \in Nat /\ config.current_share_price \in Nat \ {0} /\ config \in ProtocolConfig
  BY CoreAssumption, ConfigFields DEF ActivateStake, CanBuyShares
<1>2. config'.current_share_price = config.current_share_price
  BY <1>1 DEF ActivateStake, ProtocolConfig
<1>3. /\ v \in VowState
      /\ v.owner = vow[n].owner
      /\ v.highest_class_ever = vow[n].highest_class_ever
      /\ v.cumulative_stake_days = vow[n].cumulative_stake_days
  BY SettledFields
<1>4. vow'[n] = after
  BY DEF ActivateStake, TypeInv, TypeOK
<1>5. class \in Classes
  BY <1>1, ClassType
<1>6. highest = Higher(vow[n].highest_class_ever, class)
  BY <1>3
<1> HIDE DEF v, class, shares, price, highest, count, unlock
<1>7. /\ after.owner = v.owner
      /\ after.class = class
      /\ after.principal_lamports = l
      /\ after.highest_class_ever = highest
  BY <1>3 DEF VowState
<1>8. /\ after.unlock_at = unlock
      /\ after.cumulative_stake_days = v.cumulative_stake_days
      /\ after.last_share_price = price
      /\ after.accrued_gain = 0
  BY <1>3 DEF VowState
<1> HIDE DEF after
<1> QED
  BY <1>1, <1>2, <1>3, <1>4, <1>5, <1>6, <1>7, <1>8 DEF class, price, unlock

LEMMA BeginUnstakePosition ==
    ASSUME TypeInv, NEW n \in Nonces, BeginUnstake(n)
    PROVE  /\ TierKept(n)
           /\ vow'[n].cumulative_stake_days = vow[n].cumulative_stake_days
           /\ escrow'[n].lamports_owed =
                 ValueOf(vow[n].shares, config.current_share_price) + vow[n].yield_balance
           /\ config'.current_share_price = config.current_share_price
<1> DEFINE v == settle_idnft(Matured(vow[n]))
           after == [v EXCEPT !.shares = 0, !.yield_balance = 0]
<1>1. config \in ProtocolConfig
  BY ConfigFields
<1>2. config'.current_share_price = config.current_share_price
  BY <1>1 DEF BeginUnstake, Escrowed, ProtocolConfig
<1>3. /\ v \in VowState
      /\ v.owner = vow[n].owner
      /\ v.class = vow[n].class
      /\ v.principal_lamports = vow[n].principal_lamports
      /\ v.highest_class_ever = vow[n].highest_class_ever
      /\ v.shares = vow[n].shares
      /\ v.yield_balance = vow[n].yield_balance
      /\ v.cumulative_stake_days = vow[n].cumulative_stake_days
  BY LatchedFields
<1>4. vow'[n] = after
  BY DEF BeginUnstake, TypeInv, TypeOK
<1>5. escrow'[n].lamports_owed = ValueOf(v.shares, config.current_share_price) + v.yield_balance
  BY DEF BeginUnstake, TypeInv, TypeOK
<1> HIDE DEF v
<1>6. /\ after.owner = v.owner
      /\ after.class = v.class
      /\ after.principal_lamports = v.principal_lamports
      /\ after.highest_class_ever = v.highest_class_ever
      /\ after.cumulative_stake_days = v.cumulative_stake_days
  BY <1>3 DEF VowState
<1> HIDE DEF after
<1> QED
  BY <1>2, <1>3, <1>4, <1>5, <1>6 DEF TierKept

LEMMA CompleteUnstakePosition ==
    ASSUME TypeInv, NEW n \in Nonces, CompleteUnstake(n)
    PROVE  /\ TierKept(n)
           /\ vow'[n].cumulative_stake_days >= vow[n].cumulative_stake_days
           /\ config'.current_share_price = config.current_share_price
<1> DEFINE v == vow[n]
           more == SatSub(now, v.current_stake_started_at) \div DAY
           days == v.cumulative_stake_days + more
           fulfilled == CountFulfilled(v)
           after == [v EXCEPT !.cumulative_stake_days = days,
                              !.total_fulfilled = fulfilled,
                              !.active_stake = FALSE,
                              !.sessions_invalidated_at = now]
<1>1. config \in ProtocolConfig /\ v \in VowState /\ now \in Nat /\ DAY \in Nat \ {0}
  BY ConfigFields, CoreAssumption DEF TypeInv, TypeOK
<1>2. config'.current_share_price = config.current_share_price
  BY <1>1 DEF CompleteUnstake, ProtocolConfig
<1>3. vow'[n] = after
  BY DEF CompleteUnstake, TypeInv, TypeOK
<1>4. v.current_stake_started_at \in Nat /\ v.cumulative_stake_days \in Nat
  BY <1>1, VowFields
<1>5. SatSub(now, v.current_stake_started_at) \in Nat
  BY <1>1, <1>4, SatSubNat
<1>6. more \in Nat
  BY <1>1, <1>5, DivNat
<1> HIDE DEF more
<1>7. days >= v.cumulative_stake_days
  BY <1>4, <1>6
<1> HIDE DEF v, days, fulfilled
<1>8. /\ after.owner = v.owner
      /\ after.class = v.class
      /\ after.principal_lamports = v.principal_lamports
      /\ after.highest_class_ever = v.highest_class_ever
      /\ after.cumulative_stake_days = days
  BY <1>1 DEF VowState
<1> HIDE DEF after
<1> QED
  BY <1>2, <1>3, <1>7, <1>8 DEF TierKept, v

LEMMA UpdateYieldModePosition ==
    ASSUME TypeInv, NEW n \in Nonces, NEW m \in Modes, UpdateYieldMode(n, m)
    PROVE  /\ TierKept(n)
           /\ vow'[n].cumulative_stake_days = vow[n].cumulative_stake_days
           /\ vow'[n].last_share_price = config.current_share_price
           /\ vow'[n].accrued_gain = Settled(n)
<1> DEFINE v == settle_idnft(vow[n])
           after == [v EXCEPT !.yield_mode = m]
<1>1. /\ v \in VowState
      /\ v.owner = vow[n].owner
      /\ v.class = vow[n].class
      /\ v.principal_lamports = vow[n].principal_lamports
      /\ v.highest_class_ever = vow[n].highest_class_ever
      /\ v.cumulative_stake_days = vow[n].cumulative_stake_days
      /\ v.last_share_price = config.current_share_price
      /\ v.accrued_gain = Settled(n)
  BY SettledFields
<1>2. vow'[n] = after
  BY DEF UpdateYieldMode, TypeInv, TypeOK
<1> HIDE DEF v
<1>3. /\ after.owner = v.owner
      /\ after.class = v.class
      /\ after.principal_lamports = v.principal_lamports
      /\ after.highest_class_ever = v.highest_class_ever
      /\ after.cumulative_stake_days = v.cumulative_stake_days
      /\ after.last_share_price = v.last_share_price
      /\ after.accrued_gain = v.accrued_gain
  BY <1>1 DEF VowState
<1> HIDE DEF after
<1> QED
  BY <1>1, <1>2, <1>3 DEF TierKept

(* harvest: a positive gain is split into the amount moved, paid for with  *)
(* shares, and what is left of it.                                         *)
LEMMA HarvestPosition ==
    ASSUME TypeInv, NEW n \in Nonces, Harvest(n)
    PROVE  /\ TierKept(n)
           /\ vow'[n].cumulative_stake_days = vow[n].cumulative_stake_days
           /\ vow'[n].last_share_price = config.current_share_price
           /\ config'.current_share_price = config.current_share_price
           /\ \E amount \in Nat :
                /\ BurnFor(amount) \in Nat /\ BurnFor(amount) <= vow[n].shares
                /\ vow'[n].shares = vow[n].shares - BurnFor(amount)
                /\ vow'[n].yield_balance = vow[n].yield_balance + amount
                /\ config'.total_yield_claims = config.total_yield_claims + amount
                /\ vow'[n].accrued_gain \in Nat
                /\ IF Settled(n) > 0 THEN amount + vow'[n].accrued_gain <= Settled(n)
                   ELSE amount = 0 /\ vow'[n].accrued_gain = 0
<1> DEFINE v == settle_idnft(Matured(vow[n]))
           gain == IF v.accrued_gain > 0 THEN v.accrued_gain ELSE 0
           amount == IF v.accrued_gain > 0 THEN TreasuryAmount(v) ELSE 0
           burned == BurnFor(amount)
           left == v.shares - burned
           balance == v.yield_balance + amount
           harvested == v.total_harvested + gain
           rest == Remainder(v)
           claims == config.total_yield_claims + amount
           shares == SatSub(config.total_shares, burned)
           after == [v EXCEPT !.shares = left, !.yield_balance = balance,
                              !.total_harvested = harvested, !.accrued_gain = rest]
<1>1. config \in ProtocolConfig /\ config.current_share_price \in Nat
  BY ConfigFields
<1>2. config' = [config EXCEPT !.total_shares = shares, !.total_yield_claims = claims]
  BY DEF Harvest
<1>3. vow'[n] = after /\ v.shares >= burned
  BY DEF Harvest, TypeInv, TypeOK
<1>4. /\ v \in VowState
      /\ v.owner = vow[n].owner
      /\ v.class = vow[n].class
      /\ v.principal_lamports = vow[n].principal_lamports
      /\ v.highest_class_ever = vow[n].highest_class_ever
      /\ v.shares = vow[n].shares
      /\ v.yield_balance = vow[n].yield_balance
      /\ v.cumulative_stake_days = vow[n].cumulative_stake_days
      /\ v.last_share_price = config.current_share_price
      /\ v.accrued_gain = Settled(n)
  BY LatchedFields
<1>5. v.accrued_gain \in Int /\ v.yield_mode \in YieldMode /\ v.shares \in Nat
  BY <1>4, VowFields
<1> HIDE DEF v
<1>6. /\ amount \in Nat /\ rest \in Nat
      /\ IF v.accrued_gain > 0 THEN amount + rest <= v.accrued_gain
         ELSE amount = 0 /\ rest = 0
  <2>1. CASE v.accrued_gain > 0
    <3>1. /\ v.accrued_gain \in Nat
          /\ v.accrued_gain \div 2 \in Nat /\ v.accrued_gain % 2 \in Nat
          /\ v.accrued_gain = 2 * (v.accrued_gain \div 2) + (v.accrued_gain % 2)
      BY <1>5, <2>1
    <3>2. \/ amount \in {0, v.accrued_gain} /\ rest = 0
          \/ amount = v.accrued_gain \div 2 /\ rest = v.accrued_gain % 2
      BY <1>5, <2>1, <3>1 DEF TreasuryAmount, Remainder, YieldMode
    <3> HIDE DEF amount, rest
    <3>3. amount \in Nat /\ rest \in Nat /\ amount + rest <= v.accrued_gain
      BY <3>1, <3>2
    <3> QED
      BY <2>1, <3>3
  <2>2. CASE ~(v.accrued_gain > 0)
    BY <1>5, <2>2 DEF Remainder
  <2> QED
    BY <2>1, <2>2
<1> HIDE DEF amount, rest
<1>7. burned \in Nat
  BY <1>1, <1>6, SharesForNat DEF BurnFor
<1>8. /\ left = vow[n].shares - BurnFor(amount) /\ burned = BurnFor(amount)
      /\ burned <= vow[n].shares
      /\ balance = vow[n].yield_balance + amount
      /\ claims = config.total_yield_claims + amount
  BY <1>3, <1>4, <1>5, <1>7
<1> HIDE DEF burned, left, balance, harvested, claims, shares
<1>9. /\ after.owner = v.owner
      /\ after.class = v.class
      /\ after.principal_lamports = v.principal_lamports
      /\ after.highest_class_ever = v.highest_class_ever
      /\ after.cumulative_stake_days = v.cumulative_stake_days
  BY <1>4 DEF VowState
<1>10. /\ after.shares = left
       /\ after.yield_balance = balance
       /\ after.last_share_price = v.last_share_price
       /\ after.accrued_gain = rest
  BY <1>4 DEF VowState
<1> HIDE DEF after
<1>11. /\ config'.current_share_price = config.current_share_price
       /\ config'.total_yield_claims = claims
  BY <1>1, <1>2 DEF ProtocolConfig
<1> QED
  BY <1>3, <1>4, <1>6, <1>7, <1>8, <1>9, <1>10, <1>11 DEF TierKept

LEMMA YieldPosition ==
    ASSUME TypeInv, NEW n \in Nonces, NEW amount \in Nat,
           DepositYieldBalance(n, amount) \/ PayYield(n, amount)
    PROVE  /\ TierKept(n) /\ GainKept(n)
           /\ vow'[n].cumulative_stake_days = vow[n].cumulative_stake_days
           /\ vow'[n].active_stake = vow[n].active_stake
           /\ vow'[n].unlock_at = vow[n].unlock_at
           /\ vow'[n].matured = vow[n].matured
           /\ vow'[n].total_commitments = vow[n].total_commitments
           /\ vow'[n].total_fulfilled = vow[n].total_fulfilled
           /\ config'.current_share_price = config.current_share_price
<1> DEFINE balance == vow'[n].yield_balance
           after == [vow[n] EXCEPT !.yield_balance = balance]
<1>1. vow' = [vow EXCEPT ![n].yield_balance = balance]
  BY YieldEffect
<1> HIDE DEF balance
<1>2. vow[n] \in VowState /\ vow'[n] = after
  BY <1>1 DEF TypeInv, TypeOK
<1>3. /\ after.owner = vow[n].owner
      /\ after.class = vow[n].class
      /\ after.principal_lamports = vow[n].principal_lamports
      /\ after.highest_class_ever = vow[n].highest_class_ever
      /\ after.cumulative_stake_days = vow[n].cumulative_stake_days
      /\ after.shares = vow[n].shares
      /\ after.last_share_price = vow[n].last_share_price
      /\ after.accrued_gain = vow[n].accrued_gain
  BY <1>2 DEF VowState
<1>4. /\ after.active_stake = vow[n].active_stake
      /\ after.unlock_at = vow[n].unlock_at
      /\ after.matured = vow[n].matured
      /\ after.total_commitments = vow[n].total_commitments
      /\ after.total_fulfilled = vow[n].total_fulfilled
  BY <1>2 DEF VowState
<1> HIDE DEF after
<1>5. config \in ProtocolConfig
  BY ConfigFields
<1>6. config'.current_share_price = config.current_share_price
  BY <1>5 DEF DepositYieldBalance, PayYield, ProtocolConfig
<1> QED
  BY <1>2, <1>3, <1>4, <1>6 DEF TierKept, GainKept

LEMMA DevFastUnlockPosition ==
    ASSUME TypeInv, NEW n \in Nonces, DevFastUnlock(n)
    PROVE  /\ TierKept(n) /\ GainKept(n) /\ OnlyVow(n)
           /\ vow'[n].cumulative_stake_days = vow[n].cumulative_stake_days
           /\ vow'[n].active_stake = vow[n].active_stake
           /\ vow'[n].unlock_at = 1
           /\ vow'[n].total_commitments = vow[n].total_commitments
           /\ vow'[n].total_fulfilled = vow[n].total_fulfilled
           /\ vow'[n].yield_balance = vow[n].yield_balance
<1> DEFINE after == [vow[n] EXCEPT !.unlock_at = 1]
<1>1. vow[n] \in VowState /\ vow'[n] = after /\ OnlyVow(n)
  BY DEF DevFastUnlock, TypeInv, TypeOK, OnlyVow
<1>2. /\ after.owner = vow[n].owner
      /\ after.class = vow[n].class
      /\ after.principal_lamports = vow[n].principal_lamports
      /\ after.highest_class_ever = vow[n].highest_class_ever
      /\ after.cumulative_stake_days = vow[n].cumulative_stake_days
      /\ after.shares = vow[n].shares
      /\ after.last_share_price = vow[n].last_share_price
      /\ after.accrued_gain = vow[n].accrued_gain
  BY <1>1 DEF VowState
<1>3. /\ after.active_stake = vow[n].active_stake
      /\ after.unlock_at = 1
      /\ after.yield_balance = vow[n].yield_balance
      /\ after.total_commitments = vow[n].total_commitments
      /\ after.total_fulfilled = vow[n].total_fulfilled
  BY <1>1 DEF VowState
<1> HIDE DEF after
<1> QED
  BY <1>1, <1>2, <1>3 DEF TierKept, GainKept

-----------------------------------------------------------------------------
(* The invariants of a position.  They do not depend on the totals of the  *)
(* config, nor on each other.                                              *)
PositionSound(n) ==
    n \in idents =>
       /\ vow[n].class = class_for_stake(vow[n].principal_lamports)
       /\ vow[n].class <= vow[n].highest_class_ever
       /\ vow[n].active_stake /\ ~escrow[n].live =>
             vow[n].accrued_gain <= ValueOf(vow[n].shares, vow[n].last_share_price)

PositionInv == TypeInv /\ \A n \in Nonces : PositionSound(n)

(* The numbers of a position and of the price.                             *)
LEMMA PositionNumbers ==
    ASSUME TypeInv, NEW n \in Nonces
    PROVE  /\ config.current_share_price \in Nat
           /\ vow[n].principal_lamports \in Nat /\ vow[n].shares \in Nat
           /\ vow[n].last_share_price \in Nat /\ vow[n].accrued_gain \in Int
           /\ vow[n].class \in Nat /\ vow[n].highest_class_ever \in Nat
           /\ ValueOf(vow[n].shares, config.current_share_price) \in Nat
           /\ ValueOf(vow[n].shares, vow[n].last_share_price) \in Nat
           /\ Settled(n) \in Int
<1>1. vow[n] \in VowState /\ config.current_share_price \in Nat
  BY ConfigFields DEF TypeInv, TypeOK
<1>2. /\ vow[n].principal_lamports \in Nat /\ vow[n].shares \in Nat
      /\ vow[n].last_share_price \in Nat /\ vow[n].accrued_gain \in Int
      /\ vow[n].class \in Classes /\ vow[n].highest_class_ever \in Classes
  BY <1>1, VowFields
<1>3. Classes \subseteq Nat
  BY TierAssumption DEF Classes
<1>4. /\ ValueOf(vow[n].shares, config.current_share_price) \in Nat
      /\ ValueOf(vow[n].shares, vow[n].last_share_price) \in Nat
  BY <1>1, <1>2, ValueOfNat
<1>5. Settled(n) \in Int
  BY <1>2, <1>4 DEF Settled
<1> QED
  BY <1>1, <1>2, <1>3, <1>4, <1>5

LEMMA MintSound ==
    ASSUME TypeInv, NEW w \in Wallets, NEW l \in StakeAmounts, NEW m \in Modes, Mint(w, l, m),
           NEW n \in Nonces, n = config.total_minted
    PROVE  PositionSound(n)'
<1>1. /\ vow'[n].class = class_for_stake(l) /\ vow'[n].principal_lamports = l
      /\ vow'[n].highest_class_ever = class_for_stake(l) /\ l \in Nat
      /\ vow'[n].accrued_gain = 0 /\ vow'[n].last_share_price = config.current_share_price
      /\ config.current_share_price \in Nat \ {0}
  BY MintPosition
<1>2. vow'[n].shares = SharesFor(l, config.current_share_price) /\ vow'[n].shares \in Nat
  BY MintEffect
<1>3. ValueOf(vow'[n].shares, vow'[n].last_share_price) \in Nat
  BY <1>1, <1>2, ValueOfNat
<1>4. class_for_stake(l) \in Nat
  BY <1>1, ClassType, TierAssumption DEF Classes
<1> QED
  BY <1>1, <1>3, <1>4 DEF PositionSound

LEMMA AddStakeSound ==
    ASSUME TypeInv, NEW n \in Nonces, n \in idents, NEW l \in TopUpAmounts, AddStake(n, l),
           PositionSound(n)
    PROVE  PositionSound(n)'
<1> DEFINE principal == vow[n].principal_lamports + l
           class == class_for_stake(principal)
           p == config.current_share_price
           s == SharesFor(l, p)
<1>1. /\ vow'[n].principal_lamports = principal
      /\ IF class > vow[n].class
         THEN /\ vow'[n].class = class
              /\ vow'[n].highest_class_ever = Higher(vow[n].highest_class_ever, class)
         ELSE /\ vow'[n].class = vow[n].class
              /\ vow'[n].highest_class_ever = vow[n].highest_class_ever
      /\ vow'[n].last_share_price = p
      /\ vow'[n].accrued_gain = Settled(n)
      /\ l \in Nat
      /\ class \in Classes
  BY AddStakePosition
<1>2. /\ s \in Nat /\ vow'[n].shares = vow[n].shares + s
      /\ vow'[n].active_stake = vow[n].active_stake
  BY AddStakeEffect
<1>3. /\ p \in Nat /\ vow[n].principal_lamports \in Nat /\ vow[n].shares \in Nat
      /\ vow[n].class \in Nat /\ vow[n].highest_class_ever \in Nat
      /\ vow[n].accrued_gain \in Int
      /\ ValueOf(vow[n].shares, p) \in Nat
      /\ ValueOf(vow[n].shares, vow[n].last_share_price) \in Nat
  BY PositionNumbers
<1>4. idents' = idents /\ escrow' = escrow
  BY DEF AddStake
<1>5. class_for_stake(vow[n].principal_lamports) <= class
  BY <1>1, <1>3, ClassMono
<1>6. class \in Nat
  BY <1>1, TierAssumption DEF Classes
<1> HIDE DEF class, principal, s, p
<1>7. /\ vow'[n].class = class_for_stake(vow'[n].principal_lamports)
      /\ vow'[n].class <= vow'[n].highest_class_ever
  BY <1>1, <1>3, <1>5, <1>6 DEF PositionSound, Higher, class
<1>8. ValueOf(vow[n].shares, p) <= ValueOf(vow'[n].shares, p)
  BY <1>2, <1>3, ValueMono
<1>9. ValueOf(vow'[n].shares, p) \in Nat
  <2>1. vow'[n].shares \in Nat
    BY <1>2, <1>3
  <2> QED
    BY <1>3, <2>1, ValueOfNat
<1>10. vow[n].active_stake /\ ~escrow[n].live =>
         Settled(n) <= ValueOf(vow[n].shares, p)
  BY <1>3 DEF PositionSound, Settled, p
<1>11. Settled(n) \in Int
  BY PositionNumbers
<1>12. vow[n].active_stake /\ ~escrow[n].live =>
         vow'[n].accrued_gain <= ValueOf(vow'[n].shares, vow'[n].last_share_price)
  BY <1>1, <1>3, <1>8, <1>9, <1>10, <1>11
<1> QED
  BY <1>2, <1>4, <1>7, <1>12 DEF PositionSound

LEMMA ActivateStakeSound ==
    ASSUME TypeInv, NEW n \in Nonces, NEW l \in StakeAmounts, NEW m \in Modes,
           ActivateStake(n, l, m)
    PROVE  PositionSound(n)'
<1> DEFINE class == class_for_stake(l)
<1>1. /\ vow'[n].class = class /\ vow'[n].principal_lamports = l
      /\ vow'[n].highest_class_ever = Higher(vow[n].highest_class_ever, class)
      /\ vow'[n].accrued_gain = 0 /\ vow'[n].last_share_price = config.current_share_price
      /\ config.current_share_price \in Nat /\ class \in Classes
  BY ActivateStakePosition
<1>2. vow'[n].shares \in Nat
  BY ActivateStakeEffect
<1>3. ValueOf(vow'[n].shares, vow'[n].last_share_price) \in Nat
  BY <1>1, <1>2, ValueOfNat
<1>4. class \in Nat /\ vow[n].highest_class_ever \in Nat
  BY <1>1, PositionNumbers, TierAssumption DEF Classes
<1> HIDE DEF class
<1>5. class <= Higher(vow[n].highest_class_ever, class)
  BY <1>4 DEF Higher
<1> QED
  BY <1>1, <1>3, <1>5 DEF PositionSound, class

(* The gain that harvest leaves is backed by the shares it leaves.         *)
LEMMA HarvestSound ==
    ASSUME TypeInv, NEW n \in Nonces, Harvest(n), PositionSound(n)
    PROVE  PositionSound(n)'
<1> DEFINE p == config.current_share_price
<1>1. TierKept(n) /\ vow'[n].last_share_price = p
  BY HarvestPosition
<1>2. PICK amount \in Nat :
        /\ BurnFor(amount) \in Nat /\ BurnFor(amount) <= vow[n].shares
        /\ vow'[n].shares = vow[n].shares - BurnFor(amount)
        /\ vow'[n].accrued_gain \in Nat
        /\ IF Settled(n) > 0 THEN amount + vow'[n].accrued_gain <= Settled(n)
           ELSE amount = 0 /\ vow'[n].accrued_gain = 0
  BY HarvestPosition
<1>3. vow'[n].active_stake = vow[n].active_stake /\ vow'[n].shares \in Nat
  BY <1>2, HarvestEffect, PositionNumbers
<1>4. idents' = idents /\ escrow' = escrow
  BY DEF Harvest
<1>5. /\ p \in Nat /\ vow[n].shares \in Nat /\ Settled(n) \in Int
      /\ vow[n].accrued_gain \in Int
      /\ ValueOf(vow[n].shares, p) \in Nat
      /\ ValueOf(vow[n].shares, vow[n].last_share_price) \in Nat
  BY PositionNumbers
<1>6. ValueOf(vow[n].shares, p) <= ValueOf(vow'[n].shares, p) + amount
  BY <1>2, <1>5, BurnValue
<1>7. ValueOf(vow'[n].shares, p) \in Nat
  BY <1>3, <1>5, ValueOfNat
<1>8. n \in idents /\ vow[n].active_stake /\ ~escrow[n].live =>
         Settled(n) <= ValueOf(vow[n].shares, p)
  BY <1>5 DEF PositionSound, Settled
<1> HIDE DEF p
<1>9. n \in idents /\ vow[n].active_stake /\ ~escrow[n].live =>
         vow'[n].accrued_gain <= ValueOf(vow'[n].shares, p)
  BY <1>2, <1>5, <1>6, <1>7, <1>8
<1> QED
  BY <1>1, <1>3, <1>4, <1>9 DEF PositionSound, TierKept

(* The instructions that leave the tier and the gain alone, or settle it.  *)
LEMMA KeptSound ==
    ASSUME TypeInv, NEW n \in Nonces, PositionSound(n), TierKept(n), idents' = idents,
           \/ GainKept(n) /\ vow'[n].active_stake = vow[n].active_stake /\ escrow' = escrow
           \/ /\ vow'[n].shares = vow[n].shares
              /\ vow'[n].last_share_price = config.current_share_price
              /\ vow'[n].accrued_gain = Settled(n)
              /\ vow'[n].active_stake = vow[n].active_stake /\ escrow' = escrow
           \/ ~vow'[n].active_stake
           \/ escrow'[n].live
    PROVE  PositionSound(n)'
<1> DEFINE p == config.current_share_price
<1>1. /\ p \in Nat /\ vow[n].shares \in Nat /\ Settled(n) \in Int
      /\ vow[n].accrued_gain \in Int
      /\ ValueOf(vow[n].shares, p) \in Nat
      /\ ValueOf(vow[n].shares, vow[n].last_share_price) \in Nat
  BY PositionNumbers
<1>2. n \in idents /\ vow[n].active_stake /\ ~escrow[n].live =>
         Settled(n) <= ValueOf(vow[n].shares, p)
  BY <1>1 DEF PositionSound, Settled
<1> HIDE DEF p
<1>3. n \in idents /\ vow'[n].active_stake /\ ~escrow'[n].live =>
         vow'[n].accrued_gain <= ValueOf(vow'[n].shares, vow'[n].last_share_price)
  BY <1>2 DEF PositionSound, GainKept, p
<1> QED
  BY <1>3 DEF PositionSound, TierKept

(* Every step is about one identity, or about none.                        *)
LEMMA OthersSound ==
    ASSUME PositionInv, TypeInv', NEW n \in Nonces, OnlyVow(n), OnlyEscrow(n),
           idents' = idents \/ idents' = idents \cup {n}, PositionSound(n)'
    PROVE  PositionInv'
<1>1. ASSUME NEW k \in Nonces, k # n PROVE PositionSound(k)'
  <2>1. vow'[k] = vow[k] /\ escrow'[k] = escrow[k] /\ (k \in idents' <=> k \in idents)
    BY <1>1 DEF OnlyVow, OnlyEscrow
  <2>2. PositionSound(k)
    BY DEF PositionInv
  <2> QED
    BY <2>1, <2>2 DEF PositionSound
<1> QED
  BY <1>1 DEF PositionInv

LEMMA LedgerKeptSound ==
    ASSUME PositionInv, TypeInv', UNCHANGED <<idents, vow, escrow>>
    PROVE  PositionInv'
  BY DEF PositionInv, PositionSound

LEMMA InitPosition == Init => PositionInv
  BY InitType DEF Init, PositionInv, PositionSound

LEMMA NextPosition == PositionInv /\ [Next]_vars => PositionInv'
<1> SUFFICES ASSUME PositionInv, [Next]_vars PROVE PositionInv'
  OBVIOUS
<1>1. TypeInv /\ TypeInv' /\ idents \subseteq Nonces
  BY NextType DEF PositionInv, TypeInv, TypeOK
<1>2. \A n \in Nonces : PositionSound(n)
  BY DEF PositionInv
<1>3. CASE UNCHANGED vars
  BY <1>1, <1>3, LedgerKeptSound DEF vars
<1>4. ASSUME NEW w \in Wallets, NEW l \in StakeAmounts, NEW m \in Modes, Mint(w, l, m)
      PROVE  PositionInv'
  <2>1. PICK n \in Nonces : n = config.total_minted
    BY <1>4 DEF Mint, FreshAccount
  <2>2. PositionSound(n)'
    BY <1>1, <1>4, <2>1, MintSound
  <2>3. OnlyVow(n)
    BY <1>1, <1>4, <2>1, MintEffect
  <2>4. idents' = idents \cup {n} /\ OnlyEscrow(n)
    BY <1>4, <2>1 DEF Mint, OnlyEscrow
  <2> QED
    BY <1>1, <2>2, <2>3, <2>4, OthersSound
<1>5. ASSUME NEW n \in idents,
             \/ \E l \in TopUpAmounts : AddStake(n, l)
             \/ \E l \in StakeAmounts, m \in Modes : ActivateStake(n, l, m)
             \/ BeginUnstake(n)
             \/ CompleteUnstake(n)
             \/ \E m \in Modes : UpdateYieldMode(n, m)
             \/ Harvest(n)
             \/ \E amount \in YieldAmounts : DepositYieldBalance(n, amount)
             \/ WithdrawYield(n)
             \/ DevFastUnlock(n)
      PROVE  PositionInv'
  <2>1. n \in Nonces /\ vow[n].yield_balance \in Nat /\ YieldAmounts \subseteq Nat
    <3>1. n \in Nonces /\ vow[n] \in VowState
      BY <1>1 DEF TypeInv, TypeOK
    <3> QED
      BY <3>1, VowFields, CoreAssumption
  <2>2. PositionSound(n) /\ TypeInv
    BY <1>1, <1>2, <2>1
  <2>3. ASSUME NEW l \in TopUpAmounts, AddStake(n, l) PROVE PositionInv'
    <3>1. PositionSound(n)'
      BY <2>1, <2>2, <2>3, AddStakeSound
    <3>2. OnlyVow(n)
      BY <2>1, <2>2, <2>3, AddStakeEffect
    <3>3. idents' = idents /\ OnlyEscrow(n)
      BY <2>3 DEF AddStake, OnlyEscrow
    <3> QED
      BY <1>1, <2>1, <3>1, <3>2, <3>3, OthersSound
  <2>4. ASSUME NEW l \in StakeAmounts, NEW m \in Modes, ActivateStake(n, l, m)
        PROVE  PositionInv'
    <3>1. PositionSound(n)'
      BY <2>1, <2>2, <2>4, ActivateStakeSound
    <3>2. OnlyVow(n)
      BY <2>1, <2>2, <2>4, ActivateStakeEffect
    <3>3. idents' = idents /\ OnlyEscrow(n)
      BY <2>4 DEF ActivateStake, OnlyEscrow
    <3> QED
      BY <1>1, <2>1, <3>1, <3>2, <3>3, OthersSound
  <2>5. CASE BeginUnstake(n)
    <3>1. TierKept(n)
      BY <2>1, <2>2, <2>5, BeginUnstakePosition
    <3>2. /\ OnlyVow(n) /\ idents' = idents
          /\ escrow' = [escrow EXCEPT ![n] = [live |-> TRUE,
                             lamports_owed |-> escrow'[n].lamports_owed,
                             deactivation_epoch |-> epoch]]
      BY <2>1, <2>2, <2>5, BeginUnstakeEffect DEF BeginUnstake
    <3>3. escrow'[n].live /\ OnlyEscrow(n)
      BY <2>1, <2>2, <3>2 DEF OnlyEscrow, TypeInv, TypeOK
    <3>4. PositionSound(n)'
      BY <2>1, <2>2, <3>1, <3>2, <3>3, KeptSound
    <3> QED
      BY <1>1, <2>1, <3>2, <3>3, <3>4, OthersSound
  <2>6. CASE CompleteUnstake(n)
    <3>1. TierKept(n)
      BY <2>1, <2>2, <2>6, CompleteUnstakePosition
    <3>2. /\ OnlyVow(n) /\ idents' = idents /\ ~vow'[n].active_stake
          /\ escrow' = [escrow EXCEPT ![n] = NoEscrow]
      BY <2>1, <2>2, <2>6, CompleteUnstakeEffect DEF CompleteUnstake
    <3>3. OnlyEscrow(n)
      BY <2>1, <2>2, <3>2 DEF OnlyEscrow, TypeInv, TypeOK
    <3>4. PositionSound(n)'
      BY <2>1, <2>2, <3>1, <3>2, KeptSound
    <3> QED
      BY <1>1, <2>1, <3>2, <3>3, <3>4, OthersSound
  <2>7. ASSUME NEW m \in Modes, UpdateYieldMode(n, m) PROVE PositionInv'
    <3>1. /\ TierKept(n)
          /\ vow'[n].last_share_price = config.current_share_price
          /\ vow'[n].accrued_gain = Settled(n)
      BY <2>1, <2>2, <2>7, UpdateYieldModePosition
    <3>2. /\ OnlyVow(n) /\ vow'[n].shares = vow[n].shares
          /\ vow'[n].active_stake = vow[n].active_stake
      BY <2>1, <2>2, <2>7, UpdateYieldModeEffect
    <3>3. idents' = idents /\ escrow' = escrow /\ OnlyEscrow(n)
      BY <2>7 DEF UpdateYieldMode, OnlyEscrow
    <3>4. PositionSound(n)'
      BY <2>1, <2>2, <3>1, <3>2, <3>3, KeptSound
    <3> QED
      BY <1>1, <2>1, <3>2, <3>3, <3>4, OthersSound
  <2>8. CASE Harvest(n)
    <3>1. PositionSound(n)'
      BY <2>1, <2>2, <2>8, HarvestSound
    <3>2. OnlyVow(n)
      BY <2>1, <2>2, <2>8, HarvestEffect
    <3>3. idents' = idents /\ OnlyEscrow(n)
      BY <2>8 DEF Harvest, OnlyEscrow
    <3> QED
      BY <1>1, <2>1, <3>1, <3>2, <3>3, OthersSound
  <2>9. ASSUME NEW amount \in Nat, DepositYieldBalance(n, amount) \/ PayYield(n, amount)
        PROVE  PositionInv'
    <3>1. /\ TierKept(n) /\ GainKept(n) /\ vow'[n].active_stake = vow[n].active_stake
      BY <2>1, <2>2, <2>9, YieldPosition
    <3>2. OnlyVow(n) /\ UNCHANGED <<idents, escrow>>
      BY <2>1, <2>2, <2>9, YieldEffect
    <3>3. OnlyEscrow(n)
      BY <3>2 DEF OnlyEscrow
    <3>4. PositionSound(n)'
      BY <2>1, <2>2, <3>1, <3>2, KeptSound
    <3> QED
      BY <1>1, <2>1, <3>2, <3>3, <3>4, OthersSound
  <2>10. CASE DevFastUnlock(n)
    <3>1. /\ TierKept(n) /\ GainKept(n) /\ OnlyVow(n)
          /\ vow'[n].active_stake = vow[n].active_stake
      BY <2>1, <2>2, <2>10, DevFastUnlockPosition
    <3>2. UNCHANGED <<idents, escrow>> /\ OnlyEscrow(n)
      BY <2>10 DEF DevFastUnlock, OnlyEscrow
    <3>3. PositionSound(n)'
      BY <2>1, <2>2, <3>1, <3>2, KeptSound
    <3> QED
      BY <1>1, <2>1, <3>1, <3>2, <3>3, OthersSound
  <2>11. WithdrawYield(n) => \E amount \in Nat : PayYield(n, amount)
    BY <2>1 DEF WithdrawYield
  <2> QED
    BY <1>5, <2>1, <2>3, <2>4, <2>5, <2>6, <2>7, <2>8, <2>9, <2>10, <2>11
<1>6. ASSUME NEW n \in idents, WithdrawFromPool(n) PROVE PositionInv'
  BY <1>1, <1>6, LedgerKeptSound DEF WithdrawFromPool
<1>7. CASE \/ UpdateSharePrice \/ \E new_price \in DevPrices : DevSetSharePrice(new_price)
           \/ FlushReserveToPool \/ Tick \/ NextEpoch
           \/ \E delta \in PoolDeltas : PoolUpdate(delta)
  BY <1>1, <1>7, LedgerKeptSound DEF UpdateSharePrice, DevSetSharePrice, FlushReserveToPool,
     Tick, NextEpoch, PoolUpdate
<1> QED
  BY <1>3, <1>4, <1>5, <1>6, <1>7 DEF Next

LEMMA PositionInvariant == Spec => []PositionInv
  BY InitPosition, NextPosition, PTL DEF Spec

(* However an identity was topped up, left and joined again, its tier is   *)
(* the tier of its stake, and its best tier is no lower.                   *)
THEOREM TierExact == Spec => []TierMatchesStake
<1>1. PositionInv => TierMatchesStake
  <2>1. TypeInv => idents \subseteq Nonces
    BY DEF TypeInv, TypeOK
  <2> QED
    BY <2>1 DEF PositionInv, PositionSound, TierMatchesStake
<1> QED
  BY <1>1, PositionInvariant, PTL

(* The booked gain of a position that is not unstaking never exceeds the   *)
(* value of its shares, however often settle_idnft and harvest rounded.    *)
THEOREM GainBacked == Spec => []GainBackedByShares
<1>1. PositionInv => GainBackedByShares
  <2>1. TypeInv => idents \subseteq Nonces
    BY DEF TypeInv, TypeOK
  <2> QED
    BY <2>1 DEF PositionInv, PositionSound, GainBackedByShares
<1> QED
  BY <1>1, PositionInvariant, PTL

(* The shares that pay for any part of the gain that harvest would settle  *)
(* are there: SharesUnderflow cannot stop the harvest of a position that   *)
(* is not unstaking.                                                       *)
HarvestPayable ==
    \A n \in idents : vow[n].active_stake /\ ~escrow[n].live =>
        \A amount \in Nat : amount <= Settled(n) => BurnFor(amount) <= vow[n].shares

(* harvest's SharesUnderflow never happens to an identity that is staked.  *)
THEOREM HarvestNeverUnderflows == Spec => []HarvestPayable
<1>1. PositionInv => HarvestPayable
  <2> SUFFICES ASSUME PositionInv, NEW n \in idents, vow[n].active_stake, ~escrow[n].live,
                      NEW amount \in Nat, amount <= Settled(n)
               PROVE  BurnFor(amount) <= vow[n].shares
    BY DEF HarvestPayable
  <2> DEFINE p == config.current_share_price
             s == vow[n].shares
             P == SHARE_PRECISION
             v == ValueOf(s, p)
  <2>1. TypeInv /\ n \in Nonces /\ PositionSound(n)
    BY DEF PositionInv, TypeInv, TypeOK
  <2>2. /\ p \in Nat /\ s \in Nat /\ Settled(n) \in Int /\ v \in Nat
        /\ vow[n].accrued_gain \in Int
        /\ ValueOf(s, vow[n].last_share_price) \in Nat
    BY <2>1, PositionNumbers
  <2>3. Settled(n) <= v
    BY <2>1, <2>2 DEF PositionSound, Settled
  <2>4. P \in Nat \ {0} /\ amount * P \in Nat /\ s * p \in Nat
    BY <2>2, PrecisionAssumption, MulNat
  <2>5. P * v <= s * p
    BY <2>4, DivBounds DEF ValueOf
  <2>6. amount <= v
    BY <2>2, <2>3
  <2>7. CASE p = 0
    BY <2>2, <2>7 DEF BurnFor
  <2>8. CASE p # 0
    <3> DEFINE b == SharesFor(amount, p)
    <3>1. b \in Nat /\ p * b <= amount * P
      BY <2>2, <2>4, <2>8, DivNat, DivBounds DEF SharesFor
    <3>2. BurnFor(amount) = b
      BY <2>8 DEF BurnFor
    <3> HIDE DEF b, v, s, p, P
    <3>3. amount * P <= v * P
      BY <2>2, <2>4, <2>6, MulMono
    <3>4. p * b <= p * s
      BY <2>2, <2>4, <2>5, <3>1, <3>3
    <3>5. b <= s
      BY <2>2, <2>8, <3>1, <3>4
    <3> QED
      BY <3>2, <3>5 DEF s
  <2> QED
    BY <2>7, <2>8
<1> QED
  BY <1>1, PositionInvariant, PTL
=============================================================================
