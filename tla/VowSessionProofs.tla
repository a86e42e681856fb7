-------------------------- MODULE VowSessionProofs --------------------------
(***************************************************************************)
(* The session layer implements the core, and keeps its limits.            *)
(*                                                                         *)
(* The limits are stated on the history of the real payments.  They are    *)
(* inductive together with Mirrors: the counters of a live session are its *)
(* history, as of a day that is not after today.  That a session spends in *)
(* its own commitment follows from Bound: a live session was created in    *)
(* the current commitment, or no later than the last invalidation.         *)
(***************************************************************************)
EXTENDS VowSessions, VowTypeProofs

-----------------------------------------------------------------------------
(* A spend is a withdrawal of yield; a spend of nothing changes nothing.   *)
LEMMA SpendIsWithdrawal ==
    ASSUME TypeInv, NEW n \in idents, NEW amount \in SpendAmounts, SpendYield(n, amount)
    PROVE  [Next]_vars
<1>1. /\ n \in Nonces /\ vow \in [Nonces -> VowState] /\ vow[n] \in VowState
      /\ reserve \in Nat
  BY DEF TypeInv, TypeOK
<1>2. amount \in YieldAmounts \cup {0} /\ amount \in Nat
  BY SessionAssumption, CoreAssumption
<1>3. CASE amount = 0
  <2>1. reserve' = reserve
    BY <1>1, <1>3 DEF SpendYield
  <2>2. vow' = vow
    <3>1. vow[n].yield_balance \in Nat
      BY <1>1, VowFields
    <3>2. [vow[n] EXCEPT !.yield_balance = vow[n].yield_balance - 0] = vow[n]
      BY <1>1, <3>1 DEF VowState
    <3>3. vow' = [vow EXCEPT ![n] = [vow[n] EXCEPT !.yield_balance = vow[n].yield_balance - 0]]
      BY <1>3 DEF SpendYield
    <3> QED
      BY <1>1, <3>2, <3>3
  <2>3. config' = config
    <3>1. config \in ProtocolConfig /\ config.total_yield_claims \in Nat
      BY ConfigFields
    <3>2. SatSub(config.total_yield_claims, 0) = config.total_yield_claims
      BY <3>1, SatSubNat
    <3>3. config' = [config EXCEPT !.total_yield_claims = config.total_yield_claims]
      BY <1>3, <3>2 DEF SpendYield
    <3> QED
      BY <3>1, <3>3 DEF ProtocolConfig
  <2> QED
    BY <2>1, <2>2, <2>3 DEF SpendYield, vars
<1>4. CASE amount # 0
  <2>1. amount \in YieldAmounts /\ amount > 0
    BY <1>2, <1>4
  <2>2. PayYield(n, amount)
    BY <2>1 DEF SpendYield, PayYield
  <2>3. WithdrawYield(n)
    BY <2>1, <2>2 DEF WithdrawYield
  <2> QED
    BY <2>3 DEF Next
<1> QED
  BY <1>3, <1>4

LEMMA StepIsCore == TypeInv /\ [SessionNext]_allVars => [Next]_vars
<1> SUFFICES ASSUME TypeInv, [SessionNext]_allVars PROVE [Next]_vars
  OBVIOUS
<1>1. CASE UNCHANGED allVars
  BY <1>1 DEF allVars
<1>2. CASE Next /\ UNCHANGED sessionVars
  BY <1>2
<1>3. ASSUME NEW n \in idents, NEW i \in Slots, SessionStep(n, i) PROVE [Next]_vars
  <2>1. CASE UNCHANGED vars
    BY <2>1
  <2>2. ASSUME NEW program \in Programs, NEW registry_passed \in BOOLEAN,
               NEW amount \in SpendAmounts,
               YieldSpend(n, i, program, registry_passed, amount)
        PROVE  [Next]_vars
    <3>1. SpendYield(n, amount)
      BY <2>2 DEF YieldSpend
    <3> QED
      BY <3>1, SpendIsWithdrawal
  <2> QED
    BY <1>3, <2>1, <2>2 DEF SessionStep, CreateSession, RevokeSession, CloseSession
<1>4. ASSUME NEW w \in Wallets, NEW p \in ProfileIds,
             \/ \E params \in ProfileParams : CreateAuthorityProfile(w, p, params)
             \/ \E params \in ProfileParams : UpdateAuthorityProfile(w, p, params)
             \/ CloseAuthorityProfile(w, p)
      PROVE  [Next]_vars
  BY <1>4 DEF CreateAuthorityProfile, UpdateAuthorityProfile, CloseAuthorityProfile, SetProfile
<1>5. ASSUME NEW program \in Programs,
             RegisterApp(program) \/ VerifyApp(program) \/ BlockApp(program)
      PROVE  [Next]_vars
  BY <1>5 DEF RegisterApp, VerifyApp, BlockApp
<1> QED
  BY <1>1, <1>2, <1>3, <1>4, <1>5 DEF SessionNext

LEMMA SessionTypeInv == SessionSpec => []TypeInv
<1>1. SessionInit => TypeInv
  BY InitType DEF SessionInit
<1>2. TypeInv /\ [SessionNext]_allVars => TypeInv'
  BY StepIsCore, NextType
<1> QED
  BY <1>1, <1>2, PTL DEF SessionSpec

(* With sessions, profiles and the app registry, the program still         *)
(* implements its core: every property proved of the core holds of it.     *)
THEOREM SessionsImplementCore == SessionSpec => ImplementsCore
<1>1. SessionInit => Init
  BY DEF SessionInit
<1> QED
  BY <1>1, StepIsCore, SessionTypeInv, PTL DEF SessionSpec, ImplementsCore, Spec

-----------------------------------------------------------------------------
(* The counters of a live session are its history, on a day that has come;  *)
(* and they are within its limits.                                          *)
Mirrors(s, h, day) ==
    s.live =>
        /\ h.day = s.last_reset_day
        /\ h.today = s.spent_today
        /\ h.txs = s.tx_count_today
        /\ h.total = s.spent_total
        /\ s.last_reset_day <= day
        /\ s.daily_limit > 0 => s.spent_today <= s.daily_limit
        /\ s.velocity_limit > 0 => s.tx_count_today <= s.velocity_limit
        /\ s.lifetime_limit > 0 => s.spent_total <= s.lifetime_limit

SessionInv ==
    /\ TypeInv
    /\ SessionTypeOK
    /\ \A n \in Nonces, i \in Slots :
          Mirrors(sessions[n][i], paid[n][i], Today)

LEMMA TodayNat ==
    ASSUME TypeInv
    PROVE  Today \in Nat
  BY CoreAssumption, DivNat DEF TypeInv, TypeOK, Today

LEMMA SessionFields ==
    ASSUME NEW s \in SessionAccount
    PROVE  /\ s.live \in BOOLEAN /\ s.active \in BOOLEAN
           /\ s.allowed \in SUBSET Programs
           /\ s.creation_nonce \in Nat
           /\ s.start_ts \in Nat /\ s.expiry_ts \in Nat
           /\ s.daily_limit \in Nat /\ s.lifetime_limit \in Nat /\ s.velocity_limit \in Nat
           /\ s.spent_today \in Nat /\ s.spent_total \in Nat /\ s.tx_count_today \in Nat
           /\ s.last_reset_day \in Nat
  BY DEF SessionAccount

LEMMA SlotType ==
    ASSUME SessionTypeOK, NEW n \in Nonces, NEW i \in Slots
    PROVE  sessions[n][i] \in SessionAccount /\ paid[n][i] \in Payments
  BY DEF SessionTypeOK

LEMMA NoSessionType == NoSession \in SessionAccount /\ NoPayments \in Payments
  BY DEF NoSession, SessionAccount, NoPayments, Payments

(* A step that changes one slot keeps the invariant if the new session     *)
(* mirrors its history.                                                    *)
LEMMA SlotStep ==
    ASSUME SessionInv, TypeInv', now' = now,
           profiles' \in [Wallets -> [ProfileIds -> AuthorityProfile]],
           apps' \in [Programs -> AppRegistry],
           NEW n \in Nonces, NEW i \in Slots,
           NEW s \in SessionAccount, NEW h \in Payments,
           sessions' = [sessions EXCEPT ![n][i] = s],
           paid' = [paid EXCEPT ![n][i] = h],
           session_nonce' \in [Nonces -> Nat],
           issued' \in [Nonces -> SUBSET Nat],
           Mirrors(s, h, Today)
    PROVE  SessionInv'
<1>1. /\ sessions \in [Nonces -> [Slots -> SessionAccount]]
      /\ paid \in [Nonces -> [Slots -> Payments]]
  BY DEF SessionInv, SessionTypeOK
<1>2. SessionTypeOK'
  BY <1>1 DEF SessionTypeOK
<1>3. Today' = Today
  BY DEF Today
<1>4. \A m \in Nonces, j \in Slots :
         /\ sessions'[m][j] = IF m = n /\ j = i THEN s ELSE sessions[m][j]
         /\ paid'[m][j] = IF m = n /\ j = i THEN h ELSE paid[m][j]
  BY <1>1
<1>5. \A m \in Nonces, j \in Slots :
         Mirrors(sessions'[m][j], paid'[m][j], Today')
  <2> SUFFICES ASSUME NEW m \in Nonces, NEW j \in Slots
               PROVE  Mirrors(sessions'[m][j], paid'[m][j], Today)
    BY <1>3
  <2>1. CASE m = n /\ j = i
    BY <1>4, <2>1
  <2>2. CASE ~(m = n /\ j = i)
    <3>1. Mirrors(sessions[m][j], paid[m][j], Today)
      BY DEF SessionInv
    <3>2. sessions'[m][j] = sessions[m][j] /\ paid'[m][j] = paid[m][j]
      BY <1>4, <2>2
    <3> QED
      BY <3>1, <3>2
  <2> QED
    BY <2>1, <2>2
<1> QED
  BY <1>2, <1>5 DEF SessionInv

-----------------------------------------------------------------------------
(* What the core does to the fields the sessions depend on: the owner of   *)
(* an identity stays; the commitment and the time of the invalidation stay, *)
(* or the sessions are invalidated now.                                    *)
SameCommitment(v, u) ==
    /\ u.owner = v.owner
    /\ u.total_commitments = v.total_commitments
    /\ u.sessions_invalidated_at = v.sessions_invalidated_at

Framed(v, u) ==
    /\ u.owner = v.owner
    /\ SameCommitment(v, u) \/ u.sessions_invalidated_at = now

(* The owner and the session fields of one identity are framed, and no     *)
(* account but this one is touched.                                        *)
FramedStep(n) ==
    /\ vow' \in [Nonces -> VowState]
    /\ \E u : vow' = [vow EXCEPT ![n] = u] /\ Framed(vow[n], u)
    /\ UNCHANGED <<idents, now>>

LEMMA HelpersSame ==
    ASSUME NEW v \in VowState, NEW class
    PROVE  /\ SameCommitment(v, settle_idnft(v))
           /\ SameCommitment(v, Matured(v))
           /\ SameCommitment(v, RaiseClass(v, class))
  BY DEF settle_idnft, Matured, RaiseClass, VowState, SameCommitment

LEMMA SameTransitive ==
    ASSUME NEW v, NEW u, NEW x, SameCommitment(v, u), SameCommitment(u, x)
    PROVE  SameCommitment(v, x)
  BY DEF SameCommitment

LEMMA AddStakeFrame ==
    ASSUME TypeInv, TypeInv', NEW n \in Nonces, NEW l \in TopUpAmounts, AddStake(n, l)
    PROVE  FramedStep(n)
<1> DEFINE v == settle_idnft(vow[n])
           principal == v.principal_lamports + l
           class == class_for_stake(principal)
           tiered == IF class > v.class THEN RaiseClass(v, class) ELSE v
           shares == SharesFor(l, config.current_share_price)
           u == [tiered EXCEPT !.principal_lamports = principal, !.shares = @ + shares]
<1>1. vow[n] \in VowState /\ v \in VowState
  BY SettleType DEF TypeInv, TypeOK
<1>2. SameCommitment(vow[n], v)
  BY <1>1, HelpersSame
<1>3. SameCommitment(v, tiered)
  <2>1. SameCommitment(v, RaiseClass(v, class))
    BY <1>1, HelpersSame
  <2>2. SameCommitment(v, v)
    BY DEF SameCommitment
  <2> QED
    BY <2>1, <2>2
<1>4. vow' = [vow EXCEPT ![n] = u] /\ UNCHANGED <<idents, now>>
  BY DEF AddStake
<1> HIDE DEF v, principal, class, shares
<1>5. SameCommitment(tiered, u)
  BY DEF SameCommitment
<1> HIDE DEF tiered, u
<1>6. Framed(vow[n], u)
  BY <1>2, <1>3, <1>5, SameTransitive DEF Framed, SameCommitment
<1> QED
  BY <1>4, <1>6 DEF FramedStep, TypeInv, TypeOK

LEMMA ActivateStakeFrame ==
    ASSUME TypeInv, TypeInv', NEW n \in Nonces, NEW l \in StakeAmounts, NEW m \in Modes,
           ActivateStake(n, l, m)
    PROVE  FramedStep(n)
<1> DEFINE v == settle_idnft(vow[n])
<1>1. vow[n] \in VowState /\ v \in VowState
  BY SettleType DEF TypeInv, TypeOK
<1>2. v.owner = vow[n].owner
  BY <1>1, HelpersSame DEF SameCommitment
<1> DEFINE class  == class_for_stake(l)
           shares == SharesFor(l, config.current_share_price)
           u == [v EXCEPT !.class = class, !.principal_lamports = l, !.shares = shares,
                          !.last_share_price = config.current_share_price,
                          !.accrued_gain = 0, !.yield_mode = m,
                          !.unlock_at = now + lock_duration(class),
                          !.matured = FALSE, !.active_stake = TRUE,
                          !.sessions_invalidated_at = now,
                          !.current_stake_started_at = now,
                          !.total_commitments = @ + 1,
                          !.highest_class_ever = Higher(@, class)]
<1>3. vow' = [vow EXCEPT ![n] = u]
  BY DEF ActivateStake
<1>4. UNCHANGED <<idents, now>>
  BY DEF ActivateStake
<1> HIDE DEF v, class, shares
<1>5. u.owner = v.owner /\ u.sessions_invalidated_at = now
  BY <1>1 DEF VowState
<1> HIDE DEF u
<1> QED
  BY <1>2, <1>3, <1>4, <1>5 DEF FramedStep, Framed, TypeInv, TypeOK

LEMMA UnstakeFrame ==
    ASSUME TypeInv, TypeInv', NEW n \in Nonces, BeginUnstake(n) \/ CompleteUnstake(n)
    PROVE  FramedStep(n)
<1>1. vow[n] \in VowState
  BY DEF TypeInv, TypeOK
<1>2. CASE BeginUnstake(n)
  <2> DEFINE v == settle_idnft(Matured(vow[n]))
             u == [v EXCEPT !.shares = 0, !.yield_balance = 0]
  <2>1. Matured(vow[n]) \in VowState
    BY <1>1, MaturedType
  <2>2. SameCommitment(vow[n], v)
    BY <1>1, <2>1, HelpersSame, SameTransitive
  <2>3. vow' = [vow EXCEPT ![n] = u] /\ UNCHANGED <<idents, now>>
    BY <1>2 DEF BeginUnstake
  <2> HIDE DEF v
  <2>4. SameCommitment(v, u)
    BY DEF SameCommitment
  <2> HIDE DEF u
  <2> QED
    BY <2>2, <2>3, <2>4 DEF FramedStep, Framed, SameCommitment, TypeInv, TypeOK
<1>3. CASE CompleteUnstake(n)
  <2> DEFINE u == [vow[n] EXCEPT
                     !.cumulative_stake_days =
                         @ + SatSub(now, vow[n].current_stake_started_at) \div DAY,
                     !.total_fulfilled = CountFulfilled(vow[n]),
                     !.active_stake = FALSE,
                     !.sessions_invalidated_at = now]
  <2>1. vow' = [vow EXCEPT ![n] = u] /\ UNCHANGED <<idents, now>>
    BY <1>3 DEF CompleteUnstake
  <2>2. u.owner = vow[n].owner /\ u.sessions_invalidated_at = now
    BY <1>1 DEF VowState
  <2> HIDE DEF u
  <2> QED
    BY <2>1, <2>2 DEF FramedStep, Framed, TypeInv, TypeOK
<1> QED
  BY <1>2, <1>3

LEMMA HarvestFrame ==
    ASSUME TypeInv, TypeInv', NEW n \in Nonces, Harvest(n) \/ \E m \in Modes : UpdateYieldMode(n, m)
    PROVE  FramedStep(n)
<1>1. vow[n] \in VowState
  BY DEF TypeInv, TypeOK
<1>2. CASE Harvest(n)
  <2> DEFINE v == settle_idnft(Matured(vow[n]))
             gain == IF v.accrued_gain > 0 THEN v.accrued_gain ELSE 0
             amount == IF v.accrued_gain > 0 THEN TreasuryAmount(v) ELSE 0
             burned == BurnFor(amount)
             u == [v EXCEPT !.shares = @ - burned, !.yield_balance = @ + amount,
                            !.total_harvested = @ + gain, !.accrued_gain = Remainder(v)]
  <2>1. Matured(vow[n]) \in VowState
    BY <1>1, MaturedType
  <2>2. SameCommitment(vow[n], v)
    BY <1>1, <2>1, HelpersSame, SameTransitive
  <2>3. vow' = [vow EXCEPT ![n] = u] /\ UNCHANGED <<idents, now>>
    BY <1>2 DEF Harvest
  <2> HIDE DEF v, gain, amount, burned
  <2>4. SameCommitment(v, u)
    BY DEF SameCommitment
  <2> HIDE DEF u
  <2> QED
    BY <2>2, <2>3, <2>4 DEF FramedStep, Framed, SameCommitment, TypeInv, TypeOK
<1>3. ASSUME NEW m \in Modes, UpdateYieldMode(n, m) PROVE FramedStep(n)
  <2> DEFINE v == settle_idnft(vow[n])
             u == [v EXCEPT !.yield_mode = m]
  <2>1. SameCommitment(vow[n], v)
    BY <1>1, HelpersSame
  <2>2. vow' = [vow EXCEPT ![n] = u] /\ UNCHANGED <<idents, now>>
    BY <1>3 DEF UpdateYieldMode
  <2> HIDE DEF v
  <2>3. SameCommitment(v, u)
    BY DEF SameCommitment
  <2> HIDE DEF u
  <2> QED
    BY <2>1, <2>2, <2>3 DEF FramedStep, Framed, SameCommitment, TypeInv, TypeOK
<1> QED
  BY <1>2, <1>3

LEMMA YieldFrame ==
    ASSUME TypeInv, TypeInv', NEW n \in Nonces,
           \/ \E amount \in YieldAmounts : DepositYieldBalance(n, amount)
           \/ WithdrawYield(n)
           \/ DevFastUnlock(n)
    PROVE  FramedStep(n)
<1>1. PICK u : /\ vow' = [vow EXCEPT ![n] = u]
               /\ SameCommitment(vow[n], u)
               /\ UNCHANGED <<idents, now>>
  <2>1. ASSUME NEW b, vow' = [vow EXCEPT ![n].yield_balance = b], UNCHANGED <<idents, now>>
        PROVE  \E u : /\ vow' = [vow EXCEPT ![n] = u]
                      /\ SameCommitment(vow[n], u)
                      /\ UNCHANGED <<idents, now>>
    <3> DEFINE u == [vow[n] EXCEPT !.yield_balance = b]
    <3>1. vow' = [vow EXCEPT ![n] = u] /\ SameCommitment(vow[n], u)
      BY <2>1 DEF SameCommitment
    <3> QED
      BY <2>1, <3>1
  <2>2. ASSUME DevFastUnlock(n)
        PROVE  \E u : /\ vow' = [vow EXCEPT ![n] = u]
                      /\ SameCommitment(vow[n], u)
                      /\ UNCHANGED <<idents, now>>
    <3> DEFINE u == [vow[n] EXCEPT !.unlock_at = 1]
    <3>1. vow' = [vow EXCEPT ![n] = u] /\ SameCommitment(vow[n], u)
      BY <2>2 DEF SameCommitment, DevFastUnlock
    <3> QED
      BY <2>2, <3>1 DEF DevFastUnlock
  <2> QED
    BY <2>1, <2>2 DEF DepositYieldBalance, WithdrawYield, PayYield
<1> QED
  BY <1>1 DEF FramedStep, Framed, SameCommitment, TypeInv, TypeOK

(* One step of the core, seen from the sessions.                           *)
CoreFrame ==
    /\ now' >= now
    /\ idents \subseteq idents'
    /\ \A n \in idents : Framed(vow[n], vow'[n])
    /\ \A n \in idents' \ idents : vow'[n].owner \in Wallets

LEMMA FramedStepIsFrame ==
    ASSUME TypeInv, NEW n \in Nonces, FramedStep(n)
    PROVE  CoreFrame
<1>1. PICK u : vow' = [vow EXCEPT ![n] = u] /\ Framed(vow[n], u)
  BY DEF FramedStep
<1>2. /\ vow \in [Nonces -> VowState] /\ idents \subseteq Nonces /\ now \in Nat
      /\ UNCHANGED <<idents, now>>
  BY DEF TypeInv, TypeOK, FramedStep
<1>3. \A m \in idents : Framed(vow[m], vow'[m])
  <2> TAKE m \in idents
  <2>1. vow'[m] = IF m = n THEN u ELSE vow[m]
    BY <1>1, <1>2
  <2>2. Framed(vow[m], vow[m])
    BY DEF Framed, SameCommitment
  <2> QED
    BY <1>1, <2>1, <2>2
<1> QED
  BY <1>2, <1>3 DEF CoreFrame

LEMMA MintFrame ==
    ASSUME TypeInv, NEW w \in Wallets, NEW l \in StakeAmounts, NEW m \in Modes, Mint(w, l, m)
    PROVE  CoreFrame
<1> DEFINE k == config.total_minted
<1>1. /\ vow \in [Nonces -> VowState] /\ idents \subseteq Nonces /\ now \in Nat
  BY DEF TypeInv, TypeOK
<1>2. /\ k \in Nonces \ idents /\ idents' = idents \cup {k} /\ now' = now
      /\ \A n \in Nonces : n # k => vow'[n] = vow[n]
      /\ vow'[k].owner = w
  BY <1>1 DEF Mint, FreshAccount
<1> HIDE DEF k
<1>3. \A n \in idents : Framed(vow[n], vow'[n])
  <2> TAKE n \in idents
  <2>1. vow'[n] = vow[n]
    BY <1>1, <1>2
  <2> QED
    BY <2>1 DEF Framed, SameCommitment
<1> QED
  BY <1>1, <1>2, <1>3 DEF CoreFrame

LEMMA KeptFrame ==
    ASSUME TypeInv, UNCHANGED <<idents, vow>>, now' >= now
    PROVE  CoreFrame
  BY DEF CoreFrame, Framed, SameCommitment

LEMMA NextFrame ==
    ASSUME TypeInv, [Next]_vars
    PROVE  CoreFrame
<1>1. TypeInv' /\ idents \subseteq Nonces /\ now \in Nat
  BY NextType DEF TypeInv, TypeOK
<1>2. CASE UNCHANGED vars
  BY <1>1, <1>2, KeptFrame DEF vars
<1>3. ASSUME NEW w \in Wallets, NEW l \in StakeAmounts, NEW m \in Modes, Mint(w, l, m)
      PROVE  CoreFrame
  BY <1>3, MintFrame
<1>4. ASSUME NEW n \in idents,
             \/ \E l \in TopUpAmounts : AddStake(n, l)
             \/ \E l \in StakeAmounts, m \in Modes : ActivateStake(n, l, m)
             \/ BeginUnstake(n)
             \/ CompleteUnstake(n)
             \/ \E m \in Modes : UpdateYieldMode(n, m)
             \/ Harvest(n)
             \/ \E amount \in YieldAmounts : DepositYieldBalance(n, amount)
             \/ WithdrawYield(n)
             \/ DevFastUnlock(n)
      PROVE  CoreFrame
  <2>1. n \in Nonces
    BY <1>1
  <2>2. FramedStep(n)
    BY <1>1, <1>4, <2>1, AddStakeFrame, ActivateStakeFrame, UnstakeFrame, HarvestFrame, YieldFrame
  <2> QED
    BY <2>1, <2>2, FramedStepIsFrame
<1>5. ASSUME \/ \E n \in idents : WithdrawFromPool(n)
             \/ UpdateSharePrice
             \/ FlushReserveToPool
             \/ \E new_price \in DevPrices : DevSetSharePrice(new_price)
             \/ Tick \/ NextEpoch
             \/ \E delta \in PoolDeltas : PoolUpdate(delta)
      PROVE  CoreFrame
  <2>1. idents' = idents /\ vow' = vow /\ (now' = now \/ now' = now + 1)
    BY <1>5 DEF WithdrawFromPool, UpdateSharePrice, FlushReserveToPool,
       DevSetSharePrice, Tick, NextEpoch, PoolUpdate
  <2>2. now' >= now
    BY <1>1, <2>1
  <2> QED
    BY <2>1, <2>2, KeptFrame
<1> QED
  BY <1>2, <1>3, <1>4, <1>5 DEF Next

(* Every identity belongs to a wallet.                                     *)
Owned == \A n \in idents : vow[n].owner \in Wallets

LEMMA OwnedStep == TypeInv /\ Owned /\ [SessionNext]_allVars => Owned'
<1> SUFFICES ASSUME TypeInv, Owned, [SessionNext]_allVars PROVE Owned'
  OBVIOUS
<1>1. CoreFrame
  BY StepIsCore, NextFrame
<1> QED
  BY <1>1 DEF CoreFrame, Framed, SameCommitment, Owned

-----------------------------------------------------------------------------
(* The steps of the session layer keep the invariant.                      *)
LEMMA ParamsType ==
    ASSUME SessionInv, Owned, NEW n \in idents, NEW params \in SessionParams,
           NEW p \in ProfileIds \cup {NoProfile}
    PROVE  EffectiveParams(n, params, p) \in
              [expiry_ts : Nat, daily_limit : Nat, lifetime_limit : Nat, velocity_limit : Nat]
<1>1. params \in [expiry_ts : Nat, daily_limit : Nat, lifetime_limit : Nat, velocity_limit : Nat]
  BY SessionAssumption
<1>2. CASE p = NoProfile
  BY <1>1, <1>2 DEF EffectiveParams
<1>3. CASE p # NoProfile
  <2> DEFINE f == profiles[vow[n].owner][p]
             days == f.default_expiry_days * DAY
  <2>1. f \in AuthorityProfile
    BY <1>3 DEF Owned, SessionInv, SessionTypeOK
  <2>2. f.default_expiry_days \in Nat /\ f.default_daily_limit \in Nat
        /\ f.default_lifetime_limit \in Nat
    BY <2>1 DEF AuthorityProfile
  <2>3. days \in Nat /\ now \in Nat
    BY <2>2, CoreAssumption, MulNat DEF SessionInv, TypeInv, TypeOK
  <2>4. EffectiveParams(n, params, p) = WithDefaults(params, f)
    BY <1>3 DEF EffectiveParams
  <2>5. WithDefaults(params, f) =
           [params EXCEPT
              !.expiry_ts      = IF @ = 0 THEN now + days ELSE @,
              !.daily_limit    = IF @ = 0 THEN f.default_daily_limit ELSE @,
              !.lifetime_limit = IF @ = 0 THEN f.default_lifetime_limit ELSE @]
    BY DEF WithDefaults
  <2>6. /\ (IF params.expiry_ts = 0 THEN now + days ELSE params.expiry_ts) \in Nat
        /\ (IF params.daily_limit = 0 THEN f.default_daily_limit ELSE params.daily_limit) \in Nat
        /\ (IF params.lifetime_limit = 0 THEN f.default_lifetime_limit
            ELSE params.lifetime_limit) \in Nat
    BY <1>1, <2>2, <2>3
  <2> HIDE DEF f, days
  <2> QED
    BY <1>1, <2>4, <2>5, <2>6
<1> QED
  BY <1>2, <1>3

LEMMA CreateStep ==
    ASSUME SessionInv, Owned, TypeInv', NEW n \in idents, NEW i \in Slots,
           NEW list \in ProgramLists, NEW params \in SessionParams,
           NEW p \in ProfileIds \cup {NoProfile}, CreateSession(n, i, list, params, p)
    PROVE  SessionInv'
<1> DEFINE q == EffectiveParams(n, params, p)
           s == [live |-> TRUE, allowed |-> list, creation_nonce |-> session_nonce[n],
                 start_ts |-> now, expiry_ts |-> q.expiry_ts, daily_limit |-> q.daily_limit,
                 lifetime_limit |-> q.lifetime_limit, velocity_limit |-> q.velocity_limit,
                 spent_today |-> 0, spent_total |-> 0, tx_count_today |-> 0,
                 last_reset_day |-> Today, active |-> TRUE]
           h == [cycle |-> vow[n].total_commitments, day |-> Today,
                 today |-> 0, txs |-> 0, total |-> 0]
<1>1. n \in Nonces /\ now \in Nat /\ vow[n] \in VowState /\ session_nonce[n] \in Nat
  BY DEF SessionInv, SessionTypeOK, TypeInv, TypeOK
<1>2. Today \in Nat /\ vow[n].total_commitments \in Nat /\ list \in SUBSET Programs
  BY <1>1, TodayNat, VowFields, SessionAssumption DEF SessionInv
<1>3. q \in [expiry_ts : Nat, daily_limit : Nat, lifetime_limit : Nat, velocity_limit : Nat]
  BY ParamsType
<1>4. /\ sessions' = [sessions EXCEPT ![n][i] = s]
      /\ paid' = [paid EXCEPT ![n][i] = h]
      /\ session_nonce' = [session_nonce EXCEPT ![n] = session_nonce[n] + 1]
      /\ issued' = [issued EXCEPT ![n] = issued[n] \cup {session_nonce[n]}]
      /\ UNCHANGED <<vars, profiles, apps>>
  BY DEF CreateSession, NextSessionNonce
<1> HIDE DEF q
<1>5. s \in SessionAccount /\ h \in Payments
  BY <1>1, <1>2, <1>3 DEF SessionAccount, Payments
<1>6. Mirrors(s, h, Today)
  BY <1>1, <1>2, <1>3 DEF Mirrors
<1> HIDE DEF s, h
<1>7. /\ now' = now
      /\ profiles' \in [Wallets -> [ProfileIds -> AuthorityProfile]]
      /\ apps' \in [Programs -> AppRegistry]
  BY <1>4 DEF vars, SessionInv, SessionTypeOK
<1>8. session_nonce' \in [Nonces -> Nat] /\ issued' \in [Nonces -> SUBSET Nat]
  BY <1>1, <1>4 DEF SessionInv, SessionTypeOK
<1> QED
  BY <1>1, <1>4, <1>5, <1>6, <1>7, <1>8, SlotStep

LEMMA EndStep ==
    ASSUME SessionInv, TypeInv', NEW n \in idents, NEW i \in Slots,
           RevokeSession(n, i) \/ CloseSession(n, i)
    PROVE  SessionInv'
<1>1. n \in Nonces /\ paid \in [Nonces -> [Slots -> Payments]]
  BY DEF SessionInv, SessionTypeOK, TypeInv, TypeOK
<1>2. sessions[n][i] \in SessionAccount /\ paid[n][i] \in Payments
  BY <1>1, SlotType DEF SessionInv
<1>3. /\ now' = now
      /\ profiles' \in [Wallets -> [ProfileIds -> AuthorityProfile]]
      /\ apps' \in [Programs -> AppRegistry]
      /\ session_nonce' \in [Nonces -> Nat] /\ issued' \in [Nonces -> SUBSET Nat]
  BY DEF RevokeSession, CloseSession, vars, SessionInv, SessionTypeOK
<1>4. CASE RevokeSession(n, i)
  <2> DEFINE s == [sessions[n][i] EXCEPT !.active = FALSE]
  <2>1. sessions' = [sessions EXCEPT ![n][i] = s]
    BY <1>4 DEF RevokeSession
  <2>2. paid' = [paid EXCEPT ![n][i] = paid[n][i]]
    BY <1>1, <1>4 DEF RevokeSession
  <2>3. s \in SessionAccount
    BY <1>2 DEF SessionAccount
  <2>4. Mirrors(sessions[n][i], paid[n][i], Today)
    BY <1>1 DEF SessionInv
  <2>5. Mirrors(s, paid[n][i], Today)
    BY <1>2, <2>4 DEF Mirrors, SessionAccount
  <2> HIDE DEF s
  <2> QED
    BY <1>1, <1>2, <1>3, <2>1, <2>2, <2>3, <2>5, SlotStep
<1>5. CASE CloseSession(n, i)
  <2>1. /\ sessions' = [sessions EXCEPT ![n][i] = NoSession]
        /\ paid' = [paid EXCEPT ![n][i] = NoPayments]
    BY <1>5 DEF CloseSession
  <2>2. Mirrors(NoSession, NoPayments, Today)
    BY DEF NoSession, Mirrors
  <2> QED
    BY <1>1, <1>3, <2>1, <2>2, NoSessionType, SlotStep
<1> QED
  BY <1>4, <1>5

(* The counters of a session after one more spend.                         *)
Counted(s, amount) ==
    [s EXCEPT !.spent_today = @ + amount,
              !.spent_total = @ + amount,
              !.tx_count_today = @ + 1]

LEMMA CountedFields ==
    ASSUME NEW s \in SessionAccount, NEW amount \in Nat
    PROVE  /\ Counted(s, amount) \in SessionAccount
           /\ Counted(s, amount).live = s.live
           /\ Counted(s, amount).start_ts = s.start_ts
           /\ Counted(s, amount).daily_limit = s.daily_limit
           /\ Counted(s, amount).velocity_limit = s.velocity_limit
           /\ Counted(s, amount).lifetime_limit = s.lifetime_limit
           /\ Counted(s, amount).last_reset_day = s.last_reset_day
           /\ Counted(s, amount).spent_today = s.spent_today + amount
           /\ Counted(s, amount).spent_total = s.spent_total + amount
           /\ Counted(s, amount).tx_count_today = s.tx_count_today + 1
<1> DEFINE a == s.spent_today + amount
           b == s.spent_total + amount
           c == s.tx_count_today + 1
<1>1. a \in Nat /\ b \in Nat /\ c \in Nat
  BY SessionFields
<1>2. Counted(s, amount) =
         [s EXCEPT !.spent_today = a, !.spent_total = b, !.tx_count_today = c]
  BY DEF Counted
<1> SUFFICES
      LET u == [s EXCEPT !.spent_today = a, !.spent_total = b, !.tx_count_today = c]
      IN  /\ u \in SessionAccount
          /\ u.live = s.live
          /\ u.start_ts = s.start_ts /\ u.daily_limit = s.daily_limit
          /\ u.velocity_limit = s.velocity_limit /\ u.lifetime_limit = s.lifetime_limit
          /\ u.last_reset_day = s.last_reset_day
          /\ u.spent_today = a /\ u.spent_total = b /\ u.tx_count_today = c
  BY <1>2
<1> HIDE DEF a, b, c
<1> QED
  BY <1>1 DEF SessionAccount

LEMMA ResetFields ==
    ASSUME NEW s \in SessionAccount, Today \in Nat, s.last_reset_day <= Today
    PROVE  LET r == reset_daily_if_needed(s)
           IN  /\ r \in SessionAccount
               /\ r.live = s.live
               /\ r.start_ts = s.start_ts
               /\ r.daily_limit = s.daily_limit
               /\ r.velocity_limit = s.velocity_limit
               /\ r.lifetime_limit = s.lifetime_limit
               /\ r.spent_total = s.spent_total
               /\ r.last_reset_day = Today
               /\ r.spent_today = IF s.last_reset_day = Today THEN s.spent_today ELSE 0
               /\ r.tx_count_today = IF s.last_reset_day = Today THEN s.tx_count_today ELSE 0
<1>1. s.last_reset_day \in Nat
  BY SessionFields
<1>2. CASE Today > s.last_reset_day
  <2>1. s.last_reset_day # Today
    BY <1>1, <1>2
  <2>2. reset_daily_if_needed(s) =
           [s EXCEPT !.spent_today = 0, !.tx_count_today = 0, !.last_reset_day = Today]
    BY <1>2 DEF reset_daily_if_needed
  <2> DEFINE r == [s EXCEPT !.spent_today = 0, !.tx_count_today = 0, !.last_reset_day = Today]
  <2>3. r \in SessionAccount
    BY DEF SessionAccount
  <2>4. /\ r.live = s.live
        /\ r.start_ts = s.start_ts /\ r.daily_limit = s.daily_limit
        /\ r.velocity_limit = s.velocity_limit /\ r.lifetime_limit = s.lifetime_limit
        /\ r.spent_total = s.spent_total /\ r.last_reset_day = Today
        /\ r.spent_today = 0 /\ r.tx_count_today = 0
    BY DEF SessionAccount
  <2> HIDE DEF r
  <2>5. reset_daily_if_needed(s) = r
    BY <2>2 DEF r
  <2> QED
    BY <2>1, <2>3, <2>4, <2>5
<1>3. CASE ~(Today > s.last_reset_day)
  <2>1. s.last_reset_day = Today
    BY <1>1, <1>3
  <2>2. reset_daily_if_needed(s) = s
    BY <1>3 DEF reset_daily_if_needed
  <2> QED
    BY <2>1, <2>2
<1> QED
  BY <1>2, <1>3

LEMMA PaidFields ==
    ASSUME NEW h \in Payments, NEW amount \in Nat, Today \in Nat
    PROVE  LET g == PaidAfter(h, amount)
           IN  /\ g \in Payments
               /\ g.cycle = h.cycle
               /\ g.day = Today
               /\ g.today = (IF h.day = Today THEN h.today ELSE 0) + amount
               /\ g.txs = (IF h.day = Today THEN h.txs ELSE 0) + 1
               /\ g.total = h.total + amount
<1> DEFINE a == (IF h.day = Today THEN h.today ELSE 0) + amount
           b == (IF h.day = Today THEN h.txs ELSE 0) + 1
           c == h.total + amount
<1>1. a \in Nat /\ b \in Nat /\ c \in Nat
  BY DEF Payments
<1>2. PaidAfter(h, amount) = [h EXCEPT !.day = Today, !.today = a, !.txs = b, !.total = c]
  BY DEF PaidAfter
<1> SUFFICES
      LET g == [h EXCEPT !.day = Today, !.today = a, !.txs = b, !.total = c]
      IN  /\ g \in Payments /\ g.cycle = h.cycle /\ g.day = Today
          /\ g.today = a /\ g.txs = b /\ g.total = c
  BY <1>2
<1> HIDE DEF a, b, c
<1> QED
  BY <1>1 DEF Payments

(* One payment keeps the counters equal to the history: the counters       *)
(* restart on the day on which the history does.                           *)
LEMMA SpendMirrors ==
    ASSUME NEW s \in SessionAccount, NEW h \in Payments, NEW amount \in Nat,
           Today \in Nat, s.live, Mirrors(s, h, Today),
           WithinLimits(reset_daily_if_needed(s), amount)
    PROVE  /\ Counted(reset_daily_if_needed(s), amount) \in SessionAccount
           /\ PaidAfter(h, amount) \in Payments
           /\ PaidAfter(h, amount).cycle = h.cycle
           /\ Counted(reset_daily_if_needed(s), amount).live
           /\ Counted(reset_daily_if_needed(s), amount).start_ts = s.start_ts
           /\ Mirrors(Counted(reset_daily_if_needed(s), amount), PaidAfter(h, amount), Today)
<1> DEFINE r == reset_daily_if_needed(s)
           u == Counted(r, amount)
           g == PaidAfter(h, amount)
<1>1. /\ h.day = s.last_reset_day /\ h.today = s.spent_today /\ h.txs = s.tx_count_today
      /\ h.total = s.spent_total /\ s.last_reset_day <= Today
  BY DEF Mirrors
<1>2. /\ r \in SessionAccount /\ r.live
      /\ r.start_ts = s.start_ts /\ r.spent_total = s.spent_total
      /\ r.last_reset_day = Today
      /\ r.spent_today = IF h.day = Today THEN h.today ELSE 0
      /\ r.tx_count_today = IF h.day = Today THEN h.txs ELSE 0
  BY <1>1, ResetFields
<1>3. /\ g \in Payments /\ g.cycle = h.cycle /\ g.day = Today
      /\ g.today = r.spent_today + amount /\ g.txs = r.tx_count_today + 1
      /\ g.total = r.spent_total + amount
  <2>1. /\ g \in Payments /\ g.cycle = h.cycle /\ g.day = Today
        /\ g.today = (IF h.day = Today THEN h.today ELSE 0) + amount
        /\ g.txs = (IF h.day = Today THEN h.txs ELSE 0) + 1
        /\ g.total = h.total + amount
    BY PaidFields
  <2> HIDE DEF r, g
  <2> QED
    BY <1>1, <1>2, <2>1
<1>4. /\ r.velocity_limit > 0 => r.tx_count_today < r.velocity_limit
      /\ r.daily_limit > 0 => r.spent_today + amount <= r.daily_limit
      /\ r.lifetime_limit > 0 => r.spent_total + amount <= r.lifetime_limit
  BY DEF WithinLimits
<1> HIDE DEF r, g
<1>5. r.tx_count_today \in Nat /\ r.velocity_limit \in Nat
  BY <1>2, SessionFields
<1>6. /\ u \in SessionAccount
      /\ u.live /\ u.start_ts = r.start_ts
      /\ u.daily_limit = r.daily_limit /\ u.velocity_limit = r.velocity_limit
      /\ u.lifetime_limit = r.lifetime_limit /\ u.last_reset_day = r.last_reset_day
      /\ u.spent_today = r.spent_today + amount /\ u.spent_total = r.spent_total + amount
      /\ u.tx_count_today = r.tx_count_today + 1
  BY <1>2, CountedFields
<1> HIDE DEF u
<1>7. Mirrors(u, g, Today)
  BY <1>1, <1>2, <1>3, <1>4, <1>5, <1>6 DEF Mirrors
<1> QED
  BY <1>2, <1>3, <1>6, <1>7 DEF u, g, r

LEMMA SpendStep ==
    ASSUME SessionInv, TypeInv', NEW n \in idents, NEW i \in Slots,
           NEW program \in Programs, NEW registry_passed \in BOOLEAN,
           NEW amount \in SpendAmounts, YieldSpend(n, i, program, registry_passed, amount)
    PROVE  SessionInv'
<1> DEFINE s == sessions[n][i]
           h == paid[n][i]
           u == Counted(reset_daily_if_needed(s), amount)
           g == PaidAfter(h, amount)
<1>1. n \in Nonces /\ amount \in Nat /\ Today \in Nat
      /\ sessions \in [Nonces -> [Slots -> SessionAccount]]
      /\ paid \in [Nonces -> [Slots -> Payments]]
  BY SessionAssumption, CoreAssumption, TodayNat DEF SessionInv, SessionTypeOK, TypeInv, TypeOK
<1>2. s \in SessionAccount /\ h \in Payments /\ Mirrors(s, h, Today)
  BY <1>1 DEF SessionInv
<1>3. reset_daily_if_needed(s).live /\ WithinLimits(reset_daily_if_needed(s), amount)
  BY DEF YieldSpend
<1>4. s.live
  BY <1>2, <1>3 DEF reset_daily_if_needed, SessionAccount
<1>5. /\ sessions' = [sessions EXCEPT ![n][i] = u]
      /\ paid' = [paid EXCEPT ![n][i] = g]
      /\ UNCHANGED <<session_nonce, profiles, apps, issued>>
  BY DEF YieldSpend, Counted
<1>6. now' = now
  BY DEF YieldSpend, SpendYield
<1>7. /\ u \in SessionAccount /\ g \in Payments /\ g.cycle = h.cycle /\ u.live
      /\ u.start_ts = s.start_ts
      /\ Mirrors(u, g, Today)
  <2> HIDE DEF s, h
  <2> QED
    BY <1>1, <1>2, <1>3, <1>4, SpendMirrors
<1>8. /\ session_nonce' \in [Nonces -> Nat] /\ issued' \in [Nonces -> SUBSET Nat]
      /\ profiles' \in [Wallets -> [ProfileIds -> AuthorityProfile]]
      /\ apps' \in [Programs -> AppRegistry]
  BY <1>1, <1>5 DEF SessionInv, SessionTypeOK
<1> HIDE DEF u, g
<1> QED
  BY <1>1, <1>2, <1>4, <1>5, <1>6, <1>7, <1>8, SlotStep

(* A step of the core leaves the sessions alone while days pass.           *)
LEMMA KeptSessions ==
    ASSUME SessionInv, TypeInv', now' >= now,
           profiles' \in [Wallets -> [ProfileIds -> AuthorityProfile]],
           apps' \in [Programs -> AppRegistry],
           UNCHANGED <<session_nonce, sessions, paid, issued>>
    PROVE  SessionInv'
<1>1. SessionTypeOK'
  BY DEF SessionInv, SessionTypeOK
<1>2. Today \in Nat /\ Today' \in Nat /\ Today <= Today'
  <2>1. now \in Nat /\ now' \in Nat /\ DAY \in Nat \ {0}
    BY CoreAssumption DEF SessionInv, TypeInv, TypeOK
  <2> QED
    BY <2>1, DivNat, DivMono DEF Today
<1>3. \A n \in Nonces, i \in Slots :
         Mirrors(sessions'[n][i], paid'[n][i], Today')
  <2> TAKE n \in Nonces, i \in Slots
  <2>1. sessions[n][i].last_reset_day \in Nat
    BY SlotType, SessionFields DEF SessionInv
  <2>2. Mirrors(sessions[n][i], paid[n][i], Today)
    BY DEF SessionInv
  <2> QED
    BY <1>2, <2>1, <2>2 DEF Mirrors
<1> QED
  BY <1>1, <1>3 DEF SessionInv

(* The profiles and the registry change beside the sessions.               *)
LEMMA ProfileStep ==
    ASSUME SessionInv, TypeInv', NEW w \in Wallets, NEW p \in ProfileIds,
           \/ \E params \in ProfileParams : CreateAuthorityProfile(w, p, params)
           \/ \E params \in ProfileParams : UpdateAuthorityProfile(w, p, params)
           \/ CloseAuthorityProfile(w, p)
    PROVE  SessionInv' /\ UNCHANGED <<vars, sessions, paid>>
<1>1. profiles \in [Wallets -> [ProfileIds -> AuthorityProfile]]
      /\ apps \in [Programs -> AppRegistry] /\ now \in Nat
  BY DEF SessionInv, SessionTypeOK, TypeInv, TypeOK
<1>2. PICK f \in AuthorityProfile : profiles' = [profiles EXCEPT ![w][p] = f]
  <2>1. ASSUME NEW params \in ProfileParams, SetProfile(w, p, params)
        PROVE  \E f \in AuthorityProfile : profiles' = [profiles EXCEPT ![w][p] = f]
    <3> DEFINE f == [live                   |-> TRUE,
                     default_daily_limit    |-> params.default_daily_limit,
                     default_lifetime_limit |-> params.default_lifetime_limit,
                     default_expiry_days    |-> params.default_expiry_days]
    <3>1. f \in AuthorityProfile
      BY SessionAssumption DEF AuthorityProfile
    <3>2. profiles' = [profiles EXCEPT ![w][p] = f]
      BY <2>1 DEF SetProfile
    <3> QED
      BY <3>1, <3>2
  <2>2. NoAuthorityProfile \in AuthorityProfile
    BY DEF NoAuthorityProfile, AuthorityProfile
  <2> QED
    BY <2>1, <2>2 DEF CreateAuthorityProfile, UpdateAuthorityProfile, CloseAuthorityProfile
<1>3. UNCHANGED <<vars, session_nonce, sessions, apps, paid, issued>>
  BY DEF CreateAuthorityProfile, UpdateAuthorityProfile, CloseAuthorityProfile, SetProfile
<1>4. /\ profiles' \in [Wallets -> [ProfileIds -> AuthorityProfile]]
      /\ apps' \in [Programs -> AppRegistry]
      /\ now' >= now
  BY <1>1, <1>2, <1>3 DEF vars
<1> QED
  BY <1>3, <1>4, KeptSessions

LEMMA AppStep ==
    ASSUME SessionInv, TypeInv', NEW program \in Programs,
           RegisterApp(program) \/ VerifyApp(program) \/ BlockApp(program)
    PROVE  SessionInv' /\ UNCHANGED <<vars, sessions, paid>>
<1>1. profiles \in [Wallets -> [ProfileIds -> AuthorityProfile]]
      /\ apps \in [Programs -> AppRegistry] /\ now \in Nat
  BY DEF SessionInv, SessionTypeOK, TypeInv, TypeOK
<1>2. UNCHANGED <<vars, session_nonce, sessions, profiles, paid, issued>>
  BY DEF RegisterApp, VerifyApp, BlockApp
<1>3. apps' \in [Programs -> AppRegistry]
  <2>1. PICK a \in AppRegistry : apps' = [apps EXCEPT ![program] = a]
    <3>1. apps[program] \in AppRegistry
      BY <1>1
    <3>2. /\ [live |-> TRUE, verified |-> FALSE, blocked |-> FALSE] \in AppRegistry
          /\ [apps[program] EXCEPT !.verified = TRUE] \in AppRegistry
          /\ [apps[program] EXCEPT !.blocked = TRUE] \in AppRegistry
      BY <3>1 DEF AppRegistry
    <3> QED
      BY <3>2 DEF RegisterApp, VerifyApp, BlockApp
  <2> QED
    BY <1>1, <2>1
<1>4. profiles' \in [Wallets -> [ProfileIds -> AuthorityProfile]] /\ now' >= now
  BY <1>1, <1>2 DEF vars
<1> QED
  BY <1>2, <1>3, <1>4, KeptSessions

-----------------------------------------------------------------------------
(* A live session belongs to an identity, was created in the past, and in  *)
(* the current commitment or no later than the last invalidation.          *)
Bound ==
    \A n \in Nonces, i \in Slots :
        sessions[n][i].live =>
            /\ n \in idents
            /\ sessions[n][i].start_ts <= now
            /\ \/ paid[n][i].cycle = vow[n].total_commitments
               \/ sessions[n][i].start_ts <= vow[n].sessions_invalidated_at

(* A session that is live after a step was live before it, or is new.      *)
Continued(n, i) ==
    /\ sessions[n][i].live
    /\ sessions'[n][i].start_ts = sessions[n][i].start_ts
    /\ paid'[n][i].cycle = paid[n][i].cycle

Created(n, i) ==
    /\ n \in idents
    /\ sessions'[n][i].start_ts = now
    /\ paid'[n][i].cycle = vow[n].total_commitments
    /\ UNCHANGED vars

Evolves == \A n \in Nonces, i \in Slots :
              sessions'[n][i].live => Continued(n, i) \/ Created(n, i)

LEMMA BoundStep ==
    ASSUME TypeInv, TypeInv', SessionTypeOK, Bound, CoreFrame, Evolves
    PROVE  Bound'
<1> SUFFICES ASSUME NEW n \in Nonces, NEW i \in Slots, sessions'[n][i].live
             PROVE  /\ n \in idents'
                    /\ sessions'[n][i].start_ts <= now'
                    /\ \/ paid'[n][i].cycle = vow'[n].total_commitments
                       \/ sessions'[n][i].start_ts <= vow'[n].sessions_invalidated_at
  BY DEF Bound
<1>1. now \in Nat /\ now' \in Nat
  BY DEF TypeInv, TypeOK
<1>2. CASE Continued(n, i)
  <2>1. /\ n \in idents /\ sessions[n][i].start_ts <= now
        /\ \/ paid[n][i].cycle = vow[n].total_commitments
           \/ sessions[n][i].start_ts <= vow[n].sessions_invalidated_at
    BY <1>2 DEF Bound, Continued
  <2>2. sessions[n][i].start_ts \in Nat
    BY SlotType, SessionFields
  <2>3. n \in idents' /\ now' >= now /\ Framed(vow[n], vow'[n])
    BY <2>1 DEF CoreFrame
  <2>4. sessions'[n][i].start_ts = sessions[n][i].start_ts /\ paid'[n][i].cycle = paid[n][i].cycle
    BY <1>2 DEF Continued
  <2>5. sessions'[n][i].start_ts <= now'
    BY <1>1, <2>1, <2>2, <2>3, <2>4
  <2>6. CASE SameCommitment(vow[n], vow'[n])
    BY <2>1, <2>3, <2>4, <2>5, <2>6 DEF SameCommitment
  <2>7. CASE vow'[n].sessions_invalidated_at = now
    BY <2>1, <2>3, <2>4, <2>5, <2>7
  <2> QED
    BY <2>3, <2>6, <2>7 DEF Framed
<1>3. CASE Created(n, i)
  BY <1>1, <1>3 DEF Created, vars
<1> QED
  BY <1>2, <1>3 DEF Evolves

LEMMA KeptEvolves ==
    ASSUME UNCHANGED <<sessions, paid>>
    PROVE  Evolves
  BY DEF Evolves, Continued

(* Only a fresh session spends.                                            *)
SpendsFresh == \A n \in Nonces, i \in Slots : Spends(n, i) => Fresh(n, i)

(* The inductive invariant of the session layer.                           *)
LayerInv == SessionInv /\ Owned /\ Bound

LEMMA SlotChange ==
    ASSUME SessionTypeOK, NEW n \in idents, n \in Nonces, NEW i \in Slots,
           SessionStep(n, i)
    PROVE  /\ \A m \in Nonces, j \in Slots : m # n \/ j # i =>
                 sessions'[m][j] = sessions[m][j] /\ paid'[m][j] = paid[m][j]
           /\ Spends(n, i) => Fresh(n, i)
           /\ sessions'[n][i].live => Continued(n, i) \/ Created(n, i)
<1>1. /\ sessions \in [Nonces -> [Slots -> SessionAccount]]
      /\ paid \in [Nonces -> [Slots -> Payments]]
  BY DEF SessionTypeOK
<1>2. ASSUME NEW list \in ProgramLists, NEW params \in SessionParams,
             NEW p \in ProfileIds \cup {NoProfile}, CreateSession(n, i, list, params, p)
      PROVE  /\ \A m \in Nonces, j \in Slots : m # n \/ j # i =>
                   sessions'[m][j] = sessions[m][j] /\ paid'[m][j] = paid[m][j]
             /\ ~sessions[n][i].live
             /\ Created(n, i)
  BY <1>1, <1>2 DEF CreateSession, Created
<1>3. ASSUME RevokeSession(n, i)
      PROVE  /\ \A m \in Nonces, j \in Slots : m # n \/ j # i =>
                   sessions'[m][j] = sessions[m][j] /\ paid'[m][j] = paid[m][j]
             /\ paid' = paid
             /\ Continued(n, i)
  BY <1>1, <1>3 DEF RevokeSession, Continued, SessionAccount
<1>4. ASSUME CloseSession(n, i)
      PROVE  /\ \A m \in Nonces, j \in Slots : m # n \/ j # i =>
                   sessions'[m][j] = sessions[m][j] /\ paid'[m][j] = paid[m][j]
             /\ ~sessions'[n][i].live
  BY <1>1, <1>4 DEF CloseSession, NoSession
<1>5. ASSUME NEW program \in Programs, NEW registry_passed \in BOOLEAN,
             NEW amount \in SpendAmounts, YieldSpend(n, i, program, registry_passed, amount)
      PROVE  /\ \A m \in Nonces, j \in Slots : m # n \/ j # i =>
                   sessions'[m][j] = sessions[m][j] /\ paid'[m][j] = paid[m][j]
             /\ Fresh(n, i)
             /\ Continued(n, i)
  <2> DEFINE s == sessions[n][i]
             r == reset_daily_if_needed(s)
             u == Counted(r, amount)
             g == PaidAfter(paid[n][i], amount)
  <2>1. /\ sessions' = [sessions EXCEPT ![n][i] = u]
        /\ paid' = [paid EXCEPT ![n][i] = g]
        /\ r.live /\ Fresh(n, i)
    BY <1>5 DEF YieldSpend, Counted
  <2>2. s \in SessionAccount /\ paid[n][i] \in Payments
    BY <1>1
  <2>3. g.cycle = paid[n][i].cycle
    BY <2>2 DEF PaidAfter, Payments
  <2>4. r.live = s.live /\ r.start_ts = s.start_ts
    BY <2>2 DEF reset_daily_if_needed, SessionAccount
  <2> HIDE DEF r, s
  <2>5. u.start_ts = r.start_ts
    BY DEF Counted
  <2> HIDE DEF u, g
  <2>6. sessions'[n][i] = u /\ paid'[n][i] = g
    BY <1>1, <2>1
  <2>7. \A m \in Nonces, j \in Slots : m # n \/ j # i =>
           sessions'[m][j] = sessions[m][j] /\ paid'[m][j] = paid[m][j]
    BY <1>1, <2>1
  <2> QED
    BY <2>1, <2>3, <2>4, <2>5, <2>6, <2>7 DEF Continued, s
<1>6. \/ \E list \in ProgramLists, params \in SessionParams, p \in ProfileIds \cup {NoProfile} :
            CreateSession(n, i, list, params, p)
      \/ RevokeSession(n, i)
      \/ CloseSession(n, i)
      \/ \E program \in Programs, registry_passed \in BOOLEAN, amount \in SpendAmounts :
            YieldSpend(n, i, program, registry_passed, amount)
  BY DEF SessionStep
<1> QED
  BY <1>2, <1>3, <1>4, <1>5, <1>6 DEF Spends

LEMMA SessionLayerStep ==
    ASSUME LayerInv, TypeInv', [SessionNext]_allVars
    PROVE  SessionInv' /\ Evolves /\ SpendsFresh
<1>1. /\ SessionInv /\ Owned /\ Bound /\ TypeInv /\ SessionTypeOK
      /\ idents \subseteq Nonces /\ now \in Nat
  BY DEF LayerInv, SessionInv, TypeInv, TypeOK
<1>2. ASSUME UNCHANGED <<sessions, paid>> PROVE Evolves /\ SpendsFresh
  BY <1>2, KeptEvolves DEF SpendsFresh, Spends
<1>3. CASE UNCHANGED sessionVars
  <2>1. CoreFrame
    BY <1>1, StepIsCore, NextFrame
  <2>2. /\ now' >= now
        /\ UNCHANGED <<session_nonce, sessions, paid, issued>>
        /\ profiles' \in [Wallets -> [ProfileIds -> AuthorityProfile]]
        /\ apps' \in [Programs -> AppRegistry]
    BY <1>1, <1>3, <2>1 DEF CoreFrame, sessionVars, SessionTypeOK
  <2>3. SessionInv'
    BY <1>1, <2>2, KeptSessions
  <2> QED
    BY <1>2, <2>2, <2>3
<1>4. ASSUME NEW n \in idents, NEW i \in Slots, SessionStep(n, i)
      PROVE  SessionInv' /\ Evolves /\ SpendsFresh
  <2>1. SessionInv'
    BY <1>1, <1>4, CreateStep, EndStep, SpendStep DEF SessionStep
  <2>2. n \in Nonces
    BY <1>1
  <2>3. /\ \A m \in Nonces, j \in Slots : m # n \/ j # i =>
              sessions'[m][j] = sessions[m][j] /\ paid'[m][j] = paid[m][j]
        /\ Spends(n, i) => Fresh(n, i)
        /\ sessions'[n][i].live => Continued(n, i) \/ Created(n, i)
    BY <1>1, <1>4, <2>2, SlotChange
  <2>4. Evolves
    <3> SUFFICES ASSUME NEW m \in Nonces, NEW j \in Slots, sessions'[m][j].live
                 PROVE  Continued(m, j) \/ Created(m, j)
      BY DEF Evolves
    <3>1. CASE m = n /\ j = i
      BY <2>3, <3>1
    <3>2. CASE m # n \/ j # i
      BY <2>3, <3>2 DEF Continued
    <3> QED
      BY <3>1, <3>2
  <2>5. SpendsFresh
    <3> SUFFICES ASSUME NEW m \in Nonces, NEW j \in Slots, Spends(m, j)
                 PROVE  Fresh(m, j)
      BY DEF SpendsFresh
    <3>1. m = n /\ j = i
      BY <2>3 DEF Spends
    <3> QED
      BY <2>3, <3>1
  <2> QED
    BY <2>1, <2>4, <2>5
<1>5. ASSUME NEW w \in Wallets, NEW p \in ProfileIds,
             \/ \E params \in ProfileParams : CreateAuthorityProfile(w, p, params)
             \/ \E params \in ProfileParams : UpdateAuthorityProfile(w, p, params)
             \/ CloseAuthorityProfile(w, p)
      PROVE  SessionInv' /\ UNCHANGED <<sessions, paid>>
  BY <1>1, <1>5, ProfileStep
<1>6. ASSUME NEW program \in Programs,
             RegisterApp(program) \/ VerifyApp(program) \/ BlockApp(program)
      PROVE  SessionInv' /\ UNCHANGED <<sessions, paid>>
  BY <1>1, <1>6, AppStep
<1>7. CASE UNCHANGED allVars
  BY <1>3, <1>7 DEF allVars
<1> QED
  BY <1>2, <1>3, <1>4, <1>5, <1>6, <1>7 DEF SessionNext

LEMMA LayerInit == SessionInit => LayerInv
<1> SUFFICES ASSUME SessionInit PROVE LayerInv
  OBVIOUS
<1>1. TypeInv /\ idents = {}
  BY InitType DEF SessionInit, Init
<1>2. SessionTypeOK
  <2>1. NoSession \in SessionAccount /\ NoPayments \in Payments
    BY NoSessionType
  <2>2. NoAuthorityProfile \in AuthorityProfile
    BY DEF NoAuthorityProfile, AuthorityProfile
  <2>3. [live |-> FALSE, verified |-> FALSE, blocked |-> FALSE] \in AppRegistry
    BY DEF AppRegistry
  <2> QED
    BY <2>1, <2>2, <2>3 DEF SessionInit, SessionTypeOK
<1>3. \A n \in Nonces, i \in Slots : ~sessions[n][i].live
  BY DEF SessionInit, NoSession
<1>4. SessionInv
  BY <1>1, <1>2, <1>3 DEF SessionInv, Mirrors
<1> QED
  BY <1>1, <1>3, <1>4 DEF LayerInv, Owned, Bound

LEMMA LayerNext == LayerInv /\ [SessionNext]_allVars => LayerInv' /\ SpendsFresh
<1> SUFFICES ASSUME LayerInv, [SessionNext]_allVars PROVE LayerInv' /\ SpendsFresh
  OBVIOUS
<1>1. TypeInv /\ SessionTypeOK /\ Owned /\ Bound
  BY DEF LayerInv, SessionInv
<1>2. TypeInv' /\ CoreFrame
  BY <1>1, StepIsCore, NextType, NextFrame
<1>3. SessionInv' /\ Evolves /\ SpendsFresh
  BY <1>2, SessionLayerStep
<1>4. Owned'
  BY <1>1, OwnedStep
<1>5. Bound'
  BY <1>1, <1>2, <1>3, BoundStep
<1> QED
  BY <1>3, <1>4, <1>5 DEF LayerInv

LEMMA LayerInvariant == SessionSpec => []LayerInv
  BY LayerInit, LayerNext, PTL DEF SessionSpec

(* yield_spend and reset_daily_if_needed: wherever midnight falls between  *)
(* the spends, what a session really pays in one day and in its life, and  *)
(* the number of its transactions in a day, stay within its limits.        *)
THEOREM SessionLimitsKept == SessionSpec => []SessionWithinLimits
<1>1. LayerInv => SessionWithinLimits
  BY DEF LayerInv, SessionInv, Mirrors, SessionWithinLimits
<1> QED
  BY <1>1, LayerInvariant, PTL

(* Every nonce that was issued lies below the next one.                    *)
Issued == \A n \in Nonces : \A k \in issued[n] : k < session_nonce[n]

(* The step gives no live session a nonce that was issued before.          *)
FreshNonces ==
    \A n \in Nonces, i \in Slots :
        ~sessions[n][i].live /\ sessions'[n][i].live =>
            sessions'[n][i].creation_nonce \notin issued[n]

LEMMA IssuedStep == LayerInv /\ Issued /\ [SessionNext]_allVars => Issued' /\ FreshNonces
<1> SUFFICES ASSUME LayerInv, Issued, [SessionNext]_allVars PROVE Issued' /\ FreshNonces
  OBVIOUS
<1>1. /\ session_nonce \in [Nonces -> Nat] /\ issued \in [Nonces -> SUBSET Nat]
      /\ sessions \in [Nonces -> [Slots -> SessionAccount]] /\ idents \subseteq Nonces
  BY DEF LayerInv, SessionInv, SessionTypeOK, TypeInv, TypeOK
<1>2. ASSUME UNCHANGED <<session_nonce, issued>>,
             \A n \in Nonces, i \in Slots : sessions'[n][i].live => sessions[n][i].live
      PROVE  Issued' /\ FreshNonces
  BY <1>2 DEF Issued, FreshNonces
<1>3. ASSUME NEW n \in idents, NEW i \in Slots, NEW list \in ProgramLists,
             NEW params \in SessionParams, NEW p \in ProfileIds \cup {NoProfile},
             CreateSession(n, i, list, params, p)
      PROVE  Issued' /\ FreshNonces
  <2>1. /\ session_nonce' = [session_nonce EXCEPT ![n] = session_nonce[n] + 1]
        /\ issued' = [issued EXCEPT ![n] = issued[n] \cup {session_nonce[n]}]
    BY <1>3 DEF CreateSession, NextSessionNonce
  <2>2. \A m \in Nonces, j \in Slots :
           IF m = n /\ j = i THEN sessions'[m][j].creation_nonce = session_nonce[n]
                             ELSE sessions'[m][j] = sessions[m][j]
    BY <1>1, <1>3 DEF CreateSession
  <2>3. Issued'
    <3> SUFFICES ASSUME NEW m \in Nonces, NEW k \in issued'[m] PROVE k < session_nonce'[m]
      BY DEF Issued
    <3>1. CASE m = n
      BY <1>1, <2>1, <3>1 DEF Issued
    <3>2. CASE m # n
      BY <1>1, <2>1, <3>2 DEF Issued
    <3> QED
      BY <3>1, <3>2
  <2>4. session_nonce[n] \notin issued[n]
    BY <1>1 DEF Issued
  <2>5. FreshNonces
    BY <2>2, <2>4 DEF FreshNonces
  <2> QED
    BY <2>3, <2>5
<1>4. ASSUME NEW n \in idents, NEW i \in Slots, RevokeSession(n, i) \/ CloseSession(n, i)
      PROVE  Issued' /\ FreshNonces
  <2>1. /\ sessions[n][i].live
        /\ \A m \in Nonces, j \in Slots : m # n \/ j # i => sessions'[m][j] = sessions[m][j]
    BY <1>1, <1>4 DEF RevokeSession, CloseSession
  <2> QED
    BY <1>2, <1>4, <2>1 DEF RevokeSession, CloseSession
<1>5. ASSUME NEW n \in idents, NEW i \in Slots, NEW program \in Programs,
             NEW registry_passed \in BOOLEAN, NEW amount \in SpendAmounts,
             YieldSpend(n, i, program, registry_passed, amount)
      PROVE  Issued' /\ FreshNonces
  <2>1. n \in Nonces /\ SessionTypeOK
    BY <1>1 DEF LayerInv, SessionInv
  <2>2. SessionStep(n, i)
    BY <1>5 DEF SessionStep
  <2>3. \A m \in Nonces, j \in Slots : m # n \/ j # i => sessions'[m][j] = sessions[m][j]
    BY <2>1, <2>2, SlotChange
  <2>4. sessions[n][i].live
    <3>1. sessions[n][i] \in SessionAccount /\ reset_daily_if_needed(sessions[n][i]).live
      BY <1>1, <1>5 DEF YieldSpend
    <3> QED
      BY <3>1 DEF reset_daily_if_needed, SessionAccount
  <2>5. UNCHANGED <<session_nonce, issued>>
    BY <1>5 DEF YieldSpend
  <2> QED
    BY <1>2, <2>3, <2>4, <2>5
<1>6. CASE UNCHANGED sessionVars
  BY <1>2, <1>6 DEF sessionVars
<1>7. ASSUME NEW w \in Wallets, NEW p \in ProfileIds,
             \/ \E params \in ProfileParams : CreateAuthorityProfile(w, p, params)
             \/ \E params \in ProfileParams : UpdateAuthorityProfile(w, p, params)
             \/ CloseAuthorityProfile(w, p)
      PROVE  Issued' /\ FreshNonces
  BY <1>2, <1>7 DEF CreateAuthorityProfile, UpdateAuthorityProfile, CloseAuthorityProfile, SetProfile
<1>8. ASSUME NEW program \in Programs,
             RegisterApp(program) \/ VerifyApp(program) \/ BlockApp(program)
      PROVE  Issued' /\ FreshNonces
  BY <1>2, <1>8 DEF RegisterApp, VerifyApp, BlockApp
<1> QED
  BY <1>3, <1>4, <1>5, <1>6, <1>7, <1>8 DEF SessionNext, SessionStep, allVars

(* create_session: a new session never gets the nonce of an earlier one of *)
(* its identity, however its slots are opened, closed and opened again, so *)
(* that the key the client derives from it is new.                         *)
THEOREM SessionKeysUnique == SessionSpec => SessionKeysNeverReused
<1>1. SessionInit => Issued
  BY DEF SessionInit, Issued
<1>2. SessionSpec => []Issued
  BY <1>1, IssuedStep, LayerInvariant, PTL DEF SessionSpec
<1>3. LayerInv /\ Issued /\ [SessionNext]_allVars =>
         [ \A n \in Nonces, i \in Slots :
             ~sessions[n][i].live /\ sessions'[n][i].live =>
                 sessions'[n][i].creation_nonce \notin issued[n] ]_allVars
  BY IssuedStep DEF FreshNonces
<1> QED
  BY <1>2, <1>3, LayerInvariant, PTL DEF SessionSpec, SessionKeysNeverReused

(* activate_stake, complete_unstake and yield_spend: a session spends in   *)
(* the commitment it was created in only, unless it was created in the     *)
(* very second of the last invalidation.                                   *)
THEOREM SessionSpendsItsCommitment == SessionSpec => SpendsInOwnCommitment
<1>1. LayerInv /\ [SessionNext]_allVars =>
         [ \A n \in Nonces, i \in Slots :
             Spends(n, i) =>
                 \/ paid[n][i].cycle = vow[n].total_commitments
                 \/ sessions[n][i].start_ts = vow[n].sessions_invalidated_at ]_allVars
  <2> SUFFICES ASSUME LayerInv, [SessionNext]_allVars,
                      NEW n \in Nonces, NEW i \in Slots, Spends(n, i)
               PROVE  \/ paid[n][i].cycle = vow[n].total_commitments
                      \/ sessions[n][i].start_ts = vow[n].sessions_invalidated_at
    OBVIOUS
  <2>1. sessions[n][i].start_ts >= vow[n].sessions_invalidated_at
    BY LayerNext DEF SpendsFresh, Fresh
  <2>2. \/ paid[n][i].cycle = vow[n].total_commitments
        \/ sessions[n][i].start_ts <= vow[n].sessions_invalidated_at
    BY DEF LayerInv, Bound, Spends
  <2>3. sessions[n][i].start_ts \in Nat /\ vow[n].sessions_invalidated_at \in Nat
    <3>1. vow[n] \in VowState /\ SessionTypeOK
      BY DEF LayerInv, SessionInv, TypeInv, TypeOK
    <3>2. sessions[n][i] \in SessionAccount
      BY <3>1, SlotType
    <3> QED
      BY <3>1, <3>2 DEF SessionAccount, VowState
  <2> QED
    BY <2>1, <2>2, <2>3
<1> QED
  BY <1>1, LayerInvariant, PTL DEF SessionSpec, SpendsInOwnCommitment
=============================================================================
