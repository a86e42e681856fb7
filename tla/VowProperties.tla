--------------------------- MODULE VowProperties ---------------------------
(***************************************************************************)
(* What the core of the vow program promises: invariants and action        *)
(* properties of VowCore.                                                  *)
(***************************************************************************)
EXTENDS VowCore

(* What the identities hold and are owed, one number per nonce.            *)
SharesHeld == [n \in Nonces |-> vow[n].shares]
ClaimsHeld == [n \in Nonces |-> vow[n].yield_balance]
DebtsHeld  == [n \in Nonces |-> escrow[n].lamports_owed]

(* Every account holds a value its fields can represent: no counter of the *)
(* handlers, subtracted without a check or saturating, goes below zero.    *)
TypeOK ==
    /\ config \in ProtocolConfig
    /\ idents \subseteq Nonces
    /\ vow \in [Nonces -> VowState]
    /\ escrow \in [Nonces -> UnstakeEscrow]
    /\ reserve \in Nat
    /\ tokens \in Nat
    /\ pool \in StakePool
    /\ now \in Nat
    /\ epoch \in Nat

-----------------------------------------------------------------------------
(* protocol_config.rs: total_shares, total_yield_claims and                *)
(* total_pending_unstake are the sums over the identities and escrows they  *)
(* summarise, however mint, top-ups, harvests, deposits, withdrawals and    *)
(* unstakes of different owners interleave; no saturating_sub ever loses.   *)
TotalsAgree ==
    /\ config.total_shares = SumTo(SharesHeld, MaxVows)
    /\ config.total_yield_claims = SumTo(ClaimsHeld, MaxVows)
    /\ config.total_pending_unstake = SumTo(DebtsHeld, MaxVows)

(* The two-step unstake: an escrow exists only for an active identity that  *)
(* matured, and holds its whole position; a dormant identity has neither    *)
(* shares nor an escrow (begin_unstake, complete_unstake, add_stake).       *)
EscrowHoldsPosition ==
    \A n \in Nonces :
        /\ escrow[n].live =>
              /\ n \in idents
              /\ vow[n].active_stake
              /\ vow[n].matured
              /\ vow[n].shares = 0
              /\ escrow[n].deactivation_epoch <= epoch
        /\ ~escrow[n].live => escrow[n].lamports_owed = 0
        /\ ~vow[n].active_stake => vow[n].shares = 0

(* The reputation of an identity adds up: every commitment is fulfilled or  *)
(* is the one in progress, so no cycle is counted twice or lost.            *)
FulfilmentLedger ==
    \A n \in idents :
        vow[n].total_commitments =
            vow[n].total_fulfilled + (IF vow[n].active_stake THEN 1 ELSE 0)

(* complete_unstake never tries to pay more than the reserve holds: its     *)
(* transfer cannot fail for lack of lamports, whoever else is unstaking.    *)
PayoutCovered ==
    \A n \in Nonces : escrow[n].live => PayAmount(n) <= reserve

(* The lock is over whenever an identity counts as matured, also after a    *)
(* top-up to a higher tier restarted it.                                    *)
MaturedAfterLock ==
    \A n \in idents : vow[n].matured => now >= vow[n].unlock_at

(* The tier of an active identity is the tier of its stake, and the best    *)
(* tier on record is never below it.                                        *)
TierMatchesStake ==
    \A n \in idents :
        /\ vow[n].class = class_for_stake(vow[n].principal_lamports)
        /\ vow[n].class <= vow[n].highest_class_ever

(* A gain that is booked but not harvested is part of the position's value, *)
(* so that harvest can always burn the shares that pay for it: its          *)
(* SharesUnderflow never stops an identity that is not unstaking.           *)
GainBackedByShares ==
    \A n \in idents :
        vow[n].active_stake /\ ~escrow[n].live =>
            vow[n].accrued_gain <= ValueOf(vow[n].shares, vow[n].last_share_price)

-----------------------------------------------------------------------------
(* A payout in a shortage does not hurt the claims that stay behind: the    *)
(* reserve per lamport of pending claim never falls when one is paid.       *)
ProRataFair ==
    [][ (\E n \in Nonces : escrow[n].live /\ ~escrow'[n].live) =>
          \/ reserve >= config.total_pending_unstake
               /\ reserve' >= config'.total_pending_unstake
          \/ reserve' * config.total_pending_unstake
               >= reserve * config'.total_pending_unstake ]_vars

(* docs/pool-share-model.md:38 "does not accrue yield": begin_unstake and    *)
(* complete_unstake leave a booked gain behind, and anyone may harvest it    *)
(* for an identity that is unstaking or dormant.  It has no shares left to   *)
(* pay for it, so what it is credited is worth less than one share; a larger *)
(* gain cannot be harvested, and activate_stake drops it.                    *)
LeaverEarnsDust ==
    [][ \A n \in idents :
          LET credited == vow'[n].yield_balance - vow[n].yield_balance
          IN  (escrow[n].live \/ ~vow[n].active_stake) /\ credited > 0 =>
                  credited * SHARE_PRECISION < config.current_share_price ]_vars

-----------------------------------------------------------------------------
(* What the program owes: the value of all positions, the yield balances    *)
(* and the escrowed claims.                                                 *)
Liabilities ==
    SumTo([n \in Nonces |-> ValueOf(vow[n].shares, config.current_share_price)], MaxVows)
        + config.total_yield_claims + config.total_pending_unstake

(* What it owns: the reserve and the pool tokens at the pool's own rate.     *)
Assets ==
    reserve + (IF pool.pool_token_supply = 0 THEN 0 ELSE PoolLamportsFor(tokens))

(* Lamports that one share and one pool token can be worth, rounded up:     *)
(* what a single rounding of either can shift.                              *)
RoundingDust ==
    config.current_share_price \div SHARE_PRECISION + 1
        + (IF tokens' = tokens \/ pool.pool_token_supply = 0 THEN 0
           ELSE pool.total_lamports \div pool.pool_token_supply + 1)

(* No instruction creates claims out of nothing: while the price stands     *)
(* still, what the program owes grows by no more than what it owns, up to   *)
(* one rounding (mint, top-up, harvest, deposit, withdrawal, flush).        *)
NoUnbackedClaims ==
    [][ /\ config'.current_share_price = config.current_share_price
        /\ pool' = pool \/ tokens' # tokens
        => Liabilities' - Liabilities <= Assets' - Assets + RoundingDust ]_vars

-----------------------------------------------------------------------------
(* Fairness: epochs pass, the pool performs its update in each of them, and *)
(* the client of an owner who waits for a claim refills the reserve when it *)
(* is short and keeps retrying complete_unstake, which others may disable   *)
(* in between (a flush of the reserve, another payout).                     *)
FairSpec ==
    /\ Spec
    /\ WF_vars(NextEpoch)
    /\ WF_vars(\E delta \in PoolDeltas : PoolUpdate(delta))
    /\ \A n \in Nonces : WF_vars(WithdrawFromPool(n))
    /\ \A n \in Nonces : SF_vars(CompleteUnstake(n))

(* An unstake that was begun comes to its end: neither the claims of others *)
(* nor the flush crank nor a shortage of the reserve blocks it for ever.    *)
UnstakeCompletes ==
    \A n \in Nonces : escrow[n].live ~> ~escrow[n].live
=============================================================================
