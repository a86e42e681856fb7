---------------------------- MODULE VowDocClaims ----------------------------
(***************************************************************************)
(* Statements of the documentation and of the comments of the code that    *)
(* the program does not keep.  Each has a run that exhibits a behaviour of *)
(* the code against it.                                                    *)
(***************************************************************************)
EXTENDS VowProperties

(* withdraw_from_pool.rs:19-22 and integration.md:52-54: once the reserve   *)
(* holds lamports_owed, complete_unstake returns principal and yield.  With *)
(* a second escrow pending it pays a part and drops the rest.               *)
FundedClaimPaidInFull ==
    [][ \A n \in Nonces :
          /\ escrow[n].live /\ ~escrow'[n].live
          /\ reserve >= escrow[n].lamports_owed
          => reserve - reserve' = escrow[n].lamports_owed ]_vars

(* More lamports than the roundings of the shares and tokens can hide.      *)
RoundingSlack ==
    config.current_share_price \div SHARE_PRECISION
        + pool.total_lamports \div pool.pool_token_supply + 2

(* pool-share-model.md:8, share_price = (pool_lamports - total_yield_claims) *)
(* / total_shares: the shares are worth what the program owns beyond the    *)
(* claims.  The code takes the price of the external pool, also for stake   *)
(* that still sits in the reserve while the pool earns.                     *)
SharesBackedByFunds ==
    config.current_share_price * config.total_shares
        <= (Assets - config.total_yield_claims - config.total_pending_unstake
              + RoundingSlack) * SHARE_PRECISION
=============================================================================
