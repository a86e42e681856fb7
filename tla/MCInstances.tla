---------------------------- MODULE MCInstances ----------------------------
(***************************************************************************)
(* Values of the constants for small instances: two stake tiers, a coarse  *)
(* precision that makes every rounding visible, a pool that starts at a    *)
(* ratio of one, of three to two, or so poor that its share price rounds   *)
(* down to zero, and epochs that gain or lose lamports.                    *)
(***************************************************************************)
EXTENDS Integers, Sequences

MCClassCeil   == <<2>>
MCLowCeil     == <<1>>
MCLockSeconds == [c \in 0..1 |-> c + 1]

MCPoolPar    == {[total_lamports |-> 2, pool_token_supply |-> 2, last_update_epoch |-> 0]}
MCPoolUneven == {[total_lamports |-> 3, pool_token_supply |-> 2, last_update_epoch |-> 0]}
MCPoolPoor   == {[total_lamports |-> 1, pool_token_supply |-> 3, last_update_epoch |-> 0]}
MCPoolAny    == MCPoolUneven \cup MCPoolPoor

MCRewards    == {2}
MCBothWays   == {2, 0, -1}
MCSwing      == {2, -2}
MCSurge      == {4}
MCStorm      == {4, -2}
=============================================================================
