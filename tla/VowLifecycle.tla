---------------------------- MODULE VowLifecycle ----------------------------
(***************************************************************************)
(* The accounts of the vow program implement the identity lifecycle: the   *)
(* phase is read off the flag active_stake and the existence of the unstake *)
(* escrow, the lock is unlock_at, and the flag `matured' that the code      *)
(* caches is shown never to outlive the lock it was computed from.          *)
(***************************************************************************)
EXTENDS VowProperties

PhaseOf(n) ==
    IF n \notin idents THEN "None"
    ELSE IF escrow[n].live THEN "Unstaking"
    ELSE IF vow[n].active_stake THEN "Active"
    ELSE "Dormant"

Lifecycle == INSTANCE IdentityLifecycle WITH
    Ids         <- Nonces,
    Locks       <- {lock_duration(c) : c \in Classes},
    MayWaive    <- ~PoolConfigured,
    phase       <- [n \in Nonces |-> PhaseOf(n)],
    lock        <- [n \in Nonces |-> vow[n].unlock_at],
    commitments <- [n \in Nonces |-> vow[n].total_commitments],
    fulfilled   <- [n \in Nonces |-> vow[n].total_fulfilled],
    clock       <- now

(* Every behaviour of the program is a behaviour of the lifecycle: in       *)
(* particular begin_unstake happens after the current lock only, and        *)
(* complete_unstake counts each commitment exactly once.                    *)
ImplementsLifecycle == Lifecycle!Spec
=============================================================================
