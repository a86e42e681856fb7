------------------------- MODULE IdentityLifecycle -------------------------
(***************************************************************************)
(* What an identity promises, without money: a wallet commits for a lock   *)
(* period, may only leave once the lock of the current commitment is over, *)
(* becomes dormant in two steps, and may commit again.  Its record counts  *)
(* the commitments made and the commitments fulfilled.                     *)
(***************************************************************************)
EXTENDS Integers

CONSTANTS
    Ids,       \* the identities
    Locks,     \* the lengths a lock may have
    MayWaive   \* whether an administrator may end a lock (test deployments)

VARIABLES phase, lock, commitments, fulfilled, clock

vars == <<phase, lock, commitments, fulfilled, clock>>

Phases == {"None", "Active", "Unstaking", "Dormant"}

Init ==
    /\ phase = [i \in Ids |-> "None"]
    /\ lock = [i \in Ids |-> 0]
    /\ commitments = [i \in Ids |-> 0]
    /\ fulfilled = [i \in Ids |-> 0]
    /\ clock = 1

(* A first or a further commitment, with a lock that starts now.           *)
Commit(i) ==
    /\ phase[i] \in {"None", "Dormant"}
    /\ \E d \in Locks : lock' = [lock EXCEPT ![i] = clock + d]
    /\ phase' = [phase EXCEPT ![i] = "Active"]
    /\ commitments' = [commitments EXCEPT ![i] = @ + 1]
    /\ UNCHANGED <<fulfilled, clock>>

(* A commitment that grows into a higher tier restarts its lock.           *)
Extend(i) ==
    /\ phase[i] = "Active"
    /\ \E d \in Locks : lock' = [lock EXCEPT ![i] = clock + d]
    /\ UNCHANGED <<phase, commitments, fulfilled, clock>>

(* On a test deployment the administrator may end a lock.                  *)
Waive(i) ==
    /\ MayWaive
    /\ phase[i] # "None"
    /\ lock' = [lock EXCEPT ![i] = 1]
    /\ UNCHANGED <<phase, commitments, fulfilled, clock>>

(* Nobody leaves before the lock of the current commitment is over.        *)
Leave(i) ==
    /\ phase[i] = "Active"
    /\ clock >= lock[i]
    /\ phase' = [phase EXCEPT ![i] = "Unstaking"]
    /\ UNCHANGED <<lock, commitments, fulfilled, clock>>

(* Every commitment that ends was kept, and is recorded once.              *)
Rest(i) ==
    /\ phase[i] = "Unstaking"
    /\ phase' = [phase EXCEPT ![i] = "Dormant"]
    /\ fulfilled' = [fulfilled EXCEPT ![i] = @ + 1]
    /\ UNCHANGED <<lock, commitments, clock>>

Pass ==
    /\ clock' = clock + 1
    /\ UNCHANGED <<phase, lock, commitments, fulfilled>>

Next ==
    \/ \E i \in Ids : Commit(i) \/ Extend(i) \/ Waive(i) \/ Leave(i) \/ Rest(i)
    \/ Pass

Spec == Init /\ [][Next]_vars
=============================================================================
