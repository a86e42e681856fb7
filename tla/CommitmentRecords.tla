------------------------- MODULE CommitmentRecords -------------------------
(***************************************************************************)
(* The commitment record of a wallet, fed from its identities.  Anyone may *)
(* record an identity's commitment and, once it has matured, its            *)
(* fulfilment; a gate account per identity allows each of them once.        *)
(* Neither instruction reads the config.                                    *)
(***************************************************************************)
EXTENDS VowProperties, FiniteSets

VARIABLES
    records,     \* the CommitmentRecord of each wallet
    committed,   \* the identities whose cr_commit gate exists
    fulfilments  \* the identities whose cr_fulfill gate exists

recordVars == <<records, committed, fulfilments>>

(* The time of the last update is left out.                                 *)
CommitmentRecord ==
    [live : BOOLEAN, total_xnfts_minted : Nat, total_xnt_committed : Nat,
     total_xnt_fulfilled : Nat, highest_class_ever : Classes,
     total_commitment_days : Nat, commitment_score : Nat]

NoRecord ==
    [live |-> FALSE, total_xnfts_minted |-> 0, total_xnt_committed |-> 0,
     total_xnt_fulfilled |-> 0, highest_class_ever |-> 0,
     total_commitment_days |-> 0, commitment_score |-> 0]

RecordsInit ==
    /\ records = [w \in Wallets |-> NoRecord]
    /\ committed = {}
    /\ fulfilments = {}

(* 100 points per tier, 10 per identity up to 50 of them, and the percentage *)
(* of the committed stake that is recorded as fulfilled.                     *)
compute_score(r) ==
    r.highest_class_ever * 100
        + (IF r.total_xnfts_minted <= 50 THEN r.total_xnfts_minted ELSE 50) * 10
        + (IF r.total_xnt_committed > 0
           THEN (r.total_xnt_fulfilled * 100) \div r.total_xnt_committed ELSE 0)

Scored(r) == [r EXCEPT !.commitment_score = compute_score(r)]

(* The one-time gates: `init' fails when the account exists.                 *)
NoGate(gates, n) == TRUE

GateFree(gates, n) == n \notin gates

(* record_commitment: creates the record of the wallet if needed.            *)
RecordCommitment(n) ==
    LET v == vow[n]
        r == records[v.owner]
    IN  /\ GateFree(committed, n)
        /\ committed' = committed \cup {n}
        /\ records' = [records EXCEPT ![v.owner] =
              Scored([r EXCEPT
                        !.live = TRUE,
                        !.total_xnfts_minted = @ + 1,
                        !.total_xnt_committed = @ + v.principal_lamports,
                        !.highest_class_ever = Higher(@, v.class),
                        !.total_commitment_days = @ + lock_duration(v.class) \div DAY])]
        /\ UNCHANGED <<vars, fulfilments>>

(* record_fulfillment: needs the record of the wallet, whichever of its      *)
(* identities created it.                                                    *)
RecordFulfillment(n) ==
    LET v == vow[n]
        r == records[v.owner]
    IN  /\ r.live
        /\ GateFree(fulfilments, n)
        /\ v.matured
        /\ fulfilments' = fulfilments \cup {n}
        /\ records' = [records EXCEPT ![v.owner] =
              Scored([r EXCEPT !.total_xnt_fulfilled = @ + v.principal_lamports])]
        /\ UNCHANGED <<vars, committed>>

-----------------------------------------------------------------------------
OwnedBy(w, gates) == {n \in gates : vow[n].owner = w}

(* The record of a wallet says what its identities can show: it counts each  *)
(* recorded identity once, knows no tier that none of them ever reached,     *)
(* shows fulfilled stake only if one of them was recorded as fulfilled, and  *)
(* its score is the score of its fields.                                     *)
RecordsReflectIdentities ==
    \A w \in Wallets :
        LET r == records[w]
        IN  /\ r.total_xnfts_minted = Cardinality(OwnedBy(w, committed))
            /\ r.live <=> OwnedBy(w, committed) # {}
            /\ r.live =>
                  /\ \E n \in OwnedBy(w, committed) :
                        r.highest_class_ever <= vow[n].highest_class_ever
                  /\ r.commitment_score = compute_score(r)
            /\ r.total_xnt_fulfilled > 0 => OwnedBy(w, fulfilments) # {}

(* commitment_record.rs:10 "principal from completed lock periods": the      *)
(* fulfilled stake of a wallet grows by the principal of one of its          *)
(* identities, which was not counted before and whose lock is over on the    *)
(* clock, although record_fulfillment looks at the cached flag only.         *)
FulfilmentsEarned ==
    [][ \A w \in Wallets :
          LET earned == records'[w].total_xnt_fulfilled - records[w].total_xnt_fulfilled
          IN  earned # 0 =>
                  \E n \in fulfilments' \ fulfilments :
                      /\ vow[n].owner = w
                      /\ now >= vow[n].unlock_at
                      /\ earned = vow[n].principal_lamports ]_recordVars
=============================================================================
