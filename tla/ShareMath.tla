----------------------------- MODULE ShareMath -----------------------------
(***************************************************************************)
(* The pure arithmetic of the vow program: the conversion between lamports *)
(* and pool shares, the stake tiers, and the saturating operations the     *)
(* handlers use on the totals of ProtocolConfig.                           *)
(*                                                                         *)
(* Every division of the code truncates towards zero and is applied to     *)
(* non-negative operands, so it is TLA+'s \div.  Products are computed in   *)
(* u128 by the code and cannot overflow for amounts below the supply of    *)
(* the native token; the integers of the model are unbounded.              *)
(***************************************************************************)
EXTENDS Integers, Sequences, FiniteSets

CONSTANTS
    SHARE_PRECISION,    \* scale of a share price (1e12 in the code)
    LAMPORTS_PER_XNT,   \* lamports in one XNT (1e9 in the code)
    CLASS_CEIL,         \* the largest whole XNT of each class but the last one
    LOCK_SECONDS        \* the lock of each class, in clock units

ASSUME PrecisionAssumption ==
    SHARE_PRECISION \in Nat \ {0} /\ LAMPORTS_PER_XNT \in Nat \ {0}

ASSUME TierAssumption ==
    /\ CLASS_CEIL \in Seq(Nat)
    /\ LOCK_SECONDS \in [0..Len(CLASS_CEIL) -> Nat]

Classes == 0..Len(CLASS_CEIL)

(* Shares bought by an amount of lamports at a price (rounded down).       *)
SharesFor(lamports, price) == (lamports * SHARE_PRECISION) \div price

(* Lamports that shares are worth at a price (rounded down).               *)
ValueOf(shares, price) == (shares * price) \div SHARE_PRECISION

(* u64::saturating_sub / u128::saturating_sub.                             *)
SatSub(a, b) == IF a >= b THEN a - b ELSE 0

(* class_for_stake fails with InsufficientStake below one whole XNT.       *)
MeetsMinimum(lamports) == lamports \div LAMPORTS_PER_XNT >= 1

(* The tier of a stake: the number of tiers whose ceiling it exceeds.      *)
class_for_stake(lamports) ==
    Cardinality({i \in 1..Len(CLASS_CEIL) :
                    CLASS_CEIL[i] < lamports \div LAMPORTS_PER_XNT})

lock_duration(class) == LOCK_SECONDS[class]

(* The larger of two classes.                                              *)
Higher(a, b) == IF a > b THEN a ELSE b

(* The sum of the numbers f[0], ..., f[N - 1].                             *)
SumTo(f, N) ==
    LET partial[k \in 0..N] == IF k = 0 THEN 0 ELSE partial[k - 1] + f[k - 1]
    IN  partial[N]
=============================================================================
