-------------------------- MODULE ShareMathProofs --------------------------
(***************************************************************************)
(* Facts about the arithmetic of ShareMath: truncated division, rounding   *)
(* of shares, and sums over the identities.  Sums are reasoned about with  *)
(* the least counterexample, which NatMin provides.                        *)
(***************************************************************************)
EXTENDS ShareMath, NaturalsInduction, WellFoundedInduction, TLAPS

(* Truncated division of naturals is a natural.                            *)
LEMMA DivNat ==
    ASSUME NEW a \in Nat, NEW b \in Nat \ {0}
    PROVE  a \div b \in Nat
  OBVIOUS

(* The quotient is the largest multiple of the divisor not above a.        *)
LEMMA DivBounds ==
    ASSUME NEW a \in Nat, NEW b \in Nat \ {0}
    PROVE  b * (a \div b) <= a /\ a < b * (a \div b) + b
  OBVIOUS

LEMMA MulNat ==
    ASSUME NEW a \in Nat, NEW b \in Nat
    PROVE  a * b \in Nat
  OBVIOUS

LEMMA MulMono ==
    ASSUME NEW a \in Nat, NEW b \in Nat, NEW c \in Nat, a <= b
    PROVE  a * c <= b * c
  OBVIOUS

LEMMA DivMono ==
    ASSUME NEW a \in Nat, NEW b \in Nat, NEW c \in Nat \ {0}, a <= b
    PROVE  a \div c <= b \div c
  BY DivNat, DivBounds

(* A part of a whole, applied pro rata to r, is at most r.                 *)
LEMMA ProRataBound ==
    ASSUME NEW r \in Nat, NEW p \in Nat \ {0}, NEW o \in Nat, o <= p
    PROVE  (o * r) \div p \in Nat /\ (o * r) \div p <= r
  BY DivNat, DivBounds, MulMono, MulNat

(* Shares and values are naturals.                                         *)
LEMMA SharesForNat ==
    ASSUME NEW l \in Nat, NEW p \in Nat \ {0}
    PROVE  SharesFor(l, p) \in Nat
  BY PrecisionAssumption, MulNat, DivNat DEF SharesFor

LEMMA ValueOfNat ==
    ASSUME NEW s \in Nat, NEW p \in Nat
    PROVE  ValueOf(s, p) \in Nat
  BY PrecisionAssumption, MulNat, DivNat DEF ValueOf

LEMMA SatSubNat ==
    ASSUME NEW a \in Nat, NEW b \in Nat
    PROVE  SatSub(a, b) \in Nat /\ (b <= a => SatSub(a, b) = a - b)
  BY DEF SatSub

-----------------------------------------------------------------------------
(* Every nonempty set of naturals has a least element.                     *)
LEMMA NatMin ==
    ASSUME NEW T \in SUBSET Nat, T # {}
    PROVE  \E x \in T : \A y \in T : x <= y
<1> DEFINE R == {ss \in Nat \X Nat : ss[1] < ss[2]}
<1>1. IsWellFoundedOn(R, Nat)
  BY NatLessThanWellFounded, Zenon DEF OpToRel
<1> HIDE DEF R
<1>2. PICK x \in T : \A y \in T : ~(<<y, x>> \in R)
  BY <1>1, WFMin
<1>3. \A y \in T : ~(y < x)
  BY <1>2 DEF R
<1> QED
  BY <1>3

(* s lists the partial sums of f up to N.                                  *)
IsPartial(s, f, N) ==
    /\ s \in [0..N -> Nat]
    /\ s[0] = 0
    /\ \A k \in 1..N : s[k] = s[k - 1] + f[k - 1]

LEMMA PartialExists ==
    ASSUME NEW N \in Nat, NEW f \in [0..(N - 1) -> Nat]
    PROVE  \E s : IsPartial(s, f, N)
<1> DEFINE Bad == {n \in 0..N : ~ \E s : IsPartial(s, f, n)}
<1>1. CASE Bad = {}
  <2>1. N \notin Bad
    BY <1>1
  <2> QED
    BY <2>1
<1>2. CASE Bad # {}
  <2>1. Bad \in SUBSET Nat
    OBVIOUS
  <2> HIDE DEF Bad
  <2>2. PICK m \in Bad : \A y \in Bad : m <= y
    BY <1>2, <2>1, NatMin
  <2> USE DEF Bad
  <2>3. IsPartial([k \in 0..0 |-> 0], f, 0)
    BY DEF IsPartial
  <2>4. m # 0
    BY <2>2, <2>3
  <2>5. m - 1 \in 0..N /\ m - 1 \notin Bad
    BY <2>2, <2>4
  <2>6. PICK s : IsPartial(s, f, m - 1)
    BY <2>5
  <2> DEFINE t == [k \in 0..m |-> IF k < m THEN s[k] ELSE s[m - 1] + f[m - 1]]
  <2>7. t \in [0..m -> Nat]
    BY <2>4, <2>6 DEF IsPartial
  <2>8. t[0] = 0
    BY <2>4, <2>6 DEF IsPartial
  <2>9. ASSUME NEW k \in 1..m PROVE t[k] = t[k - 1] + f[k - 1]
    BY <2>4, <2>6 DEF IsPartial
  <2>10. IsPartial(t, f, m)
    BY <2>7, <2>8, <2>9 DEF IsPartial
  <2> QED
    BY <2>2, <2>10
<1> QED
  BY <1>1, <1>2

LEMMA SumIsPartial ==
    ASSUME NEW N \in Nat, NEW f \in [0..(N - 1) -> Nat]
    PROVE  \E s : IsPartial(s, f, N) /\ SumTo(f, N) = s[N]
<1> DEFINE F(s) == [k \in 0..N |-> IF k = 0 THEN 0 ELSE s[k - 1] + f[k - 1]]
<1> DEFINE p == CHOOSE s : s = F(s)
<1>1. PICK s : IsPartial(s, f, N)
  BY PartialExists
<1>2. s = F(s)
  BY <1>1 DEF IsPartial
<1>3. p = F(p)
  BY <1>2
<1>4. SumTo(f, N) = p[N]
  BY DEF SumTo
<1> HIDE DEF p
<1> DEFINE Bad == {k \in 0..N : p[k] # s[k]}
<1>5. CASE Bad = {}
  <2>1. N \notin Bad
    BY <1>5
  <2>2. p[N] = s[N]
    BY <2>1
  <2> QED
    BY <1>1, <1>4, <2>2
<1>6. CASE Bad # {}
  <2>1. Bad \in SUBSET Nat
    OBVIOUS
  <2> HIDE DEF Bad
  <2>2. PICK m \in Bad : \A y \in Bad : m <= y
    BY <1>6, <2>1, NatMin
  <2> USE DEF Bad
  <2>3. m # 0
    BY <1>1, <1>3, <2>2 DEF IsPartial
  <2>4. m - 1 \in 0..N /\ p[m - 1] = s[m - 1]
    BY <2>2, <2>3
  <2>5. p[m] = p[m - 1] + f[m - 1]
    BY <1>3, <2>2, <2>3
  <2>6. s[m] = s[m - 1] + f[m - 1]
    BY <1>1, <2>2, <2>3 DEF IsPartial
  <2> QED
    BY <2>2, <2>4, <2>5, <2>6
<1> QED
  BY <1>5, <1>6

(* Sums of naturals are naturals.                                          *)
LEMMA SumNat ==
    ASSUME NEW N \in Nat, NEW f \in [0..(N - 1) -> Nat]
    PROVE  SumTo(f, N) \in Nat
  BY SumIsPartial DEF IsPartial

(* Changing one number changes the sum by the same amount.                 *)
LEMMA SumUpdate ==
    ASSUME NEW N \in Nat,
           NEW f \in [0..(N - 1) -> Nat], NEW g \in [0..(N - 1) -> Nat],
           NEW i \in 0..(N - 1),
           \A j \in 0..(N - 1) : j # i => g[j] = f[j]
    PROVE  SumTo(g, N) = SumTo(f, N) - f[i] + g[i]
<1>1. PICK s : IsPartial(s, f, N) /\ SumTo(f, N) = s[N]
  BY SumIsPartial
<1>2. PICK t : IsPartial(t, g, N) /\ SumTo(g, N) = t[N]
  BY SumIsPartial
<1> DEFINE Shift(k) == IF k <= i THEN s[k] ELSE s[k] - f[i] + g[i]
<1> DEFINE Bad == {k \in 0..N : t[k] # Shift(k)}
<1>3. CASE Bad = {}
  <2>1. N \notin Bad
    BY <1>3
  <2>2. t[N] = Shift(N)
    BY <2>1
  <2> QED
    BY <1>1, <1>2, <2>2
<1>4. CASE Bad # {}
  <2>1. Bad \in SUBSET Nat
    OBVIOUS
  <2> HIDE DEF Bad
  <2>2. PICK m \in Bad : \A y \in Bad : m <= y
    BY <1>4, <2>1, NatMin
  <2> USE DEF Bad
  <2>3. m # 0
    BY <1>1, <1>2, <2>2 DEF IsPartial
  <2>4. m \in 1..N /\ m - 1 \in 0..N /\ m - 1 \in 0..(N - 1) /\ m \in 0..N
    BY <2>2, <2>3
  <2>5. t[m - 1] = Shift(m - 1)
    BY <2>2, <2>4
  <2> HIDE DEF Bad, Shift
  <2>6. t[m] = t[m - 1] + g[m - 1]
    BY <1>2, <2>4 DEF IsPartial
  <2>7. s[m] = s[m - 1] + f[m - 1] /\ s[m] \in Nat /\ s[m - 1] \in Nat
    BY <1>1, <2>4 DEF IsPartial
  <2>8. f[m - 1] \in Nat /\ g[m - 1] \in Nat /\ f[i] \in Nat /\ g[i] \in Nat
    BY <2>4
  <2>9. m - 1 # i => g[m - 1] = f[m - 1]
    BY <2>4
  <2>10. t[m] = Shift(m)
    BY <2>4, <2>5, <2>6, <2>7, <2>8, <2>9 DEF Shift
  <2> QED
    BY <2>2, <2>10 DEF Bad
<1> QED
  BY <1>3, <1>4

(* One of the numbers is at most the sum.                                  *)
LEMMA SumBound ==
    ASSUME NEW N \in Nat, NEW f \in [0..(N - 1) -> Nat], NEW i \in 0..(N - 1)
    PROVE  f[i] <= SumTo(f, N)
<1> DEFINE g == [f EXCEPT ![i] = 0]
<1>1. g \in [0..(N - 1) -> Nat] /\ g[i] = 0
  OBVIOUS
<1>2. SumTo(g, N) = SumTo(f, N) - f[i] + g[i]
  BY <1>1, SumUpdate
<1>3. SumTo(g, N) \in Nat /\ SumTo(f, N) \in Nat
  BY <1>1, SumNat
<1> QED
  BY <1>1, <1>2, <1>3

(* A sum of zeros is zero.                                                 *)
LEMMA SumZero ==
    ASSUME NEW N \in Nat, NEW f \in [0..(N - 1) -> Nat],
           \A j \in 0..(N - 1) : f[j] = 0
    PROVE  SumTo(f, N) = 0
<1>1. PICK s : IsPartial(s, f, N) /\ SumTo(f, N) = s[N]
  BY SumIsPartial
<1> DEFINE Bad == {k \in 0..N : s[k] # 0}
<1>2. CASE Bad = {}
  <2>1. N \notin Bad
    BY <1>2
  <2> QED
    BY <1>1, <2>1
<1>3. CASE Bad # {}
  <2>1. Bad \in SUBSET Nat
    OBVIOUS
  <2> HIDE DEF Bad
  <2>2. PICK m \in Bad : \A y \in Bad : m <= y
    BY <1>3, <2>1, NatMin
  <2> USE DEF Bad
  <2>3. m # 0
    BY <1>1, <2>2 DEF IsPartial
  <2>4. m - 1 \in 0..N /\ s[m - 1] = 0
    BY <2>2, <2>3
  <2>5. s[m] = s[m - 1] + f[m - 1] /\ f[m - 1] = 0
    BY <1>1, <2>2, <2>3 DEF IsPartial
  <2> QED
    BY <2>2, <2>4, <2>5
<1> QED
  BY <1>2, <1>3
=============================================================================
