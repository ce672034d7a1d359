----------------------------- MODULE FormulaProofs -----------------------------
(***************************************************************************)
(* What the proofs of the components need to know of the fixed-point       *)
(* operators of formulas.jl and design.jl.                                 *)
(***************************************************************************)
EXTENDS FloodDesign, Roots, FiniteSetTheorems, TLAPS

\* The fixed-point operators return integers.

LEMMA MulInt == ASSUME NEW a \in Int, NEW b \in Int PROVE Mul(a, b) \in Int
BY DEF Mul, S

LEMMA LongDivInt ==
    ASSUME NEW a \in Int, NEW b \in Int, b > 0
    PROVE  LongDiv(a, b) \in Int
BY DEF LongDiv, S

LEMMA QuotInt == ASSUME NEW a \in Int, NEW b \in Int PROVE Quot(a, b) \in Int
<1>1. CASE b > 0
  BY <1>1, LongDivInt DEF Quot
<1>2. CASE b < 0
  <2>1. LongDiv(-a, -b) \in Int
    BY <1>2, LongDivInt
  <2>. QED BY <1>2, <2>1 DEF Quot
<1>3. CASE b = 0
  BY <1>3 DEF Quot, Inf
<1>. QED BY <1>1, <1>2, <1>3

LEMMA WeightInt ==
    ASSUME NEW sp \in Int, NEW x \in Int, NEW y \in Int, NEW z \in Int
    PROVE  weight(sp, x, y, z) \in Int
<1>1. Mul(x, y) \in Int
  BY MulInt
<1>2. Mul(Mul(x, y), z) \in Int
  BY <1>1, MulInt
<1>. QED BY <1>2 DEF weight

LEMMA LeverInt ==
    ASSUME NEW x \in Int, NEW z \in Int
    PROVE  heel(x, z) \in Int /\ toe(x, z) \in Int
BY DEF heel, toe

LEMMA HalfInt == ASSUME NEW a \in Int PROVE a \div 2 \in Int
OBVIOUS

LEMMA ThirdInt == ASSUME NEW a \in Int PROVE a \div 3 \in Int /\ (2 * a) \div 3 \in Int
OBVIOUS

LEMMA Fboy1Int ==
    ASSUME NEW a \in Int, NEW H \in Int, NEW twall \in Int, NEW ah \in Int,
           NEW t \in Int, NEW len \in Int
    PROVE  fboy1(a, H, twall, ah, t, len) \in Int
<1>. DEFINE half == twall \div 2
<1>1. half \in Int
  BY HalfInt
<1>. HIDE DEF half
<1>2. Mul(ah, half) \in Int
  BY <1>1, MulInt
<1>3. Mul(Mul(ah, half), t) \in Int
  BY <1>2, MulInt
<1>4. Mul(H * half + Mul(Mul(ah, half), t), len) \in Int
  BY <1>1, <1>3, MulInt
<1>. QED BY <1>4 DEF fboy1, half

LEMMA Fboy2Int ==
    ASSUME NEW gm \in Int, NEW c \in Int, NEW twall \in Int, NEW tf \in Int, NEW lent \in Int
    PROVE  fboy2(gm, c, twall, tf, lent) \in Int
<1>. DEFINE half == twall \div 2
<1>1. half \in Int
  BY HalfInt
<1>. HIDE DEF half
<1>2. Mul(half, tf) \in Int
  BY <1>1, MulInt
<1>3. Mul(lent, c + Mul(half, tf)) \in Int
  BY <1>2, MulInt
<1>. QED BY <1>3 DEF fboy2, half

LEMMA MomentInt ==
    ASSUME NEW f \in Int, NEW g \in Int, NEW x \in Int, NEW y \in Int
    PROVE  /\ M_sta(f, x, y) \in Int
           /\ M_fp(f, x) \in Int
           /\ M_bouy(f, g, x) \in Int
           /\ Mbse(f, x) \in Int
           /\ Mwallwt(f, x, y) \in Int
           /\ Mwh(f, x, y) \in Int
           /\ Mfwall(f, x) \in Int
           /\ Mfkey(f, x) \in Int
<1>1. /\ (x * S + y) \div 3 \in Int
      /\ x \div 2 \in Int /\ y \div 2 \in Int
      /\ x \div 3 \in Int /\ (2 * x) \div 3 \in Int
  BY HalfInt, ThirdInt DEF S
<1>2. M_sta(f, x, y) \in Int
  BY <1>1, MulInt DEF M_sta
<1>3. M_fp(f, x) \in Int /\ Mfwall(f, x) \in Int /\ Mbse(f, x) \in Int /\ Mfkey(f, x) \in Int
  BY <1>1, MulInt DEF M_fp, Mfwall, Mbse, Mfkey
<1>4. M_bouy(f, g, x) \in Int
  <2>1. Mul(f, x \div 3) \in Int
    BY <1>1, MulInt
  <2>2. Mul(g, (2 * x) \div 3) \in Int
    BY <1>1, MulInt
  <2>. QED BY <2>1, <2>2 DEF M_bouy
<1>5. Mwallwt(f, x, y) \in Int
  <2>1. x + y \div 2 \in Int
    BY <1>1
  <2>. QED BY <2>1, MulInt DEF Mwallwt
<1>6. Mwh(f, x, y) \in Int
  <2>1. x - y \div 2 \in Int
    BY <1>1
  <2>. QED BY <2>1, MulInt DEF Mwh
<1>. QED BY <1>2, <1>3, <1>4, <1>5, <1>6

\* The push of the water and the overturning moment of any footing in integers.
LEMMA PushInt ==
    ASSUME NEW b, b.height \in Int, b.span_length \in Int, b.wall_t \in Int
    PROVE  Fst(b) \in Int
<1>2. Sq(b.height) \in Int
  BY DEF Sq, Int8
<1>3. tst(b.span_length, b.wall_t) \in Int
  BY DEF tst, S
<1>4. tst(b.span_length, b.wall_t) * spec_water * Sq(b.height) \in Int
  BY <1>2, <1>3 DEF spec_water
<1>. QED BY <1>4 DEF Fst, F_sta

LEMMA OverturningMomentInt ==
    ASSUME NEW b, b.height \in Int, b.span_length \in Int, b.wall_t \in Int,
           b.base_width \in Int, b.base_length \in Int, b.base_thickness \in Int
    PROVE  Mov(b) \in Int
<1>1. /\ b.height \in Int /\ b.wall_t \in Int /\ b.base_width \in Int
      /\ b.base_length \in Int /\ b.base_thickness \in Int /\ spec_water \in Int
  BY DEF spec_water
<1>. DEFINE hel == heel(b.base_width, b.wall_t)
            toy == toe(b.base_width, b.wall_t)
            fb1 == fboy1(spec_water, b.height, b.wall_t, hel, b.base_thickness, b.base_length)
            fb2 == fboy2(spec_water, toy, b.wall_t, b.base_thickness, b.base_length)
<1>2. hel \in Int /\ toy \in Int
  BY <1>1, LeverInt
<1>. HIDE DEF hel, toy
<1>3. fb1 \in Int /\ fb2 \in Int
  BY <1>1, <1>2, Fboy1Int, Fboy2Int
<1>. HIDE DEF fb1, fb2
<1>4. M_bouy(fb1, fb2, b.base_width) \in Int
  BY <1>1, <1>3, MomentInt
<1>5. M_sta(Fst(b), b.height, b.base_thickness) \in Int
  BY <1>1, PushInt, MomentInt
<1>. QED BY <1>4, <1>5 DEF Mov, fb1, fb2, hel, toy

\* A number that is divided once more does not grow, if it stays positive.
LEMMA QuotientBelow ==
    ASSUME NEW a \in Int, NEW k \in Nat \ {0}, a \div k > 0
    PROVE  a \div k <= a
<1>1. a = k * (a \div k) + (a % k) /\ a % k >= 0 /\ a \div k \in Int /\ a % k \in Int
  OBVIOUS
<1>2. k * (a \div k) >= a \div k
  BY <1>1
<1>. QED BY <1>1, <1>2

\* A count of the numbers of an interval is a natural number.
LEMMA CountNat ==
    ASSUME NEW a \in Int, NEW b \in Int, NEW T \in SUBSET (a .. b)
    PROVE  Cardinality(T) \in Nat
<1>1. IsFiniteSet(a .. b)
  BY FS_Interval
<1>2. IsFiniteSet(T)
  BY <1>1, FS_Subset
<1>. QED BY <1>2, FS_CardinalityType

LEMMA IsqrtNat == ASSUME NEW n PROVE Isqrt(n) \in Nat
<1>. DEFINE AtMost(r) == n \div r >= r
            coarse    == 200 * Cardinality({q \in 1 .. 231 : AtMost(200 * q)})
            Fine      == {r \in coarse + 1 .. coarse + 199 : AtMost(r)}
<1>1. coarse \in Nat
  <2>1. Cardinality({q \in 1 .. 231 : AtMost(200 * q)}) \in Nat
    BY CountNat
  <2>. QED BY <2>1
<1>2. Cardinality(Fine) \in Nat
  <2>. HIDE DEF coarse
  <2>1. coarse + 1 \in Int /\ coarse + 199 \in Int
    BY <1>1
  <2>2. Fine \subseteq coarse + 1 .. coarse + 199
    OBVIOUS
  <2>. HIDE DEF Fine
  <2>. QED BY <2>1, <2>2, CountNat
<1>. QED BY <1>1, <1>2 DEF Isqrt

\* Larger numbers have larger quotients, and larger roots: where the count in steps
\* of two hundred is equal the single steps decide, else they cannot make up for it.
LEMMA QuotientGrows ==
    ASSUME NEW x \in Int, NEW y \in Int, x <= y, NEW k \in Nat \ {0}
    PROVE  x \div k <= y \div k
<1>. DEFINE p == x \div k
            q == y \div k
<1>1. p \in Int /\ x % k \in Int /\ x = k * p + (x % k) /\ 0 <= x % k
  OBVIOUS
<1>2. q \in Int /\ y % k \in Int /\ y = k * q + (y % k) /\ y % k < k
  OBVIOUS
<1>. HIDE DEF p, q
<1>3. ASSUME q + 1 <= p PROVE FALSE
  <2>1. k * (q + 1) <= k * p
    BY <1>1, <1>2, <1>3
  <2>2. k * (q + 1) = k * q + k
    BY <1>2
  <2>3. k * p \in Int /\ k * q \in Int
    BY <1>1, <1>2
  <2>. QED BY <1>1, <1>2, <2>1, <2>2, <2>3
<1>4. p <= q
  BY <1>1, <1>2, <1>3
<1>. QED BY <1>4 DEF p, q

LEMMA CountGrows ==
    ASSUME NEW a \in Int, NEW b \in Int, NEW U \in SUBSET (a .. b), NEW T \in SUBSET U
    PROVE  Cardinality(T) <= Cardinality(U)
<1>1. IsFiniteSet(a .. b)
  BY FS_Interval
<1>2. IsFiniteSet(U)
  BY <1>1, FS_Subset
<1>. QED BY <1>2, FS_Subset

LEMMA IsqrtGrows ==
    ASSUME NEW x \in Int, NEW y \in Int, x <= y
    PROVE  Isqrt(x) <= Isqrt(y)
<1>. DEFINE Steps(n)   == {q \in 1 .. 231 : n \div (200 * q) >= 200 * q}
            Coarse(n)  == 200 * Cardinality(Steps(n))
            Fine(n, c) == {r \in c + 1 .. c + 199 : n \div r >= r}
<1>1. Isqrt(x) = Coarse(x) + Cardinality(Fine(x, Coarse(x)))
  BY DEF Isqrt
<1>2. Isqrt(y) = Coarse(y) + Cardinality(Fine(y, Coarse(y)))
  BY DEF Isqrt
<1>3. /\ Cardinality(Steps(x)) \in Nat /\ Cardinality(Steps(y)) \in Nat
      /\ Cardinality(Steps(x)) <= Cardinality(Steps(y))
  <2>1. Steps(y) \in SUBSET (1 .. 231) /\ Steps(x) \in SUBSET (1 .. 231)
    OBVIOUS
  <2>2. Steps(x) \in SUBSET Steps(y)
    <3>. SUFFICES ASSUME NEW q \in 1 .. 231, x \div (200 * q) >= 200 * q
                  PROVE  y \div (200 * q) >= 200 * q
      OBVIOUS
    <3>1. 200 * q \in Nat \ {0}
      OBVIOUS
    <3>2. x \div (200 * q) <= y \div (200 * q)
      BY <3>1, QuotientGrows
    <3>3. x \div (200 * q) \in Int /\ y \div (200 * q) \in Int
      BY <3>1
    <3>. QED BY <3>1, <3>2, <3>3
  <2>. HIDE DEF Steps
  <2>3. 1 \in Int /\ 231 \in Int
    OBVIOUS
  <2>5. Cardinality(Steps(x)) \in Nat /\ Cardinality(Steps(y)) \in Nat
    BY <2>1, <2>3, CountNat, Zenon
  <2>4. Cardinality(Steps(x)) <= Cardinality(Steps(y))
    BY <2>1, <2>2, CountGrows
  <2>. QED BY <2>4, <2>5
<1>. HIDE DEF Steps
<1>4. Coarse(x) \in Nat /\ Coarse(y) \in Nat
  BY <1>3
<1>5. ASSUME NEW n \in Int, NEW c \in Nat
      PROVE  Cardinality(Fine(n, c)) \in 0 .. 199
  <2>1. Fine(n, c) \in SUBSET (c + 1 .. c + 199)
    OBVIOUS
  <2>2. c + 1 \in Int /\ c + 199 \in Int
    OBVIOUS
  <2>. HIDE DEF Fine
  <2>3. Cardinality(Fine(n, c)) \in Nat
    BY <2>1, <2>2, CountNat
  <2>4. Cardinality(Fine(n, c)) <= Cardinality(c + 1 .. c + 199)
    <3>1. c + 1 .. c + 199 \in SUBSET (c + 1 .. c + 199)
      OBVIOUS
    <3>. QED BY <2>1, <2>2, <3>1, CountGrows
  <2>5. Cardinality(c + 1 .. c + 199) = 199
    <3>1. Cardinality(c + 1 .. c + 199) =
              IF c + 1 > c + 199 THEN 0 ELSE (c + 199) - (c + 1) + 1
      BY <2>2, FS_Interval
    <3>. QED BY <3>1
  <2>. DEFINE count == Cardinality(Fine(n, c))
  <2>6. count \in Nat /\ count <= 199
    BY <2>3, <2>4, <2>5
  <2>. HIDE DEF count
  <2>7. count \in 0 .. 199
    BY <2>6
  <2>. QED BY <2>7 DEF count
<1>6. CASE Cardinality(Steps(x)) = Cardinality(Steps(y))
  <2>. DEFINE c == Coarse(y)
  <2>1. Coarse(x) = c /\ c \in Nat
    BY <1>4, <1>6
  <2>. HIDE DEF c
  <2>2. Fine(x, c) \in SUBSET Fine(y, c)
    <3>. SUFFICES ASSUME NEW r \in c + 1 .. c + 199, x \div r >= r
                  PROVE  y \div r >= r
      OBVIOUS
    <3>1. r \in Nat \ {0}
      BY <2>1
    <3>2. x \div r <= y \div r
      BY <3>1, QuotientGrows
    <3>3. x \div r \in Int /\ y \div r \in Int
      BY <3>1
    <3>. QED BY <3>1, <3>2, <3>3
  <2>3. Fine(y, c) \in SUBSET (c + 1 .. c + 199)
    OBVIOUS
  <2>4. c + 1 \in Int /\ c + 199 \in Int
    BY <2>1
  <2>. HIDE DEF Fine
  <2>5. Cardinality(Fine(x, c)) \in 0 .. 199 /\ Cardinality(Fine(y, c)) \in 0 .. 199
    BY <1>5, <2>1
  <2>6. Cardinality(Fine(x, c)) <= Cardinality(Fine(y, c))
    BY <2>2, <2>3, <2>4, CountGrows
  <2>7. Isqrt(x) = c + Cardinality(Fine(x, c)) /\ Isqrt(y) = c + Cardinality(Fine(y, c))
    BY <1>1, <1>2, <2>1 DEF c
  <2>. DEFINE fx == Cardinality(Fine(x, c))
            fy == Cardinality(Fine(y, c))
  <2>8. fx \in 0 .. 199 /\ fy \in 0 .. 199 /\ fx <= fy
    BY <2>5, <2>6
  <2>. HIDE DEF fx, fy
  <2>9. c + fx <= c + fy
    BY <2>1, <2>8
  <2>. QED BY <2>7, <2>9 DEF fx, fy
<1>7. CASE Cardinality(Steps(x)) < Cardinality(Steps(y))
  <2>1. Coarse(x) + 200 <= Coarse(y)
    BY <1>3, <1>7
  <2>. HIDE DEF Coarse, Fine
  <2>2. /\ Cardinality(Fine(x, Coarse(x))) \in 0 .. 199
        /\ Cardinality(Fine(y, Coarse(y))) \in 0 .. 199
    BY <1>4, <1>5
  <2>. DEFINE cx == Coarse(x)
              cy == Coarse(y)
              fx == Cardinality(Fine(x, cx))
              fy == Cardinality(Fine(y, cy))
  <2>3. fx \in 0 .. 199 /\ fy \in 0 .. 199
    BY <2>2
  <2>4. cx \in Nat /\ cy \in Nat /\ cx + 200 <= cy
    BY <1>4, <2>1
  <2>5. Isqrt(x) = cx + fx /\ Isqrt(y) = cy + fy
    BY <1>1, <1>2
  <2>. HIDE DEF cx, cy, fx, fy
  <2>. QED BY <2>3, <2>4, <2>5
<1>. QED BY <1>3, <1>6, <1>7

\* Order and products.
LEMMA TimesGrows ==
    ASSUME NEW a \in Int, NEW c \in Int, NEW b \in Nat, a <= c
    PROVE  a * b <= c * b
<1>1. PICK d \in Nat : c = a + d
  <2>1. c - a \in Nat /\ c = a + (c - a)
    OBVIOUS
  <2>. QED BY <2>1
<1>2. (a + d) * b = a * b + d * b /\ d * b \in Nat /\ a * b \in Int
  OBVIOUS
<1>. QED BY <1>1, <1>2

\* Splitting the factor does not change the product: it is rounded down once.
LEMMA MulExact ==
    ASSUME NEW a \in Int, NEW b \in Int
    PROVE  Mul(a, b) = (a * b) \div S
<1>. DEFINE q == a \div S
            r == a % S
            m == q * b
            n == r * b
<1>1. q \in Int /\ r \in Int /\ a = 1000 * q + r
  BY DEF S
<1>. HIDE DEF q, r
<1>2. m \in Int /\ n \in Int
  BY <1>1
<1>3. a * b = 1000 * m + n
  <2>1. a * b = (1000 * q + r) * b
    BY <1>1
  <2>2. (1000 * q + r) * b = 1000 * (q * b) + r * b
    BY <1>1
  <2>. QED BY <2>1, <2>2
<1>4. Mul(a, b) = m + n \div 1000
  BY DEF Mul, S, q, r
<1>. HIDE DEF m, n
<1>5. (1000 * m + n) \div 1000 = m + n \div 1000
  BY <1>2
<1>. QED BY <1>3, <1>4, <1>5 DEF S

\* Division by a positive integer leaves a remainder smaller than it.
LEMMA Divides ==
    ASSUME NEW a \in Int, NEW b \in Nat, b > 0
    PROVE  /\ a \div b \in Int /\ a % b \in Nat /\ a % b < b
           /\ a = (a \div b) * b + (a % b)
OBVIOUS

\* Long division rounds the quotient of the thousandths down.
LEMMA LongDivides ==
    ASSUME NEW a \in Int, NEW b \in Nat, b > 0
    PROVE  /\ LongDiv(a, b) \in Int
           /\ LongDiv(a, b) * b <= 1000 * a
           /\ 1000 * a < (LongDiv(a, b) + 1) * b
<1>. DEFINE q == a \div b
            r == a % b
            d1 == (10 * r) \div b
            s1 == (10 * r) % b
            d2 == (10 * s1) \div b
            s2 == (10 * s1) % b
            d3 == (10 * s2) \div b
            s3 == (10 * s2) % b
            n == 1000 * q + 100 * d1 + 10 * d2 + d3
<1>1. q \in Int /\ r \in Nat /\ a = q * b + r
  BY Divides
<1>. HIDE DEF q, r
<1>2. d1 \in Int /\ s1 \in Nat /\ 10 * r = d1 * b + s1
  BY <1>1, Divides
<1>. HIDE DEF d1, s1
<1>3. d2 \in Int /\ s2 \in Nat /\ 10 * s1 = d2 * b + s2
  BY <1>2, Divides
<1>. HIDE DEF d2, s2
<1>4. d3 \in Int /\ s3 \in Nat /\ s3 < b /\ 10 * s2 = d3 * b + s3
  BY <1>3, Divides
<1>. HIDE DEF d3, s3
<1>5. n \in Int
  BY <1>1, <1>2, <1>3, <1>4
<1>6. LongDiv(a, b) = n
  BY DEF LongDiv, S, q, r, d1, s1, d2, s2, d3, s3
<1>7. n * b = 1000 * (q * b) + 100 * (d1 * b) + 10 * (d2 * b) + d3 * b
  BY <1>1, <1>2, <1>3, <1>4
<1>8. (n + 1) * b = n * b + b
  BY <1>5
<1>9. q * b \in Int /\ d1 * b \in Int /\ d2 * b \in Int /\ d3 * b \in Int /\ n * b \in Int
  BY <1>1, <1>2, <1>3, <1>4, <1>5
<1>. HIDE DEF n
<1>10. 1000 * a = n * b + s3
  BY <1>1, <1>2, <1>3, <1>4, <1>7, <1>9
<1>. QED BY <1>4, <1>5, <1>6, <1>8, <1>9, <1>10

----------------------------------------------------------------------------
\* The square root, exactly.

\* The members of a set without gaps are those that its size reaches.
LEMMA InitialCount ==
    ASSUME NEW lo \in Int, NEW hi \in Int, NEW T \in SUBSET (lo .. hi),
           \A t \in T : lo .. t \subseteq T,
           NEW r \in lo .. hi
    PROVE  Cardinality(T) \in Nat /\ (r \in T <=> r < lo + Cardinality(T))
<1>0. Cardinality(T) \in Nat
  BY CountNat
<1>1. ASSUME r \in T PROVE r < lo + Cardinality(T)
  <2>1. lo .. r \in SUBSET T
    BY <1>1
  <2>2. Cardinality(lo .. r) <= Cardinality(T)
    BY <2>1, CountGrows
  <2>3. Cardinality(lo .. r) = IF lo > r THEN 0 ELSE r - lo + 1
    BY FS_Interval
  <2>. QED BY <1>0, <2>2, <2>3
<1>2. ASSUME r \notin T PROVE ~(r < lo + Cardinality(T))
  <2>. DEFINE p == r - 1
  <2>0. p \in Int /\ p = r - 1
    OBVIOUS
  <2>. HIDE DEF p
  <2>1. T \in SUBSET (lo .. p)
    <3>. SUFFICES ASSUME NEW q \in T, ~(q <= p) PROVE FALSE
      BY <2>0
    <3>1. q \in Int /\ r <= q
      BY <2>0
    <3>2. r \in lo .. q
      BY <3>1
    <3>. QED BY <1>2, <3>2
  <2>2. Cardinality(T) <= Cardinality(lo .. p)
    <3>1. lo .. p \in SUBSET (lo .. p)
      OBVIOUS
    <3>. QED BY <2>0, <2>1, <3>1, CountGrows
  <2>3. Cardinality(lo .. p) = IF lo > p THEN 0 ELSE p - lo + 1
    BY <2>0, FS_Interval
  <2>. QED BY <1>0, <2>0, <2>2, <2>3
<1>. QED BY <1>0, <1>1, <1>2

\* A quotient reaches its divisor where the square does not exceed the dividend.
LEMMA SquareReached ==
    ASSUME NEW x \in Int, NEW r \in Nat \ {0}
    PROVE  x \div r >= r <=> r * r <= x
<1>. DEFINE p == x \div r
<1>1. p \in Int /\ x % r \in Int /\ x = p * r + (x % r) /\ 0 <= x % r /\ x % r < r
  BY Divides
<1>. HIDE DEF p
<1>2. ASSUME p >= r PROVE r * r <= x
  <2>1. r * r <= p * r
    BY <1>1, <1>2, TimesGrows
  <2>2. r * r \in Int /\ p * r \in Int
    BY <1>1
  <2>. QED BY <1>1, <2>1, <2>2
<1>3. ASSUME p + 1 <= r PROVE x < r * r
  <2>1. (p + 1) * r <= r * r
    BY <1>1, <1>3, TimesGrows
  <2>2. (p + 1) * r = p * r + r
    BY <1>1
  <2>3. r * r \in Int /\ p * r \in Int
    BY <1>1
  <2>. QED BY <1>1, <2>1, <2>2, <2>3
<1>4. r * r \in Int
  OBVIOUS
<1>5. p >= r \/ p + 1 <= r
  BY <1>1
<1>6. x < r * r => ~(r * r <= x)
  BY <1>4
<1>7. p + 1 <= r => ~(p >= r)
  BY <1>1
<1>. QED BY <1>2, <1>3, <1>5, <1>6, <1>7 DEF p

LEMMA SquareGrows ==
    ASSUME NEW a \in Nat, NEW b \in Nat, a <= b
    PROVE  a * a \in Nat /\ b * b \in Nat /\ a * a <= b * b
<1>1. a * a <= b * a
  BY TimesGrows
<1>2. a * b <= b * b
  BY TimesGrows
<1>3. a * b = b * a /\ a * b \in Nat /\ a * a \in Nat /\ b * b \in Nat
  OBVIOUS
<1>. QED BY <1>1, <1>2, <1>3

\* The two counts of Isqrt, of steps of two hundred and of single steps.
RootSteps(x, m)   == {q \in 1 .. m : x \div (200 * q) >= 200 * q}
RootFine(x, a, b) == {s \in a .. b : x \div s >= s}

LEMMA FineReaches ==
    ASSUME NEW x \in Int, NEW a \in Nat \ {0}, NEW b \in Nat, NEW s \in a .. b
    PROVE  s * s <= x <=> s < a + Cardinality(RootFine(x, a, b))
<1>1. ASSUME NEW t \in a .. b PROVE t \in RootFine(x, a, b) <=> t * t <= x
  <2>1. t \in Nat \ {0}
    OBVIOUS
  <2>2. x \div t >= t <=> t * t <= x
    BY <2>1, SquareReached
  <2>. QED BY <2>2 DEF RootFine
<1>2. ASSUME NEW t \in RootFine(x, a, b), NEW p \in a .. t PROVE p \in RootFine(x, a, b)
  <2>1. t \in a .. b
    BY DEF RootFine
  <2>2. p \in a .. b /\ p \in Nat /\ t \in Nat /\ p <= t
    BY <2>1
  <2>3. t * t <= x
    BY <1>1, <2>1
  <2>4. p * p \in Nat /\ t * t \in Nat /\ p * p <= t * t
    BY <2>2, SquareGrows
  <2>5. p * p <= x
    BY <2>3, <2>4
  <2>. QED BY <1>1, <2>2, <2>5
<1>3. RootFine(x, a, b) \in SUBSET (a .. b)
  BY DEF RootFine
<1>4. a \in Int /\ b \in Int /\ \A t \in RootFine(x, a, b) : a .. t \subseteq RootFine(x, a, b)
  BY <1>2
<1>. QED BY <1>1, <1>3, <1>4, InitialCount

LEMMA FineCount ==
    ASSUME NEW x \in Int, NEW a \in Nat, NEW b \in Nat, a <= b
    PROVE  /\ Cardinality(RootFine(x, a, b)) \in Nat
           /\ Cardinality(RootFine(x, a, b)) <= b - a + 1
<1>0. a \in Int /\ b \in Int
  OBVIOUS
<1>1. RootFine(x, a, b) \in SUBSET (a .. b) /\ a .. b \in SUBSET (a .. b)
  BY DEF RootFine
<1>2. Cardinality(RootFine(x, a, b)) \in Nat
  BY ONLY <1>0, <1>1, CountNat
<1>3. Cardinality(RootFine(x, a, b)) <= Cardinality(a .. b)
  BY ONLY <1>0, <1>1, CountGrows
<1>4. Cardinality(a .. b) = IF a > b THEN 0 ELSE b - a + 1
  BY FS_Interval
<1>. QED BY <1>2, <1>3, <1>4

LEMMA StepReaches ==
    ASSUME NEW x \in Int, NEW m \in Nat, NEW q \in 1 .. m
    PROVE  q \in RootSteps(x, m) <=> (200 * q) * (200 * q) <= x
<1>. DEFINE y == 200 * q
<1>1. y \in Nat \ {0}
  OBVIOUS
<1>2. q \in RootSteps(x, m) <=> x \div y >= y
  BY DEF RootSteps
<1>. HIDE DEF y
<1>3. x \div y >= y <=> y * y <= x
  BY <1>1, SquareReached
<1>. QED BY <1>2, <1>3 DEF y

LEMMA StepCount ==
    ASSUME NEW x \in Int, NEW m \in Nat
    PROVE  /\ Cardinality(RootSteps(x, m)) \in Nat
           /\ Cardinality(RootSteps(x, m)) <= m
           /\ \A q \in 1 .. m : q < 1 + Cardinality(RootSteps(x, m))
                                   <=> (200 * q) * (200 * q) <= x
<1>1. ASSUME NEW t \in RootSteps(x, m), NEW p \in 1 .. t PROVE p \in RootSteps(x, m)
  <2>. DEFINE y == 200 * p
              z == 200 * t
  <2>1. t \in 1 .. m
    BY DEF RootSteps
  <2>2. p \in 1 .. m /\ y \in Nat /\ z \in Nat /\ y <= z
    BY <2>1
  <2>3. z * z <= x
    BY <2>1, StepReaches
  <2>4. y * y <= x => p \in RootSteps(x, m)
    BY <2>2, StepReaches
  <2>. HIDE DEF y, z
  <2>5. y * y \in Nat /\ z * z \in Nat /\ y * y <= z * z
    BY <2>2, SquareGrows
  <2>6. y * y <= x
    BY <2>3, <2>5
  <2>. QED BY <2>4, <2>6
<1>2. /\ RootSteps(x, m) \in SUBSET (1 .. m) /\ 1 .. m \in SUBSET (1 .. m)
      /\ 1 \in Int /\ m \in Int
  BY DEF RootSteps
<1>3. \A t \in RootSteps(x, m) : 1 .. t \subseteq RootSteps(x, m)
  BY <1>1
<1>4. \A q \in 1 .. m : q \in RootSteps(x, m) <=> q < 1 + Cardinality(RootSteps(x, m))
  BY <1>2, <1>3, InitialCount
<1>5. Cardinality(RootSteps(x, m)) \in Nat
  BY <1>2, CountNat
<1>6. Cardinality(RootSteps(x, m)) <= Cardinality(1 .. m)
  BY <1>2, CountGrows
<1>7. Cardinality(1 .. m) = IF 1 > m THEN 0 ELSE m - 1 + 1
  BY <1>2, FS_Interval
<1>8. Cardinality(RootSteps(x, m)) <= m
  BY <1>5, <1>6, <1>7
<1>10. ASSUME NEW q \in 1 .. m
       PROVE  q < 1 + Cardinality(RootSteps(x, m)) <=> (200 * q) * (200 * q) <= x
  <2>1. q < 1 + Cardinality(RootSteps(x, m)) => q \in RootSteps(x, m)
    BY <1>4
  <2>2. q \in RootSteps(x, m) => q < 1 + Cardinality(RootSteps(x, m))
    BY <1>4
  <2>3. q \in RootSteps(x, m) => (200 * q) * (200 * q) <= x
    BY StepReaches
  <2>4. (200 * q) * (200 * q) <= x => q \in RootSteps(x, m)
    BY StepReaches
  <2>. QED BY ONLY <2>1, <2>2, <2>3, <2>4
<1>. QED BY <1>5, <1>8, <1>10

\* Up to the last number it counts, Isqrt is the square root, rounded down.
LEMMA IsqrtReached ==
    ASSUME NEW x \in Int, NEW r \in Nat, 0 < r, r <= 46399
    PROVE  r <= Isqrt(x) <=> r * r <= x
<1>. DEFINE m == 231
            k == Cardinality(RootSteps(x, m))
            c == 200 * k
            a == c + 1
            b == c + 199
            f == Cardinality(RootFine(x, a, b))
<1>1. Isqrt(x) = c + f
  BY DEF Isqrt, RootSteps, RootFine
<1>0. m = 231
  OBVIOUS
<1>00. m \in Nat
  OBVIOUS
<1>. HIDE DEF m
<1>2. k \in Nat /\ k <= 231
  BY <1>0, <1>00, StepCount
<1>3. \A q \in 1 .. m : q < 1 + k <=> (200 * q) * (200 * q) <= x
  BY <1>00, StepCount
<1>. HIDE DEF k
<1>4. /\ c \in Nat /\ c = 200 * k
      /\ a \in Nat \ {0} /\ a = c + 1
      /\ b \in Nat /\ b = c + 199 /\ a <= b /\ a \in Nat
  BY <1>2
<1>. HIDE DEF c, a, b
<1>5. f \in Nat /\ f <= b - a + 1
  <2>1. a \in Nat /\ b \in Nat /\ a <= b /\ x \in Int
    BY <1>4
  <2>. QED BY ONLY <2>1, FineCount
<1>6. ASSUME r \in a .. b PROVE r * r <= x <=> r < a + f
  <2>1. a \in Nat \ {0} /\ b \in Nat /\ r \in a .. b /\ x \in Int
    BY <1>4, <1>6
  <2>. QED BY ONLY <2>1, FineReaches
<1>. HIDE DEF f
<1>7. r * r \in Nat
  OBVIOUS
<1>8. CASE r <= c
  <2>1. k \in 1 .. m /\ k < 1 + k
    BY <1>0, <1>2, <1>4, <1>8
  <2>2. c * c <= x
    <3>1. (200 * k) * (200 * k) <= x
      BY <1>3, <2>1
    <3>. QED BY <1>4, <3>1
  <2>3. c * c \in Nat /\ r * r <= c * c
    BY <1>4, <1>8, SquareGrows
  <2>4. r * r <= x
    BY <1>7, <2>2, <2>3
  <2>. QED BY <1>1, <1>4, <1>5, <1>8, <2>4
<1>9. CASE r \in a .. b
  BY <1>1, <1>4, <1>5, <1>6, <1>7, <1>9
<1>10. CASE r > b
  <2>. DEFINE q == k + 1
              y == 200 * q
  <2>1. q \in 1 .. m /\ ~(q < 1 + k)
    BY <1>0, <1>2, <1>4, <1>10
  <2>3. y \in Nat /\ y <= r
    BY <1>2, <1>4, <1>10
  <2>. HIDE DEF q
  <2>2. ~(y * y <= x)
    BY <1>3, <2>1
  <2>. HIDE DEF y
  <2>4. y * y \in Nat /\ y * y <= r * r
    BY <2>3, SquareGrows
  <2>5. ~(r * r <= x)
    BY <1>7, <2>2, <2>4
  <2>. QED BY <1>1, <1>4, <1>5, <1>10, <2>5
<1>. QED BY <1>4, <1>8, <1>9, <1>10
================================================================================
