------------------------------ MODULE BoltProofs ------------------------------
(***************************************************************************)
(* Proofs about BoltDesign, for every footing, flange and concrete and for *)
(* every depth of the stack.                                               *)
(***************************************************************************)
EXTENDS BoltDesign, FormulaProofs

----------------------------------------------------------------------------
\* What the formulas return.

LEMMA ConeNat ==
    ASSUME NEW fc \in Nat, NEW size \in Sizes
    PROVE  ConeResistance(fc, size) \in Nat
<1>. DEFINE kc == Of("kcr", size)
            he == Of("hef", size)
<1>1. kc \in Nat /\ he \in Nat
  BY DEF Of, Table, Sizes
<1>. HIDE DEF kc, he
<1>2. fc * he \in Nat
  BY <1>1
<1>3. fc * he * he \in Nat
  BY <1>1, <1>2
<1>4. fc * he * he * he \in Int
  BY <1>1, <1>3
<1>5. Isqrt(fc * he * he * he) \in Nat
  BY <1>4, IsqrtNat
<1>6. kc * Isqrt(fc * he * he * he) \in Nat
  BY <1>1, <1>5
<1>. QED BY <1>6 DEF ConeResistance, cconr, kc, he

LEMMA ConvertedInt == ASSUME NEW x \in Int PROVE Converted(x) \in Int
BY DEF Converted, Far

LEMMA EdgeDistanceInt ==
    ASSUME anchor \in AnchorType, flange_coeff \in Int
    PROVE  EdgeDistance \in Int
<1>1. anchor.base_width \in Int /\ anchor.wall_t \in Int
  BY DEF AnchorType
<1>2. toe(anchor.base_width, anchor.wall_t) \in Int
  BY <1>1 DEF toe
<1>3. flange_coeff * anchor.wall_t \in Int
  BY <1>1
<1>4. (flange_coeff * anchor.wall_t) \div 2 \in Int
  BY <1>3
<1>. QED BY <1>2, <1>4 DEF EdgeDistance, DistanceOf

\* A larger bolt shears no earlier.
LEMMA ShearResistanceGrows ==
    ASSUME NEW size \in Sizes
    PROVE  ShearResistance(size) \in Nat /\ ShearResistance(size) <= ShearResistance(6)
BY DEF ShearResistance, Of, Table, Sizes

LEMMA ShearInt == ASSUME NEW a \in AnchorType PROVE Shear(a) \in Int
<1>1. a.height \in Int /\ a.span_length \in Int
  BY DEF AnchorType
<1>2. a.height * a.height \in Int
  BY <1>1
<1>3. Sq(a.height) \in Int
  BY <1>2 DEF Sq, Int8
<1>4. (a.span_length * S) * spec_water * Sq(a.height) \in Int
  BY <1>1, <1>3 DEF S, spec_water
<1>5. F_sta(spec_water, a.height, a.span_length * S) \in Int
  BY <1>4 DEF F_sta
<1>. DEFINE push == F_sta(spec_water, a.height, a.span_length * S)
<1>6. push \in Int
  BY <1>5
<1>. HIDE DEF push
<1>7. (445 * (push \div 1000)) \div 400 \in Int
  BY <1>6
<1>. QED BY <1>7 DEF Shear, push, S

LEMMA FstInt == ASSUME anchor \in AnchorType PROVE fst \in Int
BY ShearInt DEF fst

----------------------------------------------------------------------------
\* How edge_res grows: with the size, and with the conversion concrete_edge repeats.

LEMMA ProductGrows ==
    ASSUME NEW a \in Nat, NEW b \in Nat, NEW c \in Nat, NEW d \in Nat, a <= c, b <= d
    PROVE  a * b \in Nat /\ c * d \in Nat /\ a * b <= c * d
<1>1. a * b <= c * b
  OBVIOUS
<1>2. c * b <= c * d
  OBVIOUS
<1>. QED BY <1>1, <1>2

LEMMA MulGrows ==
    ASSUME NEW a \in Nat, NEW b \in Nat, NEW c \in Nat, NEW d \in Nat, a <= c, b <= d
    PROVE  Mul(a, b) \in Nat /\ Mul(c, d) \in Nat /\ Mul(a, b) <= Mul(c, d)
<1>. DEFINE p == a * b
            q == c * d
<1>1. p \in Nat /\ q \in Nat /\ p <= q
  BY ProductGrows
<1>2. Mul(a, b) = p \div S /\ Mul(c, d) = q \div S
  BY MulExact
<1>. HIDE DEF p, q
<1>3. p \div 1000 \in Nat /\ q \div 1000 \in Nat /\ p \div 1000 <= q \div 1000
  BY <1>1
<1>. QED BY <1>2, <1>3 DEF S

\* A larger divisor leaves a smaller quotient.
LEMMA DivisorShrinks ==
    ASSUME NEW x \in Nat, NEW c \in Nat \ {0}, NEW d \in Nat \ {0}, c <= d
    PROVE  x \div d \in Nat /\ x \div c \in Nat /\ x \div d <= x \div c
<1>. DEFINE p == x \div d
            q == x \div c
<1>1. p \in Int /\ x % d \in Nat /\ x = p * d + (x % d) /\ x % d < d
  BY Divides
<1>2. q \in Int /\ x % c \in Nat /\ x = q * c + (x % c) /\ x % c < c
  BY Divides
<1>. DEFINE r == x % d
            s == x % c
<1>3. p \in Int /\ r \in Nat /\ x = p * d + r /\ r < d
  BY <1>1
<1>4. q \in Int /\ s \in Nat /\ x = q * c + s /\ s < c
  BY <1>2
<1>5. p >= 0 /\ q >= 0
  OBVIOUS
<1>. HIDE DEF p, q, r, s
<1>6. p \in Nat /\ q \in Nat
  BY <1>3, <1>4, <1>5
<1>7. ASSUME q + 1 <= p PROVE FALSE
  <2>1. (q + 1) * c <= p * c
    BY <1>6, <1>7, TimesGrows
  <2>2. c * p <= d * p
    BY <1>6, TimesGrows
  <2>3. (q + 1) * c = q * c + c /\ c * p = p * c /\ d * p = p * d
    BY <1>6
  <2>4. q * c \in Int /\ p * c \in Int /\ p * d \in Int
    BY <1>6
  <2>. QED BY <1>3, <1>4, <2>1, <2>2, <2>3, <2>4
<1>8. p <= q
  BY <1>6, <1>7
<1>. QED BY <1>6, <1>8 DEF p, q

\* The exponents fall with the distance and grow with the bolt.
LEMMA AlphGrows ==
    ASSUME NEW l \in Nat, NEW m \in Nat, l <= m,
           NEW c \in Nat \ {0}, NEW d \in Nat \ {0}, c <= d
    PROVE  alph(l, d) \in Nat /\ alph(m, c) \in Nat /\ alph(l, d) <= alph(m, c)
<1>. DEFINE x == 10000000 * l
            y == 10000000 * m
<1>1. x \in Nat /\ y \in Nat /\ x <= y
  OBVIOUS
<1>. HIDE DEF x, y
<1>2. x \div d \in Nat /\ x \div c \in Nat /\ x \div d <= x \div c
  BY <1>1, DivisorShrinks
<1>3. x \div c <= y \div c /\ y \div c \in Int
  BY <1>1, QuotientGrows
<1>. DEFINE p == x \div d
            q == y \div c
<1>4. p \in Int /\ q \in Int /\ p <= q
  BY <1>2, <1>3
<1>. HIDE DEF p, q
<1>5. Isqrt(p) \in Nat /\ Isqrt(q) \in Nat /\ Isqrt(p) <= Isqrt(q)
  BY <1>4, IsqrtNat, IsqrtGrows
<1>. QED BY <1>5 DEF alph, x, y, p, q

\* What bet counts.
Fifth(r) == (r * r * r * r * r) \div 31250
Counted(q, m) == {r \in 1 .. m : Fifth(r) <= q}

LEMMA FifthGrows ==
    ASSUME NEW r \in Nat, NEW s \in Nat, r <= s
    PROVE  Fifth(r) \in Nat /\ Fifth(s) \in Nat /\ Fifth(r) <= Fifth(s)
<1>1. r * r \in Nat /\ s * s \in Nat /\ r * r <= s * s
  BY ProductGrows
<1>. DEFINE r2 == r * r
            s2 == s * s
            r3 == r2 * r
            s3 == s2 * s
            r4 == r3 * r
            s4 == s3 * s
            r5 == r4 * r
            s5 == s4 * s
<1>2. r2 \in Nat /\ s2 \in Nat /\ r2 <= s2
  BY <1>1
<1>. HIDE DEF r2, s2
<1>3. r3 \in Nat /\ s3 \in Nat /\ r3 <= s3
  BY <1>2, ProductGrows
<1>. HIDE DEF r3, s3
<1>4. r4 \in Nat /\ s4 \in Nat /\ r4 <= s4
  BY <1>3, ProductGrows
<1>. HIDE DEF r4, s4
<1>5. r5 \in Nat /\ s5 \in Nat /\ r5 <= s5
  BY <1>4, ProductGrows
<1>. HIDE DEF r5, s5
<1>6. r5 \div 31250 \in Nat /\ s5 \div 31250 \in Nat /\ r5 \div 31250 <= s5 \div 31250
  BY <1>5
<1>. QED BY <1>6 DEF Fifth, r2, s2, r3, s3, r4, s4, r5, s5

LEMMA CountedGrows ==
    ASSUME NEW m \in Nat, NEW p \in Int, NEW q \in Int, p <= q
    PROVE  /\ Cardinality(Counted(p, m)) \in Nat /\ Cardinality(Counted(q, m)) \in Nat
           /\ Cardinality(Counted(p, m)) <= Cardinality(Counted(q, m))
<1>1. Counted(p, m) \in SUBSET (1 .. m) /\ Counted(q, m) \in SUBSET (1 .. m)
  BY DEF Counted
<1>2. Counted(p, m) \in SUBSET Counted(q, m)
  <2>. SUFFICES ASSUME NEW r \in Counted(p, m) PROVE r \in Counted(q, m)
    OBVIOUS
  <2>1. r \in 1 .. m /\ Fifth(r) <= p
    BY DEF Counted
  <2>2. Fifth(r) \in Nat
    BY <2>1, FifthGrows
  <2>3. Fifth(r) <= q
    BY <2>1, <2>2
  <2>. QED BY <2>1, <2>3 DEF Counted
<1>3. 1 \in Int /\ m \in Int
  OBVIOUS
<1>. QED BY <1>1, <1>2, <1>3, CountNat, CountGrows

\* How far it counts.
LEMMA CountedReaches ==
    ASSUME NEW m \in Nat, NEW q \in Int, NEW r \in 1 .. m
    PROVE  Fifth(r) <= q <=> r < 1 + Cardinality(Counted(q, m))
<1>1. ASSUME NEW t \in Counted(q, m), NEW p \in 1 .. t PROVE p \in Counted(q, m)
  <2>1. t \in 1 .. m /\ Fifth(t) <= q
    BY DEF Counted
  <2>2. p \in 1 .. m /\ p \in Nat /\ t \in Nat /\ p <= t
    BY <2>1
  <2>3. Fifth(p) \in Nat /\ Fifth(t) \in Nat /\ Fifth(p) <= Fifth(t)
    BY <2>2, FifthGrows
  <2>4. Fifth(p) <= q
    BY <2>1, <2>3
  <2>. QED BY <2>2, <2>4 DEF Counted
<1>2. Counted(q, m) \in SUBSET (1 .. m) /\ 1 \in Int /\ m \in Int
  BY DEF Counted
<1>3. \A t \in Counted(q, m) : 1 .. t \subseteq Counted(q, m)
  BY <1>1
<1>4. r \in Counted(q, m) <=> r < 1 + Cardinality(Counted(q, m))
  BY <1>2, <1>3, InitialCount
<1>5. r \in Counted(q, m) <=> Fifth(r) <= q
  BY DEF Counted
<1>6. r < 1 + Cardinality(Counted(q, m)) => r \in Counted(q, m)
  BY <1>4
<1>7. r \in Counted(q, m) => r < 1 + Cardinality(Counted(q, m))
  BY <1>4
<1>. QED BY ONLY <1>5, <1>6, <1>7

LEMMA BetGrows ==
    ASSUME NEW l \in Nat, NEW m \in Nat, l <= m,
           NEW c \in Nat \ {0}, NEW d \in Nat \ {0}, c <= d
    PROVE  bet(l, d) \in Nat /\ bet(m, c) \in Nat /\ bet(l, d) <= bet(m, c)
<1>. DEFINE x == 1000000 * l
            y == 1000000 * m
<1>1. x \in Nat /\ y \in Nat /\ x <= y
  OBVIOUS
<1>. HIDE DEF x, y
<1>2. x \div d \in Nat /\ x \div c \in Nat /\ x \div d <= x \div c
  BY <1>1, DivisorShrinks
<1>3. x \div c <= y \div c /\ y \div c \in Int
  BY <1>1, QuotientGrows
<1>. DEFINE p == x \div d
            q == y \div c
            t == 70
            i == Cardinality(Counted(p, t))
            j == Cardinality(Counted(q, t))
<1>4. p \in Int /\ q \in Int /\ p <= q /\ t \in Nat
  BY <1>2, <1>3
<1>. HIDE DEF p, q, t
<1>5. i \in Nat /\ j \in Nat /\ i <= j
  BY <1>4, CountedGrows
<1>6. bet(l, d) = 2 * i /\ bet(m, c) = 2 * j
  BY DEF bet, Counted, Fifth, x, y, p, q, t
<1>. HIDE DEF i, j
<1>. QED BY <1>5, <1>6

\* Where two exponents are known to lie.
LEMMA AlphBelow ==
    ASSUME NEW l \in Nat, NEW c \in Nat \ {0}, NEW r \in Nat, 0 < r, r <= 46399,
           (10000000 * l) \div c < r * r
    PROVE  alph(l, c) < r
<1>. DEFINE x == (10000000 * l) \div c
<1>1. x \in Int /\ r * r \in Int
  OBVIOUS
<1>2. x < r * r
  OBVIOUS
<1>. HIDE DEF x
<1>5. r <= Isqrt(x) <=> r * r <= x
  BY <1>1, IsqrtReached
<1>4. Isqrt(x) \in Nat
  BY IsqrtNat
<1>3. ~(r <= Isqrt(x))
  BY <1>1, <1>2, <1>4, <1>5
<1>. QED BY <1>3, <1>4 DEF alph, x

\* A root that fits under le / c1 is no larger than alph.
LEMMA AlphAbove ==
    ASSUME NEW l \in Nat, NEW c \in Nat \ {0}, NEW r \in Nat, 0 < r, r <= 46399,
           r * r <= (10000000 * l) \div c
    PROVE  r <= alph(l, c)
<1>. DEFINE x == (10000000 * l) \div c
<1>1. x \in Int
  OBVIOUS
<1>2. r * r <= x
  OBVIOUS
<1>. HIDE DEF x
<1>3. r <= Isqrt(x) <=> r * r <= x
  BY <1>1, IsqrtReached
<1>. QED BY <1>2, <1>3 DEF alph, x

\* Which fifth powers fit under dnom / c1 fixes bet to a step of the count.
LEMMA BetLies ==
    ASSUME NEW d \in Nat, NEW c \in Nat \ {0}
    PROVE  /\ bet(d, c) \in Nat /\ bet(d, c) <= 140
           /\ \A r \in Nat \ {0} : r <= 70 /\ (1000000 * d) \div c < Fifth(r)
                                      => bet(d, c) <= 2 * (r - 1)
           /\ \A r \in Nat \ {0} : r <= 70 /\ Fifth(r) <= (1000000 * d) \div c
                                      => 2 * r <= bet(d, c)
<1>. DEFINE x == (1000000 * d) \div c
            m == 70
            i == Cardinality(Counted(x, m))
<1>1. x \in Int
  OBVIOUS
<1>2. bet(d, c) = 2 * i
  BY DEF bet, Counted, Fifth
<1>3. m = 70 /\ m \in Nat
  OBVIOUS
<1>. HIDE DEF x, m
<1>4. Counted(x, m) \in SUBSET (1 .. m) /\ 1 .. m \in SUBSET (1 .. m) /\ 1 \in Int /\ m \in Int
  BY <1>3 DEF Counted
<1>5. i \in Nat /\ i <= Cardinality(1 .. m)
  BY <1>4, CountNat, CountGrows
<1>6. Cardinality(1 .. m) = IF 1 > m THEN 0 ELSE m - 1 + 1
  BY <1>4, FS_Interval
<1>7. i <= 70
  BY <1>3, <1>5, <1>6
<1>8. \A r \in 1 .. m : Fifth(r) <= x <=> r < 1 + i
  BY <1>1, <1>3, CountedReaches
<1>. HIDE DEF i
<1>9. ASSUME NEW r \in Nat \ {0}, r <= 70
      PROVE  Fifth(r) \in Nat /\ (Fifth(r) <= x <=> r < 1 + i)
  <2>1. r \in 1 .. m /\ r \in Nat /\ r <= r
    BY <1>3, <1>9
  <2>. QED BY <1>8, <2>1, FifthGrows
<1>10. ASSUME NEW r \in Nat \ {0}, r <= 70, x < Fifth(r)
       PROVE  bet(d, c) <= 2 * (r - 1)
  <2>1. ~(r < 1 + i)
    BY <1>1, <1>9, <1>10
  <2>. QED BY <1>2, <1>5, <2>1
<1>11. ASSUME NEW r \in Nat \ {0}, r <= 70, Fifth(r) <= x
       PROVE  2 * r <= bet(d, c)
  <2>1. r < 1 + i
    BY <1>9, <1>11
  <2>. QED BY <1>2, <1>5, <2>1
<1>. QED BY <1>2, <1>5, <1>7, <1>10, <1>11 DEF x

\* The series of Exp.
Series(f) ==
    LET square == (f * f) \div S
    IN  S + f + square \div 2 + (square * f) \div (6 * S) + (square * square) \div (24 * S)

LEMMA SeriesGrows ==
    ASSUME NEW f \in Nat, NEW g \in Nat, f <= g, g <= 999
    PROVE  Series(f) \in Nat /\ Series(g) \in Nat /\ 1000 <= Series(f)
           /\ Series(f) <= Series(g) /\ Series(g) <= 2705
<1>0. 999 \in Nat
  OBVIOUS
<1>1. ASSUME NEW x \in Nat, NEW y \in Nat, x <= y
      PROVE  Series(x) \in Nat /\ Series(y) \in Nat /\ 1000 <= Series(x) /\ Series(x) <= Series(y)
  <2>. DEFINE p == (x * x) \div 1000
              q == (y * y) \div 1000
  <2>1. p \in Nat /\ q \in Nat /\ p <= q
    <3>1. x * x \in Nat /\ y * y \in Nat /\ x * x <= y * y
      BY <1>1, ProductGrows
    <3>. QED BY <3>1
  <2>. HIDE DEF p, q
  <2>. DEFINE px == p * x
              qy == q * y
              pp == p * p
              qq == q * q
  <2>2. px \in Nat /\ qy \in Nat /\ px <= qy
    BY <1>1, <2>1, ProductGrows
  <2>3. pp \in Nat /\ qq \in Nat /\ pp <= qq
    BY <2>1, ProductGrows
  <2>4. /\ Series(x) = 1000 + x + p \div 2 + px \div 6000 + pp \div 24000
        /\ Series(y) = 1000 + y + q \div 2 + qy \div 6000 + qq \div 24000
    BY DEF Series, S, p, q
  <2>. HIDE DEF px, qy, pp, qq
  <2>. QED BY <1>1, <2>1, <2>2, <2>3, <2>4
<1>2. Series(999) = 2705
  BY DEF Series, S
<1>3. Series(f) \in Nat /\ Series(g) \in Nat /\ 1000 <= Series(f) /\ Series(f) <= Series(g)
  BY <1>0, <1>1
<1>4. Series(g) <= Series(999)
  BY <1>0, <1>1
<1>. QED BY <1>2, <1>3, <1>4

Power5(i) == IF i = 0 THEN 1000 ELSE IF i = 1 THEN 2718 ELSE IF i = 2 THEN 7389
             ELSE IF i = 3 THEN 20086 ELSE 54598

LEMMA ExpIs ==
    ASSUME NEW x \in Nat, x <= 4999
    PROVE  Exp(x) = (Power5(x \div 1000) * Series(x % 1000)) \div 1000
<1>. DEFINE i == x \div 1000
            f == x % 1000
<1>1. i \in Nat /\ i <= 4 /\ f \in Nat
  OBVIOUS
<1>2. Exp(x) = (<<1000, 2718, 7389, 20086, 54598>>[i + 1] * Series(f)) \div 1000
  BY DEF Exp, Series, S
<1>. HIDE DEF i, f
<1>3. <<1000, 2718, 7389, 20086, 54598>>[i + 1] = Power5(i)
  <2>1. i = 0 \/ i = 1 \/ i = 2 \/ i = 3 \/ i = 4
    BY <1>1
  <2>. QED BY <2>1 DEF Power5
<1>. QED BY <1>2, <1>3 DEF i, f

LEMMA ExpGrows ==
    ASSUME NEW x \in Nat, NEW y \in Nat, x <= y, y <= 4999
    PROVE  /\ Exp(x) \in Nat /\ Exp(y) \in Nat /\ 1000 <= Exp(x) /\ Exp(x) <= Exp(y)
           /\ Exp(y) <= 147687
<1>. DEFINE i == x \div 1000
            j == y \div 1000
            f == x % 1000
            g == y % 1000
<1>0. x <= 4999
  OBVIOUS
<1>1. /\ i \in Nat /\ j \in Nat /\ j <= 4 /\ i <= j
      /\ f \in Nat /\ g \in Nat /\ f <= 999 /\ g <= 999
      /\ i = j => f <= g
  BY <1>0
<1>2. Exp(x) = (Power5(i) * Series(f)) \div 1000 /\ Exp(y) = (Power5(j) * Series(g)) \div 1000
  BY <1>0, ExpIs
<1>. HIDE DEF i, j, f, g
<1>. DEFINE s == Series(f)
            t == Series(g)
<1>3. /\ s \in Nat /\ 1000 <= s /\ s <= 2705
      /\ t \in Nat /\ 1000 <= t /\ t <= 2705
  <2>1. f <= f /\ g <= g
    BY <1>1
  <2>. QED BY <1>1, <2>1, SeriesGrows
<1>4. f <= g => s <= t
  BY <1>1, SeriesGrows
<1>. HIDE DEF s, t
<1>. DEFINE p == Power5(i)
            q == Power5(j)
<1>5. /\ p \in Nat /\ q \in Nat /\ 1000 <= p /\ q <= 54598
      /\ i = j => p = q
      /\ i < j => p * 2705 <= q * 1000
  BY <1>1 DEF Power5
<1>. HIDE DEF p, q
<1>. DEFINE ps == p * s
            qt == q * t
<1>6. ps \in Nat /\ qt \in Nat /\ 1000 * 1000 <= ps /\ qt <= 54598 * 2705
  <2>1. 1000 * 1000 <= p * s
    BY <1>3, <1>5, ProductGrows
  <2>2. q * t <= 54598 * 2705
    BY <1>3, <1>5, ProductGrows
  <2>. QED BY <1>3, <1>5, <2>1, <2>2
<1>7. ps <= qt
  <2>1. CASE i = j
    <3>1. p <= q /\ s <= t
      BY <1>1, <1>4, <1>5, <2>1
    <3>. QED BY <1>3, <1>5, <3>1, ProductGrows
  <2>2. CASE i < j
    <3>1. p * s <= p * 2705 /\ p * 2705 \in Nat
      BY <1>3, <1>5, ProductGrows
    <3>2. q * 1000 <= q * t /\ q * 1000 \in Nat
      BY <1>3, <1>5, ProductGrows
    <3>. QED BY <1>5, <1>6, <2>2, <3>1, <3>2
  <2>. QED BY <1>1, <2>1, <2>2
<1>9. Exp(x) = ps \div 1000 /\ Exp(y) = qt \div 1000
  BY <1>2 DEF p, q, s, t
<1>. HIDE DEF ps, qt
<1>. QED BY <1>6, <1>7, <1>9

\* The two powers of concrete_edge, and c1^1.5.
Grip(size, a, b) == Mul(Exp(Mul(Of("lnd", size), a)), Exp(Mul(Of("lnl", size), b)))
Steel(size, c) == Grip(size, alph(Of("le", size), c), bet(Of("dnom", size), c))
Power(c) == (c * Isqrt(10 * c)) \div 10000

\* How large the entries of the edge check's rows are.
LEMMA Rows ==
    ASSUME NEW k \in Sizes
    PROVE  /\ Of("lnd", k) \in Nat /\ Of("lnd", k) <= 3314
           /\ Of("lnl", k) \in Nat /\ Of("lnl", k) <= 4007
           /\ Of("le", k) \in Nat /\ Of("le", k) <= 55
           /\ Of("dnom", k) \in Nat /\ Of("dnom", k) <= 275
BY DEF Of, Table, Sizes

\* A larger bolt has larger entries in each of those rows.
LEMMA RowsGrow ==
    ASSUME NEW k \in Sizes, NEW m \in Sizes, k <= m
    PROVE  /\ Of("lnd", k) <= Of("lnd", m) /\ Of("lnl", k) <= Of("lnl", m)
           /\ Of("le", k) <= Of("le", m) /\ Of("dnom", k) <= Of("dnom", m)
BY DEF Of, Table, Sizes

\* edge_res as the product of three factors: of the distance, the concrete, the bolt.
LEMMA EdgeResIs ==
    ASSUME NEW k \in Sizes, NEW fc, NEW c \in Nat
    PROVE  edge_res(k, fc, c) =
               (27 * Mul(Mul(Power(c), 10 * Isqrt(10000 * fc)), Steel(k, c))) \div 200
<1>. DEFINE r == Isqrt(10 * c)
            m == c * r
<1>1. r \in Nat
  BY IsqrtNat
<1>. HIDE DEF r
<1>2. m \in Nat
  BY <1>1
<1>3. c * (10 * r) = 10 * m
  BY <1>1
<1>4. Mul(c, 10 * r) = (10 * m) \div 1000
  <2>1. 10 * r \in Int /\ c \in Int
    BY <1>1
  <2>2. Mul(c, 10 * r) = (c * (10 * r)) \div S
    BY <2>1, MulExact
  <2>. QED BY <1>3, <2>2 DEF S
<1>. HIDE DEF m
<1>5. ((10 * m) \div 1000) \div 100 = m \div 10000
  BY <1>2
<1>6. Mul(c, 10 * Isqrt(10 * c)) \div 100 = Power(c)
  BY <1>4, <1>5 DEF Power, r, m
<1>. QED BY <1>6 DEF edge_res, Steel, Grip

LEMMA PowerGrows ==
    ASSUME NEW c \in Nat, NEW d \in Nat, c <= d
    PROVE  Power(c) \in Nat /\ Power(d) \in Nat /\ Power(c) <= Power(d)
<1>. DEFINE r == Isqrt(10 * c)
            s == Isqrt(10 * d)
            p == c * r
            q == d * s
<1>1. r \in Nat /\ s \in Nat /\ r <= s
  <2>1. 10 * c \in Int /\ 10 * d \in Int /\ 10 * c <= 10 * d
    OBVIOUS
  <2>. QED BY <2>1, IsqrtNat, IsqrtGrows
<1>. HIDE DEF r, s
<1>2. p \in Nat /\ q \in Nat /\ p <= q
  BY <1>1, ProductGrows
<1>3. Power(c) = p \div 10000 /\ Power(d) = q \div 10000
  BY DEF Power, p, q, r, s
<1>. HIDE DEF p, q
<1>. QED BY <1>2, <1>3

\* The powers grow with the size and with the exponents.
LEMMA GripGrows ==
    ASSUME NEW k \in Sizes, NEW m \in Sizes, k <= m,
           NEW a \in Nat, NEW b \in Nat, a <= b, b <= 1500,
           NEW e \in Nat, NEW f \in Nat, e <= f, f <= 1200
    PROVE  /\ Grip(k, a, e) \in Nat /\ Grip(m, b, f) \in Nat
           /\ 1000 <= Grip(k, a, e) /\ Grip(k, a, e) <= Grip(m, b, f)
<1>. DEFINE d1 == Of("lnd", k)
            d2 == Of("lnd", m)
            l1 == Of("lnl", k)
            l2 == Of("lnl", m)
<1>1. /\ d1 \in Nat /\ d2 \in Nat /\ d2 <= 3314 /\ d1 <= d2
      /\ l1 \in Nat /\ l2 \in Nat /\ l2 <= 4007 /\ l1 <= l2
  BY Rows, RowsGrow
<1>. HIDE DEF d1, d2, l1, l2
<1>. DEFINE x1 == Mul(d1, a)
            x2 == Mul(d2, b)
            y1 == Mul(l1, e)
            y2 == Mul(l2, f)
<1>2. x1 \in Nat /\ x2 \in Nat /\ x1 <= x2
  BY <1>1, MulGrows
<1>20. y1 \in Nat /\ y2 \in Nat /\ y1 <= y2
  BY <1>1, MulGrows
<1>3. x2 <= 4999 /\ y2 <= 4999
  <2>1. 3314 \in Nat /\ 4007 \in Nat /\ 1500 \in Nat /\ 1200 \in Nat
    OBVIOUS
  <2>2. x2 <= Mul(3314, 1500)
    BY <1>1, <2>1, MulGrows
  <2>3. y2 <= Mul(4007, 1200)
    BY <1>1, <2>1, MulGrows
  <2>4. Mul(3314, 1500) = 4971 /\ Mul(4007, 1200) = 4808
    BY DEF Mul, S
  <2>. QED BY <1>2, <1>20, <2>2, <2>3, <2>4
<1>. HIDE DEF x1, x2, y1, y2
<1>. DEFINE u1 == Exp(x1)
            u2 == Exp(x2)
            v1 == Exp(y1)
            v2 == Exp(y2)
<1>5. u1 \in Nat /\ u2 \in Nat /\ 1000 <= u1 /\ u1 <= u2
  BY <1>2, <1>3, ExpGrows
<1>6. v1 \in Nat /\ v2 \in Nat /\ 1000 <= v1 /\ v1 <= v2
  BY <1>20, <1>3, ExpGrows
<1>. HIDE DEF u1, u2, v1, v2
<1>7. Mul(u1, v1) \in Nat /\ Mul(u2, v2) \in Nat /\ Mul(u1, v1) <= Mul(u2, v2)
  BY <1>5, <1>6, MulGrows
<1>8. Mul(1000, 1000) <= Mul(u1, v1)
  BY <1>5, <1>6, MulGrows
<1>9. Mul(1000, 1000) = 1000
  BY DEF Mul, S
<1>10. Grip(k, a, e) = Mul(u1, v1) /\ Grip(m, b, f) = Mul(u2, v2)
  BY DEF Grip, u1, u2, v1, v2, x1, x2, y1, y2, d1, d2, l1, l2
<1>. QED BY <1>7, <1>8, <1>9, <1>10

\* Rounded twice, the product is larger where the exact one is larger by a factor.
LEMMA Margin ==
    ASSUME NEW p \in Nat, NEW q \in Nat, NEW s \in Nat, NEW t \in Nat, NEW w \in Nat,
           w = 0 \/ 1000 <= w,
           p * s <= (q - 1) * t
    PROVE  Mul(Mul(p, w), s) <= Mul(Mul(q, w), t)
<1>. DEFINE pw == p * w
            qw == q * w
            u == pw \div 1000
            v == qw \div 1000
            us == u * s
            vt == v * t
            ps == p * s
            qt == (q - 1) * t
<1>1. pw \in Nat /\ qw \in Nat
  OBVIOUS
<1>2. Mul(p, w) = u /\ Mul(q, w) = v
  <2>1. p \in Int /\ q \in Int /\ w \in Int
    OBVIOUS
  <2>2. Mul(p, w) = (p * w) \div S /\ Mul(q, w) = (q * w) \div S
    BY ONLY <2>1, MulExact
  <2>. QED BY <2>2 DEF S
<1>3. u \in Nat /\ v \in Nat /\ 1000 * u <= pw /\ qw <= 1000 * v + 999
  <2>. HIDE DEF pw, qw
  <2>. QED BY <1>1
<1>4. (q - 1) * w <= 1000 * v
  <2>1. (q - 1) * w = qw - w
    OBVIOUS
  <2>. HIDE DEF u, v
  <2>2. CASE w = 0
    BY <1>3, <2>2
  <2>3. CASE 1000 <= w
    <3>. HIDE DEF qw
    <3>. QED BY <1>1, <1>3, <2>1, <2>3
  <2>. QED BY <2>2, <2>3
<1>. HIDE DEF u, v
<1>5. 1000 * us <= ps * w
  <2>1. (1000 * u) * s <= pw * s
    BY <1>1, <1>3, TimesGrows
  <2>2. (1000 * u) * s = 1000 * us /\ pw * s = ps * w
    BY <1>3
  <2>. QED BY <2>1, <2>2
<1>6. ps * w <= qt * w
  BY TimesGrows
<1>7. qt * w <= 1000 * vt
  <2>1. ((q - 1) * w) * t <= (1000 * v) * t
    BY <1>3, <1>4, TimesGrows
  <2>2. ((q - 1) * w) * t = qt * w /\ (1000 * v) * t = 1000 * vt
    BY <1>3
  <2>. QED BY <2>1, <2>2
<1>8. us \in Nat /\ vt \in Nat /\ ps * w \in Int /\ qt * w \in Int
  BY <1>3
<1>. HIDE DEF us, vt, ps, qt
<1>9. us <= vt
  <2>. DEFINE x == ps * w
              y == qt * w
  <2>1. x \in Int /\ y \in Int /\ 1000 * us <= x /\ x <= y /\ y <= 1000 * vt
    BY <1>5, <1>6, <1>7, <1>8
  <2>. HIDE DEF x, y
  <2>. QED BY <1>8, <2>1
<1>10. Mul(u, s) = us \div 1000 /\ Mul(v, t) = vt \div 1000
  BY <1>3, MulExact DEF S, us, vt
<1>11. us \div 1000 <= vt \div 1000
  BY <1>8, <1>9
<1>. QED BY <1>2, <1>10, <1>11

\* The concrete's factor is nothing or at least one.
LEMMA ConcreteFactor ==
    ASSUME NEW fc \in Nat
    PROVE  10 * Isqrt(10000 * fc) \in Nat
           /\ (fc = 0 \/ 1000 <= 10 * Isqrt(10000 * fc))
<1>. DEFINE r == Isqrt(10000 * fc)
<1>1. r \in Nat
  BY IsqrtNat
<1>2. ASSUME fc # 0 PROVE 100 <= r
  <2>1. 10000 * fc \in Int /\ 100 * 100 <= 10000 * fc /\ 100 \in Nat /\ 0 < 100 /\ 100 <= 46399
    BY <1>2
  <2>2. 100 <= Isqrt(10000 * fc) <=> 100 * 100 <= 10000 * fc
    BY <2>1, IsqrtReached
  <2>. QED BY <2>1, <2>2
<1>. HIDE DEF r
<1>3. 10 * r \in Nat /\ (fc = 0 \/ 1000 <= 10 * r)
  BY <1>1, <1>2
<1>. QED BY <1>3 DEF r

\* The count of isqrt begins at nothing.
LEMMA SqrtNothing == Isqrt(0) = 0
<1>1. 0 \in Int /\ 1 \in Nat /\ 0 < 1 /\ 1 <= 46399 /\ ~(1 * 1 <= 0)
  OBVIOUS
<1>2. 1 <= Isqrt(0) <=> 1 * 1 <= 0
  BY <1>1, IsqrtReached
<1>3. Isqrt(0) \in Nat
  BY IsqrtNat
<1>. QED BY <1>1, <1>2, <1>3

\* One conversion makes c1^1.5 five thousand times as large.
LEMMA PowerConverted ==
    ASSUME NEW c \in Nat, c <= 32786
    PROVE  /\ Converted(c) \in Nat /\ Power(c) \in Nat /\ Power(Converted(c)) \in Nat
           /\ 5168 * Power(c) <= Power(Converted(c))
<1>. DEFINE d == (609 * c) \div 2
            r == Isqrt(10 * c)
            s == Isqrt(10 * d)
<1>1. Converted(c) = d /\ d \in Nat /\ 304 * c <= d
  BY DEF Converted, Far
<1>. HIDE DEF d
<1>2. 10 * c \in Int /\ 10 * d \in Int /\ r \in Nat /\ s \in Nat
  BY <1>1, IsqrtNat
<1>3. 17 * r <= s
  <2>1. CASE r = 0
    BY <1>2, <2>1
  <2>2. CASE r # 0
    <3>1. r <= 572
      <4>1. 573 \in Nat /\ 0 < 573 /\ 573 <= 46399 /\ ~(573 * 573 <= 10 * c)
        OBVIOUS
      <4>2. 573 <= Isqrt(10 * c) <=> 573 * 573 <= 10 * c
        BY <1>2, <4>1, IsqrtReached
      <4>. QED BY <1>2, <4>1, <4>2
    <3>2. r * r <= 10 * c
      <4>1. r \in Nat /\ 0 < r /\ r <= 46399 /\ r <= Isqrt(10 * c)
        BY <1>2, <2>2, <3>1
      <4>. HIDE DEF r
      <4>2. r <= Isqrt(10 * c) <=> r * r <= 10 * c
        BY <1>2, <4>1, IsqrtReached
      <4>. QED BY <4>1, <4>2
    <3>. HIDE DEF r
    <3>. DEFINE h == 17 * r
    <3>3. h \in Nat /\ 0 < h /\ h <= 46399
      BY <1>2, <2>2, <3>1
    <3>4. h * h <= 10 * d
      <4>1. h * h = 289 * (r * r) /\ r * r \in Nat
        BY <1>2
      <4>. DEFINE rr == r * r
      <4>2. h * h = 289 * rr /\ rr \in Nat /\ rr <= 10 * c
        BY <3>2, <4>1
      <4>. HIDE DEF rr, h
      <4>3. 289 * rr <= 10 * d
        BY <1>1, <4>2
      <4>. QED BY <4>2, <4>3
    <3>. HIDE DEF h
    <3>5. h <= Isqrt(10 * d) <=> h * h <= 10 * d
      BY <1>2, <3>3, IsqrtReached
    <3>. QED BY <3>4, <3>5 DEF h
  <2>. QED BY <2>1, <2>2
<1>4. Power(c) = (c * r) \div 10000 /\ Power(d) = (d * s) \div 10000
  BY DEF Power
<1>. HIDE DEF r, s
<1>. DEFINE m == c * r
            o == d * s
<1>5. m \in Nat /\ o \in Nat
  BY <1>1, <1>2
<1>6. 5168 * m <= o
  <2>. DEFINE x == 304 * c
              y == 17 * r
  <2>1. x \in Nat /\ y \in Nat /\ x <= d /\ y <= s
    BY <1>1, <1>2, <1>3
  <2>2. x * y = 5168 * m
    BY <1>2
  <2>. HIDE DEF x, y
  <2>3. x * y <= d * s
    BY <1>1, <1>2, <2>1, ProductGrows
  <2>. QED BY <2>2, <2>3
<1>. HIDE DEF m, o
<1>7. /\ m \div 10000 \in Nat /\ o \div 10000 \in Nat
      /\ 5168 * (m \div 10000) <= o \div 10000
  BY <1>5, <1>6
<1>. QED BY <1>1, <1>4, <1>7 DEF m, o

\* The powers at any distance beyond one.
LEMMA SteelBelow ==
    ASSUME NEW k \in Sizes, NEW c \in Nat, NEW d \in Nat, 0 < d, d <= c,
           NEW b \in Nat, b <= 1500, alph(55, d) <= b,
           NEW f \in Nat, f <= 1200, bet(275, d) <= f
    PROVE  /\ Steel(k, c) \in Nat /\ 1000 <= Steel(k, c)
           /\ Grip(6, b, f) \in Nat /\ Steel(k, c) <= Grip(6, b, f)
<1>. DEFINE l == Of("le", k)
            m == Of("dnom", k)
            a == alph(l, c)
            e == bet(m, c)
<1>1. /\ l \in Nat /\ l <= 55 /\ m \in Nat /\ m <= 275
      /\ 55 \in Nat /\ 275 \in Nat /\ c \in Nat \ {0} /\ d \in Nat \ {0}
  BY Rows
<1>. HIDE DEF l, m
<1>2. a \in Nat /\ alph(55, d) \in Nat /\ a <= alph(55, d)
  BY <1>1, AlphGrows
<1>3. e \in Nat /\ bet(275, d) \in Nat /\ e <= bet(275, d)
  BY <1>1, BetGrows
<1>. HIDE DEF a, e
<1>4. a <= b /\ e <= f
  BY <1>2, <1>3
<1>5. k <= 6 /\ 6 \in Sizes
  BY DEF Sizes
<1>6. /\ Grip(k, a, e) \in Nat /\ Grip(6, b, f) \in Nat
      /\ 1000 <= Grip(k, a, e) /\ Grip(k, a, e) <= Grip(6, b, f)
  BY <1>2, <1>3, <1>4, <1>5, GripGrows
<1>. QED BY <1>6 DEF Steel, a, e, l, m

\* The exponents at 5.8 m and beyond 9.8 m.
Alphs58 == <<6, 7, 7, 9, 9>>
Counts58 == <<14, 15, 15, 16, 17>>
Alphs98 == <<4, 5, 5, 6, 7>>
Counts98 == <<13, 13, 14, 14, 15>>

\* What the two exponents are at most 5.8 m from the edge, size by size.
LEMMA Exponents58 ==
    ASSUME NEW k \in Sizes
    PROVE  /\ Alphs58[k - 1] \in Nat /\ Alphs58[k - 1] <= 9
           /\ Counts58[k - 1] \in Nat /\ Counts58[k - 1] <= 17
           /\ (10000000 * Of("le", k)) \div 5800000 < (Alphs58[k - 1] + 1) * (Alphs58[k - 1] + 1)
           /\ (1000000 * Of("dnom", k)) \div 5800000 < Fifth(Counts58[k - 1] + 1)
BY DEF Alphs58, Counts58, Of, Table, Sizes, Fifth

\* The same at 9.8 m, and what they still are at least ten metres away.
LEMMA Exponents98 ==
    ASSUME NEW k \in Sizes
    PROVE  /\ Alphs98[k - 1] \in Nat /\ Alphs98[k - 1] <= 7 /\ 0 < Alphs98[k - 1]
           /\ Counts98[k - 1] \in Nat /\ Counts98[k - 1] <= 15 /\ 0 < Counts98[k - 1]
           /\ (10000000 * Of("le", k)) \div 9800000 < (Alphs98[k - 1] + 1) * (Alphs98[k - 1] + 1)
           /\ (1000000 * Of("dnom", k)) \div 9800000 < Fifth(Counts98[k - 1] + 1)
           /\ Alphs98[k - 1] * Alphs98[k - 1] <= (10000000 * Of("le", k)) \div 10000000
           /\ Fifth(Counts98[k - 1]) <= (1000000 * Of("dnom", k)) \div 10000000
BY DEF Alphs98, Counts98, Of, Table, Sizes, Fifth

\* For small exponents Exp is its series alone.
LEMMA ExpSmall ==
    ASSUME NEW x \in Nat, x <= 999
    PROVE  Exp(x) = Series(x)
<1>1. x \div 1000 = 0 /\ x % 1000 = x /\ x <= 4999
  OBVIOUS
<1>2. Power5(0) = 1000
  BY DEF Power5
<1>3. Series(x) \in Nat
  BY SeriesGrows
<1>4. Exp(x) = (1000 * Series(x)) \div 1000
  BY <1>1, <1>2, ExpIs
<1>. QED BY <1>3, <1>4

\* The grip of a bolt is then a product of two series.
LEMMA GripIs ==
    ASSUME NEW k, NEW a, NEW b, NEW x \in Nat, NEW y \in Nat, x <= 999, y <= 999,
           Mul(Of("lnd", k), a) = x, Mul(Of("lnl", k), b) = y
    PROVE  Grip(k, a, b) = Mul(Series(x), Series(y))
BY ExpSmall DEF Grip

\* Between 5.8 m and 10 m the powers fall by less than c1^1.5 grows.
LEMMA GripsClose ==
    ASSUME NEW k \in Sizes
    PROVE  9701020 * Grip(k, Alphs58[k - 1], 2 * Counts58[k - 1])
               <= 9999999 * Grip(k, Alphs98[k - 1], 2 * Counts98[k - 1])
<1>1. k = 2 \/ k = 3 \/ k = 4 \/ k = 5 \/ k = 6
  BY DEF Sizes
<1>2. CASE k = 2
  <2>1. /\ Alphs58[k - 1] = 6 /\ 2 * Counts58[k - 1] = 28
        /\ Alphs98[k - 1] = 4 /\ 2 * Counts98[k - 1] = 26
    BY <1>2 DEF Alphs58, Counts58, Alphs98, Counts98
  <2>2. /\ Mul(Of("lnd", k), 6) = 14 /\ Mul(Of("lnl", k), 28) = 87
        /\ Mul(Of("lnd", k), 4) = 9 /\ Mul(Of("lnl", k), 26) = 81
    BY <1>2 DEF Mul, S, Of, Table
  <2>3. Grip(k, 6, 28) = Mul(Series(14), Series(87))
    BY <2>2, GripIs
  <2>4. Grip(k, 4, 26) = Mul(Series(9), Series(81))
    BY <2>2, GripIs
  <2>5. Mul(Series(14), Series(87)) = 1105 /\ Mul(Series(9), Series(81)) = 1093
    BY DEF Mul, Series, S
  <2>. QED BY <2>1, <2>3, <2>4, <2>5
<1>3. CASE k = 3
  <2>1. /\ Alphs58[k - 1] = 7 /\ 2 * Counts58[k - 1] = 30
        /\ Alphs98[k - 1] = 5 /\ 2 * Counts98[k - 1] = 26
    BY <1>3 DEF Alphs58, Counts58, Alphs98, Counts98
  <2>2. /\ Mul(Of("lnd", k), 7) = 18 /\ Mul(Of("lnl", k), 30) = 101
        /\ Mul(Of("lnd", k), 5) = 13 /\ Mul(Of("lnl", k), 26) = 87
    BY <1>3 DEF Mul, S, Of, Table
  <2>3. Grip(k, 7, 30) = Mul(Series(18), Series(101))
    BY <2>2, GripIs
  <2>4. Grip(k, 5, 26) = Mul(Series(13), Series(87))
    BY <2>2, GripIs
  <2>5. Mul(Series(18), Series(101)) = 1125 /\ Mul(Series(13), Series(87)) = 1104
    BY DEF Mul, Series, S
  <2>. QED BY <2>1, <2>3, <2>4, <2>5
<1>4. CASE k = 4
  <2>1. /\ Alphs58[k - 1] = 7 /\ 2 * Counts58[k - 1] = 30
        /\ Alphs98[k - 1] = 5 /\ 2 * Counts98[k - 1] = 28
    BY <1>4 DEF Alphs58, Counts58, Alphs98, Counts98
  <2>2. /\ Mul(Of("lnd", k), 7) = 20 /\ Mul(Of("lnl", k), 30) = 106
        /\ Mul(Of("lnd", k), 5) = 14 /\ Mul(Of("lnl", k), 28) = 99
    BY <1>4 DEF Mul, S, Of, Table
  <2>3. Grip(k, 7, 30) = Mul(Series(20), Series(106))
    BY <2>2, GripIs
  <2>4. Grip(k, 5, 28) = Mul(Series(14), Series(99))
    BY <2>2, GripIs
  <2>5. Mul(Series(20), Series(106)) = 1133 /\ Mul(Series(14), Series(99)) = 1118
    BY DEF Mul, Series, S
  <2>. QED BY <2>1, <2>3, <2>4, <2>5
<1>5. CASE k = 5
  <2>1. /\ Alphs58[k - 1] = 9 /\ 2 * Counts58[k - 1] = 32
        /\ Alphs98[k - 1] = 6 /\ 2 * Counts98[k - 1] = 28
    BY <1>5 DEF Alphs58, Counts58, Alphs98, Counts98
  <2>2. /\ Mul(Of("lnd", k), 9) = 28 /\ Mul(Of("lnl", k), 32) = 123
        /\ Mul(Of("lnd", k), 6) = 18 /\ Mul(Of("lnl", k), 28) = 107
    BY <1>5 DEF Mul, S, Of, Table
  <2>3. Grip(k, 9, 32) = Mul(Series(28), Series(123))
    BY <2>2, GripIs
  <2>4. Grip(k, 6, 28) = Mul(Series(18), Series(107))
    BY <2>2, GripIs
  <2>5. Mul(Series(28), Series(123)) = 1161 /\ Mul(Series(18), Series(107)) = 1132
    BY DEF Mul, Series, S
  <2>. QED BY <2>1, <2>3, <2>4, <2>5
<1>6. CASE k = 6
  <2>1. /\ Alphs58[k - 1] = 9 /\ 2 * Counts58[k - 1] = 34
        /\ Alphs98[k - 1] = 7 /\ 2 * Counts98[k - 1] = 30
    BY <1>6 DEF Alphs58, Counts58, Alphs98, Counts98
  <2>2. /\ Mul(Of("lnd", k), 9) = 29 /\ Mul(Of("lnl", k), 34) = 136
        /\ Mul(Of("lnd", k), 7) = 23 /\ Mul(Of("lnl", k), 30) = 120
    BY <1>6 DEF Mul, S, Of, Table
  <2>3. Grip(k, 9, 34) = Mul(Series(29), Series(136))
    BY <2>2, GripIs
  <2>4. Grip(k, 7, 30) = Mul(Series(23), Series(120))
    BY <2>2, GripIs
  <2>5. Mul(Series(29), Series(136)) = 1178 /\ Mul(Series(23), Series(120)) = 1152
    BY DEF Mul, Series, S
  <2>. QED BY <2>1, <2>3, <2>4, <2>5
<1>. QED BY <1>1, <1>2, <1>3, <1>4, <1>5, <1>6

\* The exponents at c1 and beyond, for a bound at some smaller distance.
LEMMA ExponentsBelow ==
    ASSUME NEW k \in Sizes, NEW c \in Nat, NEW d \in Nat, 0 < d, d <= c,
           NEW a \in Nat, a <= 1000, NEW b \in Nat, b <= 60,
           (10000000 * Of("le", k)) \div d < (a + 1) * (a + 1),
           (1000000 * Of("dnom", k)) \div d < Fifth(b + 1)
    PROVE  /\ Steel(k, c) \in Nat /\ Grip(k, a, 2 * b) \in Nat
           /\ Steel(k, c) <= Grip(k, a, 2 * b)
<1>. DEFINE l == Of("le", k)
            m == Of("dnom", k)
            x == alph(l, c)
            y == alph(l, d)
            u == bet(m, c)
            v == bet(m, d)
            g == a + 1
            h == b + 1
<1>1. l \in Nat /\ m \in Nat /\ c \in Nat \ {0} /\ d \in Nat \ {0} /\ l <= l /\ m <= m
  BY Rows
<1>2. (10000000 * l) \div d < g * g
  OBVIOUS
<1>3. (1000000 * m) \div d < Fifth(h)
  OBVIOUS
<1>4. g \in Nat /\ 0 < g /\ g <= 46399 /\ h \in Nat \ {0} /\ h <= 70 /\ g = a + 1 /\ h = b + 1
  OBVIOUS
<1>. HIDE DEF l, m, g, h
<1>5. x \in Nat /\ y \in Nat /\ x <= y
  BY <1>1, AlphGrows
<1>6. u \in Nat /\ v \in Nat /\ u <= v
  BY <1>1, BetGrows
<1>7. y < g
  BY <1>1, <1>2, <1>4, AlphBelow
<1>8. v <= 2 * (h - 1)
  BY <1>1, <1>3, <1>4, BetLies
<1>. HIDE DEF x, y, u, v
<1>. DEFINE f == 2 * b
<1>9. x <= a /\ u <= f /\ f \in Nat /\ a <= 1500 /\ f <= 1200
  BY <1>4, <1>5, <1>6, <1>7, <1>8
<1>. HIDE DEF f
<1>10. k <= k
  BY DEF Sizes
<1>11. Grip(k, x, u) \in Nat /\ Grip(k, a, f) \in Nat /\ Grip(k, x, u) <= Grip(k, a, f)
  BY <1>5, <1>6, <1>9, <1>10, GripGrows
<1>. QED BY <1>11 DEF Steel, x, u, l, m, f

\* What is left of the bolt's factor as far away as Converted goes.
LEMMA SteelAtFar ==
    ASSUME NEW k \in Sizes
    PROVE  /\ Steel(k, Far) \in Nat
           /\ Grip(k, Alphs98[k - 1], 2 * Counts98[k - 1]) <= Steel(k, Far)
<1>. DEFINE l == Of("le", k)
            m == Of("dnom", k)
            a == Alphs98[k - 1]
            b == Counts98[k - 1]
            x == alph(l, Far)
            u == bet(m, Far)
            f == 2 * b
<1>1. l \in Nat /\ l <= 55 /\ m \in Nat /\ Far \in Nat \ {0}
  BY Rows DEF Far
<1>2. a \in Nat /\ a <= 7 /\ 0 < a /\ b \in Nat /\ b <= 15 /\ 0 < b
  BY Exponents98
<1>3. a * a <= (10000000 * l) \div Far /\ Fifth(b) <= (1000000 * m) \div Far
  BY Exponents98 DEF Far
<1>. HIDE DEF l, m, a, b
<1>4. a <= x
  <2>1. a <= 46399
    BY <1>2
  <2>. QED BY <1>1, <1>2, <1>3, <2>1, AlphAbove
<1>5. f <= u /\ u \in Nat /\ u <= 140
  <2>1. b \in Nat \ {0} /\ b <= 70
    BY <1>2
  <2>. QED BY <1>1, <1>3, <2>1, BetLies
<1>6. x \in Nat /\ x <= 7
  <2>1. x < 8
    <3>1. (10000000 * l) \div Far = l
      BY <1>1 DEF Far
    <3>2. 8 \in Nat /\ 0 < 8 /\ 8 <= 46399 /\ l < 8 * 8
      BY <1>1
    <3>. QED BY <1>1, <3>1, <3>2, AlphBelow
  <2>2. x \in Nat
    BY <1>1, AlphGrows
  <2>. QED BY <2>1, <2>2
<1>7. f \in Nat
  BY <1>2
<1>. HIDE DEF x, u, f
<1>8. k <= k /\ x <= 1500 /\ u <= 1200
  BY <1>5, <1>6 DEF Sizes
<1>9. Grip(k, a, f) <= Grip(k, x, u) /\ Grip(k, x, u) \in Nat
  BY <1>2, <1>4, <1>5, <1>6, <1>7, <1>8, GripGrows
<1>. QED BY <1>9 DEF Steel, x, u, l, m, f, a, b

\* The resistance grows with its two factors.
Resistance(p, w, s) == (27 * Mul(Mul(p, w), s)) \div 200

\* It grows even where the bolt's factor falls, if the distance's grows more.
LEMMA ResistanceGrows ==
    ASSUME NEW p \in Nat, NEW q \in Nat, NEW s \in Nat, NEW t \in Nat, NEW w \in Nat,
           w = 0 \/ 1000 <= w,
           (p <= q /\ s <= t) \/ p * s <= (q - 1) * t
    PROVE  /\ Resistance(p, w, s) \in Nat /\ Resistance(q, w, t) \in Nat
           /\ Resistance(p, w, s) <= Resistance(q, w, t)
<1>. DEFINE pw == Mul(p, w)
            qw == Mul(q, w)
            x == Mul(pw, s)
            y == Mul(qw, t)
<1>0. p <= p /\ q <= q /\ w <= w /\ s <= s /\ t <= t
  OBVIOUS
<1>1. pw \in Nat /\ qw \in Nat
  BY <1>0, MulGrows
<1>2. p <= q => pw <= qw
  BY <1>0, MulGrows
<1>3. x \in Nat /\ y \in Nat
  <2>. HIDE DEF pw, qw
  <2>1. pw <= pw /\ qw <= qw
    BY <1>1
  <2>. QED BY <1>0, <1>1, <2>1, MulGrows
<1>4. x <= y
  <2>1. CASE p <= q /\ s <= t
    <3>1. pw <= qw
      BY <1>2, <2>1
    <3>. HIDE DEF pw, qw
    <3>. QED BY <1>1, <2>1, <3>1, MulGrows
  <2>2. CASE p * s <= (q - 1) * t
    BY <2>2, Margin
  <2>. QED BY <2>1, <2>2
<1>5. Resistance(p, w, s) = (27 * x) \div 200 /\ Resistance(q, w, t) = (27 * y) \div 200
  BY DEF Resistance
<1>. HIDE DEF x, y
<1>. QED BY <1>3, <1>4, <1>5

\* edge_res is such a resistance.
LEMMA EdgeResIsResistance ==
    ASSUME NEW k \in Sizes, NEW fc \in Nat, NEW c \in Nat
    PROVE  edge_res(k, fc, c) = Resistance(Power(c), 10 * Isqrt(10000 * fc), Steel(k, c))
BY EdgeResIs DEF Resistance

\* The concrete's factor is nothing or large enough to survive the rounding.
LEMMA FactorCases ==
    ASSUME NEW fc \in Nat
    PROVE  /\ 10 * Isqrt(10000 * fc) \in Nat
           /\ 10 * Isqrt(10000 * fc) = 0 \/ 1000 <= 10 * Isqrt(10000 * fc)
<1>1. CASE fc = 0
  <2>1. 10000 * fc = 0
    BY <1>1
  <2>2. Isqrt(10000 * fc) = 0
    BY <2>1, SqrtNothing
  <2>. QED BY <2>2
<1>2. CASE fc # 0
  BY <1>2, ConcreteFactor
<1>. QED BY <1>1, <1>2

\* Some exponents, and the powers with them.
LEMMA ExponentsAt304 == alph(55, 304) <= 1345 /\ bet(275, 304) <= 140
<1>1. 55 \in Nat /\ 275 \in Nat /\ 304 \in Nat \ {0} /\ 55 <= 55 /\ 304 <= 304
  OBVIOUS
<1>2. alph(55, 304) \in Nat
  BY <1>1, AlphGrows
<1>3. (10000000 * 55) \div 304 < 1346 * 1346 /\ 1346 \in Nat /\ 0 < 1346 /\ 1346 <= 46399
  OBVIOUS
<1>4. alph(55, 304) < 1346
  BY <1>1, <1>3, AlphBelow
<1>5. bet(275, 304) <= 140
  BY <1>1, BetLies
<1>. QED BY <1>2, <1>4, <1>5

\* The exponents from the distance on that one conversion takes to the end.
LEMMA ExponentsAt32787 == alph(55, 32787) <= 129 /\ bet(275, 32787) <= 96
<1>1. 55 \in Nat /\ 275 \in Nat /\ 32787 \in Nat \ {0} /\ 55 <= 55 /\ 32787 <= 32787
  OBVIOUS
<1>2. alph(55, 32787) \in Nat
  BY <1>1, AlphGrows
<1>3. (10000000 * 55) \div 32787 < 130 * 130 /\ 130 \in Nat /\ 0 < 130 /\ 130 <= 46399
  OBVIOUS
<1>4. alph(55, 32787) < 130
  BY <1>1, <1>3, AlphBelow
<1>5. Fifth(49) = 9039 /\ (1000000 * 275) \div 32787 = 8387
  BY DEF Fifth
<1>6. 49 \in Nat \ {0} /\ 49 <= 70 /\ 8387 < 9039 /\ 2 * (49 - 1) = 96
  OBVIOUS
<1>7. bet(275, 32787) <= 2 * (49 - 1)
  BY <1>1, <1>5, <1>6, BetLies
<1>. QED BY <1>2, <1>4, <1>6, <1>7

\* The largest grip of all, and the largest beyond 33 m.
LEMMA GripBounds == Grip(6, 1345, 140) <= 399493 /\ Grip(6, 129, 96) <= 2244
<1>1. Mul(Of("lnd", 6), 1345) = 4457 /\ Mul(Of("lnl", 6), 140) = 560
  BY DEF Mul, S, Of, Table
<1>2. Mul(Of("lnd", 6), 129) = 427 /\ Mul(Of("lnl", 6), 96) = 384
  BY DEF Mul, S, Of, Table
<1>3. Grip(6, 129, 96) = Mul(Series(427), Series(384))
  BY <1>2, GripIs
<1>4. Mul(Series(427), Series(384)) = 2244
  BY DEF Mul, Series, S
<1>5. Exp(4457) \in Nat /\ Exp(4457) <= 147687
  BY ExpGrows
<1>6. Exp(560) \in Nat /\ Exp(560) <= 2705
  <2>1. Exp(560) = Series(560)
    BY ExpSmall
  <2>2. Series(560) \in Nat /\ Series(560) <= 2705
    BY SeriesGrows
  <2>. QED BY <2>1, <2>2
<1>7. Mul(Exp(4457), Exp(560)) <= Mul(147687, 2705)
  BY <1>5, <1>6, MulGrows
<1>8. Mul(147687, 2705) = 399493
  BY DEF Mul, S
<1>9. Grip(6, 1345, 140) = Mul(Exp(4457), Exp(560))
  BY <1>1 DEF Grip
<1>. QED BY <1>3, <1>4, <1>7, <1>8, <1>9

\* Some values of c1^1.5.
LEMMA PowerAt ==
    ASSUME NEW c \in Nat, NEW r \in Nat, r < 46399, 0 < r, NEW p \in Nat
    PROVE  /\ r * r <= 10 * c /\ p <= (c * r) \div 10000 => p <= Power(c)
           /\ 10 * c < (r + 1) * (r + 1) /\ (c * r) \div 10000 <= p => Power(c) <= p
<1>. DEFINE x == 10 * c
            s == Isqrt(x)
            g == r + 1
<1>1. x \in Int /\ s \in Nat
  BY IsqrtNat
<1>2. Power(c) = (c * s) \div 10000
  BY DEF Power
<1>3. g \in Nat /\ 0 < g /\ g <= 46399 /\ g = r + 1 /\ r <= 46399
  OBVIOUS
<1>. HIDE DEF x, g
<1>4. r <= Isqrt(x) <=> r * r <= x
  BY <1>1, <1>3, IsqrtReached
<1>5. g <= Isqrt(x) <=> g * g <= x
  BY <1>1, <1>3, IsqrtReached
<1>6. g * g \in Nat
  BY <1>3
<1>. DEFINE cs == c * s
            cr == c * r
<1>7. cs \in Nat /\ cr \in Nat
  BY <1>1
<1>8. ASSUME r * r <= x, p <= cr \div 10000 PROVE p <= Power(c)
  <2>1. r <= s
    BY <1>4, <1>8
  <2>. HIDE DEF s
  <2>2. cr <= cs
    BY <1>1, <2>1, ProductGrows
  <2>. HIDE DEF cr, cs
  <2>3. p <= cs \div 10000
    BY <1>7, <1>8, <2>2
  <2>. QED BY <1>2, <2>3 DEF cs, s
<1>9. ASSUME x < g * g, cr \div 10000 <= p PROVE Power(c) <= p
  <2>1. ~(g <= Isqrt(x))
    BY <1>1, <1>5, <1>6, <1>9
  <2>2. s <= r
    BY <1>1, <1>3, <2>1
  <2>. HIDE DEF s
  <2>3. cs <= cr
    BY <1>1, <2>2, ProductGrows
  <2>. HIDE DEF cr, cs
  <2>4. cs \div 10000 <= p
    BY <1>7, <1>9, <2>3
  <2>. QED BY <1>2, <2>4 DEF cs, s
<1>. QED BY <1>8, <1>9 DEF x, g

\* The distance's factor where the stretches of ConvertedHolds begin and end.
LEMMA PowerValues ==
    /\ 1 <= Power(304) /\ Power(5800000) <= 4416700 /\ Power(9800000) <= 9701020
    /\ Far \in Nat /\ 10000000 <= Power(Far)
<1>1. 1 <= Power(304)
  <2>1. 304 \in Nat /\ 55 \in Nat /\ 55 < 46399 /\ 0 < 55 /\ 1 \in Nat
        /\ 55 * 55 <= 10 * 304 /\ 1 <= (304 * 55) \div 10000
    OBVIOUS
  <2>. QED BY <2>1, PowerAt
<1>2. Power(5800000) <= 4416700
  <2>1. 5800000 \in Nat /\ 7615 \in Nat /\ 7615 < 46399 /\ 0 < 7615 /\ 4416700 \in Nat
        /\ 10 * 5800000 < (7615 + 1) * (7615 + 1) /\ (5800000 * 7615) \div 10000 <= 4416700
    OBVIOUS
  <2>. QED BY <2>1, PowerAt
<1>3. Power(9800000) <= 9701020
  <2>1. 9800000 \in Nat /\ 9899 \in Nat /\ 9899 < 46399 /\ 0 < 9899 /\ 9701020 \in Nat
        /\ 10 * 9800000 < (9899 + 1) * (9899 + 1) /\ (9800000 * 9899) \div 10000 <= 9701020
    OBVIOUS
  <2>. QED BY <2>1, PowerAt
<1>4. Far \in Nat /\ 10000000 <= Power(Far)
  <2>1. 10000000 \in Nat /\ 10000 \in Nat /\ 10000 < 46399 /\ 0 < 10000
        /\ 10000 * 10000 <= 10 * 10000000 /\ 10000000 <= (10000000 * 10000) \div 10000
    OBVIOUS
  <2>. QED BY <2>1, PowerAt DEF Far
<1>. QED BY <1>1, <1>2, <1>3, <1>4

\* The distance's factor is a natural number.
LEMMA PowerNat == ASSUME NEW c \in Nat PROVE Power(c) \in Nat
<1>1. c <= c
  OBVIOUS
<1>. QED BY <1>1, PowerGrows

\* The four stretches, with the powers of concrete_edge before the conversion (p, s)
\* and after it (q, t).
LEMMA StretchNear ==
    ASSUME NEW p \in Nat, NEW q \in Nat, NEW s \in Nat, NEW t \in Nat,
           1 <= p, 5168 * p <= q, s <= 399493, 1000 <= t
    PROVE  p * s <= (q - 1) * t
<1>1. p * s <= p * 399493 /\ p * s \in Nat /\ p * 399493 \in Nat
  <2>1. p <= p /\ 399493 \in Nat
    OBVIOUS
  <2>. QED BY <2>1, ProductGrows
<1>. DEFINE u == q - 1
<1>2. u \in Nat /\ 5167 * p <= u
  OBVIOUS
<1>. HIDE DEF u
<1>3. (5167 * p) * 1000 <= u * t /\ u * t \in Nat
  <2>1. 5167 * p \in Nat /\ 1000 \in Nat
    OBVIOUS
  <2>. QED BY <1>2, <2>1, ProductGrows
<1>. DEFINE ps == p * s
            ut == u * t
<1>4. ps <= p * 399493 /\ (5167 * p) * 1000 <= ut /\ ps \in Nat /\ ut \in Nat
  BY <1>1, <1>3
<1>. HIDE DEF ps, ut
<1>5. ps <= ut
  BY <1>4
<1>. QED BY <1>5 DEF ps, ut, u

\* The stretch in which the conversion multiplies the distance's factor most.
LEMMA StretchMiddle ==
    ASSUME NEW p \in Nat, NEW q \in Nat, NEW s \in Nat, NEW t \in Nat,
           p <= 4416700, 10000000 <= q, s <= 2244, 1000 <= t
    PROVE  p * s <= (q - 1) * t
<1>1. p * s <= 4416700 * 2244 /\ p * s \in Nat
  <2>1. 4416700 \in Nat /\ 2244 \in Nat
    OBVIOUS
  <2>. QED BY <2>1, ProductGrows
<1>. DEFINE u == q - 1
<1>2. u \in Nat /\ 9999999 <= u
  OBVIOUS
<1>. HIDE DEF u
<1>3. 9999999 * 1000 <= u * t /\ u * t \in Nat
  <2>1. 9999999 \in Nat /\ 1000 \in Nat
    OBVIOUS
  <2>. QED BY <1>2, <2>1, ProductGrows
<1>. DEFINE ps == p * s
            ut == u * t
<1>4. ps <= 4416700 * 2244 /\ 9999999 * 1000 <= ut /\ ps \in Nat /\ ut \in Nat
  BY <1>1, <1>3
<1>. HIDE DEF ps, ut
<1>5. ps <= ut
  BY <1>4
<1>. QED BY <1>5 DEF ps, ut, u

\* The last stretch, size by size.
LEMMA StretchFar ==
    ASSUME NEW p \in Nat, NEW q \in Nat, NEW s \in Nat, NEW t \in Nat,
           NEW g \in Nat, NEW h \in Nat,
           p <= 9701020, 10000000 <= q, s <= g, h <= t, 9701020 * g <= 9999999 * h
    PROVE  p * s <= (q - 1) * t
<1>1. p * s <= 9701020 * g /\ p * s \in Nat
  <2>1. 9701020 \in Nat
    OBVIOUS
  <2>. QED BY <2>1, ProductGrows
<1>. DEFINE u == q - 1
<1>2. u \in Nat /\ 9999999 <= u
  OBVIOUS
<1>. HIDE DEF u
<1>3. 9999999 * h <= u * t /\ u * t \in Nat
  <2>1. 9999999 \in Nat
    OBVIOUS
  <2>. QED BY <1>2, <2>1, ProductGrows
<1>. DEFINE ps == p * s
            ut == u * t
<1>4. ps <= 9701020 * g /\ 9999999 * h <= ut /\ ps \in Nat /\ ut \in Nat
  BY <1>1, <1>3
<1>. HIDE DEF ps, ut
<1>5. ps <= ut
  BY <1>4
<1>. QED BY <1>5 DEF ps, ut, u

\* A conversion takes a distance at least 304 times as far, or as far as it goes.
LEMMA ConvertedRange ==
    ASSUME NEW c \in Nat
    PROVE  /\ Converted(c) \in Nat
           /\ c <= Far => Converted(c) <= Far /\ c <= Converted(c)
           /\ 304 * c <= Converted(c) \/ Converted(c) = Far
           /\ 32787 <= c => Converted(c) = Far
           /\ c # 0 => 304 <= Converted(c)
BY DEF Converted, Far

\* From a foot's thousandth on, the conversion only makes the edge stronger, up to the
\* 10 m beyond which it does not matter.
LEMMA ConvertedGrows ==
    ASSUME NEW k \in Sizes, NEW c \in Nat, 304 <= c, c <= Far
    PROVE  \/ Power(c) <= Power(Converted(c)) /\ Steel(k, c) <= Steel(k, Converted(c))
           \/ Power(c) * Steel(k, c) <= (Power(Converted(c)) - 1) * Steel(k, Converted(c))
<1>. DEFINE d == Converted(c)
            p == Power(c)
            q == Power(d)
            s == Steel(k, c)
            t == Steel(k, d)
<1>1. d \in Nat /\ c <= d /\ (32787 <= c => d = Far)
  BY ConvertedRange
<1>. HIDE DEF d
<1>2. p \in Nat /\ q \in Nat /\ p <= q
  BY <1>1, PowerGrows
<1>. HIDE DEF p, q
<1>3. /\ 1345 \in Nat /\ 1345 <= 1500 /\ 140 \in Nat /\ 140 <= 1200
      /\ 129 \in Nat /\ 129 <= 1500 /\ 96 \in Nat /\ 96 <= 1200
      /\ 304 \in Nat /\ 0 < 304 /\ 32787 \in Nat /\ 0 < 32787
  OBVIOUS
<1>4. s \in Nat /\ s <= Grip(6, 1345, 140) /\ Grip(6, 1345, 140) \in Nat
  BY <1>3, ExponentsAt304, SteelBelow
<1>5. t \in Nat /\ 1000 <= t
  <2>1. 304 <= d
    BY <1>1
  <2>. QED BY <1>1, <1>3, <2>1, ExponentsAt304, SteelBelow
<1>6. CASE c <= 32786
  <2>1. 5168 * p <= q
    BY <1>6, PowerConverted DEF p, q, d
  <2>2. 1 <= p
    <3>1. Power(304) \in Nat /\ Power(304) <= p
      BY <1>3, PowerGrows DEF p
    <3>2. 1 <= Power(304)
      BY PowerValues
    <3>. QED BY <1>2, <3>1, <3>2
  <2>. HIDE DEF s, t
  <2>3. s <= 399493
    BY <1>4, GripBounds
  <2>4. p * s <= (q - 1) * t
    BY <1>2, <1>4, <1>5, <2>1, <2>2, <2>3, StretchNear
  <2>. QED BY <2>4 DEF p, q, s, t, d
<1>7. CASE 32787 <= c /\ c <= 5800000
  <2>1. d = Far
    BY <1>1, <1>7
  <2>2. s <= 2244
    <3>1. s <= Grip(6, 129, 96) /\ Grip(6, 129, 96) \in Nat
      BY <1>3, <1>7, ExponentsAt32787, SteelBelow
    <3>. HIDE DEF s
    <3>. QED BY <1>4, <3>1, GripBounds
  <2>3. p <= 4416700
    <3>1. 5800000 \in Nat
      OBVIOUS
    <3>2. Power(5800000) \in Nat /\ p <= Power(5800000)
      BY <1>7, <3>1, PowerGrows DEF p
    <3>3. Power(5800000) <= 4416700
      BY PowerValues
    <3>. QED BY <1>2, <3>2, <3>3
  <2>4. 10000000 <= q
    BY <2>1, PowerValues DEF q
  <2>. HIDE DEF s, t
  <2>5. p * s <= (q - 1) * t
    BY <1>2, <1>4, <1>5, <2>2, <2>3, <2>4, StretchMiddle
  <2>. QED BY <2>5 DEF p, q, s, t, d
<1>8. CASE 5800001 <= c /\ c <= 9800000
  <2>. DEFINE g == Grip(k, Alphs58[k - 1], 2 * Counts58[k - 1])
              h == Grip(k, Alphs98[k - 1], 2 * Counts98[k - 1])
  <2>1. d = Far
    BY <1>1, <1>8
  <2>2. g \in Nat /\ s <= g
    <3>1. 5800000 \in Nat /\ 0 < 5800000 /\ 5800000 <= c
      BY <1>8
    <3>2. /\ Alphs58[k - 1] \in Nat /\ Alphs58[k - 1] <= 1000
          /\ Counts58[k - 1] \in Nat /\ Counts58[k - 1] <= 60
      BY Exponents58
    <3>. QED BY <3>1, <3>2, Exponents58, ExponentsBelow
  <2>3. h \in Nat /\ h <= t
    <3>1. h <= t
      BY <2>1, SteelAtFar
    <3>2. h \in Nat
      <4>1. /\ Alphs98[k - 1] \in Nat /\ Alphs98[k - 1] <= 1500
            /\ 2 * Counts98[k - 1] \in Nat /\ 2 * Counts98[k - 1] <= 1200
        BY Exponents98
      <4>2. k <= k /\ Alphs98[k - 1] <= Alphs98[k - 1] /\ 2 * Counts98[k - 1] <= 2 * Counts98[k - 1]
        BY <4>1 DEF Sizes
      <4>. QED BY <4>1, <4>2, GripGrows
    <3>. QED BY <3>1, <3>2
  <2>4. p <= 9701020
    <3>1. 9800000 \in Nat
      OBVIOUS
    <3>2. Power(9800000) \in Nat /\ p <= Power(9800000)
      BY <1>8, <3>1, PowerGrows DEF p
    <3>3. Power(9800000) <= 9701020
      BY PowerValues
    <3>. QED BY <1>2, <3>2, <3>3
  <2>5. 10000000 <= q
    BY <2>1, PowerValues DEF q
  <2>6. 9701020 * g <= 9999999 * h
    BY GripsClose
  <2>. HIDE DEF s, t, g, h
  <2>7. p * s <= (q - 1) * t
    BY <1>2, <1>4, <1>5, <2>2, <2>3, <2>4, <2>5, <2>6, StretchFar
  <2>. QED BY <2>7 DEF p, q, s, t, d
<1>9. CASE 9800001 <= c
  <2>. DEFINE h == Grip(k, Alphs98[k - 1], 2 * Counts98[k - 1])
  <2>1. d = Far
    BY <1>1, <1>9
  <2>2. h \in Nat /\ s <= h
    <3>1. 9800000 \in Nat /\ 0 < 9800000 /\ 9800000 <= c
      BY <1>9
    <3>2. /\ Alphs98[k - 1] \in Nat /\ Alphs98[k - 1] <= 1000
          /\ Counts98[k - 1] \in Nat /\ Counts98[k - 1] <= 60
      BY Exponents98
    <3>. QED BY <3>1, <3>2, Exponents98, ExponentsBelow
  <2>3. h <= t
    BY <2>1, SteelAtFar
  <2>. HIDE DEF s, t, h
  <2>4. p <= q /\ s <= t
    BY <1>2, <1>4, <1>5, <2>2, <2>3
  <2>. QED BY <2>4 DEF p, q, s, t, d
<1>. QED BY <1>6, <1>7, <1>8, <1>9

\* Once a distance is converted, converting it again never lowers the resistance.
LEMMA ConvertedHolds ==
    ASSUME NEW k \in Sizes, NEW fc \in Nat, NEW c \in Nat, 304 <= c, c <= Far
    PROVE  /\ edge_res(k, fc, c) \in Nat /\ edge_res(k, fc, Converted(c)) \in Nat
           /\ edge_res(k, fc, c) <= edge_res(k, fc, Converted(c))
<1>. DEFINE d == Converted(c)
            p == Power(c)
            q == Power(d)
            s == Steel(k, c)
            t == Steel(k, d)
            w == 10 * Isqrt(10000 * fc)
<1>1. d \in Nat /\ c <= d
  BY ConvertedRange
<1>2. (p <= q /\ s <= t) \/ p * s <= (q - 1) * t
  BY ConvertedGrows
<1>. HIDE DEF d
<1>3. p \in Nat /\ q \in Nat
  BY <1>1, PowerNat
<1>4. s \in Nat /\ t \in Nat
  <2>1. /\ 1345 \in Nat /\ 1345 <= 1500 /\ 140 \in Nat /\ 140 <= 1200
        /\ 304 \in Nat /\ 0 < 304 /\ 304 <= d
    BY <1>1
  <2>. QED BY <1>1, <2>1, ExponentsAt304, SteelBelow
<1>5. w \in Nat /\ (w = 0 \/ 1000 <= w)
  BY FactorCases
<1>6. edge_res(k, fc, c) = Resistance(p, w, s) /\ edge_res(k, fc, d) = Resistance(q, w, t)
  BY <1>1, EdgeResIsResistance
<1>. HIDE DEF p, q, s, t, w
<1>7. /\ Resistance(p, w, s) \in Nat /\ Resistance(q, w, t) \in Nat
      /\ Resistance(p, w, s) <= Resistance(q, w, t)
  BY <1>2, <1>3, <1>4, <1>5, ResistanceGrows
<1>. QED BY <1>6, <1>7 DEF d

\* At one distance the larger bolt resists edge failure no less.
LEMMA SizeHolds ==
    ASSUME NEW k \in Sizes, NEW m \in Sizes, k <= m, NEW fc \in Nat, NEW c \in Nat, 304 <= c
    PROVE  /\ edge_res(k, fc, c) \in Nat /\ edge_res(m, fc, c) \in Nat
           /\ edge_res(k, fc, c) <= edge_res(m, fc, c)
<1>. DEFINE a == alph(Of("le", k), c)
            b == alph(Of("le", m), c)
            e == bet(Of("dnom", k), c)
            f == bet(Of("dnom", m), c)
            p == Power(c)
            s == Steel(k, c)
            t == Steel(m, c)
            w == 10 * Isqrt(10000 * fc)
<1>1. /\ Of("le", k) \in Nat /\ Of("le", m) \in Nat
      /\ Of("le", k) <= Of("le", m) /\ Of("le", m) <= 55
      /\ Of("dnom", k) \in Nat /\ Of("dnom", m) \in Nat /\ Of("dnom", k) <= Of("dnom", m)
  BY Rows, RowsGrow
<1>2. c \in Nat \ {0} /\ 304 \in Nat \ {0} /\ c <= c /\ 55 \in Nat
  OBVIOUS
<1>3. a \in Nat /\ b \in Nat /\ a <= b
  BY <1>1, <1>2, AlphGrows
<1>4. e \in Nat /\ f \in Nat /\ e <= f
  BY <1>1, <1>2, BetGrows
<1>5. b <= 1345
  <2>1. alph(55, 304) \in Nat /\ b <= alph(55, 304)
    BY <1>1, <1>2, AlphGrows
  <2>. HIDE DEF b
  <2>. QED BY <1>3, <2>1, ExponentsAt304
<1>6. f <= 140
  BY <1>1, <1>2, BetLies
<1>7. s \in Nat /\ t \in Nat /\ s <= t
  <2>. HIDE DEF a, b, e, f
  <2>1. b <= 1500 /\ f <= 1200
    BY <1>3, <1>4, <1>5, <1>6
  <2>2. Grip(k, a, e) \in Nat /\ Grip(m, b, f) \in Nat /\ Grip(k, a, e) <= Grip(m, b, f)
    BY <1>3, <1>4, <2>1, GripGrows
  <2>. QED BY <2>2 DEF Steel, a, b, e, f
<1>8. p \in Nat /\ p <= p
  BY PowerNat
<1>9. w \in Nat /\ (w = 0 \/ 1000 <= w)
  BY FactorCases
<1>10. edge_res(k, fc, c) = Resistance(p, w, s) /\ edge_res(m, fc, c) = Resistance(p, w, t)
  BY EdgeResIsResistance
<1>. HIDE DEF p, s, t, w
<1>11. /\ Resistance(p, w, s) \in Nat /\ Resistance(p, w, t) \in Nat
       /\ Resistance(p, w, s) <= Resistance(p, w, t)
  BY <1>7, <1>8, <1>9, ResistanceGrows
<1>. QED BY <1>10, <1>11

----------------------------------------------------------------------------
\* Type correctness.

\* The frame on top of the stack, and the stack below it.
LEMMA LastFront ==
    ASSUME NEW s \in Seq(FrameType), s # <<>>
    PROVE  /\ Last(s) \in FrameType /\ Front(s) \in Seq(FrameType)
           /\ Last(s) = s[Len(s)] /\ Len(s) \in DOMAIN s
BY DEF Last, Front

\* A nested call puts a frame on the stack.
LEMMA AppendFrame ==
    ASSUME TypeOK, pc \in Checks \cup {"distance"}, NEW distance \in Int
    PROVE  Append(calls, [from |-> pc, n |-> n, c1 |-> distance, ccres |-> ccres])
              \in Seq(FrameType)
<1>1. [from |-> pc, n |-> n, c1 |-> distance, ccres |-> ccres] \in FrameType
  BY DEF TypeOK, FrameType
<1>2. calls \in Seq(FrameType)
  BY DEF TypeOK
<1>. QED BY <1>1, <1>2

LEMMA TypeInit == Init => TypeOK
<1>. SUFFICES ASSUME Init PROVE TypeOK
  OBVIOUS
<1>1. PICK a \in Anchors : anchor = Relengthened(a)
  BY DEF Init
<1>2. a \in AnchorType
  BY AnchorsAssumption
<1>3. base_len(a.base_width) \in Nat
  BY <1>2 DEF base_len, AnchorType
<1>4. anchor \in AnchorType
  BY <1>1, <1>2, <1>3 DEF Relengthened, AnchorType
<1>5. flange_coeff \in Int
  BY <1>4 DEF Init, AnchorType
<1>6. calls \in Seq(FrameType)
  BY DEF Init
<1>. QED BY <1>4, <1>5, <1>6 DEF Init, TypeOK, Checks, Sizes, NoFile

LEMMA TypeNext == TypeOK /\ [Next]_vars => TypeOK'
<1>. SUFFICES ASSUME TypeOK, [Next]_vars PROVE TypeOK'
  OBVIOUS
<1>. USE DEF Checks, Ends, Errors
<1>1. CASE Accept
  <2>1. ConeResistance(anchor.cube_stren, n) \in Nat
    BY ConeNat DEF TypeOK, AnchorType
  <2>2. ccres' \in Nat
    BY <1>1, <2>1 DEF Accept, TypeOK
  <2>3. pc' \in Checks \cup {"distance", "write"}
    BY <1>1 DEF Accept, After
  <2>. QED BY <1>1, <2>2, <2>3 DEF Accept, TypeOK
<1>2. CASE NextSize
  <2>1. n' \in Sizes
    BY <1>2 DEF NextSize, TypeOK, Sizes
  <2>2. c1' \in Int
    BY <1>2, ConvertedInt DEF NextSize, TypeOK
  <2>. QED BY <1>2, <2>1, <2>2 DEF NextSize, TypeOK
<1>3. CASE LengthenFlange
  <2>1. calls' \in Seq(FrameType)
    <3>1. pc \in Checks \cup {"distance"} /\ c1 \in Int
      BY <1>3 DEF LengthenFlange, TypeOK
    <3>. QED BY <1>3, <3>1, AppendFrame DEF LengthenFlange, Again
  <2>2. flange_coeff' \in Int /\ n' \in Sizes
    BY <1>3 DEF LengthenFlange, Again, TypeOK, Sizes
  <2>. QED BY <1>3, <2>1, <2>2 DEF LengthenFlange, Again, TypeOK
<1>4. CASE RootOfNegative
  BY <1>4 DEF RootOfNegative, TypeOK
<1>5. CASE MeasureEdge
  <2>1. c1' \in Int
    BY <1>5, EdgeDistanceInt DEF MeasureEdge, TypeOK
  <2>. QED BY <1>5, <2>1 DEF MeasureEdge, TypeOK
<1>6. CASE ShortenFlange
  <2>1. EdgeDistance \in Int
    BY EdgeDistanceInt DEF TypeOK
  <2>2. calls' \in Seq(FrameType)
    <3>1. pc \in Checks \cup {"distance"}
      BY <1>6 DEF ShortenFlange
    <3>. QED BY <1>6, <2>1, <3>1, AppendFrame DEF ShortenFlange, Again
  <2>3. flange_coeff' \in Int /\ n' \in Sizes
    BY <1>6 DEF ShortenFlange, Again, TypeOK, Sizes
  <2>. QED BY <1>6, <2>2, <2>3 DEF ShortenFlange, Again, TypeOK
<1>7. CASE WriteBoltData
  BY <1>7 DEF WriteBoltData, TypeOK
<1>8. CASE ReturnToMain
  BY <1>8 DEF ReturnToMain, TypeOK
<1>9. CASE ReturnToCheck
  BY <1>9 DEF ReturnToCheck, TypeOK
<1>10. CASE ReturnToDistance
  <2>1. Last(calls) \in FrameType /\ calls' \in Seq(FrameType)
    BY <1>10, LastFront DEF ReturnToDistance, TypeOK
  <2>2. n' \in Sizes /\ c1' \in Int /\ ccres' \in Nat
    BY <1>10, <2>1 DEF ReturnToDistance, FrameType
  <2>. QED BY <1>10, <2>1, <2>2 DEF ReturnToDistance, TypeOK
<1>11. CASE End \/ UNCHANGED vars
  BY <1>11 DEF End, vars, TypeOK
<1>. QED
  BY <1>1, <1>2, <1>3, <1>4, <1>5, <1>6, <1>7, <1>8, <1>9, <1>10, <1>11 DEF Next

\* In every state of every run each variable has its type: the size never leaves
\* the tables, whatever the checks say and however deep the calls are nested.
THEOREM BoltTypeCorrect == Spec => []TypeOK
BY TypeInit, TypeNext, PTL DEF Spec

----------------------------------------------------------------------------
\* Retries.  Once a bolt is written the calls are only unwound: the program returns,
\* or stands before the root of the negative distance a caller remembered.

Unwinding ==
    /\ hole_params # NoFile <=>
          pc \in {"return", "seal", "BoundsError", "DomainError"} \/ Raises
    /\ \A i \in DOMAIN calls : calls[i].from = "distance" => calls[i].c1 < 0

\* As long as there is no file, the first call has the flange of the command line;
\* so has it when it returns without having called itself.
FirstFlange ==
    flange_coeff # anchor.flange_coeff =>
        /\ pc # "seal"
        /\ hole_params = NoFile \/ pc = "return" => calls # <<>>

BoltInv == TypeOK /\ Unwinding /\ FirstFlange

LEMMA BoltInvInit == Init => BoltInv
<1>. SUFFICES ASSUME Init PROVE BoltInv
  OBVIOUS
<1>1. Unwinding
  BY DEF Init, Unwinding, Raises, NoFile
<1>2. FirstFlange
  BY DEF Init, FirstFlange
<1>. QED BY <1>1, <1>2, TypeInit DEF BoltInv

\* A nested call: nothing is written yet, and the frame it leaves is a check's or
\* holds a negative distance.
LEMMA AgainInv ==
    ASSUME BoltInv, NEW coeff, NEW distance \in Int, Again(coeff, distance),
           hole_params = NoFile, pc \in Checks \/ (pc = "distance" /\ distance < 0)
    PROVE  Unwinding' /\ FirstFlange'
<1>. DEFINE frame == [from |-> pc, n |-> n, c1 |-> distance, ccres |-> ccres]
<1>1. calls \in Seq(FrameType) /\ frame \in FrameType
  BY DEF BoltInv, TypeOK, FrameType, Checks
<1>2. calls' = Append(calls, frame)
  BY DEF Again
<1>3. frame.from = pc /\ frame.c1 = distance
  OBVIOUS
<1>. HIDE DEF frame
<1>4. \A i \in DOMAIN calls' : calls'[i] = frame \/ (i \in DOMAIN calls /\ calls'[i] = calls[i])
  BY <1>1, <1>2
<1>5. \A i \in DOMAIN calls' : calls'[i].from = "distance" => calls'[i].c1 < 0
  <2>. SUFFICES ASSUME NEW i \in DOMAIN calls', calls'[i].from = "distance"
                PROVE  calls'[i].c1 < 0
    OBVIOUS
  <2>1. CASE calls'[i] = frame
    BY <2>1, <1>3 DEF Checks
  <2>2. CASE i \in DOMAIN calls /\ calls'[i] = calls[i]
    BY <2>2 DEF BoltInv, Unwinding
  <2>. QED BY <1>4, <2>1, <2>2
<1>6. calls' # <<>>
  BY <1>1, <1>2
<1>7. hole_params' = NoFile /\ pc' \in {"tension", "StackOverflowError"}
  BY DEF Again
<1>8. Unwinding'
  BY <1>5, <1>7 DEF Unwinding, Raises
<1>9. FirstFlange'
  BY <1>6, <1>7 DEF FirstFlange
<1>. QED BY <1>8, <1>9

LEMMA BoltInvNext == BoltInv /\ [Next]_vars => BoltInv'
<1>. SUFFICES ASSUME BoltInv, [Next]_vars PROVE BoltInv'
  OBVIOUS
<1>0. TypeOK'
  BY TypeNext DEF BoltInv
<1>1. ASSUME Accept PROVE Unwinding' /\ FirstFlange'
  <2>1. hole_params = NoFile /\ hole_params' = NoFile
    BY <1>1 DEF Accept, BoltInv, Unwinding, Checks
  <2>2. pc' \in {"cone", "shear", "distance", "pry", "write"}
    BY <1>1 DEF Accept, After, Checks
  <2>. QED BY <1>1, <2>1, <2>2 DEF Accept, BoltInv, Unwinding, FirstFlange, Raises
<1>2. ASSUME NextSize PROVE Unwinding' /\ FirstFlange'
  <2>1. hole_params = NoFile /\ hole_params' = NoFile /\ pc' = pc /\ pc \in Checks
    BY <1>2 DEF NextSize, BoltInv, Unwinding, Checks
  <2>2. pc = "edge" => ~(c1' < 0)
    <3>. SUFFICES ASSUME pc = "edge" PROVE ~(c1' < 0)
      OBVIOUS
    <3>1. c1 \in Int /\ ~(c1 < 0)
      BY <1>2 DEF NextSize, Raises, BoltInv, TypeOK
    <3>2. c1' = Converted(c1)
      BY <1>2 DEF NextSize
    <3>. QED BY <3>1, <3>2 DEF Converted, Far
  <2>. QED BY <1>2, <2>1, <2>2 DEF NextSize, BoltInv, Unwinding, FirstFlange, Raises, Checks
<1>3. ASSUME LengthenFlange PROVE Unwinding' /\ FirstFlange'
  <2>1. hole_params = NoFile /\ pc \in Checks /\ c1 \in Int
    BY <1>3 DEF LengthenFlange, BoltInv, TypeOK, Unwinding, Checks
  <2>. QED BY <1>3, <2>1, AgainInv DEF LengthenFlange
<1>4. ASSUME RootOfNegative PROVE Unwinding' /\ FirstFlange'
  BY <1>4 DEF RootOfNegative, BoltInv, Unwinding, FirstFlange, Raises
<1>5. ASSUME MeasureEdge PROVE Unwinding' /\ FirstFlange'
  <2>1. ~Raises'
    BY <1>5, EdgeDistanceInt DEF MeasureEdge, BoltInv, TypeOK, Raises
  <2>. QED BY <1>5, <2>1 DEF MeasureEdge, BoltInv, Unwinding, FirstFlange, Raises
<1>6. ASSUME ShortenFlange PROVE Unwinding' /\ FirstFlange'
  <2>1. hole_params = NoFile /\ EdgeDistance \in Int
    BY <1>6, EdgeDistanceInt DEF ShortenFlange, BoltInv, TypeOK, Unwinding, Raises
  <2>. QED BY <1>6, <2>1, AgainInv DEF ShortenFlange
<1>7. ASSUME WriteBoltData PROVE Unwinding' /\ FirstFlange'
  <2>1. hole_params = NoFile /\ hole_params' # NoFile
    BY <1>7 DEF WriteBoltData, BoltInv, TypeOK, Unwinding, Raises, Sizes, NoFile
  <2>. QED BY <1>7, <2>1 DEF WriteBoltData, BoltInv, Unwinding, FirstFlange, Raises
<1>8. ASSUME ReturnToMain PROVE Unwinding' /\ FirstFlange'
  BY <1>8 DEF ReturnToMain, BoltInv, Unwinding, FirstFlange, Raises
<1>9. ASSUME ReturnToCheck PROVE Unwinding' /\ FirstFlange'
  BY <1>9 DEF ReturnToCheck, BoltInv, Unwinding, FirstFlange, Raises
<1>10. ASSUME ReturnToDistance PROVE Unwinding' /\ FirstFlange'
  <2>1. calls \in Seq(FrameType) /\ calls # <<>>
    BY <1>10 DEF ReturnToDistance, BoltInv, TypeOK
  <2>2. c1' < 0
    <3>1. Last(calls) = calls[Len(calls)] /\ Len(calls) \in DOMAIN calls
      BY <2>1, LastFront
    <3>. QED BY <1>10, <3>1 DEF ReturnToDistance, BoltInv, Unwinding
  <2>3. \A i \in DOMAIN calls' : i \in DOMAIN calls /\ calls'[i] = calls[i]
    BY <1>10, <2>1 DEF ReturnToDistance, Front
  <2>4. hole_params # NoFile /\ UNCHANGED <<hole_params, flange_coeff, anchor>> /\ pc' = "edge"
    BY <1>10 DEF ReturnToDistance, BoltInv, Unwinding
  <2>5. Unwinding'
    BY <2>2, <2>3, <2>4 DEF BoltInv, Unwinding, Raises
  <2>6. FirstFlange'
    BY <2>4 DEF FirstFlange
  <2>. QED BY <2>5, <2>6
<1>11. ASSUME End \/ UNCHANGED vars PROVE Unwinding' /\ FirstFlange'
  BY <1>11 DEF End, vars, BoltInv, Unwinding, FirstFlange, Raises
<1>12. Unwinding' /\ FirstFlange'
  BY <1>1, <1>2, <1>3, <1>4, <1>5, <1>6, <1>7, <1>8, <1>9, <1>10, <1>11 DEF Next
<1>. QED BY <1>0, <1>12 DEF BoltInv

\* design_bolts returns to main only if the first call had no need of a retry: the
\* 0 a nested call returns, and the distance its caller remembers, end all others.
THEOREM NoRetryReturns == Spec => []RetriesNeverReachTheSeal
<1>1. BoltInv => RetriesNeverReachTheSeal
  BY DEF BoltInv, FirstFlange, RetriesNeverReachTheSeal
<1>. QED BY <1>1, BoltInvInit, BoltInvNext, PTL DEF Spec

\* Both errors of a retry come after hole_params.csv has been written by it.
THEOREM FileBeforeError == Spec => []ErrorsFollowTheFile
<1>1. BoltInv => ErrorsFollowTheFile
  BY DEF BoltInv, Unwinding, ErrorsFollowTheFile
<1>. QED BY <1>1, BoltInvInit, BoltInvNext, PTL DEF Spec

\* With a file there is nothing left that changes it, or the flange.
LEMMA FileStays ==
    BoltInv /\ [Next]_vars => (hole_params # NoFile => UNCHANGED <<hole_params, flange_coeff>>)
<1>. SUFFICES ASSUME BoltInv, [Next]_vars, hole_params # NoFile
              PROVE  UNCHANGED <<hole_params, flange_coeff>>
  OBVIOUS
<1>1. pc \in {"return", "seal", "BoundsError", "DomainError"} \/ Raises
  BY DEF BoltInv, Unwinding
<1>2. ~LengthenFlange /\ ~ShortenFlange /\ ~WriteBoltData
  BY <1>1 DEF LengthenFlange, ShortenFlange, WriteBoltData, Raises, Checks
<1>. QED
  BY <1>2 DEF Next, vars, Accept, NextSize, RootOfNegative, MeasureEdge, ReturnToMain,
              ReturnToCheck, ReturnToDistance, End

\* However the calls nest, hole_params.csv is written once, for the last flange.
THEOREM OneBolt == Spec => WrittenOnce
BY FileStays, BoltInvInit, BoltInvNext, PTL DEF Spec, WrittenOnce

----------------------------------------------------------------------------
\* Shear.  The force does not depend on the flange, so if M20 fails, every size does
\* and no call gets past the check.

LEMMA ShearStep ==
    TypeOK /\ ShearRetriesAreHopeless /\ [Next]_vars => ShearRetriesAreHopeless'
<1>. SUFFICES ASSUME TypeOK, ShearRetriesAreHopeless, [Next]_vars, ShearFails(6, fst)'
              PROVE  pc' \in {"tension", "cone", "shear", "StackOverflowError"}
  BY DEF ShearRetriesAreHopeless
<1>1. anchor' = anchor
  BY DEF Next, vars, Accept, NextSize, LengthenFlange, Again, RootOfNegative, MeasureEdge,
         ShortenFlange, WriteBoltData, ReturnToMain, ReturnToCheck, ReturnToDistance, End
<1>2. ShearFails(6, fst)
  BY <1>1 DEF fst
<1>3. pc \in {"tension", "cone", "shear", "StackOverflowError"}
  BY <1>2 DEF ShearRetriesAreHopeless
<1>4. ShearFails(n, fst)
  <2>1. n \in Sizes /\ fst \in Int
    BY FstInt DEF TypeOK
  <2>2. ShearResistance(6) \in Nat
    BY ShearResistanceGrows DEF Sizes
  <2>. QED BY <1>2, <2>1, <2>2, ShearResistanceGrows DEF ShearFails
<1>5. CASE Accept
  <2>1. pc # "shear"
    BY <1>4, <1>5 DEF Accept, Fails
  <2>. QED BY <1>3, <1>5, <2>1 DEF Accept, After, Checks
<1>. QED
  BY <1>3, <1>5 DEF Next, vars, NextSize, LengthenFlange, Again, RootOfNegative, Raises,
     MeasureEdge, ShortenFlange, WriteBoltData, ReturnToMain, ReturnToCheck, ReturnToDistance,
     End, Checks

\* Where the shear force is beyond M20 no flange helps: design_bolts calls itself
\* until the stack is exhausted, and nothing is written.
THEOREM ShearHopeless == Spec => []ShearRetriesAreHopeless
<1>1. Init => ShearRetriesAreHopeless
  BY DEF Init, ShearRetriesAreHopeless
<1>. QED BY <1>1, TypeInit, TypeNext, ShearStep, PTL DEF Spec

----------------------------------------------------------------------------
\* The bolt on file.  The walk never goes back to a smaller size, and a larger size
\* resists tension, the cone, shear and pry-out no less: what a check has accepted is
\* still accepted when the last one is through.

LEMMA TensionGrows ==
    ASSUME NEW size \in Sizes, NEW larger \in Sizes, size <= larger
    PROVE  /\ TensionResistance(size) \in Int /\ TensionResistance(larger) \in Int
           /\ TensionResistance(size) <= TensionResistance(larger)
BY DEF TensionResistance, Tensr, Yms, Of, Table, Sizes

LEMMA ShearGrows ==
    ASSUME NEW size \in Sizes, NEW larger \in Sizes, size <= larger
    PROVE  /\ ShearResistance(size) \in Int /\ ShearResistance(larger) \in Int
           /\ ShearResistance(size) <= ShearResistance(larger)
BY DEF ShearResistance, Of, Table, Sizes

LEMMA ConeGrows ==
    ASSUME NEW fc \in Nat, NEW size \in Sizes, NEW larger \in Sizes, size <= larger
    PROVE  ConeResistance(fc, size) <= ConeResistance(fc, larger)
<1>. DEFINE k == Of("kcr", size)
            l == Of("kcr", larger)
            h == Of("hef", size)
            i == Of("hef", larger)
<1>1. k \in Nat /\ l \in Nat /\ h \in Nat /\ i \in Nat /\ k <= l /\ h <= i
  BY DEF Of, Table, Sizes
<1>. HIDE DEF k, l, h, i
<1>2. fc * h \in Nat /\ fc * i \in Nat /\ fc * h <= fc * i
  BY <1>1, ProductGrows
<1>3. fc * h * h \in Nat /\ fc * i * i \in Nat /\ fc * h * h <= fc * i * i
  BY <1>1, <1>2, ProductGrows
<1>4. fc * h * h * h \in Nat /\ fc * i * i * i \in Nat /\ fc * h * h * h <= fc * i * i * i
  BY <1>1, <1>3, ProductGrows
<1>. DEFINE r == Isqrt(fc * h * h * h)
            s == Isqrt(fc * i * i * i)
<1>5. r \in Nat /\ s \in Nat /\ r <= s
  BY <1>4, IsqrtNat, IsqrtGrows
<1>. HIDE DEF r, s
<1>6. k * r \in Nat /\ l * s \in Nat /\ k * r <= l * s
  BY <1>1, <1>5, ProductGrows
<1>7. (k * r) \div 10 <= (l * s) \div 10
  BY <1>6, QuotientGrows
<1>. QED BY <1>7 DEF ConeResistance, cconr, k, l, h, i, r, s

LEMMA TensionInt ==
    ASSUME NEW a \in AnchorType, NEW k \in Int
    PROVE  des_t(Mov(a), a.wall_t, k) \in Int
<1>1. /\ a.height \in Int /\ a.span_length \in Int /\ a.wall_t \in Int
      /\ a.base_width \in Int /\ a.base_length \in Int /\ a.base_thickness \in Int
  <2>1. /\ a.height \in 1 .. 127 /\ a.span_length \in 1 .. 127
        /\ a.wall_t \in Nat \ {0} /\ a.base_width \in Nat
        /\ a.base_length \in Nat /\ a.base_thickness \in Nat
    BY DEF AnchorType
  <2>. QED BY <2>1
<1>2. Mov(a) \in Int
  BY <1>1, OverturningMomentInt
<1>. DEFINE moment == 2226 * (Mov(a) \div S)
            flange == k * a.wall_t
<1>3. moment \in Int
  BY <1>2 DEF S
<1>4. flange \in Int
  BY <1>1
<1>. HIDE DEF moment, flange
<1>5. Quot(moment, flange) \in Int
  BY <1>3, <1>4, QuotInt
<1>6. Quot(moment, flange) \div S \in Int
  BY <1>5 DEF S
<1>. QED BY <1>6 DEF des_t, moment, flange

LEMMA DestInt == ASSUME TypeOK PROVE dest \in Int
BY TensionInt DEF dest, TypeOK

\* What the checks behind the program say of the size under check.  The cone's
\* resistance may be that of a smaller size.
Held ==
    hole_params = NoFile =>
        /\ pc \in {"cone", "shear", "distance", "edge", "pry", "write"} => ~TensionFails(n, dest)
        /\ pc \in {"shear", "distance", "edge", "pry", "write"} =>
              /\ ~ConeFails(ConeResistance(anchor.cube_stren, n), dest)
              /\ ccres <= ConeResistance(anchor.cube_stren, n)
        /\ pc \in {"distance", "edge", "pry", "write"} => ~ShearFails(n, fst)
        /\ pc = "write" => ~PryFails(n, ConeResistance(anchor.cube_stren, n), fst)

\* What holds of a size holds of the next.
LEMMA NextSizeHolds ==
    ASSUME TypeOK, n < 6
    PROVE  /\ n + 1 \in Sizes
           /\ ~TensionFails(n, dest) => ~TensionFails(n + 1, dest)
           /\ ~ShearFails(n, fst) => ~ShearFails(n + 1, fst)
           /\ ConeResistance(anchor.cube_stren, n) <= ConeResistance(anchor.cube_stren, n + 1)
           /\ ~ConeFails(ConeResistance(anchor.cube_stren, n), dest) =>
                 ~ConeFails(ConeResistance(anchor.cube_stren, n + 1), dest)
<1>1. n \in Sizes /\ n + 1 \in Sizes /\ n <= n + 1
  BY DEF TypeOK, Sizes
<1>0. anchor \in AnchorType
  BY DEF TypeOK
<1>2. dest \in Int /\ fst \in Int /\ anchor.cube_stren \in Nat
  <2>1. anchor.cube_stren \in Nat
    BY <1>0 DEF AnchorType
  <2>2. dest \in Int /\ fst \in Int
    BY <1>0, DestInt, FstInt
  <2>. QED BY <2>1, <2>2
<1>. HIDE DEF dest, fst
<1>3. ~TensionFails(n, dest) => ~TensionFails(n + 1, dest)
  BY <1>1, <1>2, TensionGrows DEF TensionFails
<1>4. ~ShearFails(n, fst) => ~ShearFails(n + 1, fst)
  BY <1>1, <1>2, ShearGrows DEF ShearFails
<1>. DEFINE low == ConeResistance(anchor.cube_stren, n)
            high == ConeResistance(anchor.cube_stren, n + 1)
<1>5. low \in Nat /\ high \in Nat /\ low <= high
  BY <1>1, <1>2, ConeNat, ConeGrows
<1>. HIDE DEF low, high
<1>6. ~ConeFails(low, dest) => ~ConeFails(high, dest)
  BY <1>2, <1>5 DEF ConeFails
<1>. QED BY <1>1, <1>3, <1>4, <1>5, <1>6 DEF low, high

\* Pry-out is judged with the cone's resistance as it was kept.
LEMMA PryOfCone ==
    ASSUME TypeOK, ccres <= ConeResistance(anchor.cube_stren, n), ~PryFails(n, ccres, fst)
    PROVE  ~PryFails(n, ConeResistance(anchor.cube_stren, n), fst)
<1>0. anchor \in AnchorType
  BY DEF TypeOK
<1>1. n \in Sizes /\ fst \in Int /\ anchor.cube_stren \in Nat /\ ccres \in Nat
  <2>1. anchor.cube_stren \in Nat
    BY <1>0 DEF AnchorType
  <2>2. fst \in Int
    BY <1>0, FstInt
  <2>. QED BY <2>1, <2>2 DEF TypeOK
<1>. DEFINE cone == ConeResistance(anchor.cube_stren, n)
            kcp == Of("kcp", n)
<1>2. cone \in Nat
  BY <1>1, ConeNat
<1>3. kcp \in Nat
  BY <1>1 DEF Of, Table, Sizes
<1>. HIDE DEF cone, kcp, fst
<1>4. kcp * ccres \in Nat /\ kcp * cone \in Nat /\ kcp * ccres <= kcp * cone
  BY <1>1, <1>2, <1>3, ProductGrows DEF cone
<1>5. ~(kcp * ccres < fst)
  BY DEF PryFails, kcp
<1>6. ~(kcp * cone < fst)
  BY <1>1, <1>4, <1>5
<1>. QED BY <1>6 DEF PryFails, cone, kcp

FileInv == BoltInv /\ Held /\ BoltOnFileHolds

LEMMA HeldNext == FileInv /\ [Next]_vars => Held'
<1>. SUFFICES ASSUME FileInv, [Next]_vars, hole_params' = NoFile
              PROVE  Held'
  BY DEF Held
<1>0. BoltInv /\ TypeOK /\ Held
  BY DEF FileInv, BoltInv
<1>1. hole_params = NoFile
  BY <1>0, FileStays
<1>2. /\ pc \in {"cone", "shear", "distance", "edge", "pry", "write"} => ~TensionFails(n, dest)
      /\ pc \in {"shear", "distance", "edge", "pry", "write"} =>
            /\ ~ConeFails(ConeResistance(anchor.cube_stren, n), dest)
            /\ ccres <= ConeResistance(anchor.cube_stren, n)
      /\ pc \in {"distance", "edge", "pry", "write"} => ~ShearFails(n, fst)
      /\ pc = "write" => ~PryFails(n, ConeResistance(anchor.cube_stren, n), fst)
  BY <1>0, <1>1 DEF Held
<1>3. ASSUME Accept PROVE Held'
  <2>1. n' = n /\ anchor' = anchor /\ flange_coeff' = flange_coeff /\ pc \in Checks /\ ~Fails
    BY <1>3 DEF Accept
  <2>2. dest' = dest /\ fst' = fst
    BY <2>1 DEF dest, fst
  <2>3. pc' = After[pc]
    BY <1>3 DEF Accept
  <2>4. CASE pc = "tension"
    <3>1. pc' = "cone" /\ ~TensionFails(n, dest)
      BY <2>1, <2>3, <2>4 DEF After, Fails
    <3>. QED BY <2>1, <2>2, <3>1 DEF Held
  <2>5. CASE pc = "cone"
    <3>1. /\ pc' = "shear" /\ ~TensionFails(n, dest)
          /\ ~ConeFails(ConeResistance(anchor.cube_stren, n), dest)
      BY <1>2, <2>1, <2>3, <2>5 DEF After, Fails
    <3>2. ccres' = ConeResistance(anchor.cube_stren, n)
      BY <1>3, <2>5 DEF Accept
    <3>3. ConeResistance(anchor.cube_stren, n) \in Nat
      BY <1>0, ConeNat DEF TypeOK, AnchorType
    <3>. HIDE DEF dest, fst
    <3>4. ccres' <= ConeResistance(anchor.cube_stren, n)
      BY <3>2, <3>3
    <3>. QED BY <2>1, <2>2, <3>1, <3>4 DEF Held
  <2>6. ASSUME pc # "cone" PROVE ccres' = ccres
    BY <1>3, <2>6 DEF Accept
  <2>7. CASE pc = "shear"
    <3>1. pc' = "distance" /\ ~ShearFails(n, fst)
      BY <2>1, <2>3, <2>7 DEF After, Fails
    <3>. QED BY <1>2, <2>1, <2>2, <2>6, <2>7, <3>1 DEF Held
  <2>8. CASE pc = "edge"
    <3>1. pc' = "pry"
      BY <2>3, <2>8 DEF After
    <3>. QED BY <1>2, <2>1, <2>2, <2>6, <2>8, <3>1 DEF Held
  <2>9. CASE pc = "pry"
    <3>1. pc' = "write" /\ ~PryFails(n, ccres, fst)
      BY <2>1, <2>3, <2>9 DEF After, Fails
    <3>2. ~PryFails(n, ConeResistance(anchor.cube_stren, n), fst)
      BY <1>0, <1>2, <2>9, <3>1, PryOfCone
    <3>. QED BY <1>2, <2>1, <2>2, <2>6, <2>9, <3>1, <3>2 DEF Held
  <2>. QED BY <2>1, <2>4, <2>5, <2>7, <2>8, <2>9 DEF Checks
<1>4. ASSUME NextSize PROVE Held'
  <2>1. /\ pc' = pc /\ pc \in Checks /\ n < 6 /\ n' = n + 1 /\ ccres' = ccres
        /\ anchor' = anchor /\ flange_coeff' = flange_coeff
    BY <1>4 DEF NextSize
  <2>2. dest' = dest /\ fst' = fst
    BY <2>1 DEF dest, fst
  <2>3. /\ ~TensionFails(n, dest) => ~TensionFails(n', dest')
        /\ ~ShearFails(n, fst) => ~ShearFails(n', fst')
        /\ ConeResistance(anchor.cube_stren, n) <= ConeResistance(anchor'.cube_stren, n')
        /\ ~ConeFails(ConeResistance(anchor.cube_stren, n), dest) =>
              ~ConeFails(ConeResistance(anchor'.cube_stren, n'), dest')
    BY <1>0, <2>1, <2>2, NextSizeHolds
  <2>4. ccres <= ConeResistance(anchor.cube_stren, n) =>
            ccres' <= ConeResistance(anchor'.cube_stren, n')
    <3>1. /\ ConeResistance(anchor.cube_stren, n) \in Nat
          /\ ConeResistance(anchor'.cube_stren, n') \in Nat
          /\ ccres \in Nat
      <4>1. n' \in Sizes /\ n \in Sizes /\ ccres \in Nat
        BY <1>0, <2>1 DEF TypeOK, Sizes
      <4>2. anchor.cube_stren \in Nat
        BY <1>0 DEF TypeOK, AnchorType
      <4>. QED BY <2>1, <4>1, <4>2, ConeNat
    <3>. QED BY <2>1, <2>3, <3>1
  <2>. QED BY <1>2, <2>1, <2>3, <2>4 DEF Held, Checks
<1>5. ASSUME LengthenFlange \/ ShortenFlange PROVE Held'
  BY <1>5 DEF LengthenFlange, ShortenFlange, Again, Held
<1>6. ASSUME RootOfNegative PROVE Held'
  BY <1>6 DEF RootOfNegative, Held
<1>7. ASSUME MeasureEdge PROVE Held'
  <2>1. dest' = dest /\ fst' = fst
    BY <1>7 DEF MeasureEdge, dest, fst
  <2>. QED BY <1>2, <1>7, <2>1 DEF MeasureEdge, Held
<1>8. ASSUME WriteBoltData PROVE Held'
  BY <1>0, <1>8 DEF WriteBoltData, TypeOK, Sizes, NoFile
<1>9. ~ReturnToMain /\ ~ReturnToCheck /\ ~ReturnToDistance
  BY <1>0, <1>1 DEF BoltInv, Unwinding, ReturnToMain, ReturnToCheck, ReturnToDistance
<1>10. ASSUME End \/ UNCHANGED vars PROVE Held'
  <2>1. UNCHANGED vars
    BY <1>10 DEF End
  <2>2. dest' = dest /\ fst' = fst
    BY <2>1 DEF vars, dest, fst
  <2>. QED BY <1>2, <2>1, <2>2 DEF vars, Held
<1>. QED BY <1>3, <1>4, <1>5, <1>6, <1>7, <1>8, <1>9, <1>10 DEF Next

LEMMA OnFileNext == FileInv /\ [Next]_vars => BoltOnFileHolds'
<1>. SUFFICES ASSUME FileInv, [Next]_vars, hole_params' # NoFile
              PROVE  HoldsSteelAndCone(hole_params)'
  BY DEF BoltOnFileHolds
<1>0. BoltInv /\ TypeOK /\ Held
  BY DEF FileInv, BoltInv
<1>1. anchor' = anchor
  BY DEF Next, vars, Accept, NextSize, LengthenFlange, Again, RootOfNegative, MeasureEdge,
         ShortenFlange, WriteBoltData, ReturnToMain, ReturnToCheck, ReturnToDistance, End
<1>2. CASE hole_params # NoFile
  <2>1. hole_params' = hole_params /\ flange_coeff' = flange_coeff
    BY <1>0, <1>2, FileStays
  <2>2. dest' = dest /\ fst' = fst
    BY <1>1, <2>1 DEF dest, fst
  <2>3. HoldsSteelAndCone(hole_params)
    BY <1>2 DEF FileInv, BoltOnFileHolds
  <2>. QED BY <1>1, <2>1, <2>2, <2>3 DEF HoldsSteelAndCone
<1>3. CASE hole_params = NoFile
  <2>1. WriteBoltData
    BY <1>3 DEF Next, vars, Accept, NextSize, LengthenFlange, Again, RootOfNegative,
       MeasureEdge, ShortenFlange, ReturnToMain, ReturnToCheck, ReturnToDistance, End
  <2>2. hole_params' = n /\ dest' = dest /\ fst' = fst
    BY <2>1 DEF WriteBoltData, dest, fst
  <2>3. /\ ~TensionFails(n, dest) /\ ~ShearFails(n, fst)
        /\ ~ConeFails(ConeResistance(anchor.cube_stren, n), dest)
        /\ ~PryFails(n, ConeResistance(anchor.cube_stren, n), fst)
    BY <1>0, <1>3, <2>1 DEF WriteBoltData, Held
  <2>. QED BY <1>1, <2>2, <2>3 DEF HoldsSteelAndCone
<1>. QED BY <1>2, <1>3

\* Only the last size is written, and the flange may have been lengthened, shortened
\* and lengthened again: the bolt on file still passes tension, cone, shear and
\* pry-out for the flange that is in force.
THEOREM OnFileHolds == Spec => []BoltOnFileHolds
<1>1. Init => FileInv
  <2>1. Init => Held
    BY DEF Init, Held
  <2>2. Init => BoltOnFileHolds
    BY DEF Init, BoltOnFileHolds
  <2>. QED BY <2>1, <2>2, BoltInvInit DEF FileInv
<1>2. FileInv /\ [Next]_vars => FileInv'
  BY BoltInvNext, HeldNext, OnFileNext DEF FileInv
<1>3. FileInv => BoltOnFileHolds
  BY DEF FileInv
<1>. QED BY <1>1, <1>2, <1>3, PTL DEF Spec

----------------------------------------------------------------------------
\* The walk through the sizes.

\* A call's walk through the sizes for a flange: a size that fails one of the first
\* three checks, the size they accept, and the distance concrete_edge is called with
\* after so many sizes.
FailsFirst(a, k, size) ==
    \/ TensionFails(size, des_t(Mov(a), a.wall_t, k))
    \/ ConeFails(ConeResistance(a.cube_stren, size), des_t(Mov(a), a.wall_t, k))
    \/ ShearFails(size, Shear(a))

Starts(a, k, size) == ~FailsFirst(a, k, size) /\ (size = 2 \/ FailsFirst(a, k, size - 1))

Walked(d, j) ==
    IF j = 0 THEN d
    ELSE IF j = 1 THEN Converted(d)
    ELSE IF j = 2 THEN Converted(Converted(d))
    ELSE IF j = 3 THEN Converted(Converted(Converted(d)))
    ELSE Converted(Converted(Converted(Converted(d))))

FailsEdge(a, k, first, size) ==
    EdgeFails(size, a.cube_stren, Converted(Walked(DistanceOf(a, k), size - first)), Shear(a))

\* A larger bolt passes the first three checks where a smaller one does.
LEMMA FirstHolds ==
    ASSUME NEW a \in AnchorType, NEW k \in Int,
           NEW size \in Sizes, NEW larger \in Sizes, size <= larger, ~FailsFirst(a, k, size)
    PROVE  ~FailsFirst(a, k, larger)
<1>. DEFINE t == des_t(Mov(a), a.wall_t, k)
            f == Shear(a)
            fc == a.cube_stren
            low == ConeResistance(fc, size)
            high == ConeResistance(fc, larger)
<1>1. t \in Int
  BY TensionInt
<1>2. f \in Int
  BY ShearInt
<1>3. fc \in Nat
  BY DEF AnchorType
<1>. HIDE DEF t, f, fc
<1>4. low \in Nat /\ high \in Nat /\ low <= high
  BY <1>3, ConeNat, ConeGrows
<1>. HIDE DEF low, high
<1>5. ~TensionFails(size, t) /\ ~ConeFails(low, t) /\ ~ShearFails(size, f)
  BY DEF FailsFirst, t, f, fc, low
<1>6. ~TensionFails(larger, t)
  BY <1>1, <1>5, TensionGrows DEF TensionFails
<1>7. ~ConeFails(high, t)
  BY <1>1, <1>4, <1>5 DEF ConeFails
<1>8. ~ShearFails(larger, f)
  BY <1>2, <1>5, ShearGrows DEF ShearFails
<1>. QED BY <1>6, <1>7, <1>8 DEF FailsFirst, t, f, fc, high

\* So a flange has one size to start the edge check with.
LEMMA StartsOnce ==
    ASSUME NEW a \in AnchorType, NEW k \in Int, NEW s \in Sizes, NEW t \in Sizes,
           Starts(a, k, s), Starts(a, k, t)
    PROVE  s = t
<1>1. ASSUME NEW x \in Sizes, NEW y \in Sizes, Starts(a, k, x), Starts(a, k, y), x < y
      PROVE  FALSE
  <2>1. y # 2 /\ y - 1 \in Sizes /\ x <= y - 1
    BY <1>1 DEF Sizes
  <2>2. ~FailsFirst(a, k, x) /\ FailsFirst(a, k, y - 1)
    BY <1>1, <2>1 DEF Starts
  <2>. QED BY <2>1, <2>2, FirstHolds
<1>2. ~(s < t) /\ ~(t < s)
  BY <1>1
<1>. QED BY <1>2 DEF Sizes

\* The same, with the range of the distance after the next conversion.
LEMMA Onwards ==
    ASSUME NEW k \in Sizes, NEW fc \in Nat, NEW e \in Nat, 304 <= e, e <= Far
    PROVE  /\ Converted(e) \in Nat /\ 304 <= Converted(e) /\ Converted(e) <= Far
           /\ edge_res(k, fc, e) \in Nat /\ edge_res(k, fc, Converted(e)) \in Nat
           /\ edge_res(k, fc, e) <= edge_res(k, fc, Converted(e))
<1>1. Converted(e) \in Nat /\ 304 <= Converted(e) /\ Converted(e) <= Far
  BY ConvertedRange DEF Far
<1>. QED BY <1>1, ConvertedHolds

\* concrete_edge's repeated conversion is on the safe side: a size that fails at the
\* distance the walk has come to also fails at the distance itself.
LEMMA WalkHolds ==
    ASSUME NEW k \in Sizes, NEW fc \in Nat, NEW d \in Nat, NEW j \in 0 .. 4, NEW f \in Int,
           EdgeFails(k, fc, Converted(Walked(d, j)), f)
    PROVE  EdgeFails(k, fc, Converted(d), f)
<1>1. CASE d = 0
  <2>1. Converted(0) = 0
    BY DEF Converted, Far
  <2>2. Walked(0, j) = 0
    BY <2>1 DEF Walked
  <2>. QED BY <1>1, <2>1, <2>2 DEF EdgeFails
<1>2. CASE d # 0
  <2>. DEFINE e0 == Converted(d)
              e1 == Converted(e0)
              e2 == Converted(e1)
              e3 == Converted(e2)
              e4 == Converted(e3)
              R(e) == edge_res(k, fc, e)
  <2>1. e0 \in Nat /\ 304 <= e0 /\ e0 <= Far
    BY <1>2 DEF Converted, Far
  <2>2. Converted(Walked(d, j)) \in {e0, e1, e2, e3, e4}
    BY DEF Walked
  <2>. HIDE DEF e0
  <2>3. e1 \in Nat /\ 304 <= e1 /\ e1 <= Far /\ R(e0) \in Nat /\ R(e1) \in Nat /\ R(e0) <= R(e1)
    BY <2>1, Onwards
  <2>. HIDE DEF e1
  <2>4. e2 \in Nat /\ 304 <= e2 /\ e2 <= Far /\ R(e2) \in Nat /\ R(e1) <= R(e2)
    BY <2>3, Onwards
  <2>. HIDE DEF e2
  <2>5. e3 \in Nat /\ 304 <= e3 /\ e3 <= Far /\ R(e3) \in Nat /\ R(e2) <= R(e3)
    BY <2>4, Onwards
  <2>. HIDE DEF e3
  <2>6. e4 \in Nat /\ R(e4) \in Nat /\ R(e3) <= R(e4)
    BY <2>5, Onwards
  <2>. HIDE DEF e4
  <2>. DEFINE e == Converted(Walked(d, j))
  <2>7. 2 * R(e) < 3 * f
    BY DEF EdgeFails
  <2>8. R(e) \in {R(e0), R(e1), R(e2), R(e3), R(e4)}
    BY <2>2
  <2>. HIDE DEF e, R
  <2>9. R(e0) <= R(e)
    BY <2>3, <2>4, <2>5, <2>6, <2>8
  <2>10. 2 * R(e0) < 3 * f
    <3>1. R(e) \in Nat
      BY <2>3, <2>4, <2>5, <2>6, <2>8
    <3>. QED BY <2>3, <2>7, <2>9, <3>1
  <2>11. e0 # 0
    BY <2>1
  <2>. QED BY <2>10, <2>11 DEF EdgeFails, R, e0
<1>. QED BY <1>1, <1>2

\* No step builds another footing.
LEMMA AnchorStays == [Next]_vars => anchor' = anchor
BY DEF Next, vars, Accept, NextSize, LengthenFlange, Again, RootOfNegative, MeasureEdge,
       ShortenFlange, WriteBoltData, ReturnToMain, ReturnToCheck, ReturnToDistance, End

\* The walk of the call that is under way: the size under check is the first that the
\* checks so far accept; the edge check has started with the first that three accept,
\* and all from there on have failed it.
EdgeWalk ==
    \E s \in Sizes :
        /\ Starts(anchor, flange_coeff, s)
        /\ s <= n /\ c1 = Walked(EdgeDistance, n - s)
        /\ \A m \in Sizes : s <= m /\ m < n => FailsEdge(anchor, flange_coeff, s, m)

Walk ==
    hole_params = NoFile =>
        /\ pc \in {"tension", "cone", "shear", "distance"} =>
              n = 2 \/ FailsFirst(anchor, flange_coeff, n - 1)
        /\ pc = "edge" => EdgeWalk
        /\ pc \in {"edge", "pry", "write"} => EdgeDistance >= 0

WalkInv == FileInv /\ Walk

LEMMA WalkInit == Init => Walk
BY DEF Init, Walk

\* FailsFirst in the words of the checks.
LEMMA FirstOf ==
    ASSUME NEW size
    PROVE  FailsFirst(anchor, flange_coeff, size) <=>
              \/ TensionFails(size, dest)
              \/ ConeFails(ConeResistance(anchor.cube_stren, size), dest)
              \/ ShearFails(size, fst)
BY DEF FailsFirst, dest, fst

\* One more size walked is one more conversion.
LEMMA WalkedNext ==
    ASSUME NEW d, NEW j \in 0 .. 3
    PROVE  Walked(d, j + 1) = Converted(Walked(d, j)) /\ Walked(d, 0) = d
<1>1. j = 0 \/ j = 1 \/ j = 2 \/ j = 3
  OBVIOUS
<1>. QED BY <1>1 DEF Walked

LEMMA WalkNext == WalkInv /\ [Next]_vars => Walk'
<1>. SUFFICES ASSUME WalkInv, [Next]_vars, hole_params' = NoFile
              PROVE  Walk'
  BY DEF Walk
<1>0. FileInv /\ BoltInv /\ TypeOK /\ Held /\ n \in Sizes /\ fst \in Int
  BY FstInt DEF WalkInv, FileInv, BoltInv, TypeOK
<1>1. hole_params = NoFile
  BY <1>0, FileStays
<1>2. anchor' = anchor
  BY AnchorStays
<1>3. /\ pc \in {"tension", "cone", "shear", "distance"} =>
            n = 2 \/ FailsFirst(anchor, flange_coeff, n - 1)
      /\ pc = "edge" => EdgeWalk
      /\ pc \in {"edge", "pry", "write"} => EdgeDistance >= 0
  BY <1>1 DEF WalkInv, Walk
<1>4. ASSUME flange_coeff' = flange_coeff PROVE EdgeDistance' = EdgeDistance
  BY <1>2, <1>4 DEF EdgeDistance
<1>5. ASSUME Accept PROVE Walk'
  <2>1. n' = n /\ flange_coeff' = flange_coeff /\ pc \in Checks /\ pc' = After[pc]
    BY <1>5 DEF Accept
  <2>2. EdgeDistance' = EdgeDistance
    BY <1>4, <2>1
  <2>3. CASE pc \in {"tension", "cone", "shear"}
    <3>1. pc' \in {"cone", "shear", "distance"}
      BY <2>1, <2>3 DEF After
    <3>. QED BY <1>2, <1>3, <2>1, <2>3, <3>1 DEF Walk
  <2>4. CASE pc \in {"edge", "pry"}
    <3>1. pc' \in {"pry", "write"}
      BY <2>1, <2>4 DEF After
    <3>. QED BY <1>3, <2>2, <2>4, <3>1 DEF Walk
  <2>. QED BY <2>1, <2>3, <2>4 DEF Checks
<1>6. ASSUME NextSize PROVE Walk'
  <2>1. /\ n < 6 /\ n' = n + 1 /\ flange_coeff' = flange_coeff /\ pc \in Checks /\ pc' = pc
        /\ Fails /\ c1' = IF pc = "edge" THEN Converted(c1) ELSE c1
    BY <1>6 DEF NextSize
  <2>2. EdgeDistance' = EdgeDistance
    BY <1>4, <2>1
  <2>0. n' - 1 = n
    BY <1>0, <2>1 DEF Sizes
  <2>3. CASE pc \in {"tension", "cone", "shear"}
    <3>1. FailsFirst(anchor, flange_coeff, n)
      BY <2>1, <2>3, FirstOf DEF Fails
    <3>. QED BY <1>2, <2>0, <2>1, <2>3, <3>1 DEF Walk
  <2>4. CASE pc = "edge"
    <3>1. PICK s \in Sizes :
              /\ Starts(anchor, flange_coeff, s)
              /\ s <= n /\ c1 = Walked(EdgeDistance, n - s)
              /\ \A m \in Sizes : s <= m /\ m < n => FailsEdge(anchor, flange_coeff, s, m)
      BY <1>3, <2>4 DEF EdgeWalk
    <3>2. n - s \in 0 .. 3 /\ n' - s = (n - s) + 1
      BY <1>0, <2>1, <3>1 DEF Sizes
    <3>3. c1' = Walked(EdgeDistance', n' - s)
      <4>. DEFINE j == n - s
      <4>1. j \in 0 .. 3 /\ n' - s = j + 1 /\ c1 = Walked(EdgeDistance, j)
        BY <3>1, <3>2
      <4>. HIDE DEF j
      <4>2. Walked(EdgeDistance, j + 1) = Converted(Walked(EdgeDistance, j))
        BY <4>1, WalkedNext
      <4>. QED BY <2>1, <2>2, <2>4, <4>1, <4>2
    <3>4. FailsEdge(anchor, flange_coeff, s, n)
      <4>1. EdgeFails(n, anchor.cube_stren, Converted(c1), fst)
        BY <2>1, <2>4 DEF Fails
      <4>. QED BY <3>1, <4>1 DEF FailsEdge, EdgeDistance, fst
    <3>5. \A m \in Sizes : s <= m /\ m < n' => FailsEdge(anchor', flange_coeff', s, m)
      <4>. SUFFICES ASSUME NEW m \in Sizes, s <= m, m < n'
                    PROVE  FailsEdge(anchor, flange_coeff, s, m)
        BY <1>2, <2>1
      <4>1. m < n \/ m = n
        BY <1>0, <2>1 DEF Sizes
      <4>. QED BY <3>1, <3>4, <4>1
    <3>6. Starts(anchor', flange_coeff', s) /\ s <= n'
      BY <1>0, <1>2, <2>1, <3>1 DEF Sizes
    <3>7. EdgeWalk'
      BY <3>3, <3>5, <3>6 DEF EdgeWalk
    <3>. QED BY <1>3, <2>1, <2>2, <2>4, <3>7 DEF Walk
  <2>5. CASE pc = "pry"
    BY <1>3, <2>1, <2>2, <2>5 DEF Walk
  <2>. QED BY <2>1, <2>3, <2>4, <2>5 DEF Checks
<1>7. ASSUME LengthenFlange \/ ShortenFlange PROVE Walk'
  BY <1>7 DEF LengthenFlange, ShortenFlange, Again, Walk
<1>8. ASSUME RootOfNegative PROVE Walk'
  BY <1>8 DEF RootOfNegative, Walk
<1>9. ASSUME MeasureEdge PROVE Walk'
  <2>1. /\ pc = "distance" /\ pc' = "edge" /\ EdgeDistance >= 0 /\ c1' = EdgeDistance
        /\ flange_coeff' = flange_coeff /\ n' = n
    BY <1>9 DEF MeasureEdge
  <2>2. EdgeDistance' = EdgeDistance
    BY <1>4, <2>1
  <2>3. ~FailsFirst(anchor, flange_coeff, n)
    BY <1>0, <1>1, <2>1, FirstOf DEF Held
  <2>4. Starts(anchor, flange_coeff, n)
    BY <1>3, <2>1, <2>3 DEF Starts
  <2>5. Walked(EdgeDistance, n - n) = EdgeDistance /\ n <= n
    BY <1>0 DEF Walked, Sizes
  <2>6. \A m \in Sizes : ~(n <= m /\ m < n)
    BY <1>0 DEF Sizes
  <2>7. EdgeWalk'
    BY <1>0, <1>2, <2>1, <2>2, <2>4, <2>5, <2>6 DEF EdgeWalk
  <2>. QED BY <2>1, <2>2, <2>7 DEF Walk
<1>10. ASSUME WriteBoltData PROVE Walk'
  BY <1>0, <1>10 DEF WriteBoltData, Sizes, NoFile
<1>11. ~ReturnToMain /\ ~ReturnToCheck /\ ~ReturnToDistance
  BY <1>0, <1>1 DEF BoltInv, Unwinding, ReturnToMain, ReturnToCheck, ReturnToDistance
<1>12. ASSUME End \/ UNCHANGED vars PROVE Walk'
  <2>1. UNCHANGED vars
    BY <1>12 DEF End
  <2>2. EdgeDistance' = EdgeDistance /\ EdgeWalk' = EdgeWalk
    BY <2>1 DEF vars, EdgeDistance, EdgeWalk
  <2>. QED BY <1>3, <2>1, <2>2 DEF vars, Walk
<1>. QED BY <1>5, <1>6, <1>7, <1>8, <1>9, <1>10, <1>11, <1>12 DEF Next

----------------------------------------------------------------------------
\* The smallest bolt.

\* One size smaller fails a check.
Needed(size) == size > 2 => ~(HoldsSteelAndCone(size - 1) /\ HoldsEdge(size - 1))

\* M8 is judged with its own cone, and the pry-out check leaves a larger size only
\* for M8 or for good: from M10 on kcp and the resistance it is multiplied with stay.
Kept ==
    hole_params = NoFile =>
        /\ pc \in {"shear", "distance", "edge", "pry"} /\ n = 2 =>
              ccres = ConeResistance(anchor.cube_stren, 2)
        /\ pc = "pry" => Needed(n) \/ (n > 2 /\ PryFails(n, ccres, fst))
        /\ pc = "write" => Needed(n)

NeededInv == WalkInv /\ Kept /\ NoLargerThanNeeded

\* Between M10 and M20 pry-out does not depend on the size.
LEMMA PryLeaves ==
    ASSUME NEW size \in Sizes, size > 2, size < 6, NEW cone, NEW f
    PROVE  PryFails(size + 1, cone, f) <=> PryFails(size, cone, f)
<1>1. Of("kcp", size) = 2 /\ Of("kcp", size + 1) = 2
  BY DEF Of, Table, Sizes
<1>. QED BY <1>1 DEF PryFails

\* A size the edge check has failed would have failed it at the distance itself.
LEMMA WalkNeeded ==
    ASSUME WalkInv, hole_params = NoFile, pc = "edge"
    PROVE  Needed(n)
<1>. SUFFICES ASSUME n > 2, HoldsSteelAndCone(n - 1), HoldsEdge(n - 1) PROVE FALSE
  BY DEF Needed
<1>0. TypeOK /\ anchor \in AnchorType /\ anchor.cube_stren \in Nat /\ fst \in Int /\ n \in Sizes
  <2>1. TypeOK /\ anchor \in AnchorType /\ n \in Sizes
    BY DEF WalkInv, FileInv, BoltInv, TypeOK
  <2>2. anchor.cube_stren \in Nat
    BY <2>1 DEF AnchorType
  <2>. QED BY <2>1, <2>2, FstInt
<1>1. EdgeDistance \in Nat
  <2>1. EdgeDistance \in Int
    BY <1>0, EdgeDistanceInt DEF TypeOK
  <2>2. EdgeDistance >= 0
    BY DEF WalkInv, Walk
  <2>. QED BY <2>1, <2>2
<1>2. PICK s \in Sizes :
          /\ Starts(anchor, flange_coeff, s)
          /\ s <= n /\ c1 = Walked(EdgeDistance, n - s)
          /\ \A m \in Sizes : s <= m /\ m < n => FailsEdge(anchor, flange_coeff, s, m)
  BY DEF WalkInv, Walk, EdgeWalk
<1>3. n - 1 \in Sizes
  BY <1>0 DEF Sizes
<1>4. CASE s = n
  <2>1. FailsFirst(anchor, flange_coeff, n - 1)
    BY <1>2, <1>4 DEF Starts
  <2>. QED BY <2>1, FirstOf DEF HoldsSteelAndCone
<1>5. CASE s # n
  <2>1. s <= n - 1 /\ n - 1 < n /\ (n - 1) - s \in 0 .. 4
    BY <1>0, <1>2, <1>5 DEF Sizes
  <2>2. FailsEdge(anchor, flange_coeff, s, n - 1)
    BY <1>2, <1>3, <2>1
  <2>. DEFINE m == n - 1
              j == m - s
  <2>3. EdgeFails(m, anchor.cube_stren, Converted(Walked(EdgeDistance, j)), fst)
    BY <2>2 DEF FailsEdge, EdgeDistance, fst
  <2>4. m \in Sizes /\ j \in 0 .. 4
    BY <1>3, <2>1
  <2>. HIDE DEF m, j
  <2>5. EdgeFails(m, anchor.cube_stren, Converted(EdgeDistance), fst)
    BY <1>0, <1>1, <2>3, <2>4, WalkHolds
  <2>. QED BY <2>5 DEF HoldsEdge, m
<1>. QED BY <1>4, <1>5

LEMMA KeptNext == NeededInv /\ [Next]_vars => Kept'
<1>. SUFFICES ASSUME NeededInv, [Next]_vars, hole_params' = NoFile
              PROVE  Kept'
  BY DEF Kept
<1>0. WalkInv /\ FileInv /\ BoltInv /\ TypeOK /\ n \in Sizes
  BY DEF NeededInv, WalkInv, FileInv, BoltInv, TypeOK
<1>1. hole_params = NoFile
  BY <1>0, FileStays
<1>2. anchor' = anchor
  BY AnchorStays
<1>3. /\ pc \in {"shear", "distance", "edge", "pry"} /\ n = 2 =>
            ccres = ConeResistance(anchor.cube_stren, 2)
      /\ pc = "pry" => Needed(n) \/ (n > 2 /\ PryFails(n, ccres, fst))
      /\ pc = "write" => Needed(n)
  BY <1>1 DEF NeededInv, Kept
<1>4. fst' = fst
  BY <1>2 DEF fst
<1>5. ASSUME flange_coeff' = flange_coeff, n' = n, Needed(n) PROVE Needed(n)'
  <2>1. dest' = dest /\ EdgeDistance' = EdgeDistance
    BY <1>2, <1>5 DEF dest, EdgeDistance
  <2>. QED BY <1>2, <1>4, <1>5, <2>1 DEF Needed, HoldsSteelAndCone, HoldsEdge
<1>6. ASSUME Accept PROVE Kept'
  <2>1. n' = n /\ flange_coeff' = flange_coeff /\ pc \in Checks /\ pc' = After[pc] /\ ~Fails
    BY <1>6 DEF Accept
  <2>2. pc = "cone" => ccres' = ConeResistance(anchor.cube_stren, n)
    BY <1>6 DEF Accept
  <2>3. pc # "cone" => ccres' = ccres
    BY <1>6 DEF Accept
  <2>4. CASE pc \in {"tension", "cone", "shear"}
    <3>1. pc' \in {"cone", "shear", "distance"} /\ (pc = "tension" => pc' = "cone")
      BY <2>1, <2>4 DEF After
    <3>. QED BY <1>2, <1>3, <2>1, <2>2, <2>3, <2>4, <3>1 DEF Kept
  <2>5. CASE pc = "edge"
    <3>1. pc' = "pry"
      BY <2>1, <2>5 DEF After
    <3>2. Needed(n)'
      BY <1>0, <1>1, <1>5, <2>1, <2>5, WalkNeeded
    <3>. QED BY <1>2, <1>3, <2>1, <2>3, <2>5, <3>1, <3>2 DEF Kept
  <2>6. CASE pc = "pry"
    <3>1. pc' = "write"
      BY <2>1, <2>6 DEF After
    <3>2. Needed(n)'
      BY <1>3, <1>5, <2>1, <2>6 DEF Fails
    <3>. QED BY <3>1, <3>2 DEF Kept
  <2>. QED BY <2>1, <2>4, <2>5, <2>6 DEF Checks
<1>7. ASSUME NextSize PROVE Kept'
  <2>1. /\ n < 6 /\ n' = n + 1 /\ flange_coeff' = flange_coeff /\ pc \in Checks /\ pc' = pc
        /\ Fails /\ ccres' = ccres
    BY <1>7 DEF NextSize
  <2>2. n' # 2 /\ n' > 2 /\ n' - 1 = n
    BY <1>0, <2>1 DEF Sizes
  <2>3. CASE pc = "pry"
    <3>1. PryFails(n, ccres, fst)
      BY <2>1, <2>3 DEF Fails
    <3>2. CASE n = 2
      <4>1. ~HoldsSteelAndCone(n)
        BY <1>3, <2>3, <3>1, <3>2 DEF HoldsSteelAndCone
      <4>2. dest' = dest
        BY <1>2, <2>1 DEF dest
      <4>3. n' - 1 = 2
        BY <2>2, <3>2
      <4>4. Needed(n)'
        BY <1>2, <1>4, <3>2, <4>1, <4>2, <4>3 DEF Needed, HoldsSteelAndCone
      <4>. QED BY <2>1, <2>2, <2>3, <4>4 DEF Kept
    <3>3. CASE n # 2
      <4>1. PryFails(n + 1, ccres, fst)
        BY <1>0, <2>1, <3>1, <3>3, PryLeaves DEF Sizes
      <4>. QED BY <1>4, <2>1, <2>2, <2>3, <4>1 DEF Kept
    <3>. QED BY <3>2, <3>3
  <2>4. CASE pc # "pry"
    BY <2>1, <2>2, <2>4 DEF Kept, Checks
  <2>. QED BY <2>3, <2>4
<1>8. ASSUME LengthenFlange \/ ShortenFlange PROVE Kept'
  BY <1>8 DEF LengthenFlange, ShortenFlange, Again, Kept
<1>9. ASSUME RootOfNegative PROVE Kept'
  BY <1>9 DEF RootOfNegative, Kept
<1>10. ASSUME MeasureEdge PROVE Kept'
  BY <1>2, <1>3, <1>10 DEF MeasureEdge, Kept
<1>11. ASSUME WriteBoltData PROVE Kept'
  BY <1>0, <1>11 DEF WriteBoltData, Sizes, NoFile
<1>12. ~ReturnToMain /\ ~ReturnToCheck /\ ~ReturnToDistance
  BY <1>0, <1>1 DEF BoltInv, Unwinding, ReturnToMain, ReturnToCheck, ReturnToDistance
<1>13. ASSUME End \/ UNCHANGED vars PROVE Kept'
  <2>1. UNCHANGED vars
    BY <1>13 DEF End
  <2>2. pc = "write" => Needed(n)'
    BY <1>3, <1>5, <2>1 DEF vars
  <2>3. pc = "pry" => Needed(n)' \/ (n > 2 /\ PryFails(n, ccres, fst))
    BY <1>3, <1>5, <2>1 DEF vars
  <2>. QED BY <1>3, <1>4, <2>1, <2>2, <2>3 DEF vars, Kept
<1>. QED BY <1>6, <1>7, <1>8, <1>9, <1>10, <1>11, <1>12, <1>13 DEF Next

LEMMA NeededNext == NeededInv /\ [Next]_vars => NoLargerThanNeeded'
<1>. SUFFICES ASSUME NeededInv, [Next]_vars, hole_params' > 2
              PROVE  ~(HoldsSteelAndCone(hole_params - 1)' /\ HoldsEdge(hole_params - 1)')
  BY DEF NoLargerThanNeeded
<1>0. FileInv /\ BoltInv /\ TypeOK
  BY DEF NeededInv, WalkInv, FileInv, BoltInv
<1>1. anchor' = anchor
  BY AnchorStays
<1>2. fst' = fst
  BY <1>1 DEF fst
<1>3. CASE hole_params # NoFile
  <2>1. hole_params' = hole_params /\ flange_coeff' = flange_coeff
    BY <1>0, <1>3, FileStays
  <2>2. dest' = dest /\ EdgeDistance' = EdgeDistance
    BY <1>1, <2>1 DEF dest, EdgeDistance
  <2>3. ~(HoldsSteelAndCone(hole_params - 1) /\ HoldsEdge(hole_params - 1))
    BY <2>1 DEF NeededInv, NoLargerThanNeeded
  <2>. QED BY <1>1, <1>2, <2>1, <2>2, <2>3 DEF HoldsSteelAndCone, HoldsEdge
<1>4. CASE hole_params = NoFile
  <2>1. hole_params' # NoFile
    BY DEF NoFile
  <2>2. WriteBoltData
    BY <1>4, <2>1 DEF Next, vars, Accept, NextSize, LengthenFlange, Again, RootOfNegative,
       MeasureEdge, ShortenFlange, ReturnToMain, ReturnToCheck, ReturnToDistance, End
  <2>3. hole_params' = n /\ flange_coeff' = flange_coeff /\ Needed(n)
    BY <1>4, <2>2 DEF WriteBoltData, NeededInv, Kept
  <2>4. dest' = dest /\ EdgeDistance' = EdgeDistance
    BY <1>1, <2>3 DEF dest, EdgeDistance
  <2>5. ~(HoldsSteelAndCone(n - 1) /\ HoldsEdge(n - 1))
    BY <2>3 DEF Needed
  <2>. QED BY <1>1, <1>2, <2>3, <2>4, <2>5 DEF HoldsSteelAndCone, HoldsEdge
<1>. QED BY <1>3, <1>4

\* The retries start over from M8, the edge check converts its distance again for
\* every size, and the pry-out check is judged with the cone of an earlier size: still
\* the bolt on file is the smallest its checks allow, or M8.
THEOREM SmallestBolt == Spec => []NoLargerThanNeeded
<1>1. Init => NeededInv
  <2>1. Init => Held /\ BoltOnFileHolds
    BY DEF Init, Held, BoltOnFileHolds
  <2>2. Init => Kept /\ NoLargerThanNeeded
    BY DEF Init, Kept, NoLargerThanNeeded, NoFile
  <2>. QED BY <2>1, <2>2, BoltInvInit, WalkInit DEF NeededInv, WalkInv, FileInv
<1>2. NeededInv /\ [Next]_vars => NeededInv'
  BY BoltInvNext, HeldNext, OnFileNext, WalkNext, KeptNext, NeededNext
     DEF NeededInv, WalkInv, FileInv
<1>3. NeededInv => NoLargerThanNeeded
  BY DEF NeededInv
<1>. QED BY <1>1, <1>2, <1>3, PTL DEF Spec

----------------------------------------------------------------------------
\* The retries of the edge check.

\* A flange for which every size fails the edge check, from the one it starts with on.
Hopeless(a, k) ==
    /\ DistanceOf(a, k) >= 0
    /\ \E s \in Sizes : Starts(a, k, s) /\ \A m \in Sizes : s <= m => FailsEdge(a, k, s, m)

\* A flange on the footing leaves the distance an integer, and a flange of nothing
\* leaves it the whole toe.
LEMMA DistanceInt ==
    ASSUME NEW a \in AnchorType, NEW k \in Int
    PROVE  DistanceOf(a, k) \in Int
<1>1. a.base_width \in Int /\ a.wall_t \in Int
  BY DEF AnchorType
<1>2. toe(a.base_width, a.wall_t) \in Int
  BY <1>1 DEF toe
<1>3. k * a.wall_t \in Int
  BY <1>1
<1>4. (k * a.wall_t) \div 2 \in Int
  BY <1>3
<1>. QED BY <1>2, <1>4 DEF DistanceOf

\* Without a flange the bolts are on the toe, not off it.
LEMMA DistanceOfNothing ==
    ASSUME NEW a \in AnchorType, a.wall_t <= a.base_width
    PROVE  DistanceOf(a, 0) >= 0
<1>1. a.base_width \in Int /\ a.wall_t \in Int
  BY DEF AnchorType
<1>2. toe(a.base_width, a.wall_t) >= 0
  BY <1>1 DEF toe
<1>3. (0 * a.wall_t) \div 2 = 0
  BY <1>1
<1>4. toe(a.base_width, a.wall_t) \in Int
  BY <1>1 DEF toe
<1>. QED BY <1>2, <1>3, <1>4 DEF DistanceOf

\* A divisor that goes k times into x does so in the quotient.
LEMMA DividedReaches ==
    ASSUME NEW x \in Nat, NEW w \in Nat \ {0}, NEW k \in Nat, k * w <= x
    PROVE  k <= x \div w
<1>. DEFINE q == x \div w
<1>1. q \in Int /\ x % w \in Nat /\ x = q * w + (x % w) /\ x % w < w
  BY Divides
<1>. HIDE DEF q
<1>2. SUFFICES ASSUME q + 1 <= k PROVE FALSE
  BY <1>1 DEF q
<1>3. (q + 1) * w <= k * w
  BY <1>1, <1>2
<1>4. (q + 1) * w = q * w + w
  BY <1>1
<1>. DEFINE p == k * w
            r == q * w
            t == x % w
<1>5. p \in Int /\ r \in Int /\ t \in Int /\ p <= x /\ x = r + t /\ t < w /\ r + w <= p
  BY <1>1, <1>3, <1>4
<1>. HIDE DEF p, r, t
<1>. QED BY <1>5

\* A flange that leaves the bolts on the footing is one of those EdgeWeakens looks at.
LEMMA FlangeOnFooting ==
    ASSUME NEW a \in AnchorType, NEW k \in Nat, DistanceOf(a, k) >= 0
    PROVE  k \in Flanges(a)
<1>. DEFINE t == toe(a.base_width, a.wall_t)
            w == a.wall_t
            p == k * w
            x == 2 * t + 1
<1>1. t \in Int /\ w \in Nat \ {0}
  BY DEF AnchorType, toe
<1>2. t - p \div 2 >= 0
  BY DEF DistanceOf
<1>. HIDE DEF t, w
<1>3. p \in Nat
  BY <1>1
<1>. HIDE DEF p
<1>4. p <= x /\ x \in Nat
  BY <1>1, <1>2, <1>3
<1>. HIDE DEF x
<1>5. k <= x \div w /\ x \div w \in Int
  BY <1>1, <1>4, DividedReaches, Divides DEF p
<1>. QED BY <1>5 DEF Flanges, x, t, w

\* Above a hopeless flange no bolt resists edge failure.
LEMMA LongerHopeless ==
    ASSUME NEW a \in AnchorType, EdgeWeakens(a), NEW k \in Nat, NEW l \in Nat, k < l,
           Hopeless(a, k), DistanceOf(a, l) >= 0, NEW size \in Sizes
    PROVE  EdgeFails(size, a.cube_stren, Converted(DistanceOf(a, l)), Shear(a))
<1>. DEFINE d == DistanceOf(a, k)
            e == DistanceOf(a, l)
            fc == a.cube_stren
            f == Shear(a)
<1>1. d \in Nat /\ e \in Nat /\ fc \in Nat /\ f \in Int
  <2>1. d \in Int /\ e \in Int /\ d >= 0 /\ e >= 0
    BY DistanceInt DEF Hopeless
  <2>2. fc \in Nat
    BY DEF AnchorType
  <2>3. f \in Int
    BY ShearInt
  <2>. QED BY <2>1, <2>2, <2>3
<1>2. e > 0 /\ edge_res(6, fc, Converted(e)) <= edge_res(6, fc, Converted(d))
  <2>1. k \in Flanges(a) /\ l \in Flanges(a)
    BY <1>1, FlangeOnFooting
  <2>. QED BY <2>1 DEF EdgeWeakens
<1>3. EdgeFails(6, fc, Converted(d), f)
  <2>1. PICK s \in Sizes : \A m \in Sizes : s <= m => FailsEdge(a, k, s, m)
    BY DEF Hopeless
  <2>2. 6 \in Sizes /\ s <= 6 /\ 6 - s \in 0 .. 4
    BY DEF Sizes
  <2>3. FailsEdge(a, k, s, 6)
    BY <2>1, <2>2
  <2>4. EdgeFails(6, fc, Converted(Walked(d, 6 - s)), f)
    BY <2>3 DEF FailsEdge
  <2>. DEFINE j == 6 - s
  <2>5. j \in 0 .. 4 /\ EdgeFails(6, fc, Converted(Walked(d, j)), f)
    BY <2>2, <2>4
  <2>. HIDE DEF d, fc, f, j
  <2>. QED BY <1>1, <2>2, <2>5, WalkHolds
<1>. HIDE DEF d, e, fc, f
<1>. DEFINE x == Converted(d)
            y == Converted(e)
<1>4. x \in Nat /\ y \in Nat /\ 304 <= y
  BY <1>1, <1>2, ConvertedRange
<1>5. x # 0 /\ 2 * edge_res(6, fc, x) < 3 * f
  BY <1>3 DEF EdgeFails
<1>. HIDE DEF x, y
<1>6. edge_res(6, fc, y) <= edge_res(6, fc, x)
  BY <1>2 DEF x, y
<1>7. /\ edge_res(size, fc, y) \in Nat /\ edge_res(6, fc, y) \in Nat
      /\ edge_res(size, fc, y) <= edge_res(6, fc, y)
  <2>1. size <= 6 /\ 6 \in Sizes
    BY DEF Sizes
  <2>. QED BY <1>1, <1>4, <2>1, SizeHolds
<1>8. edge_res(6, fc, x) \in Nat
  <2>1. x = 0 \/ 304 <= x
    BY <1>1, ConvertedRange DEF x, Converted, Far
  <2>2. 6 \in Sizes /\ 6 <= 6
    BY DEF Sizes
  <2>. QED BY <1>1, <1>4, <1>5, <2>1, <2>2, SizeHolds
<1>. DEFINE u == edge_res(size, fc, y)
            v == edge_res(6, fc, y)
            w == edge_res(6, fc, x)
<1>9. u \in Nat /\ v \in Nat /\ w \in Nat /\ u <= v /\ v <= w /\ 2 * w < 3 * f
  BY <1>5, <1>6, <1>7, <1>8
<1>. HIDE DEF u, v, w
<1>10. 2 * u < 3 * f /\ y # 0
  BY <1>1, <1>4, <1>9
<1>. QED BY <1>10 DEF EdgeFails, u, y, e, fc, f

\* Where the edge check fails M20 the flange is hopeless, and the retries leave it for
\* longer ones; shortened again, they come back to it at most, and no further than the
\* edge check.
Below(k) ==
    /\ Hopeless(anchor, k) /\ k <= flange_coeff
    /\ flange_coeff = k =>
          /\ hole_params = NoFile
          /\ pc \in {"tension", "cone", "shear", "distance", "edge", "StackOverflowError"}

Retried ==
    /\ EdgeWeakens(anchor)
    /\ flange_coeff \in Nat
    /\ hole_params # NoFile => EdgeDistance >= 0
    /\ EdgeFailed => \E k \in Nat : Below(k)

RetryInv == WalkInv /\ Retried

\* The hypothesis does not depend on the length of the base.
LEMMA RelengthenedWeakens ==
    ASSUME NEW a \in AnchorType, EdgeWeakens(a)
    PROVE  EdgeWeakens(Relengthened(a)) /\ Relengthened(a).flange_coeff = a.flange_coeff
<1>. DEFINE b == Relengthened(a)
<1>1. /\ b.flange_coeff = a.flange_coeff /\ b.wall_t = a.wall_t /\ b.base_width = a.base_width
      /\ b.cube_stren = a.cube_stren
  BY DEF Relengthened, AnchorType
<1>. HIDE DEF b
<1>2. Flanges(b) = Flanges(a)
  BY <1>1 DEF Flanges
<1>3. \A k : DistanceOf(b, k) = DistanceOf(a, k)
  BY <1>1 DEF DistanceOf
<1>4. EdgeWeakens(b)
  BY <1>1, <1>2, <1>3 DEF EdgeWeakens
<1>. QED BY <1>1, <1>4 DEF b

LEMMA RetryInit == (\A a \in Anchors : EdgeWeakens(a)) /\ Init => Retried
<1>. SUFFICES ASSUME \A a \in Anchors : EdgeWeakens(a), Init PROVE Retried
  OBVIOUS
<1>1. PICK a \in Anchors : anchor = Relengthened(a)
  BY DEF Init
<1>2. a \in AnchorType /\ EdgeWeakens(a)
  BY <1>1, AnchorsAssumption
<1>3. EdgeWeakens(anchor) /\ flange_coeff = a.flange_coeff
  BY <1>1, <1>2, RelengthenedWeakens DEF Init
<1>4. flange_coeff \in Nat
  BY <1>2, <1>3 DEF EdgeWeakens
<1>5. ~EdgeFailed
  BY DEF Init, EdgeFailed
<1>. QED BY <1>3, <1>4, <1>5 DEF Retried, Init

\* The frame of a nested call names the check it was made from.
LEMMA EdgeFailedAgain ==
    ASSUME TypeOK, NEW coeff, NEW distance, Again(coeff, distance)
    PROVE  EdgeFailed' => EdgeFailed \/ pc = "edge"
<1>. DEFINE frame == [from |-> pc, n |-> n, c1 |-> distance, ccres |-> ccres]
<1>1. calls \in Seq(FrameType) /\ calls' = Append(calls, frame) /\ frame.from = pc
  BY DEF TypeOK, Again
<1>. HIDE DEF frame
<1>2. \A i \in DOMAIN calls' : calls'[i] = frame \/ (i \in DOMAIN calls /\ calls'[i] = calls[i])
  BY <1>1
<1>. QED BY <1>1, <1>2 DEF EdgeFailed

\* M20's failure makes the flange hopeless,
LEMMA FailureHopeless ==
    ASSUME WalkInv, hole_params = NoFile, pc = "edge", Fails, n = 6
    PROVE  Hopeless(anchor, flange_coeff)
<1>1. PICK s \in Sizes :
          /\ Starts(anchor, flange_coeff, s)
          /\ s <= n /\ c1 = Walked(EdgeDistance, n - s)
          /\ \A m \in Sizes : s <= m /\ m < n => FailsEdge(anchor, flange_coeff, s, m)
  BY DEF WalkInv, Walk, EdgeWalk
<1>2. FailsEdge(anchor, flange_coeff, s, 6)
  <2>1. EdgeFails(6, anchor.cube_stren, Converted(c1), fst)
    BY DEF Fails
  <2>. QED BY <1>1, <2>1 DEF FailsEdge, EdgeDistance, fst
<1>3. \A m \in Sizes : s <= m => FailsEdge(anchor, flange_coeff, s, m)
  <2>. SUFFICES ASSUME NEW m \in Sizes, s <= m PROVE FailsEdge(anchor, flange_coeff, s, m)
    OBVIOUS
  <2>1. m = 6 \/ m < n
    BY DEF Sizes
  <2>. QED BY <1>1, <1>2, <2>1
<1>4. DistanceOf(anchor, flange_coeff) >= 0
  BY DEF WalkInv, Walk, EdgeDistance
<1>. QED BY <1>1, <1>3, <1>4 DEF Hopeless

\* and the edge check of a hopeless flange never passes.
LEMMA HopelessFails ==
    ASSUME WalkInv, hole_params = NoFile, pc = "edge", Hopeless(anchor, flange_coeff)
    PROVE  Fails
<1>0. anchor \in AnchorType /\ flange_coeff \in Int /\ n \in Sizes
  BY DEF WalkInv, FileInv, BoltInv, TypeOK
<1>1. PICK s \in Sizes :
          /\ Starts(anchor, flange_coeff, s)
          /\ s <= n /\ c1 = Walked(EdgeDistance, n - s)
  BY DEF WalkInv, Walk, EdgeWalk
<1>2. PICK t \in Sizes :
          /\ Starts(anchor, flange_coeff, t)
          /\ \A m \in Sizes : t <= m => FailsEdge(anchor, flange_coeff, t, m)
  BY DEF Hopeless
<1>3. s = t
  BY <1>0, <1>1, <1>2, StartsOnce
<1>4. FailsEdge(anchor, flange_coeff, s, n)
  BY <1>0, <1>1, <1>2, <1>3
<1>5. EdgeFails(n, anchor.cube_stren, Converted(c1), fst)
  BY <1>1, <1>4 DEF FailsEdge, EdgeDistance, fst
<1>. QED BY <1>5 DEF Fails

LEMMA RetryNext == RetryInv /\ [Next]_vars => Retried'
<1>. SUFFICES ASSUME RetryInv, [Next]_vars PROVE Retried'
  OBVIOUS
<1>0. /\ WalkInv /\ BoltInv /\ TypeOK /\ n \in Sizes /\ anchor \in AnchorType
      /\ EdgeWeakens(anchor) /\ flange_coeff \in Nat
      /\ hole_params # NoFile => EdgeDistance >= 0
      /\ EdgeFailed => \E k \in Nat : Below(k)
  BY DEF RetryInv, Retried, WalkInv, FileInv, BoltInv, TypeOK
<1>1. anchor' = anchor
  BY AnchorStays
<1>2. EdgeWeakens(anchor)'
  BY <1>0, <1>1
<1>3. ASSUME flange_coeff' = flange_coeff PROVE EdgeDistance' = EdgeDistance
  BY <1>1, <1>3 DEF EdgeDistance
<1>4. ASSUME Accept PROVE Retried'
  <2>1. /\ flange_coeff' = flange_coeff /\ calls' = calls /\ hole_params' = hole_params
        /\ pc \in Checks /\ pc' = After[pc] /\ ~Fails /\ n' = n /\ ~Raises
    BY <1>4 DEF Accept
  <2>2. EdgeFailed' = EdgeFailed
    BY <2>1 DEF EdgeFailed
  <2>3. ASSUME NEW k \in Nat, Below(k) PROVE Below(k)'
    <3>1. CASE k = flange_coeff
      <4>1. hole_params = NoFile /\ Hopeless(anchor, flange_coeff)
            /\ pc \in {"tension", "cone", "shear", "distance", "edge", "StackOverflowError"}
        BY <2>3, <3>1 DEF Below
      <4>2. pc # "edge"
        BY <1>0, <2>1, <4>1, HopelessFails
      <4>3. pc' \in {"cone", "shear", "distance"}
        BY <2>1, <4>1, <4>2 DEF After, Checks
      <4>. QED BY <1>1, <2>1, <2>3, <4>1, <4>3 DEF Below
    <3>2. CASE k # flange_coeff
      BY <1>1, <2>1, <2>3, <3>2 DEF Below
    <3>. QED BY <3>1, <3>2
  <2>4. EdgeDistance' = EdgeDistance
    BY <1>3, <2>1
  <2>. QED BY <1>0, <1>2, <2>1, <2>2, <2>3, <2>4 DEF Retried
<1>5. ASSUME NextSize PROVE Retried'
  <2>1. /\ flange_coeff' = flange_coeff /\ calls' = calls /\ hole_params' = hole_params
        /\ pc' = pc
    BY <1>5 DEF NextSize
  <2>2. EdgeFailed' = EdgeFailed
    BY <2>1 DEF EdgeFailed
  <2>3. ASSUME NEW k \in Nat, Below(k) PROVE Below(k)'
    BY <1>1, <2>1, <2>3 DEF Below
  <2>4. EdgeDistance' = EdgeDistance
    BY <1>3, <2>1
  <2>. QED BY <1>0, <1>2, <2>1, <2>2, <2>3, <2>4 DEF Retried
<1>6. ASSUME LengthenFlange PROVE Retried'
  <2>1. /\ flange_coeff' = flange_coeff + 1 /\ hole_params' = hole_params
        /\ pc \in Checks /\ ~Raises /\ Fails /\ n = 6 /\ Again(flange_coeff + 1, c1)
    BY <1>6 DEF LengthenFlange, Again
  <2>2. hole_params = NoFile
    BY <1>0, <2>1 DEF BoltInv, Unwinding, Checks
  <2>3. flange_coeff' \in Nat /\ flange_coeff < flange_coeff'
    BY <1>0, <2>1
  <2>4. EdgeFailed' => EdgeFailed \/ pc = "edge"
    BY <1>0, <2>1, EdgeFailedAgain
  <2>5. ASSUME NEW k \in Nat, Below(k) PROVE Below(k)'
    <3>1. Hopeless(anchor, k) /\ k <= flange_coeff
      BY <2>5 DEF Below
    <3>2. k <= flange_coeff' /\ flange_coeff' # k
      BY <1>0, <2>3, <3>1
    <3>. QED BY <1>1, <3>1, <3>2 DEF Below
  <2>6. ASSUME pc = "edge" PROVE \E k \in Nat : Below(k)'
    <3>1. PICK k \in Nat : k = flange_coeff
      BY <1>0
    <3>2. Hopeless(anchor, k)
      BY <1>0, <2>1, <2>2, <2>6, <3>1, FailureHopeless
    <3>3. k <= flange_coeff' /\ flange_coeff' # k
      BY <2>3, <3>1
    <3>4. Below(k)'
      BY <1>1, <3>2, <3>3 DEF Below
    <3>. QED BY <3>4
  <2>. QED BY <1>0, <1>2, <2>1, <2>2, <2>3, <2>4, <2>5, <2>6 DEF Retried
<1>7. ASSUME ShortenFlange PROVE Retried'
  <2>1. /\ flange_coeff' = flange_coeff - 1 /\ hole_params' = hole_params
        /\ pc = "distance" /\ EdgeDistance < 0 /\ Again(flange_coeff - 1, EdgeDistance)
        /\ pc' \in {"tension", "StackOverflowError"}
    BY <1>7 DEF ShortenFlange, Again
  <2>2. hole_params = NoFile
    BY <1>0, <2>1 DEF BoltInv, Unwinding, Raises
  <2>3. flange_coeff' \in Nat
    <3>1. DistanceOf(anchor, 0) >= 0
      BY <1>0, DistanceOfNothing DEF EdgeWeakens
    <3>2. DistanceOf(anchor, flange_coeff) < 0 /\ DistanceOf(anchor, 0) \in Int
      BY <1>0, <2>1, DistanceInt DEF EdgeDistance
    <3>3. flange_coeff # 0
      <4>. SUFFICES ASSUME flange_coeff = 0 PROVE FALSE
        OBVIOUS
      <4>. DEFINE d == DistanceOf(anchor, 0)
      <4>1. d >= 0 /\ d < 0 /\ d \in Int
        BY <3>1, <3>2
      <4>. HIDE DEF d
      <4>. QED BY <4>1
    <3>. QED BY <1>0, <2>1, <3>3
  <2>4. EdgeFailed' => EdgeFailed
    BY <1>0, <2>1, EdgeFailedAgain
  <2>5. ASSUME NEW k \in Nat, Below(k) PROVE Below(k)'
    <3>1. Hopeless(anchor, k) /\ k <= flange_coeff
      BY <2>5 DEF Below
    <3>2. k # flange_coeff
      <4>1. DistanceOf(anchor, k) >= 0
        BY <3>1 DEF Hopeless
      <4>. SUFFICES ASSUME k = flange_coeff PROVE FALSE
        OBVIOUS
      <4>. DEFINE d == DistanceOf(anchor, k)
      <4>2. d >= 0 /\ d < 0 /\ d \in Int
        BY <1>0, <2>1, <4>1, DistanceInt DEF EdgeDistance
      <4>. HIDE DEF d
      <4>. QED BY <4>2
    <3>3. k <= flange_coeff'
      BY <1>0, <2>1, <3>1, <3>2
    <3>. QED BY <1>1, <2>1, <2>2, <3>1, <3>3 DEF Below
  <2>. QED BY <1>0, <1>2, <2>1, <2>2, <2>3, <2>4, <2>5 DEF Retried
<1>8. ASSUME UNCHANGED <<flange_coeff, hole_params>>, EdgeFailed' => EdgeFailed,
             pc' = pc \/ pc' \in {"edge", "seal", "BoundsError", "DomainError"},
             pc' # pc => pc = "distance" \/ hole_params # NoFile,
             pc' # pc /\ pc = "distance" => pc' = "edge"
      PROVE  Retried'
  <2>1. ASSUME NEW k \in Nat, Below(k) PROVE Below(k)'
    <3>1. flange_coeff = k => hole_params = NoFile
      BY <2>1 DEF Below
    <3>2. flange_coeff = k => pc' = pc \/ pc' = "edge"
      BY <1>8, <3>1
    <3>. QED BY <1>1, <1>8, <2>1, <3>2 DEF Below
  <2>2. EdgeDistance' = EdgeDistance
    BY <1>3, <1>8
  <2>. QED BY <1>0, <1>2, <1>8, <2>1, <2>2 DEF Retried
<1>9. ASSUME RootOfNegative PROVE Retried'
  <2>1. hole_params # NoFile
    BY <1>0, <1>9 DEF RootOfNegative, BoltInv, Unwinding
  <2>. QED BY <1>8, <1>9, <2>1 DEF RootOfNegative, Raises, EdgeFailed
<1>10. ASSUME MeasureEdge PROVE Retried'
  BY <1>8, <1>10 DEF MeasureEdge, EdgeFailed
<1>11. ASSUME WriteBoltData PROVE Retried'
  <2>1. /\ UNCHANGED <<flange_coeff, calls>> /\ pc = "write" /\ hole_params = NoFile
    BY <1>0, <1>11 DEF WriteBoltData, BoltInv, Unwinding, Raises
  <2>2. EdgeDistance >= 0 /\ EdgeDistance' = EdgeDistance
    BY <1>0, <1>3, <2>1 DEF WalkInv, Walk
  <2>3. EdgeFailed' = EdgeFailed
    BY <2>1 DEF EdgeFailed
  <2>4. ASSUME NEW k \in Nat, Below(k) PROVE Below(k)'
    <3>1. k # flange_coeff
      BY <2>1, <2>4 DEF Below
    <3>. QED BY <1>1, <2>1, <2>4, <3>1 DEF Below
  <2>. QED BY <1>0, <1>2, <2>1, <2>2, <2>3, <2>4 DEF Retried
<1>12. ASSUME ReturnToMain \/ ReturnToCheck PROVE Retried'
  <2>1. pc = "return" /\ hole_params # NoFile
    BY <1>0, <1>12 DEF ReturnToMain, ReturnToCheck, BoltInv, Unwinding
  <2>. QED BY <1>8, <1>12, <2>1 DEF ReturnToMain, ReturnToCheck, EdgeFailed
<1>13. ASSUME ReturnToDistance PROVE Retried'
  <2>1. /\ pc = "return" /\ pc' = "edge" /\ hole_params # NoFile /\ calls # <<>>
        /\ calls' = Front(calls) /\ UNCHANGED <<flange_coeff, hole_params>>
    BY <1>0, <1>13 DEF ReturnToDistance, BoltInv, Unwinding
  <2>2. calls \in Seq(FrameType)
    BY <1>0 DEF TypeOK
  <2>3. \A i \in DOMAIN calls' : i \in DOMAIN calls /\ calls'[i] = calls[i]
    BY <2>1, <2>2 DEF Front
  <2>4. EdgeFailed' => EdgeFailed
    BY <2>3 DEF EdgeFailed
  <2>. QED BY <1>8, <2>1, <2>4
<1>14. ASSUME End \/ UNCHANGED vars PROVE Retried'
  <2>1. UNCHANGED vars
    BY <1>14 DEF End
  <2>. QED BY <1>8, <2>1 DEF vars, EdgeFailed
<1>. QED BY <1>4, <1>5, <1>6, <1>7, <1>9, <1>10, <1>11, <1>12, <1>13, <1>14 DEF Next

\* A longer flange brings the bolts closer to the edge, where M20 resists less: if it
\* has failed the edge check once, the bolt the retries put on file fails it too,
\* whichever size it has and however often the flange went back and forth.
THEOREM EdgeHopeless ==
    ASSUME \A a \in Anchors : EdgeWeakens(a)
    PROVE  Spec => []EdgeRetriesAreHopeless
<1>1. Init => RetryInv
  <2>1. Init => Held /\ BoltOnFileHolds
    BY DEF Init, Held, BoltOnFileHolds
  <2>. QED BY <2>1, BoltInvInit, WalkInit, RetryInit DEF RetryInv, WalkInv, FileInv
<1>2. RetryInv /\ [Next]_vars => RetryInv'
  BY BoltInvNext, HeldNext, OnFileNext, WalkNext, RetryNext DEF RetryInv, WalkInv, FileInv
<1>3. RetryInv => EdgeRetriesAreHopeless
  <2>. SUFFICES ASSUME RetryInv, EdgeFailed, hole_params # NoFile
                PROVE  ~HoldsEdge(hole_params)
    BY DEF EdgeRetriesAreHopeless
  <2>1. /\ anchor \in AnchorType /\ EdgeWeakens(anchor) /\ flange_coeff \in Nat
        /\ EdgeDistance >= 0 /\ hole_params \in Sizes
    BY DEF RetryInv, Retried, WalkInv, FileInv, BoltInv, TypeOK
  <2>2. PICK k \in Nat : Below(k)
    BY DEF RetryInv, Retried
  <2>3. Hopeless(anchor, k) /\ k < flange_coeff
    BY <2>1, <2>2 DEF Below
  <2>4. EdgeFails(hole_params, anchor.cube_stren, Converted(DistanceOf(anchor, flange_coeff)),
                  Shear(anchor))
    BY <2>1, <2>3, LongerHopeless DEF EdgeDistance
  <2>. QED BY <2>4 DEF HoldsEdge, EdgeDistance, fst
<1>. QED BY <1>1, <1>2, <1>3, PTL DEF Spec

----------------------------------------------------------------------------
\* The edge check without a walk.

\* The first size that the earlier checks accept fails the edge check.
FailsAtStart == \E s \in Sizes : Starts(anchor, flange_coeff, s) /\ ~HoldsEdge(s)

EdgeHoldsFromTheStart == hole_params # NoFile => HoldsEdge(hole_params) \/ FailsAtStart

EdgePassed ==
    hole_params = NoFile =>
        (pc \in {"pry", "write"} => HoldsEdge(n) \/ FailsAtStart)

StartInv == WalkInv /\ EdgePassed /\ EdgeHoldsFromTheStart

\* At one distance a larger bolt passes where a smaller one does.
LEMMA LargerHoldsEdge ==
    ASSUME TypeOK, EdgeDistance >= 0, NEW size \in Sizes, NEW larger \in Sizes, size <= larger,
           HoldsEdge(size)
    PROVE  HoldsEdge(larger)
<1>. DEFINE c == Converted(EdgeDistance)
            fc == anchor.cube_stren
            f == fst
<1>0. anchor \in AnchorType
  BY DEF TypeOK
<1>1. c \in Nat /\ (c = 0 \/ 304 <= c)
  <2>1. EdgeDistance \in Int
    BY EdgeDistanceInt DEF TypeOK
  <2>2. EdgeDistance \in Nat
    BY <2>1
  <2>3. EdgeDistance = 0 => c = 0
    BY DEF Converted, Far
  <2>. QED BY <2>2, <2>3, ConvertedRange
<1>2. fc \in Nat
  BY <1>0 DEF AnchorType
<1>3. f \in Int
  BY <1>0, FstInt
<1>4. ~EdgeFails(size, fc, c, f)
  BY DEF HoldsEdge
<1>. HIDE DEF c, fc, f
<1>5. CASE c = 0
  <2>1. ~EdgeFails(larger, fc, c, f)
    BY <1>5 DEF EdgeFails
  <2>. QED BY <2>1 DEF HoldsEdge, c, fc, f
<1>6. CASE 304 <= c
  <2>. DEFINE u == edge_res(size, fc, c)
              v == edge_res(larger, fc, c)
  <2>1. u \in Nat /\ v \in Nat /\ u <= v
    BY <1>1, <1>2, <1>6, SizeHolds
  <2>2. ~(2 * u < 3 * f)
    BY <1>1, <1>4, <1>6 DEF EdgeFails
  <2>. HIDE DEF u, v
  <2>3. ~(2 * v < 3 * f)
    BY <1>3, <2>1, <2>2
  <2>4. ~EdgeFails(larger, fc, c, f)
    BY <2>3 DEF EdgeFails, v
  <2>. QED BY <2>4 DEF HoldsEdge, c, fc, f
<1>. QED BY <1>1, <1>5, <1>6

\* The check passes the size it starts with at the distance itself.
LEMMA PassedAtStart ==
    ASSUME WalkInv, hole_params = NoFile, pc = "edge", ~Fails
    PROVE  HoldsEdge(n) \/ FailsAtStart
<1>0. /\ TypeOK /\ n \in Sizes /\ anchor.cube_stren \in Nat /\ fst \in Int
      /\ EdgeDistance \in Nat
  <2>1. TypeOK /\ n \in Sizes /\ anchor \in AnchorType
    BY DEF WalkInv, FileInv, BoltInv, TypeOK
  <2>2. anchor.cube_stren \in Nat
    BY <2>1 DEF AnchorType
  <2>3. EdgeDistance \in Int /\ EdgeDistance >= 0
    BY <2>1, EdgeDistanceInt DEF TypeOK, WalkInv, Walk
  <2>. QED BY <2>1, <2>2, <2>3, FstInt
<1>1. PICK s \in Sizes :
          /\ Starts(anchor, flange_coeff, s)
          /\ s <= n /\ c1 = Walked(EdgeDistance, n - s)
          /\ \A m \in Sizes : s <= m /\ m < n => FailsEdge(anchor, flange_coeff, s, m)
  BY DEF WalkInv, Walk, EdgeWalk
<1>2. CASE s = n
  <2>1. c1 = EdgeDistance
    <3>1. n - s = 0
      BY <1>0, <1>2 DEF Sizes
    <3>. QED BY <1>1, <3>1 DEF Walked
  <2>. QED BY <2>1 DEF Fails, HoldsEdge
<1>3. CASE s # n
  <2>1. s < n /\ s - s = 0
    BY <1>0, <1>1, <1>3 DEF Sizes
  <2>2. FailsEdge(anchor, flange_coeff, s, s)
    BY <1>1, <2>1 DEF Sizes
  <2>3. EdgeFails(s, anchor.cube_stren, Converted(EdgeDistance), fst)
    BY <2>1, <2>2 DEF FailsEdge, Walked, EdgeDistance, fst
  <2>. QED BY <1>1, <2>3 DEF FailsAtStart, HoldsEdge
<1>. QED BY <1>2, <1>3

LEMMA EdgePassedNext == StartInv /\ [Next]_vars => EdgePassed'
<1>. SUFFICES ASSUME StartInv, [Next]_vars, hole_params' = NoFile, pc' \in {"pry", "write"}
              PROVE  (HoldsEdge(n) \/ FailsAtStart)'
  BY DEF EdgePassed
<1>0. WalkInv /\ FileInv /\ BoltInv /\ TypeOK /\ n \in Sizes
  BY DEF StartInv, WalkInv, FileInv, BoltInv, TypeOK
<1>1. hole_params = NoFile
  BY <1>0, FileStays
<1>2. anchor' = anchor
  BY AnchorStays
<1>3. pc \in {"pry", "write"} => HoldsEdge(n) \/ FailsAtStart
  BY <1>1 DEF StartInv, EdgePassed
<1>4. ASSUME flange_coeff' = flange_coeff
      PROVE  /\ \A size : HoldsEdge(size)' <=> HoldsEdge(size)
             /\ FailsAtStart' <=> FailsAtStart
  <2>1. EdgeDistance' = EdgeDistance /\ fst' = fst
    BY <1>2, <1>4 DEF EdgeDistance, fst
  <2>. QED BY <1>2, <1>4, <2>1 DEF HoldsEdge, FailsAtStart
<1>5. ASSUME Accept PROVE (HoldsEdge(n) \/ FailsAtStart)'
  <2>1. n' = n /\ flange_coeff' = flange_coeff /\ pc \in Checks /\ pc' = After[pc] /\ ~Fails
    BY <1>5 DEF Accept
  <2>2. pc \in {"edge", "pry"}
    BY <2>1 DEF After, Checks
  <2>3. HoldsEdge(n) \/ FailsAtStart
    BY <1>0, <1>1, <1>3, <2>1, <2>2, PassedAtStart
  <2>4. HoldsEdge(n)' <=> HoldsEdge(n)
    <3>1. EdgeDistance' = EdgeDistance /\ fst' = fst
      BY <1>2, <2>1 DEF EdgeDistance, fst
    <3>. QED BY <1>2, <2>1, <3>1 DEF HoldsEdge
  <2>. QED BY <1>4, <2>1, <2>3, <2>4
<1>6. ASSUME NextSize PROVE (HoldsEdge(n) \/ FailsAtStart)'
  <2>1. pc = "pry" /\ pc' = pc /\ n < 6 /\ n' = n + 1 /\ flange_coeff' = flange_coeff
    BY <1>6 DEF NextSize, Checks
  <2>2. EdgeDistance' = EdgeDistance /\ fst' = fst
    BY <1>2, <2>1 DEF EdgeDistance, fst
  <2>3. ASSUME HoldsEdge(n) PROVE HoldsEdge(n)'
    <3>1. EdgeDistance >= 0
      BY <1>0, <1>1, <2>1 DEF WalkInv, Walk
    <3>2. n' \in Sizes /\ n <= n'
      BY <1>0, <2>1 DEF Sizes
    <3>3. HoldsEdge(n')
      BY <1>0, <2>3, <3>1, <3>2, LargerHoldsEdge
    <3>. QED BY <1>2, <2>2, <3>3 DEF HoldsEdge
  <2>. QED BY <1>3, <1>4, <2>1, <2>3
<1>7. ~LengthenFlange /\ ~ShortenFlange /\ ~RootOfNegative /\ ~MeasureEdge /\ ~WriteBoltData
  BY DEF LengthenFlange, ShortenFlange, Again, RootOfNegative, MeasureEdge, WriteBoltData
<1>8. ~ReturnToMain /\ ~ReturnToCheck /\ ~ReturnToDistance
  BY <1>0, <1>1 DEF BoltInv, Unwinding, ReturnToMain, ReturnToCheck, ReturnToDistance
<1>9. ASSUME End \/ UNCHANGED vars PROVE (HoldsEdge(n) \/ FailsAtStart)'
  <2>1. UNCHANGED vars
    BY <1>9 DEF End
  <2>2. EdgeDistance' = EdgeDistance /\ fst' = fst
    BY <2>1 DEF vars, EdgeDistance, fst
  <2>3. HoldsEdge(n)' <=> HoldsEdge(n)
    BY <2>1, <2>2 DEF vars, HoldsEdge
  <2>. QED BY <1>3, <1>4, <2>1, <2>3 DEF vars
<1>. QED BY <1>5, <1>6, <1>7, <1>8, <1>9 DEF Next

LEMMA FromTheStartNext == StartInv /\ [Next]_vars => EdgeHoldsFromTheStart'
<1>. SUFFICES ASSUME StartInv, [Next]_vars, hole_params' # NoFile
              PROVE  (HoldsEdge(hole_params) \/ FailsAtStart)'
  BY DEF EdgeHoldsFromTheStart
<1>0. BoltInv
  BY DEF StartInv, WalkInv, FileInv
<1>1. anchor' = anchor
  BY AnchorStays
<1>2. ASSUME flange_coeff' = flange_coeff
      PROVE  /\ EdgeDistance' = EdgeDistance /\ fst' = fst
             /\ FailsAtStart' <=> FailsAtStart
  <2>1. EdgeDistance' = EdgeDistance /\ fst' = fst
    BY <1>1, <1>2 DEF EdgeDistance, fst
  <2>. QED BY <1>1, <1>2, <2>1 DEF HoldsEdge, FailsAtStart
<1>3. CASE hole_params # NoFile
  <2>1. hole_params' = hole_params /\ flange_coeff' = flange_coeff
    BY <1>0, <1>3, FileStays
  <2>2. HoldsEdge(hole_params) \/ FailsAtStart
    BY <1>3 DEF StartInv, EdgeHoldsFromTheStart
  <2>3. HoldsEdge(hole_params)' <=> HoldsEdge(hole_params)
    BY <1>1, <1>2, <2>1 DEF HoldsEdge
  <2>. QED BY <1>2, <2>1, <2>2, <2>3
<1>4. CASE hole_params = NoFile
  <2>1. WriteBoltData
    BY <1>4 DEF Next, vars, Accept, NextSize, LengthenFlange, Again, RootOfNegative,
       MeasureEdge, ShortenFlange, ReturnToMain, ReturnToCheck, ReturnToDistance, End
  <2>2. hole_params' = n /\ flange_coeff' = flange_coeff /\ (HoldsEdge(n) \/ FailsAtStart)
    BY <1>4, <2>1 DEF WriteBoltData, StartInv, EdgePassed
  <2>3. HoldsEdge(hole_params)' <=> HoldsEdge(n)
    BY <1>1, <1>2, <2>2 DEF HoldsEdge
  <2>. QED BY <1>2, <2>2, <2>3
<1>. QED BY <1>3, <1>4

\* The bolt on file resists edge failure unless the very size the check starts with
\* does not: the second conversion, at the second size, is the only way to a bolt that
\* breaks out of the edge.
THEOREM EdgeHoldsUnlessWalked == Spec => []EdgeHoldsFromTheStart
<1>1. Init => StartInv
  <2>1. Init => Held /\ BoltOnFileHolds
    BY DEF Init, Held, BoltOnFileHolds
  <2>2. Init => EdgePassed /\ EdgeHoldsFromTheStart
    BY DEF Init, EdgePassed, EdgeHoldsFromTheStart
  <2>. QED BY <2>1, <2>2, BoltInvInit, WalkInit DEF StartInv, WalkInv, FileInv
<1>2. StartInv /\ [Next]_vars => StartInv'
  BY BoltInvNext, HeldNext, OnFileNext, WalkNext, EdgePassedNext, FromTheStartNext
     DEF StartInv, WalkInv, FileInv
<1>3. StartInv => EdgeHoldsFromTheStart
  BY DEF StartInv
<1>. QED BY <1>1, <1>2, <1>3, PTL DEF Spec

\* Every conversion after the first makes the edge stronger, for every size, concrete
\* and distance but 0: the error of concrete_edge has one direction.
THEOREM ReconversionFlatters ==
    ASSUME NEW size \in Sizes, NEW fc \in Nat, NEW d \in Nat \ {0}
    PROVE  edge_res(size, fc, Converted(d)) <= edge_res(size, fc, Converted(Converted(d)))
<1>1. Converted(d) \in Nat /\ 304 <= Converted(d) /\ Converted(d) <= Far
  BY DEF Converted, Far
<1>. QED BY <1>1, ConvertedHolds
================================================================================
