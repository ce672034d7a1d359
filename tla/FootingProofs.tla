----------------------------- MODULE FootingProofs -----------------------------
(***************************************************************************)
(* Proofs about the footing itself: what the formulas compute grows with   *)
(* its width and its length, so that widening it does not undo a check.    *)
(***************************************************************************)
EXTENDS StabilityProofs

----------------------------------------------------------------------------
(***************************************************************************)
(* Fixed-point arithmetic.                                                 *)
(***************************************************************************)

LEMMA DivGrows ==
    ASSUME NEW x \in Int, NEW y \in Int, x <= y
    PROVE  /\ x \div S <= y \div S
           /\ x \div 2 <= y \div 2 /\ x \div 3 <= y \div 3 /\ x \div 4 <= y \div 4
           /\ x \div 6 <= y \div 6
BY DEF S

LEMMA MulCommutes ==
    ASSUME NEW a \in Int, NEW b \in Int
    PROVE  Mul(a, b) = Mul(b, a)
<1>1. a * b = b * a
  OBVIOUS
<1>. QED BY <1>1, MulExact

LEMMA MulGrows ==
    ASSUME NEW a \in Int, NEW c \in Int, NEW b \in Nat, a <= c
    PROVE  Mul(a, b) <= Mul(c, b)
<1>1. a * b <= c * b /\ a * b \in Int /\ c * b \in Int
  BY TimesGrows
<1>2. (a * b) \div S <= (c * b) \div S
  BY <1>1, DivGrows
<1>3. Mul(a, b) = (a * b) \div S /\ Mul(c, b) = (c * b) \div S
  BY MulExact
<1>. QED BY <1>2, <1>3

LEMMA MulNat == ASSUME NEW a \in Nat, NEW b \in Nat PROVE Mul(a, b) \in Nat
<1>1. a * b \in Nat
  OBVIOUS
<1>2. (a * b) \div S \in Nat
  BY <1>1 DEF S
<1>3. Mul(a, b) = (a * b) \div S
  BY MulExact
<1>. QED BY <1>2, <1>3

\* A product of two numbers that are not negative, within the thousandth it is rounded to.
LEMMA MulBounds ==
    ASSUME NEW a \in Nat, NEW b \in Nat
    PROVE  1000 * Mul(a, b) <= a * b /\ a * b <= 1000 * Mul(a, b) + 999
<1>. DEFINE p == a * b
            m == Mul(a, b)
<1>1. p \in Nat
  OBVIOUS
<1>2. m = p \div 1000
  BY MulExact DEF S
<1>. HIDE DEF p, m
<1>3. m \in Nat /\ 1000 * m <= p /\ p <= 1000 * m + 999
  BY <1>1, <1>2
<1>. QED BY <1>3 DEF p, m

LEMMA MulBothGrow ==
    ASSUME NEW a \in Nat, NEW b \in Nat, NEW c \in Nat, NEW d \in Nat, a <= c, b <= d
    PROVE  Mul(a, b) <= Mul(c, d)
<1>1. Mul(a, b) <= Mul(c, b)
  BY MulGrows
<1>2. Mul(b, c) <= Mul(d, c)
  BY MulGrows
<1>3. Mul(c, b) = Mul(b, c) /\ Mul(c, d) = Mul(d, c)
  BY MulCommutes
<1>4. Mul(a, b) \in Nat /\ Mul(c, b) \in Nat /\ Mul(c, d) \in Nat
  BY MulNat
<1>. QED BY <1>1, <1>2, <1>3, <1>4

\* Weights.
LEMMA WeightNat ==
    ASSUME NEW sp \in Nat, NEW x \in Nat, NEW y \in Nat, NEW z \in Nat
    PROVE  weight(sp, x, y, z) \in Nat
<1>1. Mul(x, y) \in Nat
  BY MulNat
<1>2. Mul(Mul(x, y), z) \in Nat
  BY <1>1, MulNat
<1>. QED BY <1>2 DEF weight

LEMMA WeightGrows ==
    ASSUME NEW sp \in Nat, NEW x \in Nat, NEW y \in Nat, NEW z \in Nat,
           NEW p \in Nat, NEW q \in Nat, x <= p, y <= q
    PROVE  weight(sp, x, y, z) <= weight(sp, p, q, z)
<1>. DEFINE m == Mul(Mul(x, y), z)
            n == Mul(Mul(p, q), z)
<1>1. Mul(x, y) \in Nat /\ Mul(p, q) \in Nat /\ Mul(x, y) <= Mul(p, q)
  BY MulNat, MulBothGrow
<1>2. m \in Nat /\ n \in Nat /\ m <= n
  <2>. DEFINE v == Mul(x, y)
              w == Mul(p, q)
  <2>. HIDE DEF v, w
  <2>1. v \in Nat /\ w \in Nat /\ v <= w
    BY <1>1 DEF v, w
  <2>2. Mul(v, z) \in Nat /\ Mul(w, z) \in Nat
    BY <2>1, MulNat
  <2>3. Mul(v, z) <= Mul(w, z)
    BY <2>1, MulGrows
  <2>. QED BY <2>2, <2>3 DEF v, w
<1>. HIDE DEF m, n
<1>3. m * sp <= n * sp
  BY <1>2, TimesGrows
<1>4. m * sp = sp * m /\ n * sp = sp * n
  BY <1>2
<1>. QED BY <1>3, <1>4 DEF weight, m, n

\* Float16 rounds a number that is not negative to one that is not, and one of at
\* least 64 pounds to one of at least 64 pounds.
LEMMA Float16Nat ==
    ASSUME NEW x \in Nat
    PROVE  Float16(x) \in Nat /\ (x >= 64 * S => Float16(x) >= 64 * S)
<1>1. CASE x < 128 * S
  BY <1>1 DEF Float16, S
<1>2. CASE x >= 128 * S /\ x < 256 * S
  BY <1>2 DEF Float16, S
<1>3. CASE x >= 256 * S /\ x < 512 * S
  BY <1>3 DEF Float16, S
<1>4. CASE x >= 512 * S
  BY <1>4 DEF Float16, S
<1>. QED BY <1>1, <1>2, <1>3, <1>4 DEF S

----------------------------------------------------------------------------
(***************************************************************************)
(* The resistance to sliding.                                              *)
(***************************************************************************)

LEMMA HeelGrows ==
    ASSUME NEW z \in Nat, NEW x \in Nat, NEW y \in Nat, z <= x, x <= y
    PROVE  /\ heel(x, z) \in Nat /\ heel(y, z) \in Nat /\ heel(x, z) <= heel(y, z)
           /\ heel(x, z) <= x
BY DEF heel

\* The vertical force is the base's weight under water and the water on its heel.
LEMMA VerticalIs ==
    ASSUME NEW c \in ConstantsType, NEW b \in BarrierType
    PROVE  fvertical(c, b) =
               weight(c.spec_base - spec_water, b.base_length, b.base_width, b.base_thickness)
               + weight(spec_water, heel(b.base_width, b.wall_t), b.base_length, b.height * S)
<1>1. /\ b.base_length \in Int /\ b.base_width \in Int /\ b.base_thickness \in Int
      /\ b.wall_t \in Int /\ b.height * S \in Int /\ c.spec_base \in Int /\ spec_water \in Int
  BY DEF ConstantsType, BarrierType, spec_water, S
<1>. DEFINE m == Mul(Mul(b.base_length, b.base_width), b.base_thickness)
            w == weight(spec_water, heel(b.base_width, b.wall_t), b.base_length, b.height * S)
<1>2. Mul(b.base_width, b.base_length) = Mul(b.base_length, b.base_width)
  BY <1>1, MulCommutes
<1>3. Mul(b.base_length, b.base_width) \in Int
  BY <1>1, MulInt
<1>4. m \in Int
  BY <1>1, <1>3, MulInt
<1>5. heel(b.base_width, b.wall_t) \in Int
  BY <1>1, LeverInt
<1>6. w \in Int
  BY <1>1, <1>5, WeightInt
<1>7. fvertical(c, b) = w + c.spec_base * m + 0 - spec_water * m
  BY <1>2 DEF fvertical, Fv, Fbuoy, weight
<1>. HIDE DEF m, w
<1>8. (c.spec_base - spec_water) * m = c.spec_base * m - spec_water * m
  BY <1>1, <1>4 DEF spec_water
<1>9. c.spec_base * m \in Int /\ spec_water * m \in Int
  BY <1>1, <1>4
<1>10. weight(c.spec_base - spec_water, b.base_length, b.base_width, b.base_thickness)
         = (c.spec_base - spec_water) * m
  BY DEF weight, m
<1>. QED BY <1>6, <1>7, <1>8, <1>9, <1>10 DEF w

\* Footings of one site and thickness, the second no narrower and no shorter.
Wider(b, d) ==
    /\ Site(d) = Site(b)
    /\ d.base_thickness = b.base_thickness
    /\ b.wall_t <= b.base_width /\ b.base_width <= d.base_width
    /\ b.base_length <= d.base_length

LEMMA VerticalNat ==
    ASSUME NEW c \in ConstantsType, NEW b \in BarrierType,
           c.spec_base >= spec_water, b.wall_t <= b.base_width
    PROVE  fvertical(c, b) \in Nat
<1>1. /\ b.base_length \in Nat /\ b.base_width \in Nat /\ b.base_thickness \in Nat
      /\ b.wall_t \in Nat /\ b.height * S \in Nat /\ c.spec_base - spec_water \in Nat
      /\ spec_water \in Nat
  BY DEF ConstantsType, BarrierType, spec_water, S
<1>2. heel(b.base_width, b.wall_t) \in Nat
  BY <1>1, HeelGrows
<1>3. /\ weight(c.spec_base - spec_water, b.base_length, b.base_width, b.base_thickness) \in Nat
      /\ weight(spec_water, heel(b.base_width, b.wall_t), b.base_length, b.height * S) \in Nat
  BY <1>1, <1>2, WeightNat
<1>. QED BY <1>3, VerticalIs

LEMMA VerticalGrows ==
    ASSUME NEW c \in ConstantsType, NEW b \in BarrierType, NEW d \in BarrierType,
           c.spec_base >= spec_water, Wider(b, d)
    PROVE  fvertical(c, b) <= fvertical(c, d)
<1>1. /\ b.base_length \in Nat /\ b.base_width \in Nat /\ b.base_thickness \in Nat
      /\ b.wall_t \in Nat /\ b.height * S \in Nat /\ c.spec_base - spec_water \in Nat
      /\ spec_water \in Nat /\ d.base_length \in Nat /\ d.base_width \in Nat
  BY DEF ConstantsType, BarrierType, spec_water, S
<1>2. d.wall_t = b.wall_t /\ d.height = b.height /\ d.base_thickness = b.base_thickness
  BY DEF Wider, Site
<1>3. /\ b.wall_t <= b.base_width /\ b.base_width <= d.base_width
      /\ b.base_length <= d.base_length
  BY DEF Wider
<1>. DEFINE hb == heel(b.base_width, b.wall_t)
            hd == heel(d.base_width, b.wall_t)
            base == weight(c.spec_base - spec_water, b.base_length, b.base_width, b.base_thickness)
            bases == weight(c.spec_base - spec_water, d.base_length, d.base_width, b.base_thickness)
            water == weight(spec_water, hb, b.base_length, b.height * S)
            waters == weight(spec_water, hd, d.base_length, b.height * S)
<1>4. hb \in Nat /\ hd \in Nat /\ hb <= hd
  BY <1>1, <1>3, HeelGrows
<1>5. fvertical(c, b) = base + water /\ fvertical(c, d) = bases + waters
  BY <1>2, VerticalIs
<1>. HIDE DEF hb, hd
<1>6. base \in Nat /\ bases \in Nat /\ base <= bases
  BY <1>1, <1>3, WeightNat, WeightGrows
<1>7. water \in Nat /\ waters \in Nat /\ water <= waters
  BY <1>1, <1>3, <1>4, WeightNat, WeightGrows
<1>. HIDE DEF base, bases, water, waters
<1>. QED BY <1>5, <1>6, <1>7

\* The earth pressure under one square foot is that of the water at least.
LEMMA PressureFrom ==
    ASSUME NEW c \in ConstantsType, c.spec_soil >= spec_water
    PROVE  /\ Pressure(c.Kp, c.spec_soil, spec_water) \in Nat
           /\ Pressure(c.Kp, c.spec_soil, spec_water) >= 64 * S
<1>. DEFINE x == c.Kp * (c.spec_soil - spec_water)
            f == Float16(x)
<1>1. c.Kp \in Nat /\ c.spec_soil - spec_water \in Nat
  BY DEF ConstantsType, spec_water
<1>2. x \in Nat
  BY <1>1
<1>. HIDE DEF x
<1>3. f \in Nat
  BY <1>2, Float16Nat
<1>4. Pressure(c.Kp, c.spec_soil, spec_water) = Float16(f + spec_water * S)
  BY DEF Pressure, f, x
<1>. HIDE DEF f
<1>5. f + spec_water * S \in Nat /\ f + spec_water * S >= 64 * S
  BY <1>3 DEF spec_water, S
<1>. QED BY <1>4, <1>5, Float16Nat

\* The passive earth pressure before and behind the base: what the second loses when
\* the base grows longer, the first gains twice.
LEMMA EarthHolds ==
    ASSUME NEW X \in Nat, NEW L \in Nat, NEW span \in Nat
    PROVE  /\ Mul(X, L) \div 2 + Mul(X, span * S - L) \div 4 >= -2
           /\ \A M \in Nat : L <= M /\ (L = M \/ X * (M - L) >= 8 * S) =>
                 Mul(X, L) \div 2 + Mul(X, span * S - L) \div 4
                   <= Mul(X, M) \div 2 + Mul(X, span * S - M) \div 4
<1>. DEFINE K == X * span
<1>1. K \in Nat
  OBVIOUS
<1>2. ASSUME NEW M \in Nat
      PROVE  /\ Mul(X, M) = (X * M) \div 1000
             /\ Mul(X, span * S - M) = K + (-(X * M)) \div 1000
             /\ X * M \in Nat
  <2>1. X * M \in Nat /\ span * 1000 - M \in Int
    OBVIOUS
  <2>2. X * (span * 1000 - M) = 1000 * K - X * M
    <3>1. X * (span * 1000 - M) = X * (span * 1000) - X * M
      OBVIOUS
    <3>2. X * (span * 1000) = 1000 * K
      OBVIOUS
    <3>. QED BY <3>1, <3>2
  <2>3. Mul(X, M) = (X * M) \div 1000
    BY MulExact DEF S
  <2>4. Mul(X, span * 1000 - M) = (X * (span * 1000 - M)) \div 1000
    BY <2>1, MulExact DEF S
  <2>. HIDE DEF K
  <2>5. (1000 * K - X * M) \div 1000 = K + (-(X * M)) \div 1000
    <3>. DEFINE p == X * M
    <3>1. p \in Nat
      BY <2>1
    <3>. HIDE DEF p
    <3>2. (1000 * K - p) \div 1000 = K + (-p) \div 1000
      BY <1>1, <3>1
    <3>. QED BY <3>2 DEF p
  <2>6. Mul(X, span * 1000 - M) = K + (-(X * M)) \div 1000
    BY <2>2, <2>4, <2>5
  <2>. QED BY <2>1, <2>3, <2>6 DEF S
<1>. HIDE DEF K
\* What p thousandths of the moment of the two pressures are rounded to.
<1>. DEFINE Rounded(p) == (p \div 1000) \div 2 + (K + (-p) \div 1000) \div 4
<1>3. ASSUME NEW p \in Nat
      PROVE  Rounded(p) \in Int /\ Rounded(p) >= -2
  <2>. DEFINE A == p \div 1000
              C == (-p) \div 1000
  <2>1. A \in Nat /\ C \in Int /\ A + C >= -1
    OBVIOUS
  <2>. HIDE DEF A, C
  <2>2. A \div 2 + (K + C) \div 4 >= -2 /\ A \div 2 + (K + C) \div 4 \in Int
    BY <1>1, <2>1
  <2>. QED BY <2>2 DEF A, C
<1>4. ASSUME NEW p \in Nat, NEW q \in Nat, p + 8000 <= q
      PROVE  Rounded(p) <= Rounded(q)
  <2>. DEFINE A == p \div 1000
              B == q \div 1000
              C == (-p) \div 1000
              D == (-q) \div 1000
  <2>1. A \in Int /\ C \in Int /\ 1000 * A <= p /\ p < 1000 * A + 1000 /\ A + C >= -1 /\ A + C <= 0
    OBVIOUS
  <2>2. B \in Int /\ D \in Int /\ 1000 * B <= q /\ q < 1000 * B + 1000 /\ B + D >= -1 /\ B + D <= 0
    OBVIOUS
  <2>. HIDE DEF A, B, C, D
  <2>3. B >= A + 7 /\ C - D <= B - A + 1
    BY <1>4, <2>1, <2>2
  <2>4. A \div 2 + (K + C) \div 4 <= B \div 2 + (K + D) \div 4
    BY <1>1, <2>1, <2>2, <2>3
  <2>. QED BY <2>4 DEF A, B, C, D
<1>. HIDE DEF Rounded
<1>5. ASSUME NEW M \in Nat
      PROVE  Mul(X, M) \div 2 + Mul(X, span * S - M) \div 4 = Rounded(X * M)
  BY <1>2 DEF Rounded
<1>6. Mul(X, L) \div 2 + Mul(X, span * S - L) \div 4 >= -2
  <2>1. X * L \in Nat
    BY <1>2
  <2>2. Rounded(X * L) >= -2
    BY <1>3, <2>1
  <2>. QED BY <1>5, <2>2
<1>7. ASSUME NEW M \in Nat, L <= M, L = M \/ X * (M - L) >= 8 * S
      PROVE  Mul(X, L) \div 2 + Mul(X, span * S - L) \div 4
               <= Mul(X, M) \div 2 + Mul(X, span * S - M) \div 4
  <2>0. X * L \in Nat /\ X * M \in Nat
    BY <1>2
  <2>1. CASE L = M
    <3>1. Rounded(X * L) <= Rounded(X * L)
      BY <1>3, <2>0
    <3>. QED BY <1>5, <2>1, <3>1
  <2>2. CASE X * (M - L) >= 8 * S
    <3>1. X * M = X * L + X * (M - L)
      BY <1>7
    <3>2. X * L + 8000 <= X * M
      BY <2>0, <2>2, <3>1 DEF S
    <3>3. Rounded(X * L) <= Rounded(X * M)
      BY <1>4, <2>0, <3>2
    <3>. QED BY <1>5, <3>3
  <2>. QED BY <1>7, <2>1, <2>2
<1>. QED BY <1>6, <1>7

\* The terms of Fres, each of its own.
LEMMA FresIs ==
    ASSUME NEW c, NEW b \in BarrierType
    PROVE  LET G   == Pressure(c.Kp, c.spec_soil, spec_water)
               T   == b.base_thickness
               key == (6 * T) \div 5 + T
               X   == Mul(G, Mul(T, T))
           IN  Fres(c, b) = Mul(fvertical(c, b), c.Cf) + c.Cb * b.base_width
                            + Mul(X, b.base_length) \div 2
                            + Mul(Mul(G, Mul(key, key)), b.base_length) \div 2
                            + Mul(X, b.span_length * S - b.base_length) \div 4
<1>1. Keyed(b).key_depth = (6 * b.base_thickness) \div 5
  BY DEF Keyed, BarrierType
<1>. QED BY <1>1 DEF Fres, Fr, Fc, Fp, Fkey, Fwall

\* Where the concrete and the soil are no lighter than water nothing but the rounding
\* takes away from the resistance.
LEMMA ResistanceHolds ==
    ASSUME NEW c \in ConstantsType, NEW b \in BarrierType, c.spec_base >= spec_water,
           c.spec_soil >= spec_water, b.wall_t <= b.base_width
    PROVE  Fres(c, b) \in Int /\ Fres(c, b) >= -2
<1>. DEFINE G   == Pressure(c.Kp, c.spec_soil, spec_water)
            T   == b.base_thickness
            L   == b.base_length
            key == (6 * T) \div 5 + T
            X   == Mul(G, Mul(T, T))
            Y   == Mul(G, Mul(key, key))
            friction == Mul(fvertical(c, b), c.Cf)
            cohesion == c.Cb * b.base_width
            keyed == Mul(Y, L) \div 2
            earth == Mul(X, L) \div 2
            wall  == Mul(X, b.span_length * S - L) \div 4
<1>1. /\ T \in Nat /\ L \in Nat /\ key \in Nat /\ b.base_width \in Nat
      /\ c.Cf \in Nat /\ c.Cb \in Nat /\ b.span_length \in Nat
  BY DEF BarrierType, ConstantsType
<1>2. Fres(c, b) = friction + cohesion + earth + keyed + wall
  BY FresIs
<1>. HIDE DEF T, L, key
<1>3. G \in Nat
  BY PressureFrom
<1>4. Mul(T, T) \in Nat /\ Mul(key, key) \in Nat
  BY <1>1, MulNat
<1>. HIDE DEF G
<1>5. X \in Nat /\ Y \in Nat
  BY <1>3, <1>4, MulNat
<1>. HIDE DEF X, Y
<1>6. friction \in Nat
  <2>1. fvertical(c, b) \in Nat
    BY VerticalNat
  <2>. QED BY <1>1, <2>1, MulNat
<1>7. cohesion \in Nat
  BY <1>1
<1>8. keyed \in Nat
  <2>1. Mul(Y, L) \in Nat
    BY <1>1, <1>5, MulNat
  <2>. QED BY <2>1
<1>9. earth + wall >= -2
  BY <1>1, <1>5, EarthHolds
<1>10. earth \in Int /\ wall \in Int
  <2>1. Mul(X, L) \in Int
    BY <1>1, <1>5, MulInt
  <2>. DEFINE rest == b.span_length * S - L
  <2>2. rest \in Int
    BY <1>1 DEF S
  <2>. HIDE DEF rest
  <2>3. X \in Int
    BY <1>5
  <2>4. Mul(X, rest) \in Int
    BY <2>2, <2>3, MulInt
  <2>. QED BY <2>1, <2>4 DEF rest
<1>. HIDE DEF friction, cohesion, keyed, earth, wall
<1>. QED BY <1>2, <1>6, <1>7, <1>8, <1>9, <1>10

\* A footing of the same thickness that is wider, and as long or four thousandths of a
\* foot longer, resists no less.
LEMMA ResistanceGrows ==
    ASSUME NEW c \in ConstantsType, NEW b \in BarrierType, NEW d \in BarrierType,
           c.spec_base >= spec_water, c.spec_soil >= spec_water, Wider(b, d),
           b.base_thickness >= 225,
           d.base_length = b.base_length \/ d.base_length >= b.base_length + 4
    PROVE  Fres(c, b) <= Fres(c, d)
<1>. DEFINE G   == Pressure(c.Kp, c.spec_soil, spec_water)
            T   == b.base_thickness
            L   == b.base_length
            M   == d.base_length
            span == b.span_length
            key == (6 * T) \div 5 + T
            X   == Mul(G, Mul(T, T))
            Y   == Mul(G, Mul(key, key))
            friction(f) == Mul(fvertical(c, f), c.Cf)
            cohesion(f) == c.Cb * f.base_width
            keyed(x) == Mul(Y, x) \div 2
            earth(x) == Mul(X, x) \div 2 + Mul(X, span * S - x) \div 4
<1>1. /\ T \in Nat /\ L \in Nat /\ M \in Nat /\ key \in Nat
      /\ b.base_width \in Nat /\ d.base_width \in Nat
      /\ c.Cf \in Nat /\ c.Cb \in Nat /\ span \in Nat
  BY DEF BarrierType, ConstantsType
<1>2. /\ d.base_thickness = T /\ d.span_length = span /\ b.base_width <= d.base_width
      /\ L <= M /\ b.wall_t <= b.base_width /\ d.wall_t <= d.base_width
  <2>1. d.wall_t = b.wall_t /\ b.wall_t \in Nat
    BY DEF Wider, Site, BarrierType
  <2>. QED BY <1>1, <2>1 DEF Wider, Site
<1>3. Fres(c, b) = friction(b) + cohesion(b) + Mul(X, L) \div 2 + keyed(L)
                   + Mul(X, span * S - L) \div 4
  BY FresIs
<1>4. Fres(c, d) = friction(d) + cohesion(d) + Mul(X, M) \div 2 + keyed(M)
                   + Mul(X, span * S - M) \div 4
  BY <1>2, FresIs
<1>5. T >= 225 /\ (L = M \/ M - L >= 4)
  BY <1>1
<1>. HIDE DEF T, L, M, span, key
<1>6. G \in Nat /\ G >= 64000
  BY PressureFrom DEF S
<1>. HIDE DEF G
<1>7. Mul(T, T) \in Nat /\ Mul(T, T) >= 50 /\ Mul(key, key) \in Nat
  <2>1. Mul(T, T) \in Nat /\ Mul(key, key) \in Nat
    BY <1>1, MulNat
  <2>2. Mul(225, 225) <= Mul(T, T)
    BY <1>1, <1>5, MulBothGrow
  <2>3. Mul(225, 225) = 50
    BY DEF Mul, S
  <2>. QED BY <2>1, <2>2, <2>3
<1>8. X \in Nat /\ X >= 3200 /\ Y \in Nat
  <2>. DEFINE sq == Mul(T, T)
  <2>1. sq \in Nat /\ sq >= 50
    BY <1>7
  <2>. DEFINE sqkey == Mul(key, key)
  <2>5. sqkey \in Nat
    BY <1>7
  <2>. HIDE DEF sq, sqkey
  <2>6. Mul(G, sq) \in Nat
    BY ONLY <1>6, <2>1, MulNat
  <2>7. Mul(G, sqkey) \in Nat
    BY ONLY <1>6, <2>5, MulNat
  <2>2. X \in Nat /\ Y \in Nat
    BY <2>6, <2>7 DEF sq, sqkey
  <2>3. Mul(64000, 50) <= Mul(G, sq)
    BY <1>6, <2>1, MulBothGrow
  <2>4. Mul(64000, 50) = 3200
    BY DEF Mul, S
  <2>. QED BY <2>2, <2>3, <2>4 DEF sq
<1>. HIDE DEF X, Y
<1>9. friction(b) \in Nat /\ friction(d) \in Nat /\ friction(b) <= friction(d)
  <2>1. /\ fvertical(c, b) \in Nat /\ fvertical(c, d) \in Nat
        /\ fvertical(c, b) <= fvertical(c, d)
    BY <1>2, VerticalNat, VerticalGrows
  <2>2. friction(b) \in Nat /\ friction(d) \in Nat
    BY <1>1, <2>1, MulNat
  <2>. QED BY <1>1, <2>1, <2>2, MulGrows
<1>10. cohesion(b) \in Nat /\ cohesion(d) \in Nat /\ cohesion(b) <= cohesion(d)
  <2>. DEFINE v == b.base_width
              w == d.base_width
  <2>1. v \in Nat /\ w \in Nat /\ v <= w
    BY <1>1, <1>2
  <2>. HIDE DEF v, w
  <2>2. v * c.Cb <= w * c.Cb
    BY <1>1, <2>1, TimesGrows
  <2>3. v * c.Cb = c.Cb * v /\ w * c.Cb = c.Cb * w /\ c.Cb * v \in Nat /\ c.Cb * w \in Nat
    BY <1>1, <2>1
  <2>. QED BY <2>2, <2>3 DEF v, w
<1>11. keyed(L) \in Nat /\ keyed(M) \in Nat /\ keyed(L) <= keyed(M)
  <2>0. Y \in Nat /\ L \in Nat /\ M \in Nat
    BY <1>1, <1>8
  <2>1. Mul(Y, L) \in Nat
    BY ONLY <2>0, MulNat
  <2>3. Mul(Y, M) \in Nat
    BY ONLY <2>0, MulNat
  <2>2. Mul(Y, L) <= Mul(Y, M)
    BY <1>1, <1>2, <1>8, MulBothGrow
  <2>. QED BY <2>1, <2>2, <2>3
<1>12. earth(L) <= earth(M)
  <2>1. L = M \/ X * (M - L) >= 8 * S
    <3>1. ASSUME M - L >= 4 PROVE X * (M - L) >= 8000
      <4>. DEFINE e == M - L
      <4>1. e \in Nat /\ e >= 4
        BY <1>1, <3>1
      <4>. HIDE DEF e
      <4>2. 3200 * e <= X * e /\ X * e \in Int
        BY <1>8, <4>1, TimesGrows
      <4>. QED BY <4>1, <4>2 DEF e
    <3>. QED BY <1>5, <3>1 DEF S
  <2>. QED BY <1>1, <1>2, <1>8, <2>1, EarthHolds
<1>13. \A x \in {L, M} : Mul(X, x) \div 2 \in Int /\ Mul(X, span * S - x) \div 4 \in Int
  <2>. SUFFICES ASSUME NEW x \in Nat
                PROVE  Mul(X, x) \div 2 \in Int /\ Mul(X, span * S - x) \div 4 \in Int
    BY <1>1
  <2>1. Mul(X, x) \in Int
    BY <1>8, MulInt
  <2>. DEFINE rest == span * S - x
  <2>2. rest \in Int
    BY <1>1 DEF S
  <2>. HIDE DEF rest
  <2>3. X \in Int
    BY <1>8
  <2>4. Mul(X, rest) \in Int
    BY <2>2, <2>3, MulInt
  <2>. QED BY <2>1, <2>4 DEF rest
<1>. HIDE DEF friction, cohesion, keyed
<1>. DEFINE pL == Mul(X, L) \div 2
            qL == Mul(X, span * S - L) \div 4
            pM == Mul(X, M) \div 2
            qM == Mul(X, span * S - M) \div 4
<1>14. /\ pL \in Int /\ qL \in Int /\ pM \in Int /\ qM \in Int /\ pL + qL <= pM + qM
       /\ Fres(c, b) = friction(b) + cohesion(b) + pL + keyed(L) + qL
       /\ Fres(c, d) = friction(d) + cohesion(d) + pM + keyed(M) + qM
  BY <1>3, <1>4, <1>12, <1>13
<1>. HIDE DEF pL, qL, pM, qM
<1>. QED BY <1>9, <1>10, <1>11, <1>14

----------------------------------------------------------------------------
(***************************************************************************)
(* The sliding check.                                                      *)
(***************************************************************************)

LEMMA OrdinaryHeavy ==
    ASSUME NEW c \in ConstantsType, NEW b, Ordinary(c, b)
    PROVE  c.spec_base >= spec_water /\ c.spec_soil >= spec_water
BY DEF Ordinary, ConstantsType, spec_water

\* The water's push has the sign of the Int8 square of the height, and is no small one.
LEMMA PushSign ==
    ASSUME NEW b \in BarrierType
    PROVE  /\ Fst(b) \in Int /\ Sq(b.height) \in Int
           /\ Sq(b.height) >= 0 => Fst(b) >= 0
           /\ Sq(b.height) < 0 => Fst(b) <= -16000
<1>. DEFINE q == Sq(b.height)
            p == tst(b.span_length, b.wall_t) * spec_water
<1>1. q \in Int
  <2>1. b.height \in Int
    BY DEF BarrierType
  <2>2. b.height * b.height \in Int
    BY <2>1
  <2>. DEFINE sq == b.height * b.height
  <2>3. sq \in Int
    BY <2>2
  <2>. HIDE DEF sq
  <2>4. Int8(sq) \in Int
    BY <2>3 DEF Int8
  <2>. QED BY <2>4 DEF Sq, sq
<1>2. p \in Nat /\ p >= 64000
  <2>1. b.span_length \in 1 .. 127 /\ b.wall_t \in Nat
    BY DEF BarrierType
  <2>. QED BY <2>1 DEF tst, spec_water, S
<1>3. Fst(b) = (p * q) \div 4
  BY DEF Fst, F_sta
<1>. HIDE DEF p, q
<1>4. p * q \in Int
  BY <1>1, <1>2
<1>5. q >= 0 => p * q >= 0
  BY <1>1, <1>2
<1>6. q < 0 => p * q <= -64000
  <2>. SUFFICES ASSUME q < 0 PROVE p * q <= -64000
    OBVIOUS
  <2>1. q * p <= (-1) * p
    BY <1>1, <1>2, TimesGrows
  <2>2. q * p = p * q
    BY <1>1, <1>2
  <2>. QED BY <1>2, <1>4, <2>1, <2>2
<1>. DEFINE r == p * q
<1>. HIDE DEF r
<1>7. r \in Int /\ (q >= 0 => r >= 0) /\ (q < 0 => r <= -64000) /\ Fst(b) = r \div 4
  BY <1>3, <1>4, <1>5, <1>6 DEF r
<1>. QED BY <1>1, <1>7 DEF q

\* Where the push is negative the check fails, whatever the footing.
LEMMA NegativeFails ==
    ASSUME NEW c \in ConstantsType, NEW b \in BarrierType, Ordinary(c, b),
           b.wall_t <= b.base_width, Sq(b.height) < 0
    PROVE  SlidingFails(c, b)
<1>. DEFINE num == Fres(c, b)
            den == Fst(b)
<1>1. num \in Int /\ num >= -2
  BY OrdinaryHeavy, ResistanceHolds
<1>2. den \in Int /\ den <= -16000
  BY PushSign
<1>. HIDE DEF num, den
<1>3. BelowThreeHalves(num, den)
  BY <1>1, <1>2 DEF BelowThreeHalves
<1>. QED BY <1>3 DEF SlidingFails, num, den

\* A footing of the same thickness that is wider and as long, or longer, does not slide
\* either.
LEMMA WiderHolds ==
    ASSUME NEW c \in ConstantsType, NEW b \in BarrierType, NEW d \in BarrierType,
           Ordinary(c, b), Wider(b, d), b.base_thickness >= 225,
           d.base_length = b.base_length \/ d.base_length >= b.base_length + 4,
           ~SlidingFails(c, b)
    PROVE  ~SlidingFails(c, d)
<1>. DEFINE num == Fres(c, b)
            nums == Fres(c, d)
            den == Fst(b)
<1>1. b.wall_t <= b.base_width /\ d.wall_t <= d.base_width
  <2>1. d.wall_t = b.wall_t /\ b.wall_t \in Nat /\ b.base_width \in Nat /\ d.base_width \in Nat
    BY DEF Wider, Site, BarrierType
  <2>. QED BY <2>1 DEF Wider
<1>2. num \in Int /\ nums \in Int
  BY <1>1, OrdinaryHeavy, ResistanceHolds
<1>3. num <= nums
  BY OrdinaryHeavy, ResistanceGrows
<1>4. den \in Int /\ den >= 0
  <2>1. Sq(b.height) >= 0
    BY <1>1, NegativeFails, PushSign
  <2>. QED BY <2>1, PushSign
<1>5. Fst(d) = den
  BY DEF Wider, Site, Fst
<1>6. ~BelowThreeHalves(num, den)
  BY DEF SlidingFails
<1>. HIDE DEF num, nums, den
<1>7. ~BelowThreeHalves(nums, den)
  BY <1>2, <1>3, <1>4, <1>6 DEF BelowThreeHalves
<1>. QED BY <1>5, <1>7 DEF SlidingFails, nums

----------------------------------------------------------------------------
(***************************************************************************)
(* What the later loops leave of the sliding check.                        *)
(***************************************************************************)

\* The site of a run is one of those given.
Sited == Ordinary(constants, barrier)

LEMMA SitedInit == OrdinarySites /\ Init => Sited
<1>. SUFFICES ASSUME OrdinarySites, Init PROVE Sited
  OBVIOUS
<1>1. PICK job \in Jobs : constants = job.constants /\ barrier = Unfooted(job.barrier)
  BY DEF Init
<1>2. job.barrier \in BarrierType
  BY JobsAssumption DEF JobType
<1>3. Ordinary(job.constants, job.barrier)
  BY DEF OrdinarySites
<1>4. Unfooted(job.barrier).wall_t = job.barrier.wall_t
  BY <1>2, UnfootedFields DEF Site
<1>5. WidthAt(Unfooted(job.barrier), 50) = WidthAt(job.barrier, 50)
  BY <1>2, UnfootedFields, UnfootedType, SameWidth
<1>. QED BY <1>1, <1>3, <1>4, <1>5 DEF Sited, Ordinary

LEMMA SitedStep == TypeOK /\ TypeOK' /\ Sited /\ [Next]_vars => Sited'
<1>. SUFFICES ASSUME TypeOK, TypeOK', Sited, [Next]_vars PROVE Sited'
  OBVIOUS
<1>1. Site(barrier') = Site(barrier) /\ constants' = constants
  BY SiteStep
<1>2. WidthAt(barrier', 50) = WidthAt(barrier, 50)
  BY <1>1, SameWidth DEF TypeOK
<1>. QED BY <1>1, <1>2 DEF Sited, Ordinary, Site

\* The wall is never wider than the footing.
LEMMA WallFits ==
    ASSUME TypeOK, Proportions, Sited
    PROVE  barrier.wall_t <= barrier.base_width
<1>1. barrier \in BarrierType /\ coeff \in Nat /\ 50 <= coeff
  BY DEF TypeOK
<1>2. WidthAt(barrier, 50) <= WidthAt(barrier, coeff)
  BY <1>1, WidthMonotone
<1>3. /\ WidthAt(barrier, 50) \in Nat /\ WidthAt(barrier, coeff) \in Nat
      /\ barrier.wall_t \in Nat
  BY <1>1, WidthNat DEF BarrierType
<1>. QED BY <1>2, <1>3 DEF Proportions, Sited, Ordinary

\* The lengths and the thicknesses the loops give a footing.
LEMMA Shares ==
    ASSUME NEW b \in BarrierType, NEW cf \in Nat
    PROVE  /\ base_len(WidthAt(b, cf)) = 4 * (cf * b.height)
           /\ cf >= 50 => base_thick(WidthAt(b, cf)) >= 225
<1>. DEFINE p == cf * b.height
<1>1. b.height \in Nat /\ b.height >= 1 /\ p \in Nat
  BY DEF BarrierType
<1>2. WidthAt(b, cf) = 10 * p
  BY <1>1 DEF WidthAt
<1>3. cf >= 50 => p >= 50
  <2>. SUFFICES ASSUME cf >= 50 PROVE p >= 50
    OBVIOUS
  <2>1. 1 * cf <= b.height * cf
    BY <1>1, TimesGrows
  <2>2. b.height * cf = p
    BY <1>1
  <2>. QED BY <1>1, <2>1, <2>2
<1>. HIDE DEF p
<1>4. base_len(10 * p) = 4 * p
  BY <1>1 DEF base_len
<1>5. cf >= 50 => base_thick(10 * p) >= 225
  BY <1>1, <1>3 DEF base_thick
<1>. QED BY <1>2, <1>4, <1>5 DEF p

\* After the sliding loop a step leaves the thickness, and the footing as long or at
\* least four thousandths longer.
LEMMA LaterSteps ==
    ASSUME TypeOK, TypeOK', Proportions, Proportions', History, Sited,
           pc \notin {"design", "sliding"}, [Next]_vars
    PROVE  /\ pc' \notin {"design", "sliding"}
           /\ Wider(barrier, barrier') /\ barrier.base_thickness >= 225
           /\ barrier'.base_length = barrier.base_length
                \/ barrier'.base_length >= barrier.base_length + 4
<1>. DEFINE cut == IF pc \in {"settlement", "written"} THEN passedAt["eccentricity"] ELSE coeff
            cuts == IF pc' \in {"settlement", "written"} THEN passedAt'["eccentricity"] ELSE coeff'
<1>1. barrier \in BarrierType /\ barrier' \in BarrierType /\ coeff \in Nat /\ coeff' \in Nat
  BY MaxCoeffAssumption DEF TypeOK
<1>2. Site(barrier') = Site(barrier) /\ coeff <= coeff'
  BY SiteStep
<1>3. /\ pc' \notin {"design", "sliding"} /\ passedAt'["sliding"] = passedAt["sliding"]
      /\ cut <= cuts /\ cut \in Nat /\ cuts \in Nat
  <2>1. passedAt \in [Checks -> Nat] /\ pc \in {"design", "written"} \cup Checks
    BY MaxCoeffAssumption DEF TypeOK
  <2>2. CASE WidenAgainstOverturning \/ WidenAgainstEccentricity \/ WidenAgainstSettlement
    BY <1>1, <1>2, <2>1, <2>2 DEF WidenAgainstOverturning, WidenAgainstEccentricity,
         WidenAgainstSettlement, Widen, Checks
  <2>3. CASE FinishOverturning
    BY <1>1, <2>1, <2>3 DEF FinishOverturning, Pass, Checks
  <2>4. CASE FinishEccentricity
    BY <1>1, <2>1, <2>4 DEF FinishEccentricity, Pass, Checks
  <2>5. CASE FinishSettlement
    BY <1>1, <2>1, <2>5 DEF FinishSettlement, Pass, Checks
  <2>6. CASE Written \/ UNCHANGED vars
    BY <1>1, <2>1, <2>6 DEF Written, vars, Checks
  <2>. QED BY <2>2, <2>3, <2>4, <2>5, <2>6
         DEF Next, Design, WidenAgainstSliding, FinishSliding
<1>4. passedAt["sliding"] \in Nat /\ passedAt["sliding"] >= 50
  <2>1. "sliding" \in Checks \ Pending[pc]
    BY DEF TypeOK, Checks, Pending
  <2>2. passedAt["sliding"] \in 50 .. coeff
    BY <2>1 DEF History
  <2>. QED BY <1>1, <2>2
<1>5. /\ barrier.base_thickness = base_thick(WidthAt(barrier, passedAt["sliding"]))
      /\ barrier.base_length = base_len(WidthAt(barrier, cut))
  BY DEF Proportions
<1>6. /\ barrier'.base_thickness = base_thick(WidthAt(barrier', passedAt'["sliding"]))
      /\ barrier'.base_length = base_len(WidthAt(barrier', cuts))
  BY <1>3 DEF Proportions
<1>. HIDE DEF cut, cuts
<1>7. barrier'.base_thickness = barrier.base_thickness /\ barrier.base_thickness >= 225
  <2>1. WidthAt(barrier', passedAt["sliding"]) = WidthAt(barrier, passedAt["sliding"])
    BY <1>1, <1>2, <1>4, SameWidth
  <2>2. base_thick(WidthAt(barrier, passedAt["sliding"])) >= 225
    BY <1>1, <1>4, Shares
  <2>. QED BY <1>3, <1>5, <1>6, <2>1, <2>2
<1>8. /\ barrier'.base_length = barrier.base_length
            \/ barrier'.base_length >= barrier.base_length + 4
      /\ barrier.base_length <= barrier'.base_length
  <2>1. barrier.base_length = 4 * (cut * barrier.height)
    BY <1>1, <1>3, <1>5, Shares
  <2>2. barrier'.base_length = 4 * (cuts * barrier.height)
    <3>1. barrier'.height = barrier.height
      BY <1>2 DEF Site
    <3>. QED BY <1>1, <1>3, <1>6, <3>1, Shares
  <2>. DEFINE p == cut * barrier.height
              q == cuts * barrier.height
  <2>3. p \in Nat /\ q \in Nat /\ (p = q \/ p + 1 <= q)
    <3>1. barrier.height \in Nat /\ barrier.height >= 1
      BY <1>1 DEF BarrierType
    <3>2. CASE cut = cuts
      BY <1>3, <3>1, <3>2
    <3>3. CASE cut + 1 <= cuts
      <4>. DEFINE n == cut + 1
                  h == barrier.height
      <4>0. n \in Int /\ cuts \in Int /\ h \in Nat /\ n <= cuts
        BY <1>3, <3>1, <3>3
      <4>. HIDE DEF n, h
      <4>5. n * h <= cuts * h
        BY ONLY <4>0, TimesGrows
      <4>1. (cut + 1) * barrier.height <= cuts * barrier.height
        BY <4>5 DEF n, h
      <4>2. (cut + 1) * barrier.height = p + barrier.height
        BY <1>3, <3>1
      <4>3. p \in Nat /\ q \in Nat
        BY <1>3, <3>1
      <4>. HIDE DEF p, q
      <4>. QED BY <3>1, <4>1, <4>2, <4>3 DEF q
    <3>. QED BY <1>3, <3>2, <3>3
  <2>. HIDE DEF p, q
  <2>. QED BY <2>1, <2>2, <2>3 DEF p, q
<1>9. barrier.base_width <= barrier'.base_width
  BY WideningStep
<1>10. barrier.wall_t <= barrier.base_width
  BY WallFits
<1>. QED BY <1>2, <1>3, <1>7, <1>8, <1>9, <1>10 DEF Wider

\* Where the sliding loop can end the footing resists, and goes on resisting.
SlidingStands == pc \notin {"design", "sliding"} => ~SlidingFails(constants, barrier)

LEMMA SlidingStandsStep ==
    ASSUME TypeOK, TypeOK', Proportions, Proportions', History, Sited, SlidingStands, [Next]_vars
    PROVE  SlidingStands'
<1>1. barrier \in BarrierType /\ barrier' \in BarrierType /\ constants \in ConstantsType
  BY DEF TypeOK
<1>2. constants' = constants
  BY SiteStep
<1>3. CASE pc \notin {"design", "sliding"}
  <2>1. ~SlidingFails(constants, barrier')
    BY <1>1, <1>3, LaterSteps, WiderHolds DEF Sited, SlidingStands
  <2>. QED BY <1>2, <2>1 DEF SlidingStands
<1>4. CASE pc \in {"design", "sliding"}
  <2>1. CASE FinishSliding
    <3>1. barrier.base_length = base_len(barrier.base_width)
      BY <2>1 DEF FinishSliding, Proportions
    <3>2. barrier' = barrier
      BY <1>1, <2>1, <3>1, RelengthenedSame DEF FinishSliding
    <3>. QED BY <1>2, <2>1, <3>2 DEF FinishSliding, SlidingStands
  <2>2. ASSUME ~FinishSliding PROVE pc' \in {"design", "sliding"}
    BY <1>4, <2>2 DEF Next, vars, Design, WidenAgainstSliding, Widen, WidenAgainstOverturning,
         FinishOverturning, WidenAgainstEccentricity, FinishEccentricity,
         WidenAgainstSettlement, FinishSettlement, Written
  <2>. QED BY <2>1, <2>2 DEF SlidingStands
<1>. QED BY <1>3, <1>4

\* What holds in every run over ordinary sites.
OInv == IInv /\ Sited /\ SlidingStands

LEMMA OInvInvariant == ASSUME OrdinarySites PROVE Spec => []OInv
<1>1. Init => Sited /\ SlidingStands
  BY SitedInit DEF Init, SlidingStands
<1>2. IInv /\ IInv' /\ Sited /\ SlidingStands /\ [Next]_vars => Sited' /\ SlidingStands'
  BY SitedStep, SlidingStandsStep DEF IInv
<1>. QED BY <1>1, <1>2, IInvInvariant, PTL DEF Spec, OInv

\* Over all ordinary sites the footing written to barrier.csv resists sliding by the
\* factor 1.5, although three more loops have widened it at the thickness of the first
\* and, for a weak soil, at the length of the third.
THEOREM SlidingNeverUndone == ASSUME OrdinarySites PROVE Spec => []SlidingResisted
<1>1. OInv => SlidingResisted
  <2>. SUFFICES ASSUME OInv, csv # NoFile PROVE ~SlidingFails(constants, csv)
    BY DEF SlidingResisted
  <2>1. pc = "written" /\ csv = barrier
    BY DEF OInv, IInv, History
  <2>. QED BY <2>1 DEF OInv, SlidingStands
<1>. QED BY <1>1, OInvInvariant, PTL

\* Over all ordinary sites a height whose square is negative in Int8 never leaves the
\* sliding loop: the resistance is at most rounded below zero, the push is at least
\* 16 pounds the other way.
THEOREM NegativeLoadNeverEnds == ASSUME OrdinarySites PROVE Spec => []NegativeLoadNeverSlides
<1>1. OInv => NegativeLoadNeverSlides
  <2>. SUFFICES ASSUME OInv, Sq(barrier.height) < 0 PROVE pc \in {"design", "sliding"}
    BY DEF NegativeLoadNeverSlides
  <2>1. barrier.wall_t <= barrier.base_width
    BY WallFits DEF OInv, IInv
  <2>2. SlidingFails(constants, barrier)
    BY <2>1, NegativeFails DEF OInv, IInv, TypeOK, Sited
  <2>. QED BY <2>2 DEF OInv, SlidingStands
<1>. QED BY <1>1, OInvInvariant, PTL

----------------------------------------------------------------------------
(***************************************************************************)
(* The resisting moment and the eccentricity.                              *)
(***************************************************************************)

\* A quotient grows with its numerator, zero and infinite ones included.
LEMMA QuotGrows ==
    ASSUME NEW a \in Int, NEW c \in Int, NEW b \in Nat, a <= c
    PROVE  Quot(a, b) \in Int /\ Quot(c, b) \in Int /\ Quot(a, b) <= Quot(c, b)
<1>1. CASE b = 0
  BY <1>1 DEF Quot, Inf
<1>2. CASE b > 0
  <2>. DEFINE m == LongDiv(a, b)
              n == LongDiv(c, b)
  <2>1. m \in Int /\ m * b <= 1000 * a
    BY <1>2, LongDivides
  <2>2. n \in Int /\ 1000 * c < (n + 1) * b
    BY <1>2, LongDivides
  <2>3. Quot(a, b) = m /\ Quot(c, b) = n
    BY <1>2 DEF Quot
  <2>. HIDE DEF m, n
  <2>4. ASSUME n + 1 <= m PROVE FALSE
    <3>1. n + 1 \in Int
      BY <2>2
    <3>2. (n + 1) * b <= m * b
      BY <2>1, <2>4, <3>1, TimesGrows
    <3>3. (n + 1) * b \in Int /\ m * b \in Int
      BY <2>1, <2>2
    <3>. QED BY <2>1, <2>2, <3>2, <3>3
  <2>. QED BY <2>1, <2>2, <2>3, <2>4
<1>. QED BY <1>1, <1>2

\* The moments of the passive earth pressure before and behind the base: as EarthHolds,
\* rounded once more, for a base that grows by 40 thousandths of a foot.
LEMMA EarthTurns ==
    ASSUME NEW X \in Nat, NEW L \in Nat, NEW M \in Nat, NEW span \in Nat, NEW t \in Nat,
           X >= 3200, M >= L + 40, t >= 75
    PROVE  Mul(Mul(X, L) \div 2, t) + Mul(Mul(X, span * S - L) \div 4, t)
             <= Mul(Mul(X, M) \div 2, t) + Mul(Mul(X, span * S - M) \div 4, t)
<1>. DEFINE A == Mul(X, L)
            B == Mul(X, M)
            C == Mul(X, span * S - L)
            D == Mul(X, span * S - M)
<1>1. A \in Int /\ B \in Int /\ C \in Int /\ D \in Int /\ B >= A + 127 /\ C - D <= B - A + 1
  <2>. DEFINE K == X * span
  <2>0. K \in Nat
    OBVIOUS
  <2>1. ASSUME NEW N \in Nat
        PROVE  /\ Mul(X, N) = (X * N) \div 1000
               /\ Mul(X, span * S - N) = K + (-(X * N)) \div 1000
               /\ X * N \in Nat
    <3>1. X * N \in Nat /\ span * 1000 - N \in Int
      OBVIOUS
    <3>2. X * (span * 1000 - N) = 1000 * K - X * N
      <4>1. X * (span * 1000 - N) = X * (span * 1000) - X * N
        OBVIOUS
      <4>2. X * (span * 1000) = 1000 * K
        OBVIOUS
      <4>. QED BY <4>1, <4>2
    <3>3. Mul(X, N) = (X * N) \div 1000
      BY MulExact DEF S
    <3>4. Mul(X, span * 1000 - N) = (X * (span * 1000 - N)) \div 1000
      BY <3>1, MulExact DEF S
    <3>. HIDE DEF K
    <3>5. (1000 * K - X * N) \div 1000 = K + (-(X * N)) \div 1000
      <4>. DEFINE p == X * N
      <4>1. p \in Nat
        BY <3>1
      <4>. HIDE DEF p
      <4>2. (1000 * K - p) \div 1000 = K + (-p) \div 1000
        BY <2>0, <4>1
      <4>. QED BY <4>2 DEF p
    <3>. QED BY <3>1, <3>2, <3>3, <3>4, <3>5 DEF S
  <2>. HIDE DEF K
  <2>. DEFINE p == X * L
              q == X * M
  <2>2. p \in Nat /\ q \in Nat /\ p + 128000 <= q
    <3>. DEFINE e == M - L
    <3>1. e \in Nat /\ e >= 40 /\ M = L + e
      OBVIOUS
    <3>. HIDE DEF e
    <3>2. 3200 * e <= X * e /\ X * e \in Int
      BY <3>1, TimesGrows
    <3>3. X * (L + e) = X * L + X * e /\ X * L \in Nat
      BY <3>1
    <3>. QED BY <3>1, <3>2, <3>3
  <2>3. A = p \div 1000 /\ B = q \div 1000 /\ C = K + (-p) \div 1000 /\ D = K + (-q) \div 1000
    BY <2>1
  <2>. HIDE DEF p, q, A, B, C, D
  <2>. QED BY <2>0, <2>2, <2>3
<1>. HIDE DEF A, B, C, D
<1>. DEFINE a == A \div 2
            b == B \div 2
            c == C \div 4
            d == D \div 4
<1>2. a \in Int /\ b \in Int /\ c \in Int /\ d \in Int /\ b + d >= a + c + 14
  BY <1>1
<1>. HIDE DEF a, b, c, d
<1>3. a * t + c * t + 1000 <= b * t + d * t
  <2>1. (a + c) * t = a * t + c * t /\ (b + d) * t = b * t + d * t
    BY <1>2
  <2>2. a + c + 14 \in Int /\ b + d \in Int
    BY <1>2
  <2>3. (a + c + 14) * t <= (b + d) * t
    BY <1>2, <2>2, TimesGrows
  <2>4. (a + c + 14) * t = (a + c) * t + 14 * t /\ (a + c) * t \in Int /\ (b + d) * t \in Int
    BY <1>2
  <2>5. a * t \in Int /\ b * t \in Int /\ c * t \in Int /\ d * t \in Int
    BY <1>2
  <2>. QED BY <2>1, <2>3, <2>4, <2>5
<1>4. \A x \in {a, b, c, d} : Mul(x, t) = (x * t) \div 1000
  <2>. SUFFICES ASSUME NEW x \in Int PROVE Mul(x, t) = (x * t) \div 1000
    BY <1>2
  <2>. QED BY ONLY x \in Int, t \in Nat, MulExact DEF S
<1>. DEFINE at == a * t
            bt == b * t
            ct == c * t
            dt == d * t
<1>5. at \in Int /\ bt \in Int /\ ct \in Int /\ dt \in Int /\ at + ct + 1000 <= bt + dt
  BY <1>2, <1>3
<1>. HIDE DEF at, bt, ct, dt
<1>6. at \div 1000 + ct \div 1000 <= bt \div 1000 + dt \div 1000
  BY <1>5
<1>. QED BY <1>4, <1>6 DEF a, b, c, d, A, B, C, D, at, bt, ct, dt

\* The terms of Mres, each of its own.
LEMMA MresIs ==
    ASSUME NEW c, NEW b
    PROVE  LET G  == Pressure(c.Kp, c.spec_soil, spec_water)
               X  == Mul(G, Mul(b.base_thickness, b.base_thickness))
               Y  == Mul(G, Mul(b.key_depth, b.key_depth))
               hl == heel(b.base_width, b.wall_t)
           IN  Mres(c, b) =
                 Mul(Mul(X, b.base_length) \div 2, b.base_thickness \div 3)
                 + Mwallwt(weight(c.spec_mat, b.wall_t, b.span_length * S, b.height * S) \div 2,
                           toe(b.base_width, b.wall_t), b.wall_t)
                 + Mul(weight(c.spec_base, b.base_width, b.base_length, b.base_thickness),
                       b.base_width \div 2)
                 + Mul(weight(spec_water, hl, b.base_length, b.height * S),
                       b.base_width - hl \div 2)
                 + Mul(Mul(X, b.span_length * S - b.base_length) \div 4, b.base_thickness \div 3)
                 + Mul(Mul(Y, b.base_length) \div 2, (2 * b.key_depth) \div 3)
BY DEF Mres, M_fp, Mbse, Mwh, Mfwall, Mfkey, Fp, Fkey, Fwall

\* The terms of the resisting moment that do not depend on the width, the base's own
\* and the water's apart: of two footings of one site, thickness and key, the wider has
\* no smaller ones.
LEMMA OthersGrow ==
    ASSUME NEW c \in ConstantsType, NEW b \in BarrierType, NEW d \in BarrierType,
           Ordinary(c, b), b.wall_t <= b.base_width, b.base_thickness >= 225,
           Site(d) = Site(b), b.base_width <= d.base_width,
           d.base_thickness = b.base_thickness, d.key_depth = b.key_depth,
           d.base_length = b.base_length \/ d.base_length >= b.base_length + 40
    PROVE  LET Base(e)  == Mul(weight(c.spec_base, e.base_width, e.base_length, e.base_thickness),
                               e.base_width \div 2)
               Water(e) == Mul(weight(spec_water, heel(e.base_width, e.wall_t), e.base_length,
                                      e.height * S),
                               e.base_width - heel(e.base_width, e.wall_t) \div 2)
           IN  (Base(b) \in Nat /\ Base(d) \in Nat /\ Water(b) \in Nat /\ Water(d) \in Nat)
                 => Base(d) - Base(b) + Water(d) - Water(b) <= Mres(c, d) - Mres(c, b)
<1>. DEFINE G   == Pressure(c.Kp, c.spec_soil, spec_water)
            T   == b.base_thickness
            W   == b.base_width
            V   == d.base_width
            L   == b.base_length
            M   == d.base_length
            H   == b.height * S
            span == b.span_length
            key == b.key_depth
            wt  == b.wall_t
            X   == Mul(G, Mul(T, T))
            Y   == Mul(G, Mul(key, key))
            t   == T \div 3
            u   == (2 * key) \div 3
            F   == weight(c.spec_mat, wt, span * S, H) \div 2
            Wall(y) == Mwallwt(F, toe(y, wt), wt)
            before(x) == Mul(Mul(X, x) \div 2, t)
            behind(x) == Mul(Mul(X, span * S - x) \div 4, t)
            keyed(x)  == Mul(Mul(Y, x) \div 2, u)
            Base(e)  == Mul(weight(c.spec_base, e.base_width, e.base_length, e.base_thickness),
                            e.base_width \div 2)
            Water(e) == Mul(weight(spec_water, heel(e.base_width, e.wall_t), e.base_length,
                                   e.height * S),
                            e.base_width - heel(e.base_width, e.wall_t) \div 2)
<1>1. /\ T \in Nat /\ W \in Nat /\ V \in Nat /\ L \in Nat /\ M \in Nat /\ key \in Nat /\ H \in Nat
      /\ span \in Nat /\ wt \in Nat /\ c.spec_mat \in Nat
  BY DEF BarrierType, ConstantsType, S
<1>2. Mres(c, b) = before(L) + Wall(W) + Base(b) + Water(b) + behind(L) + keyed(L)
  BY MresIs
<1>3. Mres(c, d) = before(M) + Wall(V) + Base(d) + Water(d) + behind(M) + keyed(M)
  BY MresIs DEF Site
<1>4. T >= 225 /\ (M = L \/ M >= L + 40) /\ L <= M /\ wt <= W /\ W <= V
  BY <1>1
<1>. HIDE DEF T, W, V, L, M, H, span, key, wt, Base, Water
<1>6. t \in Nat /\ t >= 75 /\ u \in Nat
  BY <1>1, <1>4
<1>. HIDE DEF t, u
<1>7. G \in Nat /\ G >= 64000
  BY PressureFrom DEF Ordinary, S
<1>. HIDE DEF G
<1>8. X \in Nat /\ X >= 3200 /\ Y \in Nat
  <2>. DEFINE sq == Mul(T, T)
              sqkey == Mul(key, key)
  <2>1. sq \in Nat /\ sqkey \in Nat
    BY <1>1, MulNat
  <2>2. Mul(225, 225) <= sq
    BY <1>1, <1>4, MulBothGrow
  <2>3. Mul(225, 225) = 50 /\ Mul(64000, 50) = 3200
    BY DEF Mul, S
  <2>. HIDE DEF sq, sqkey
  <2>4. sq >= 50
    BY <2>1, <2>2, <2>3
  <2>5. Mul(64000, 50) <= Mul(G, sq)
    BY <1>7, <2>1, <2>4, MulBothGrow
  <2>6. Mul(G, sq) \in Nat
    BY ONLY <1>7, <2>1, MulNat
  <2>7. Mul(G, sqkey) \in Nat
    BY ONLY <1>7, <2>1, MulNat
  <2>. QED BY <2>3, <2>5, <2>6, <2>7 DEF sq, sqkey
<1>. HIDE DEF X, Y
<1>9. \A x \in {L, M} : before(x) \in Int /\ behind(x) \in Int
  <2>. SUFFICES ASSUME NEW x \in Nat PROVE before(x) \in Int /\ behind(x) \in Int
    BY <1>1
  <2>0. X \in Int /\ t \in Int /\ x \in Int
    BY <1>6, <1>8
  <2>1. Mul(X, x) \in Int
    BY ONLY <2>0, MulInt
  <2>. DEFINE rest == span * S - x
              p == Mul(X, x) \div 2
              q == Mul(X, rest) \div 4
  <2>2. rest \in Int
    BY <1>1 DEF S
  <2>. HIDE DEF rest
  <2>3. Mul(X, rest) \in Int
    BY ONLY <2>0, <2>2, MulInt
  <2>4. p \in Int /\ q \in Int
    BY <2>1, <2>3
  <2>. HIDE DEF p, q
  <2>5. Mul(p, t) \in Int /\ Mul(q, t) \in Int
    BY ONLY <2>0, <2>4, MulInt
  <2>. QED BY <2>5 DEF p, q, rest
<1>10. before(L) + behind(L) <= before(M) + behind(M)
  <2>1. CASE M = L
    <3>1. before(M) = before(L) /\ behind(M) = behind(L)
      BY <2>1
    <3>. QED BY <1>9, <3>1
  <2>2. CASE M >= L + 40
    BY <1>1, <1>4, <1>6, <1>8, <2>2, EarthTurns
  <2>. QED BY <1>4, <2>1, <2>2
<1>11. keyed(L) \in Nat /\ keyed(M) \in Nat /\ keyed(L) <= keyed(M)
  <2>. DEFINE p == Mul(Y, L)
              q == Mul(Y, M)
  <2>1. p \in Nat /\ q \in Nat /\ p <= q
    <3>0. Y \in Nat /\ L \in Nat /\ M \in Nat /\ L <= M /\ Y <= Y
      BY <1>1, <1>4, <1>8
    <3>1. Mul(Y, L) \in Nat
      BY ONLY <3>0, MulNat
    <3>2. Mul(Y, M) \in Nat
      BY ONLY <3>0, MulNat
    <3>3. Mul(Y, L) <= Mul(Y, M)
      BY ONLY <3>0, MulBothGrow
    <3>. QED BY <3>1, <3>2, <3>3
  <2>. HIDE DEF p, q
  <2>. DEFINE m == p \div 2
              n == q \div 2
  <2>2. m \in Nat /\ n \in Nat /\ m <= n /\ u \in Nat
    BY <1>6, <2>1
  <2>. HIDE DEF m, n
  <2>3. Mul(m, u) \in Nat
    BY ONLY <2>2, MulNat
  <2>4. Mul(n, u) \in Nat
    BY ONLY <2>2, MulNat
  <2>5. Mul(m, u) <= Mul(n, u)
    BY ONLY <2>2, MulGrows
  <2>. QED BY <2>3, <2>4, <2>5 DEF m, n, p, q
<1>12. Wall(W) \in Nat /\ Wall(V) \in Nat /\ Wall(W) <= Wall(V)
  <2>1. span * S \in Nat
    BY <1>1 DEF S
  <2>2. weight(c.spec_mat, wt, span * S, H) \in Nat
    BY <1>1, <2>1, WeightNat
  <2>. DEFINE x == toe(W, wt) + wt \div 2
              y == toe(V, wt) + wt \div 2
  <2>3. F \in Nat /\ F <= F
    BY <2>2
  <2>4. x \in Nat /\ y \in Nat /\ x <= y
    BY <1>1, <1>4 DEF toe
  <2>. HIDE DEF F, x, y
  <2>5. Mul(F, x) \in Nat
    BY ONLY <2>3, <2>4, MulNat
  <2>6. Mul(F, y) \in Nat
    BY ONLY <2>3, <2>4, MulNat
  <2>7. Mul(F, x) <= Mul(F, y)
    BY ONLY <2>3, <2>4, MulBothGrow
  <2>. QED BY <2>5, <2>6, <2>7 DEF Mwallwt, x, y
<1>. SUFFICES ASSUME Base(b) \in Nat, Base(d) \in Nat, Water(b) \in Nat, Water(d) \in Nat
              PROVE  Base(d) - Base(b) + Water(d) - Water(b) <= Mres(c, d) - Mres(c, b)
  BY DEF Base, Water
<1>. DEFINE beforeL == before(L)
            behindL == behind(L)
            beforeM == before(M)
            behindM == behind(M)
            keyL == keyed(L)
            keyM == keyed(M)
            wallW == Wall(W)
            wallV == Wall(V)
            b1 == Base(b)
            b2 == Base(d)
            w1 == Water(b)
            w2 == Water(d)
<1>13. /\ beforeL \in Int /\ behindL \in Int /\ beforeM \in Int /\ behindM \in Int
       /\ beforeL + behindL <= beforeM + behindM
  BY <1>9, <1>10
<1>14. keyL \in Nat /\ keyM \in Nat /\ keyL <= keyM /\ wallW \in Nat /\ wallV \in Nat /\ wallW <= wallV
  BY <1>11, <1>12
<1>15. b1 \in Nat /\ b2 \in Nat /\ w1 \in Nat /\ w2 \in Nat
  OBVIOUS
<1>16. /\ Mres(c, b) = beforeL + wallW + b1 + w1 + behindL + keyL
       /\ Mres(c, d) = beforeM + wallV + b2 + w2 + behindM + keyM
  BY <1>2, <1>3
<1>. HIDE DEF beforeL, behindL, beforeM, behindM, keyL, keyM, wallW, wallV, b1, b2, w1, w2
<1>17. b2 - b1 + w2 - w1 <= Mres(c, d) - Mres(c, b)
  BY <1>13, <1>14, <1>15, <1>16
<1>. QED BY <1>17 DEF b1, b2, w1, w2

\* A base 40 thousandths of a foot longer, of the same width and thickness, resists
\* overturning with no smaller moment.
LEMMA MomentGrows ==
    ASSUME NEW c \in ConstantsType, NEW b \in BarrierType, NEW d \in BarrierType,
           Ordinary(c, b), b.wall_t <= b.base_width, b.base_thickness >= 225,
           Site(d) = Site(b), d.base_width = b.base_width,
           d.base_thickness = b.base_thickness, d.key_depth = b.key_depth,
           d.base_length >= b.base_length + 40
    PROVE  Mres(c, b) <= Mres(c, d)
<1>. DEFINE T   == b.base_thickness
            W   == b.base_width
            L   == b.base_length
            M   == d.base_length
            H   == b.height * S
            hl  == heel(W, b.wall_t)
            v   == W \div 2
            w   == W - hl \div 2
            base(x)  == Mul(weight(c.spec_base, W, x, T), v)
            water(x) == Mul(weight(spec_water, hl, x, H), w)
<1>1. /\ T \in Nat /\ W \in Nat /\ L \in Nat /\ M \in Nat /\ H \in Nat
      /\ b.wall_t \in Nat /\ c.spec_base \in Nat /\ spec_water \in Nat
  BY DEF BarrierType, ConstantsType, spec_water, S
<1>2. L <= M /\ b.wall_t <= W
  BY <1>1
<1>3. (base(L) \in Nat /\ base(M) \in Nat /\ water(L) \in Nat /\ water(M) \in Nat)
        => base(M) - base(L) + water(M) - water(L) <= Mres(c, d) - Mres(c, b)
  <2>1. d.height = b.height /\ d.wall_t = b.wall_t
    BY DEF Site
  <2>2. b.base_width <= d.base_width
    BY <1>1
  <2>. QED BY <2>1, <2>2, OthersGrow
<1>. HIDE DEF T, W, L, M, H
<1>4. hl \in Nat /\ hl <= W
  BY <1>1, <1>2, HeelGrows
<1>. HIDE DEF hl
<1>5. v \in Nat /\ w \in Nat
  BY <1>1, <1>4
<1>. HIDE DEF v, w
<1>6. base(L) \in Nat /\ base(M) \in Nat /\ base(L) <= base(M)
  <2>. DEFINE m == weight(c.spec_base, W, L, T)
              n == weight(c.spec_base, W, M, T)
  <2>1. m \in Nat /\ n \in Nat
    BY <1>1, WeightNat
  <2>2. m <= n
    BY <1>1, <1>2, WeightGrows
  <2>. HIDE DEF m, n
  <2>3. v \in Nat /\ m \in Nat /\ n \in Nat /\ m \in Int /\ n \in Int /\ m <= n
    BY <1>5, <2>1, <2>2
  <2>4. Mul(m, v) \in Nat
    BY ONLY <2>3, MulNat
  <2>5. Mul(n, v) \in Nat
    BY ONLY <2>3, MulNat
  <2>6. Mul(m, v) <= Mul(n, v)
    BY ONLY <2>3, MulGrows
  <2>. QED BY <2>4, <2>5, <2>6 DEF m, n
<1>7. water(L) \in Nat /\ water(M) \in Nat /\ water(L) <= water(M)
  <2>. DEFINE m == weight(spec_water, hl, L, H)
              n == weight(spec_water, hl, M, H)
  <2>1. m \in Nat /\ n \in Nat
    BY <1>1, <1>4, WeightNat
  <2>2. m <= n
    BY <1>1, <1>2, <1>4, WeightGrows
  <2>. HIDE DEF m, n
  <2>3. w \in Nat /\ m \in Nat /\ n \in Nat /\ m \in Int /\ n \in Int /\ m <= n
    BY <1>5, <2>1, <2>2
  <2>4. Mul(m, w) \in Nat
    BY ONLY <2>3, MulNat
  <2>5. Mul(n, w) \in Nat
    BY ONLY <2>3, MulNat
  <2>6. Mul(m, w) <= Mul(n, w)
    BY ONLY <2>3, MulGrows
  <2>. QED BY <2>4, <2>5, <2>6 DEF m, n
<1>8. Mres(c, b) \in Int /\ Mres(c, d) \in Int
  BY MresInt
<1>. HIDE DEF base, water
<1>. QED BY <1>3, <1>6, <1>7, <1>8

\* The eccentricity from the resisting moment of the shorter base is no smaller than
\* that of the footing it is used for.
LEMMA MixedIsSafe ==
    ASSUME NEW c \in ConstantsType, NEW b \in BarrierType, Ordinary(c, b),
           b.wall_t <= b.base_width, b.base_thickness >= 225,
           base_len(b.base_width) >= b.base_length + 40
    PROVE  FreshEccentricity(c, Relengthened(b)) <= Ecentricity(c, b)
<1>. DEFINE d == Relengthened(b)
            Mr == Mres(c, b)
            Mrs == Mres(c, d)
            Mo == Mov(d)
            fv == fvertical(c, d)
<1>1. /\ d \in BarrierType /\ Site(d) = Site(b) /\ d.base_width = b.base_width
      /\ d.base_length = base_len(b.base_width) /\ d.base_thickness = b.base_thickness
      /\ d.key_depth = b.key_depth /\ d.wall_t = b.wall_t
  BY RelengthenedFields, RelengthenedType DEF Site
<1>2. /\ Ecentricity(c, b) = b.base_width \div 2 - Quot(Mr - Mo, fv)
      /\ FreshEccentricity(c, d) = b.base_width \div 2 - Quot(Mrs - Mo, fv)
  BY <1>1 DEF Ecentricity, FreshEccentricity, ecentricity
<1>. HIDE DEF d
<1>3. Mr <= Mrs
  BY <1>1, MomentGrows
<1>4. Mr \in Int /\ Mrs \in Int /\ Mo \in Int
  BY <1>1, MresInt, MovInt
<1>5. fv \in Nat
  BY <1>1, OrdinaryHeavy, VerticalNat
<1>6. b.base_width \div 2 \in Int
  BY DEF BarrierType
<1>. HIDE DEF Mr, Mrs, Mo, fv
<1>. DEFINE p == Mr - Mo
            q == Mrs - Mo
<1>7. p \in Int /\ q \in Int /\ p <= q
  BY <1>3, <1>4
<1>. HIDE DEF p, q
<1>8. Quot(p, fv) \in Int /\ Quot(q, fv) \in Int /\ Quot(p, fv) <= Quot(q, fv)
  BY ONLY <1>5, <1>7, QuotGrows
<1>. QED BY <1>2, <1>6, <1>8 DEF p, q, d

\* The settlement loop has not widened the footing.
Unsunk == pc \in {"settlement", "written"} => passedAt["eccentricity"] = coeff

EccentricityStands == Unsunk => StaleEccentricityIsSafe

LEMMA FreshEccentricityInt ==
    ASSUME NEW c \in ConstantsType, NEW b \in BarrierType
    PROVE  FreshEccentricity(c, b) \in Int
<1>. DEFINE Mr == Mres(c, b)
            Mo == Mov(b)
            fv == fvertical(c, b)
<1>1. Mr \in Int /\ Mo \in Int /\ fv \in Int
  BY MresInt, MovInt, fverticalInt
<1>. HIDE DEF Mr, Mo, fv
<1>2. Quot(Mr - Mo, fv) \in Int
  BY <1>1, QuotInt
<1>3. b.base_width \div 2 \in Int
  BY DEF BarrierType
<1>. QED BY <1>2, <1>3 DEF FreshEccentricity, ecentricity, Mr, Mo, fv

LEMMA EccentricityStandsStep ==
    ASSUME TypeOK, TypeOK', Proportions, Proportions', History, Sited, EccentricityStands,
           [Next]_vars
    PROVE  EccentricityStands'
<1>1. /\ barrier \in BarrierType /\ barrier' \in BarrierType /\ constants \in ConstantsType
      /\ coeff \in Nat /\ coeff' \in Nat /\ passedAt \in [Checks -> Nat]
  BY MaxCoeffAssumption DEF TypeOK
<1>2. constants' = constants
  BY SiteStep
<1>3. CASE FinishOverturning
  <2>1. barrier.base_length = base_len(barrier.base_width)
    BY <1>3 DEF FinishOverturning, Proportions
  <2>2. barrier' = barrier
    BY <1>1, <1>3, <2>1, RelengthenedSame DEF FinishOverturning
  <2>3. k' = FreshEccentricity(constants, barrier)
    BY <1>1, <1>3, <2>1, EccentricityFresh DEF FinishOverturning
  <2>4. k' \in Int
    BY DEF TypeOK
  <2>. QED BY <1>2, <2>2, <2>3, <2>4 DEF EccentricityStands, StaleEccentricityIsSafe
<1>4. CASE WidenAgainstEccentricity
  <2>. DEFINE b == Widened(barrier, coeff')
  <2>1. /\ b \in BarrierType /\ Site(b) = Site(barrier) /\ b.base_width = WidthAt(barrier, coeff')
        /\ b.base_length = barrier.base_length /\ b.base_thickness = barrier.base_thickness
    BY <1>1, WidenedFields, WidenedType
  <2>2. k' = Ecentricity(constants, b) /\ barrier' = Relengthened(b) /\ coeff' = coeff + 10
    BY <1>4 DEF WidenAgainstEccentricity, Widen
  <2>. HIDE DEF b
  <2>3. Ordinary(constants, b)
    <3>1. WidthAt(b, 50) = WidthAt(barrier, 50)
      BY <1>1, <2>1, SameWidth
    <3>. QED BY <2>1, <3>1 DEF Sited, Ordinary, Site
  <2>4. b.wall_t <= b.base_width /\ b.base_thickness >= 225
    <3>1. pc \notin {"design", "sliding"}
      BY <1>4 DEF WidenAgainstEccentricity
    <3>2. Wider(barrier, barrier') /\ barrier.base_thickness >= 225
      BY <3>1, LaterSteps
    <3>3. barrier'.base_width = b.base_width
      BY <2>1, <2>2, RelengthenedFields
    <3>4. /\ barrier.wall_t \in Nat /\ barrier.base_width \in Nat /\ b.base_width \in Nat
          /\ b.wall_t = barrier.wall_t
      BY <1>1, <2>1 DEF BarrierType, Site
    <3>. QED BY <2>1, <3>2, <3>3, <3>4 DEF Wider
  <2>5. base_len(b.base_width) >= b.base_length + 40
    <3>1. barrier.base_length = base_len(WidthAt(barrier, coeff))
      BY <1>4 DEF WidenAgainstEccentricity, Proportions
    <3>. DEFINE h == barrier.height
                p == coeff * h
    <3>2. h \in Nat /\ h >= 1 /\ p \in Nat
      BY <1>1 DEF BarrierType
    <3>3. base_len(WidthAt(barrier, coeff)) = 4 * p
      BY <1>1, Shares
    <3>4. base_len(WidthAt(barrier, coeff')) = 4 * (coeff' * h)
      BY <1>1, Shares
    <3>5. (coeff + 10) * h = p + 10 * h
      <4>1. h \in Nat /\ coeff \in Nat
        BY <1>1, <3>2
      <4>. HIDE DEF h
      <4>2. (coeff + 10) * h = coeff * h + 10 * h
        BY ONLY <4>1
      <4>. QED BY <4>2
    <3>. HIDE DEF p, h
    <3>6. base_len(WidthAt(barrier, coeff')) = 4 * (p + 10 * h)
      BY <2>2, <3>4, <3>5
    <3>7. 4 * (p + 10 * h) >= 4 * p + 40
      BY <3>2
    <3>. QED BY <2>1, <3>1, <3>3, <3>6, <3>7
  <2>6. FreshEccentricity(constants, Relengthened(b)) <= Ecentricity(constants, b)
    BY <1>1, <2>1, <2>3, <2>4, <2>5, MixedIsSafe
  <2>. QED BY <1>2, <2>2, <2>6 DEF EccentricityStands, StaleEccentricityIsSafe
<1>5. CASE FinishEccentricity
  BY <1>2, <1>5 DEF FinishEccentricity, EccentricityStands, StaleEccentricityIsSafe, Unsunk
<1>6. CASE WidenAgainstSettlement
  <2>1. passedAt["eccentricity"] \in 50 .. coeff
    <3>1. "eccentricity" \in Checks \ Pending[pc]
      BY <1>6 DEF WidenAgainstSettlement, Checks, Pending
    <3>. QED BY <3>1 DEF History
  <2>2. pc' = "settlement" /\ coeff' = coeff + 5 /\ passedAt' = passedAt
    BY <1>6 DEF WidenAgainstSettlement, Widen
  <2>3. passedAt'["eccentricity"] # coeff'
    BY <1>1, <2>1, <2>2
  <2>. QED BY <2>2, <2>3 DEF EccentricityStands, Unsunk
<1>7. CASE FinishSettlement
  <2>1. passedAt'["eccentricity"] = passedAt["eccentricity"]
    BY <1>1, <1>7 DEF FinishSettlement, Pass, Checks
  <2>. QED BY <1>2, <1>7, <2>1
         DEF FinishSettlement, Pass, EccentricityStands, StaleEccentricityIsSafe, Unsunk
<1>8. CASE Written \/ UNCHANGED vars
  BY <1>8 DEF Written, vars, EccentricityStands, StaleEccentricityIsSafe, Unsunk
<1>9. CASE Design \/ WidenAgainstSliding \/ FinishSliding \/ WidenAgainstOverturning
  <2>1. pc' \in {"sliding", "overturning"}
    BY <1>9 DEF Design, WidenAgainstSliding, FinishSliding, Pass, WidenAgainstOverturning, Widen
  <2>. QED BY <2>1 DEF EccentricityStands, StaleEccentricityIsSafe
<1>. QED BY <1>3, <1>4, <1>5, <1>6, <1>7, <1>8, <1>9 DEF Next

LEMMA EccentricityInvariant == ASSUME OrdinarySites PROVE Spec => []EccentricityStands
<1>1. Init => EccentricityStands
  BY DEF Init, EccentricityStands, StaleEccentricityIsSafe
<1>2. OInv /\ OInv' /\ EccentricityStands /\ [Next]_vars => EccentricityStands'
  BY EccentricityStandsStep DEF OInv, IInv
<1>. QED BY <1>1, <1>2, OInvInvariant, PTL DEF Spec

\* Over all ordinary sites the eccentricity main goes on with, the resisting moment of the
\* base before it grew and the overturning moment of the base after, is no smaller than
\* that of the footing, as long as the settlement loop has not widened it.
THEOREM MixedMomentsAreSafe ==
    ASSUME OrdinarySites PROVE Spec => [](Unsunk => StaleEccentricityIsSafe)
<1>1. EccentricityStands <=> (Unsunk => StaleEccentricityIsSafe)
  BY DEF EccentricityStands
<1>. QED BY <1>1, EccentricityInvariant, PTL

----------------------------------------------------------------------------
(***************************************************************************)
(* The overturning check: what widening adds to the resisting moment       *)
(* outweighs one and a half times what it adds to the overturning one.     *)
(***************************************************************************)

\* The volumes the moments are made of, for a width 10 r and a length L: of the water on
\* the heel per foot of its height, of the base, and the two the program takes for the
\* buoyancy's.
HeelWater(r, L, w)     == Mul(heel(10 * r, w), L)
BaseVolume(r, L, T)    == Mul(Mul(10 * r, L), T)
LiftOne(r, L, w, T, H) == Mul(H * (w \div 2) + Mul(Mul(heel(10 * r, w), w \div 2), T), L)
LiftTwo(r, L, w, T)    == Mul(L, toe(10 * r, w) + Mul(w \div 2, T))

LEMMA VolumesGrow ==
    ASSUME NEW H \in Nat, NEW r \in Nat, NEW s \in Nat, NEW L \in Nat, NEW M \in Nat,
           NEW w \in Nat, NEW T \in Nat, w <= 10 * r, r <= s, L <= M
    PROVE  /\ HeelWater(r, L, w) \in Nat /\ HeelWater(s, M, w) \in Nat
           /\ HeelWater(r, L, w) <= HeelWater(s, M, w)
           /\ BaseVolume(r, L, T) \in Nat /\ BaseVolume(s, M, T) \in Nat
           /\ BaseVolume(r, L, T) <= BaseVolume(s, M, T)
           /\ LiftOne(r, L, w, T, H) \in Nat /\ LiftOne(s, M, w, T, H) \in Nat
           /\ LiftOne(r, L, w, T, H) <= LiftOne(s, M, w, T, H)
           /\ LiftTwo(r, L, w, T) \in Nat /\ LiftTwo(s, M, w, T) \in Nat
           /\ LiftTwo(r, L, w, T) <= LiftTwo(s, M, w, T)
<1>. DEFINE W  == 10 * r
            V  == 10 * s
            hl == heel(W, w)
            hm == heel(V, w)
            ty == toe(W, w)
            tz == toe(V, w)
            w2 == w \div 2
            x  == H * w2
<1>1. hl \in Nat /\ hm \in Nat /\ ty \in Nat /\ tz \in Nat /\ w2 \in Nat
  BY DEF heel, toe
<1>2. hl <= hm /\ ty <= tz
  BY DEF heel, toe
<1>3. W \in Nat /\ V \in Nat /\ L \in Nat /\ M \in Nat /\ W <= V /\ L <= M /\ T <= T /\ w2 <= w2
  BY <1>1
<1>. HIDE DEF W, V, hl, hm, ty, tz, w2
<1>4. x \in Nat
  BY <1>1
<1>. HIDE DEF x
<1>5. Mul(hl, L) \in Nat /\ Mul(hm, M) \in Nat /\ Mul(hl, L) <= Mul(hm, M)
  <2>1. Mul(hl, L) \in Nat
    BY ONLY <1>1, <1>3, MulNat
  <2>2. Mul(hm, M) \in Nat
    BY ONLY <1>1, <1>3, MulNat
  <2>3. Mul(hl, L) <= Mul(hm, M)
    BY ONLY <1>1, <1>2, <1>3, MulBothGrow
  <2>. QED BY <2>1, <2>2, <2>3
<1>6. Mul(Mul(W, L), T) \in Nat /\ Mul(Mul(V, M), T) \in Nat /\ Mul(Mul(W, L), T) <= Mul(Mul(V, M), T)
  <2>. DEFINE a == Mul(W, L)
              b == Mul(V, M)
  <2>1. a \in Nat
    BY ONLY <1>3, MulNat
  <2>2. b \in Nat
    BY ONLY <1>3, MulNat
  <2>3. a <= b
    BY ONLY <1>3, MulBothGrow
  <2>. HIDE DEF a, b
  <2>4. Mul(a, T) \in Nat
    BY ONLY <2>1, T \in Nat, MulNat
  <2>5. Mul(b, T) \in Nat
    BY ONLY <2>2, T \in Nat, MulNat
  <2>6. Mul(a, T) <= Mul(b, T)
    BY ONLY <2>1, <2>2, <2>3, <1>3, T \in Nat, MulBothGrow
  <2>. QED BY <2>4, <2>5, <2>6 DEF a, b
<1>7. /\ Mul(x + Mul(Mul(hl, w2), T), L) \in Nat /\ Mul(x + Mul(Mul(hm, w2), T), M) \in Nat
      /\ Mul(x + Mul(Mul(hl, w2), T), L) <= Mul(x + Mul(Mul(hm, w2), T), M)
  <2>. DEFINE a == Mul(hl, w2)
              b == Mul(hm, w2)
  <2>1. a \in Nat
    BY ONLY <1>1, MulNat
  <2>2. b \in Nat
    BY ONLY <1>1, MulNat
  <2>3. a <= b
    BY ONLY <1>1, <1>2, <1>3, MulBothGrow
  <2>. HIDE DEF a, b
  <2>. DEFINE c == Mul(a, T)
              d == Mul(b, T)
  <2>4. c \in Nat
    BY ONLY <2>1, T \in Nat, MulNat
  <2>5. d \in Nat
    BY ONLY <2>2, T \in Nat, MulNat
  <2>6. c <= d
    BY ONLY <2>1, <2>2, <2>3, <1>3, T \in Nat, MulBothGrow
  <2>. HIDE DEF c, d
  <2>. DEFINE e == x + c
              f == x + d
  <2>7. e \in Nat /\ f \in Nat /\ e <= f
    BY <1>4, <2>4, <2>5, <2>6
  <2>. HIDE DEF e, f
  <2>8. Mul(e, L) \in Nat
    BY ONLY <2>7, <1>3, MulNat
  <2>9. Mul(f, M) \in Nat
    BY ONLY <2>7, <1>3, MulNat
  <2>10. Mul(e, L) <= Mul(f, M)
    BY ONLY <2>7, <1>3, MulBothGrow
  <2>. QED BY <2>8, <2>9, <2>10 DEF a, b, c, d, e, f
<1>8. Mul(L, ty + Mul(w2, T)) \in Nat /\ Mul(M, tz + Mul(w2, T)) \in Nat
      /\ Mul(L, ty + Mul(w2, T)) <= Mul(M, tz + Mul(w2, T))
  <2>. DEFINE c == Mul(w2, T)
  <2>1. c \in Nat
    BY ONLY <1>1, T \in Nat, MulNat
  <2>. HIDE DEF c
  <2>. DEFINE e == ty + c
              f == tz + c
  <2>2. e \in Nat /\ f \in Nat /\ e <= f
    BY <1>1, <1>2, <2>1
  <2>. HIDE DEF e, f
  <2>3. Mul(L, e) \in Nat
    BY ONLY <2>2, <1>3, MulNat
  <2>4. Mul(M, f) \in Nat
    BY ONLY <2>2, <1>3, MulNat
  <2>5. Mul(L, e) <= Mul(M, f)
    BY ONLY <2>2, <1>3, MulBothGrow
  <2>. QED BY <2>3, <2>4, <2>5 DEF c, e, f
<1>. QED BY <1>5, <1>6, <1>7, <1>8
       DEF HeelWater, BaseVolume, LiftOne, LiftTwo, W, V, hl, hm, ty, tz, w2, x

\* Each term of the weighing of VolumesGain, in millionths: what the volumes gain when the
\* footing grows wider by 100 H thousandths and longer by 40 H.
LEMMA WaterGain ==
    ASSUME NEW H \in Nat, H >= 1, NEW p \in Nat, p >= 50 * H,
           NEW w \in Nat, 4 * w <= 500 * H, w <= 1000
    PROVE  LET q  == p + 10 * H
               HM == H * (4 * q)
               Hh == H * heel(10 * p, w)
           IN  1000 * (HeelWater(q, 4 * q, w) - HeelWater(p, 4 * p, w)) + 999 >= 66 * HM + 40 * Hh
<1>. DEFINE q  == p + 10 * H
            L  == 4 * p
            M  == 4 * q
            hl == heel(10 * p, w)
            hm == heel(10 * q, w)
            m  == HeelWater(p, 4 * p, w)
            n  == HeelWater(q, 4 * q, w)
<1>1. hl \in Nat /\ hm \in Nat
  BY DEF heel
<1>2. hl + 66 * H <= hm
  BY DEF heel
<1>3. L \in Nat /\ M \in Nat /\ M = L + 40 * H
  OBVIOUS
<1>4. m = Mul(hl, L) /\ n = Mul(hm, M)
  BY DEF HeelWater
<1>. HIDE DEF q, L, M, hl, hm, m, n
<1>5. m \in Nat /\ n \in Nat
  <2>1. Mul(hl, L) \in Nat
    BY ONLY <1>1, <1>3, MulNat
  <2>2. Mul(hm, M) \in Nat
    BY ONLY <1>1, <1>3, MulNat
  <2>. QED BY <1>4, <2>1, <2>2
<1>6. 1000 * m <= hl * L
  <2>1. 1000 * Mul(hl, L) <= hl * L
    BY ONLY <1>1, <1>3, MulBounds
  <2>. QED BY <1>4, <2>1
<1>7. hm * M <= 1000 * n + 999
  <2>1. hm * M <= 1000 * Mul(hm, M) + 999
    BY ONLY <1>1, <1>3, MulBounds
  <2>. QED BY <1>4, <2>1
<1>8. (hl + 66 * H) * M <= hm * M
  <2>1. hl + 66 * H \in Int /\ hm \in Int
    BY <1>1
  <2>. QED BY ONLY <2>1, <1>2, <1>3, TimesGrows
<1>9. (hl + 66 * H) * M = hl * M + 66 * (H * M)
  BY <1>1, <1>3
<1>10. hl * M = hl * L + 40 * (H * hl)
  BY <1>1, <1>3
<1>. DEFINE a == hl * L
            b == hm * M
            c == hl * M
            d == H * M
            e == H * hl
<1>11. a \in Nat /\ b \in Nat /\ c \in Nat /\ d \in Nat /\ e \in Nat
  BY <1>1, <1>3
<1>12. 1000 * m <= a /\ b <= 1000 * n + 999 /\ c + 66 * d <= b /\ c = a + 40 * e
  BY <1>6, <1>7, <1>8, <1>9, <1>10
<1>. HIDE DEF a, b, c, d, e
<1>13. 1000 * (n - m) + 999 >= 66 * d + 40 * e
  BY <1>5, <1>11, <1>12
<1>. QED BY <1>13 DEF d, e, M, hl, q, m, n

LEMMA BaseGain ==
    ASSUME NEW H \in Nat, H >= 1, NEW p \in Nat, p >= 50 * H, NEW T \in Nat
    PROVE  LET q  == p + 10 * H
               HM == H * (4 * q)
               HW == H * (10 * p)
           IN  1000000 * (BaseVolume(q, 4 * q, T) - BaseVolume(p, 4 * p, T)) + 999000 + 999 * T
                 >= 100 * (HM * T) + 40 * (HW * T)
<1>. DEFINE q == p + 10 * H
            W == 10 * p
            V == 10 * q
            L == 4 * p
            M == 4 * q
            a == Mul(W, L)
            b == Mul(V, M)
            m == BaseVolume(p, 4 * p, T)
            n == BaseVolume(q, 4 * q, T)
<1>1. /\ W \in Nat /\ V \in Nat /\ L \in Nat /\ M \in Nat
      /\ V = W + 100 * H /\ M = L + 40 * H
  OBVIOUS
<1>2. m = Mul(a, T) /\ n = Mul(b, T)
  BY DEF BaseVolume
<1>. HIDE DEF q, W, V, L, M, m, n
<1>3. a \in Nat
  BY ONLY <1>1, MulNat
<1>4. b \in Nat
  BY ONLY <1>1, MulNat
<1>5. 1000 * a <= W * L
  BY ONLY <1>1, MulBounds
<1>6. V * M <= 1000 * b + 999
  BY ONLY <1>1, MulBounds
<1>. HIDE DEF a, b
<1>7. 1000 * (b - a) + 999 >= 100 * (H * M) + 40 * (H * W)
  <2>1. V * M = W * M + 100 * (H * M)
    BY <1>1
  <2>2. W * M = W * L + 40 * (H * W)
    BY <1>1
  <2>. DEFINE c == V * M
              d == W * M
              e == W * L
              f == H * M
              g == H * W
  <2>3. c \in Nat /\ d \in Nat /\ e \in Nat /\ f \in Nat /\ g \in Nat
    BY <1>1
  <2>4. c = d + 100 * f /\ d = e + 40 * g /\ 1000 * a <= e /\ c <= 1000 * b + 999
    BY <1>5, <1>6, <2>1, <2>2
  <2>. HIDE DEF c, d, e, f, g
  <2>5. 1000 * (b - a) + 999 >= 100 * f + 40 * g
    BY <1>3, <1>4, <2>3, <2>4
  <2>. QED BY <2>5 DEF f, g
<1>8. m \in Nat /\ 1000 * m <= a * T
  <2>1. Mul(a, T) \in Nat
    <3>1. a \in Nat
      BY <1>3
    <3>. QED BY ONLY <3>1, T \in Nat, MulNat
  <2>2. 1000 * Mul(a, T) <= a * T
    BY ONLY <1>3, T \in Nat, MulBounds
  <2>. QED BY <1>2, <2>1, <2>2
<1>9. n \in Nat /\ b * T <= 1000 * n + 999
  <2>1. Mul(b, T) \in Nat
    <3>1. b \in Nat
      BY <1>4
    <3>. QED BY ONLY <3>1, T \in Nat, MulNat
  <2>2. b * T <= 1000 * Mul(b, T) + 999
    BY ONLY <1>4, T \in Nat, MulBounds
  <2>. QED BY <1>2, <2>1, <2>2
<1>10. 1000 * (b * T) + 999 * T >= 1000 * (a * T) + 100 * ((H * M) * T) + 40 * ((H * W) * T)
  <2>. DEFINE f == H * M
              g == H * W
  <2>1. f \in Nat /\ g \in Nat
    BY <1>1
  <2>2. 1000 * b + 999 \in Int /\ 1000 * a + 100 * f + 40 * g \in Int
    BY <1>3, <1>4, <2>1
  <2>3. 1000 * a + 100 * f + 40 * g <= 1000 * b + 999
    BY <1>3, <1>4, <1>7, <2>1
  <2>. HIDE DEF f, g
  <2>4. (1000 * a + 100 * f + 40 * g) * T <= (1000 * b + 999) * T
    BY ONLY <2>2, <2>3, T \in Nat, TimesGrows
  <2>5. (1000 * a + 100 * f + 40 * g) * T = 1000 * (a * T) + 100 * (f * T) + 40 * (g * T)
    BY <1>3, <2>1
  <2>6. (1000 * b + 999) * T = 1000 * (b * T) + 999 * T
    BY <1>4
  <2>7. a * T \in Nat /\ b * T \in Nat /\ f * T \in Nat /\ g * T \in Nat
    BY <1>3, <1>4, <2>1
  <2>. QED BY <2>4, <2>5, <2>6, <2>7 DEF f, g
<1>. DEFINE c == a * T
            d == b * T
            f == (H * M) * T
            g == (H * W) * T
<1>11. c \in Nat /\ d \in Nat /\ f \in Nat /\ g \in Nat
  <2>1. H * M \in Nat /\ H * W \in Nat
    BY <1>1
  <2>. QED BY <1>3, <1>4, <2>1
<1>12. 1000 * d + 999 * T >= 1000 * c + 100 * f + 40 * g /\ 1000 * m <= c /\ d <= 1000 * n + 999
  BY <1>8, <1>9, <1>10
<1>. HIDE DEF c, d, f, g
<1>13. 1000000 * (n - m) + 999000 + 999 * T >= 100 * f + 40 * g
  BY <1>8, <1>9, <1>11, <1>12
<1>. QED BY <1>13 DEF f, g, M, W, q, m, n

LEMMA LiftTwoGain ==
    ASSUME NEW H \in Nat, H >= 1, NEW p \in Nat, p >= 50 * H,
           NEW w \in Nat, 4 * w <= 500 * H, w <= 1000, NEW T \in Nat
    PROVE  LET q  == p + 10 * H
               HM == H * (4 * q)
               Hh == H * heel(10 * p, w)
               HW == H * (10 * p)
           IN  200000 * (LiftTwo(q, 4 * q, w, T) - LiftTwo(p, 4 * p, w, T))
                 <= 6800 * HM + 4000 * Hh + HW * T + 199800
<1>. DEFINE q  == p + 10 * H
            W  == 10 * p
            L  == 4 * p
            M  == 4 * q
            hl == heel(10 * p, w)
            ty == toe(10 * p, w)
            tz == toe(10 * q, w)
            w2 == w \div 2
            t2 == Mul(w2, T)
            y  == ty + t2
            z  == tz + t2
            m  == LiftTwo(p, 4 * p, w, T)
            n  == LiftTwo(q, 4 * q, w, T)
<1>1. hl \in Nat /\ ty \in Nat /\ tz \in Nat /\ w2 \in Nat /\ 2 * ty <= hl /\ 8 * w2 <= W
  BY DEF heel, toe
<1>2. tz <= ty + 34 * H
  BY DEF toe
<1>3. L \in Nat /\ M \in Nat /\ M = L + 40 * H /\ W \in Nat
  OBVIOUS
<1>4. m = Mul(L, y) /\ n = Mul(M, z)
  BY DEF LiftTwo
<1>. HIDE DEF q, W, L, M, hl, ty, tz, w2, m, n
<1>5. t2 \in Nat
  BY ONLY <1>1, T \in Nat, MulNat
<1>6. 1000 * t2 <= w2 * T
  BY ONLY <1>1, T \in Nat, MulBounds
<1>. HIDE DEF t2
<1>7. y \in Nat /\ z \in Nat /\ z <= y + 34 * H
  BY <1>1, <1>2, <1>5
<1>8. H * y = H * ty + H * t2
  BY <1>1, <1>5
<1>. HIDE DEF y, z
<1>9. m \in Nat /\ L * y <= 1000 * m + 999
  <2>1. Mul(L, y) \in Nat
    BY ONLY <1>3, <1>7, MulNat
  <2>2. L * y <= 1000 * Mul(L, y) + 999
    BY ONLY <1>3, <1>7, MulBounds
  <2>. QED BY <1>4, <2>1, <2>2
<1>10. n \in Nat /\ 1000 * n <= M * z
  <2>1. Mul(M, z) \in Nat
    BY ONLY <1>3, <1>7, MulNat
  <2>2. 1000 * Mul(M, z) <= M * z
    BY ONLY <1>3, <1>7, MulBounds
  <2>. QED BY <1>4, <2>1, <2>2
<1>11. M * z <= L * y + 40 * (H * y) + 34 * (H * M)
  <2>. DEFINE a == y + 34 * H
  <2>1. a \in Int /\ z \in Int /\ z <= a
    BY <1>7
  <2>. HIDE DEF a
  <2>2. z * M <= a * M
    BY ONLY <1>3, <2>1, TimesGrows
  <2>3. a * M = y * M + 34 * (H * M)
    BY <1>3, <1>7 DEF a
  <2>4. y * M = y * L + 40 * (H * y)
    BY <1>3, <1>7
  <2>5. z * M = M * z /\ y * L = L * y
    BY <1>3, <1>7
  <2>6. z * M \in Nat /\ a * M \in Int /\ y * M \in Nat /\ y * L \in Nat /\ H * y \in Nat /\ H * M \in Nat
    BY <1>3, <1>7, <2>1
  <2>. QED BY <2>2, <2>3, <2>4, <2>5, <2>6
<1>12. 2 * (H * ty) <= H * hl
  BY <1>1, TimesGrows
<1>13. 8000 * (H * t2) <= (H * W) * T
  <2>. DEFINE a == w2 * T
              b == W * T
  <2>1. 8 * a <= b
    <3>1. 8 * w2 \in Int /\ W \in Int
      BY <1>1, <1>3
    <3>2. (8 * w2) * T <= W * T
      BY ONLY <1>1, <3>1, T \in Nat, TimesGrows
    <3>3. (8 * w2) * T = 8 * (w2 * T)
      BY <1>1
    <3>. QED BY <3>2, <3>3
  <2>2. a \in Nat /\ b \in Nat
    BY <1>1, <1>3
  <2>3. 8000 * t2 <= b
    <3>. HIDE DEF a, b
    <3>1. 1000 * t2 <= a
      BY <1>6 DEF a
    <3>. QED BY <1>5, <2>1, <2>2, <3>1
  <2>. HIDE DEF a, b
  <2>4. 8000 * t2 \in Int /\ b \in Int
    BY <1>5, <2>2
  <2>5. (8000 * t2) * H <= b * H
    BY ONLY <2>3, <2>4, H \in Nat, TimesGrows
  <2>6. (8000 * t2) * H = 8000 * (H * t2)
    BY <1>5
  <2>7. b * H = (H * W) * T
    BY <1>3 DEF b
  <2>. QED BY <2>5, <2>6, <2>7
<1>. DEFINE a  == L * y
            b  == M * z
            c  == H * y
            d  == H * M
            e  == H * ty
            f  == H * t2
            g  == H * hl
            r  == (H * W) * T
<1>14. /\ a \in Nat /\ b \in Nat /\ c \in Nat /\ d \in Nat
       /\ e \in Nat /\ f \in Nat /\ g \in Nat /\ r \in Nat
  <2>1. H * W \in Nat
    BY <1>3
  <2>2. r \in Nat
    BY <2>1
  <2>. QED BY <1>1, <1>3, <1>5, <1>7, <2>2
<1>15. /\ a <= 1000 * m + 999 /\ 1000 * n <= b /\ b <= a + 40 * c + 34 * d
       /\ c = e + f /\ 2 * e <= g /\ 8000 * f <= r
  BY <1>8, <1>9, <1>10, <1>11, <1>12, <1>13
<1>. HIDE DEF a, b, c, d, e, f, g, r
<1>16. 200000 * (n - m) <= 6800 * d + 4000 * g + r + 199800
  BY <1>9, <1>10, <1>14, <1>15
<1>. QED BY <1>16 DEF d, g, r, M, hl, W, q, m, n

LiftOneGains(H, p, q, L, M, w, T) ==
    LET HW == H * (10 * p)
        D  == H * (H * (w \div 2))
    IN  3000000 * (LiftOne(q, M, w, T, H) - LiftOne(p, L, w, T, H))
          <= 105 * ((H * M) * T) + 2997 * M + 120000 * D + 40 * (HW * T) + 2997000

LEMMA LiftOneGain ==
    ASSUME NEW H \in Nat, H >= 1, NEW p \in Nat, p >= 50 * H,
           NEW q \in Nat, q = p + 10 * H, NEW L \in Nat, L = 4 * p, NEW M \in Nat, M = 4 * q,
           NEW w \in Nat, 4 * w <= 500 * H, w <= 1000, NEW T \in Nat
    PROVE  LiftOneGains(H, p, q, L, M, w, T)
<1>. DEFINE W  == 10 * p
            hl == heel(10 * p, w)
            hm == heel(10 * q, w)
            w2 == w \div 2
            x  == H * w2
            i  == Mul(hl, w2)
            i2 == Mul(hm, w2)
            j  == Mul(i, T)
            j2 == Mul(i2, T)
            y  == x + j
            z  == x + j2
            m  == LiftOne(p, L, w, T, H)
            n  == LiftOne(q, M, w, T, H)
<1>1. /\ hl \in Nat /\ hm \in Nat /\ w2 \in Nat /\ w2 <= 500
      /\ hl <= hm /\ hm <= hl + 67 * H /\ 3 * hl <= 2 * W
  BY DEF heel
<1>2. L \in Nat /\ M \in Nat /\ M = L + 40 * H /\ W \in Nat
  OBVIOUS
<1>3. m = Mul(y, L) /\ n = Mul(z, M)
  BY DEF LiftOne
<1>. HIDE DEF W, hl, hm, w2, m, n
<1>4. x \in Nat
  BY <1>1
<1>. HIDE DEF x
<1>5. i \in Nat /\ 1000 * i <= hl * w2 /\ hl * w2 <= 1000 * i + 999
  <2>1. i \in Nat
    BY ONLY <1>1, MulNat
  <2>2. 1000 * Mul(hl, w2) <= hl * w2
    BY ONLY <1>1, MulBounds
  <2>3. hl * w2 <= 1000 * Mul(hl, w2) + 999
    BY ONLY <1>1, MulBounds
  <2>. QED BY <2>1, <2>2, <2>3
<1>6. i2 \in Nat /\ 1000 * i2 <= hm * w2 /\ hm * w2 <= 1000 * i2 + 999
  <2>1. i2 \in Nat
    BY ONLY <1>1, MulNat
  <2>2. 1000 * Mul(hm, w2) <= hm * w2
    BY ONLY <1>1, MulBounds
  <2>3. hm * w2 <= 1000 * Mul(hm, w2) + 999
    BY ONLY <1>1, MulBounds
  <2>. QED BY <2>1, <2>2, <2>3
<1>. HIDE DEF i, i2
<1>7. i2 <= i + 35 * H
  <2>. DEFINE a == hl * w2
              b == hm * w2
              c == (67 * H) * w2
              d == hl + 67 * H
              e == 67 * H
  <2>1. e \in Nat /\ d \in Int /\ hm \in Int /\ hm <= d
    BY <1>1
  <2>2. b <= d * w2
    <3>. HIDE DEF d
    <3>. QED BY ONLY <1>1, <2>1, TimesGrows
  <2>3. d * w2 = a + c
    BY <1>1
  <2>4. c <= 500 * e
    <3>1. w2 \in Int /\ 500 \in Int /\ w2 <= 500
      BY <1>1
    <3>. HIDE DEF e
    <3>2. w2 * e <= 500 * e
      BY ONLY <2>1, <3>1, TimesGrows
    <3>3. w2 * e = e * w2
      BY <1>1, <2>1
    <3>. QED BY <3>2, <3>3 DEF e
  <2>5. a \in Nat /\ b \in Nat /\ c \in Nat
    BY <1>1, <2>1
  <2>6. b <= 1000 * i2 + 999 /\ 1000 * i2 <= b /\ 1000 * i <= a /\ a <= 1000 * i + 999
    BY <1>5, <1>6
  <2>7. b <= a + 33500 * H
    <3>1. c <= 33500 * H
      BY <2>4
    <3>2. b <= a + c
      BY <2>2, <2>3
    <3>. HIDE DEF a, b, c, d, e
    <3>. QED BY <2>5, <3>1, <3>2
  <2>. HIDE DEF a, b, c, d, e
  <2>. QED BY <1>5, <1>6, <2>5, <2>6, <2>7
<1>8. 3 * i <= W
  <2>. DEFINE a == hl * w2
  <2>1. a <= 500 * hl
    <3>1. w2 \in Int /\ 500 \in Int /\ w2 <= 500
      BY <1>1
    <3>2. w2 * hl <= 500 * hl
      BY ONLY <1>1, <3>1, TimesGrows
    <3>3. w2 * hl = a
      BY <1>1
    <3>. QED BY <3>2, <3>3
  <2>2. a \in Nat /\ 1000 * i <= a
    BY <1>1, <1>5
  <2>. HIDE DEF a
  <2>. QED BY <1>1, <1>2, <1>5, <2>1, <2>2
<1>9. j \in Nat /\ 1000 * j <= i * T /\ i * T <= 1000 * j + 999
  <2>1. j \in Nat
    <3>1. i \in Nat
      BY <1>5
    <3>. QED BY ONLY <3>1, T \in Nat, MulNat
  <2>2. 1000 * Mul(i, T) <= i * T
    BY ONLY <1>5, T \in Nat, MulBounds
  <2>3. i * T <= 1000 * Mul(i, T) + 999
    BY ONLY <1>5, T \in Nat, MulBounds
  <2>. QED BY <2>1, <2>2, <2>3
<1>10. j2 \in Nat /\ 1000 * j2 <= i2 * T
  <2>1. j2 \in Nat
    <3>1. i2 \in Nat
      BY <1>6
    <3>. QED BY ONLY <3>1, T \in Nat, MulNat
  <2>2. 1000 * Mul(i2, T) <= i2 * T
    BY ONLY <1>6, T \in Nat, MulBounds
  <2>. QED BY <2>1, <2>2
<1>. HIDE DEF j, j2
<1>11. 1000 * j2 <= 1000 * j + 35 * (H * T) + 999
  <2>. DEFINE a == i + 35 * H
  <2>1. a \in Int /\ i2 \in Int /\ i2 <= a
    BY <1>5, <1>6, <1>7
  <2>2. i2 * T <= a * T
    <3>. HIDE DEF a
    <3>. QED BY ONLY <2>1, T \in Nat, TimesGrows
  <2>3. a * T = i * T + 35 * (H * T)
    BY <1>5
  <2>. DEFINE b == i2 * T
              c == i * T
              d == H * T
              e == a * T
  <2>4. b \in Nat /\ c \in Nat /\ d \in Nat /\ e \in Int
    BY <1>5, <1>6, <2>1
  <2>5. 1000 * j2 <= b /\ c <= 1000 * j + 999 /\ b <= e /\ e = c + 35 * d
    BY <1>9, <1>10, <2>2, <2>3
  <2>. HIDE DEF a, b, c, d, e
  <2>6. 1000 * j2 <= 1000 * j + 35 * d + 999
    BY <1>9, <1>10, <2>4, <2>5
  <2>. QED BY <2>6 DEF d
<1>12. y \in Nat /\ z \in Nat /\ 1000 * z <= 1000 * y + 35 * (H * T) + 999
  <2>. DEFINE d == H * T
  <2>1. d \in Nat
    OBVIOUS
  <2>2. 1000 * j2 <= 1000 * j + 35 * d + 999
    BY <1>11
  <2>. HIDE DEF d
  <2>3. y \in Nat /\ z \in Nat /\ 1000 * z <= 1000 * y + 35 * d + 999
    BY <1>4, <1>9, <1>10, <2>1, <2>2
  <2>. QED BY <2>3 DEF d
<1>13. H * y = H * x + H * j
  BY <1>4, <1>9
<1>. HIDE DEF y, z
<1>14. m \in Nat /\ y * L <= 1000 * m + 999
  <2>1. Mul(y, L) \in Nat
    BY ONLY <1>2, <1>12, MulNat
  <2>2. y * L <= 1000 * Mul(y, L) + 999
    BY ONLY <1>2, <1>12, MulBounds
  <2>. QED BY <1>3, <2>1, <2>2
<1>15. n \in Nat /\ 1000 * n <= z * M
  <2>1. Mul(z, M) \in Nat
    BY ONLY <1>2, <1>12, MulNat
  <2>2. 1000 * Mul(z, M) <= z * M
    BY ONLY <1>2, <1>12, MulBounds
  <2>. QED BY <1>3, <2>1, <2>2
<1>16. 1000 * (z * M) <= 1000 * (y * L) + 40000 * (H * y) + 35 * ((H * M) * T) + 999 * M
  <2>. DEFINE d == H * T
              a == 1000 * y + 35 * d + 999
              b == 1000 * z
  <2>1. d \in Nat
    OBVIOUS
  <2>2. a \in Int /\ b \in Int /\ b <= a
    BY <1>12, <2>1
  <2>3. b * M <= a * M
    <3>. HIDE DEF a, b
    <3>. QED BY ONLY <1>2, <2>2, TimesGrows
  <2>4. b * M = 1000 * (z * M)
    BY <1>2, <1>12
  <2>5. a * M = 1000 * (y * M) + 35 * (d * M) + 999 * M
    <3>. HIDE DEF d
    <3>. QED BY <1>2, <1>12, <2>1
  <2>6. d * M = (H * M) * T
    BY <1>2
  <2>7. y * M = y * L + 40 * (H * y)
    BY <1>2, <1>12
  <2>. DEFINE r == z * M
              s == y * M
              t == y * L
              u == H * y
              v == d * M
              e == a * M
              f == b * M
  <2>8. r \in Nat /\ s \in Nat /\ t \in Nat /\ u \in Nat /\ v \in Nat /\ e \in Int /\ f \in Int
    BY <1>2, <1>12, <2>1, <2>2
  <2>9. f <= e /\ f = 1000 * r /\ e = 1000 * s + 35 * v + 999 * M /\ s = t + 40 * u
    BY <2>3, <2>4, <2>5, <2>7
  <2>. HIDE DEF a, b, d, r, s, t, u, e, f
  <2>10. v = (H * M) * T
    BY <2>6
  <2>. HIDE DEF v
  <2>11. 1000 * r <= 1000 * t + 40000 * u + 35 * v + 999 * M
    BY <1>2, <2>8, <2>9
  <2>. QED BY <2>10, <2>11 DEF r, t, u
<1>17. 3000 * (H * j) <= (H * W) * T
  <2>. DEFINE a == i * T
              b == W * T
  <2>1. 3 * a <= b
    <3>1. 3 * i \in Int /\ W \in Int
      BY <1>2, <1>5
    <3>2. (3 * i) * T <= W * T
      BY ONLY <1>8, <3>1, T \in Nat, TimesGrows
    <3>3. (3 * i) * T = 3 * (i * T)
      BY <1>5
    <3>. QED BY <3>2, <3>3
  <2>2. a \in Nat /\ b \in Nat
    BY <1>2, <1>5
  <2>3. 3000 * j <= b
    <3>1. 1000 * j <= a
      BY <1>9
    <3>. HIDE DEF a, b
    <3>. QED BY <1>9, <2>1, <2>2, <3>1
  <2>. HIDE DEF a, b
  <2>4. 3000 * j \in Int /\ b \in Int
    BY <1>9, <2>2
  <2>5. (3000 * j) * H <= b * H
    BY ONLY <2>3, <2>4, H \in Nat, TimesGrows
  <2>6. (3000 * j) * H = 3000 * (H * j)
    BY <1>9
  <2>7. b * H = (H * W) * T
    BY <1>2 DEF b
  <2>. QED BY <2>5, <2>6, <2>7
<1>. DEFINE a == y * L
            b == z * M
            c == H * y
            d == H * x
            e == H * j
            f == (H * M) * T
            r == (H * W) * T
<1>18. a \in Nat /\ b \in Nat /\ c \in Nat /\ d \in Nat /\ e \in Nat /\ f \in Nat /\ r \in Nat
  <2>1. H * W \in Nat /\ H * M \in Nat
    BY <1>2
  <2>2. r \in Nat /\ f \in Nat
    BY <2>1
  <2>. QED BY <1>2, <1>4, <1>9, <1>12, <2>2
<1>19. /\ a <= 1000 * m + 999 /\ 1000 * n <= b
       /\ 1000 * b <= 1000 * a + 40000 * c + 35 * f + 999 * M
       /\ c = d + e /\ 3000 * e <= r
  BY <1>13, <1>14, <1>15, <1>16, <1>17
<1>. HIDE DEF a, b, c, d, e, f, r
<1>20. 3000000 * (n - m) <= 105 * f + 2997 * M + 120000 * d + 40 * r + 2997000
  BY <1>2, <1>14, <1>15, <1>18, <1>19
<1>. QED BY <1>20 DEF LiftOneGains, d, f, r, x, w2, W, m, n

\* What the volume of the lifts gains, by the lever arms it is turned with, is outweighed
\* by what those of the water and of the base do.
VolumesOutgain(H, r, L, q, M, w, T) ==
    3 * (LiftOne(q, M, w, T, H) - LiftOne(r, L, w, T, H)) + 6 * (LiftTwo(q, M, w, T) - LiftTwo(r, L, w, T))
      <= 4 * (H * (HeelWater(q, M, w) - HeelWater(r, L, w))) + 3 * (BaseVolume(q, M, T) - BaseVolume(r, L, T))

LEMMA VolumesGain ==
    ASSUME NEW H \in Nat, H >= 1, NEW p \in Nat, p >= 50 * H,
           NEW q \in Nat, q = p + 10 * H, NEW L \in Nat, L = 4 * p, NEW M \in Nat, M = 4 * q,
           NEW w \in Nat, 4 * w <= 500 * H, w <= 1000, NEW T \in Nat, T >= 225
    PROVE  VolumesOutgain(H, p, L, q, M, w, T)
<1>. DEFINE hl == heel(10 * p, w)
            w2 == w \div 2
            HM == H * M
            Hh == H * hl
            HH == H * H
            HW == H * (10 * p)
            Q1 == HM * T
            Q2 == HW * T
            D  == H * (H * w2)
            E  == H * Hh
            F  == H * HM
            dm == HeelWater(q, M, w) - HeelWater(p, L, w)
            dB == BaseVolume(q, M, T) - BaseVolume(p, L, T)
            dn == LiftOne(q, M, w, T, H) - LiftOne(p, L, w, T, H)
            do == LiftTwo(q, M, w, T) - LiftTwo(p, L, w, T)
            u  == H * dm
<1>1. dm \in Int /\ dB \in Int /\ dn \in Int /\ do \in Int
  <2>1. /\ H \in Nat /\ p \in Nat /\ q \in Nat /\ L \in Nat /\ M \in Nat /\ w \in Nat /\ T \in Nat
        /\ w <= 10 * p /\ p <= q /\ L <= M
    OBVIOUS
  <2>2. HeelWater(p, L, w) \in Nat /\ HeelWater(q, M, w) \in Nat
    BY ONLY <2>1, VolumesGrow
  <2>3. BaseVolume(p, L, T) \in Nat /\ BaseVolume(q, M, T) \in Nat
    BY ONLY <2>1, VolumesGrow
  <2>4. LiftOne(p, L, w, T, H) \in Nat /\ LiftOne(q, M, w, T, H) \in Nat
    BY ONLY <2>1, VolumesGrow
  <2>5. LiftTwo(p, L, w, T) \in Nat /\ LiftTwo(q, M, w, T) \in Nat
    BY ONLY <2>1, VolumesGrow
  <2>. QED BY <2>2, <2>3, <2>4, <2>5
<1>2. 1000 * dm + 999 >= 66 * HM + 40 * Hh
  BY WaterGain
<1>3. 1000000 * dB + 999000 + 999 * T >= 100 * Q1 + 40 * Q2
  BY BaseGain
<1>4. 3000000 * dn <= 105 * Q1 + 2997 * M + 120000 * D + 40 * Q2 + 2997000
  <2>1. LiftOneGains(H, p, q, L, M, w, T)
    BY LiftOneGain
  <2>. QED BY <2>1 DEF LiftOneGains
<1>5. 200000 * do <= 6800 * HM + 4000 * Hh + Q2 + 199800
  BY LiftTwoGain
<1>6. hl \in Nat /\ w2 \in Nat /\ 4 * w2 <= hl + 1 /\ M \in Nat /\ M >= 240 * H /\ M >= 240
  BY DEF heel
<1>. HIDE DEF dm, dB, dn, do, hl, w2
<1>7. HM \in Nat /\ Hh \in Nat /\ HH \in Nat /\ HW \in Nat
  BY <1>6
<1>8. HM >= M /\ HM >= 240 * HH /\ HH >= H
  <2>1. 1 * M <= H * M
    BY ONLY H \in Nat, H >= 1, 1 \in Int, H \in Int, <1>6, TimesGrows
  <2>2. 240 * H \in Int /\ M \in Int /\ 240 * H <= M
    BY <1>6
  <2>3. (240 * H) * H <= M * H
    BY ONLY <2>2, H \in Nat, TimesGrows
  <2>4. (240 * H) * H = 240 * HH /\ M * H = HM
    BY <1>6
  <2>5. 1 * H <= H * H
    BY ONLY H \in Nat, H >= 1, 1 \in Int, H \in Int, TimesGrows
  <2>. QED BY <1>6, <2>1, <2>3, <2>4, <2>5
<1>9. 1000 * u + 999 * H >= 66 * F + 40 * E /\ u \in Int
  <2>. DEFINE a == 66 * HM + 40 * Hh
              b == 1000 * dm + 999
  <2>1. a \in Int /\ b \in Int /\ a <= b
    BY <1>1, <1>2, <1>7
  <2>2. a * H <= b * H
    <3>. HIDE DEF a, b
    <3>. QED BY ONLY <2>1, H \in Nat, TimesGrows
  <2>3. a * H = 66 * F + 40 * E
    <3>. HIDE DEF HM, Hh
    <3>. QED BY <1>7
  <2>4. b * H = 1000 * u + 999 * H
    BY <1>1
  <2>. QED BY <1>1, <2>2, <2>3, <2>4
<1>10. 4 * D <= E + HH
  <2>. DEFINE a == H * w2
  <2>1. a \in Nat
    BY <1>6
  <2>2. 4 * a <= Hh + H
    <3>1. 4 * w2 \in Int /\ hl + 1 \in Int /\ 4 * w2 <= hl + 1
      BY <1>6
    <3>2. (4 * w2) * H <= (hl + 1) * H
      BY ONLY <3>1, H \in Nat, TimesGrows
    <3>3. (4 * w2) * H = 4 * a /\ (hl + 1) * H = Hh + H
      BY <1>6
    <3>. QED BY <3>2, <3>3
  <2>. HIDE DEF a, Hh
  <2>3. 4 * a \in Int /\ Hh + H \in Int
    BY <1>7, <2>1
  <2>4. (4 * a) * H <= (Hh + H) * H
    BY ONLY <2>2, <2>3, H \in Nat, TimesGrows
  <2>5. (4 * a) * H = 4 * (H * a) /\ (Hh + H) * H = E + HH
    BY <1>7, <2>1
  <2>. QED BY <2>4, <2>5 DEF a
<1>11. D \in Nat /\ E \in Nat /\ F \in Nat /\ Q1 \in Nat /\ Q2 \in Nat
  <2>. DEFINE a == H * w2
  <2>1. a \in Nat
    BY <1>6
  <2>2. H * a \in Nat
    <3>. HIDE DEF a
    <3>. QED BY <2>1
  <2>. HIDE DEF HM, Hh, HW
  <2>3. E \in Nat /\ F \in Nat /\ Q1 \in Nat /\ Q2 \in Nat
    BY <1>7
  <2>. QED BY <2>2, <2>3
<1>12. F >= HM /\ E >= Hh
  <2>. HIDE DEF HM, Hh
  <2>1. 1 * HM <= H * HM
    BY ONLY H \in Nat, H >= 1, 1 \in Int, H \in Int, <1>7, TimesGrows
  <2>2. 1 * Hh <= H * Hh
    BY ONLY H \in Nat, H >= 1, 1 \in Int, H \in Int, <1>7, TimesGrows
  <2>. QED BY <1>7, <2>1, <2>2
<1>13. Q1 >= 240 * T
  <2>1. HM >= 240
    BY <1>6, <1>7, <1>8
  <2>. HIDE DEF HM
  <2>2. 240 * T <= HM * T
    BY ONLY <1>7, <2>1, T \in Nat, 240 \in Int, HM \in Int, TimesGrows
  <2>. QED BY <2>2
<1>. HIDE DEF HM, Hh, HH, Q1, Q2, D, E, F, u
<1>. SUFFICES 3 * dn + 6 * do <= 4 * u + 3 * dB
  BY DEF VolumesOutgain, dm, dB, dn, do, u
<1>14. 3000000 * dn + 6000000 * do
         <= 105 * Q1 + 2997 * M + 120000 * D + 70 * Q2 + 204000 * HM + 120000 * Hh + 8991000
  BY <1>1, <1>4, <1>5, <1>6, <1>7, <1>11
<1>15. 4000000 * u + 3000000 * dB
         >= 264000 * F + 160000 * E + 300 * Q1 + 120 * Q2 - 3996000 * H - 2997 * T - 2997000
  BY <1>1, <1>3, <1>9, <1>11
<1>16. 264000 * F + 160000 * E + 195 * Q1 + 50 * Q2
         >= 2997 * M + 120000 * D + 204000 * HM + 120000 * Hh + 3996000 * H + 2997 * T + 11988000
  <2>1. 120000 * D + 120000 * Hh <= 150000 * E + 30000 * HH
    BY <1>7, <1>10, <1>11, <1>12
  <2>2. 2997 * M + 204000 * HM <= 206997 * F
    BY <1>6, <1>7, <1>8, <1>11, <1>12
  <2>3. 4026000 * HH <= 16775 * F
    BY <1>7, <1>8, <1>11, <1>12
  <2>4. 2997 * T + 9855000 <= 195 * Q1
    BY <1>11, <1>13
  <2>5. 4131200 <= 17214 * F
    BY <1>7, <1>8, <1>11, <1>12
  <2>. QED BY <1>6, <1>7, <1>8, <1>11, <2>1, <2>2, <2>3, <2>4, <2>5
<1>. QED BY <1>1, <1>6, <1>7, <1>9, <1>11, <1>14, <1>15, <1>16

\* The same for a footing that grows wider by half as much, and no longer.
LEMMA VolumesGainWider ==
    ASSUME NEW H \in Nat, H >= 1, NEW r \in Nat, r >= 50 * H, NEW L \in Nat, L >= 200 * H,
           NEW q \in Nat, q = r + 5 * H,
           NEW w \in Nat, 4 * w <= 500 * H, w <= 1000, NEW T \in Nat, T >= 225
    PROVE  VolumesOutgain(H, r, L, q, L, w, T)
<1>. DEFINE W  == 10 * r
            V  == 10 * q
            hl == heel(W, w)
            hm == heel(V, w)
            ty == toe(W, w)
            tz == toe(V, w)
            w2 == w \div 2
            x  == H * w2
            i  == Mul(hl, w2)
            i2 == Mul(hm, w2)
            j  == Mul(i, T)
            j2 == Mul(i2, T)
            t2 == Mul(w2, T)
            a  == Mul(W, L)
            b  == Mul(V, L)
            dm == HeelWater(q, L, w) - HeelWater(r, L, w)
            dB == BaseVolume(q, L, T) - BaseVolume(r, L, T)
            dn == LiftOne(q, L, w, T, H) - LiftOne(r, L, w, T, H)
            do == LiftTwo(q, L, w, T) - LiftTwo(r, L, w, T)
            K  == H * L
            Q  == K * T
<1>1. /\ hl \in Nat /\ hm \in Nat /\ ty \in Nat /\ tz \in Nat /\ w2 \in Nat
      /\ w2 <= 500 /\ w2 <= 62 * H + H
  BY DEF heel, toe
<1>2. /\ hl + 33 * H <= hm /\ hm <= hl + 34 * H /\ tz <= ty + 17 * H
      /\ H = 1 => w2 <= 62
  BY DEF heel, toe
<1>3. W \in Nat /\ V \in Nat /\ V = W + 50 * H
  OBVIOUS
<1>4. /\ dm = Mul(hm, L) - Mul(hl, L) /\ dB = Mul(b, T) - Mul(a, T)
      /\ dn = Mul(x + j2, L) - Mul(x + j, L) /\ do = Mul(L, tz + t2) - Mul(L, ty + t2)
  BY DEF HeelWater, BaseVolume, LiftOne, LiftTwo
<1>. HIDE DEF W, V, hl, hm, ty, tz, w2, dm, dB, dn, do
<1>5. K \in Nat /\ K >= L /\ K >= 200 * H /\ (H = 1 => K = L) /\ (H >= 2 => K >= 2 * L)
  <2>1. 1 * L <= H * L
    BY ONLY H \in Nat, H >= 1, 1 \in Int, H \in Int, L \in Nat, TimesGrows
  <2>2. H >= 2 => 2 * L <= H * L
    BY ONLY H \in Nat, 2 \in Int, H \in Int, L \in Nat, TimesGrows
  <2>3. 200 * H <= L * H
    <3>1. 200 <= L /\ 200 \in Int /\ L \in Int
      OBVIOUS
    <3>. QED BY ONLY <3>1, H \in Nat, TimesGrows
  <2>4. L * H = K /\ K \in Nat
    OBVIOUS
  <2>5. H = 1 => K = L
    OBVIOUS
  <2>. QED BY <2>1, <2>2, <2>3, <2>4, <2>5
<1>. HIDE DEF K
<1>6. Q \in Nat /\ Q >= 225 * K /\ Q >= 200 * T
  <2>1. 225 \in Int /\ T \in Int /\ 225 <= T
    OBVIOUS
  <2>2. 225 * K <= T * K
    BY ONLY <1>5, <2>1, TimesGrows
  <2>3. 200 \in Int /\ K \in Int /\ 200 <= K
    BY <1>5
  <2>4. 200 * T <= K * T
    BY ONLY <2>3, T \in Nat, TimesGrows
  <2>. QED BY <1>5, <2>2, <2>4
<1>. HIDE DEF Q
\* The water on the heel.
<1>7. dm \in Int /\ 1000 * dm + 999 >= 33 * K
  <2>. DEFINE m == Mul(hl, L)
              n == Mul(hm, L)
  <2>1. m \in Nat
    BY ONLY <1>1, L \in Nat, MulNat
  <2>2. n \in Nat
    BY ONLY <1>1, L \in Nat, MulNat
  <2>3. 1000 * m <= hl * L
    BY ONLY <1>1, L \in Nat, MulBounds
  <2>4. hm * L <= 1000 * n + 999
    BY ONLY <1>1, L \in Nat, MulBounds
  <2>. HIDE DEF m, n
  <2>5. (hl + 33 * H) * L <= hm * L
    <3>1. hl + 33 * H \in Int /\ hm \in Int
      BY <1>1
    <3>. QED BY ONLY <3>1, <1>2, L \in Nat, TimesGrows
  <2>6. (hl + 33 * H) * L = hl * L + 33 * K /\ hl * L \in Nat /\ hm * L \in Nat
    BY <1>1 DEF K
  <2>7. dm = n - m
    BY <1>4 DEF m, n
  <2>. QED BY <1>5, <2>1, <2>2, <2>3, <2>4, <2>5, <2>6, <2>7
\* The base.
<1>8. a \in Nat /\ b \in Nat /\ 1000 * (b - a) + 999 >= 50 * K
  <2>1. a \in Nat
    BY ONLY <1>3, L \in Nat, MulNat
  <2>2. b \in Nat
    BY ONLY <1>3, L \in Nat, MulNat
  <2>3. 1000 * a <= W * L
    BY ONLY <1>3, L \in Nat, MulBounds
  <2>4. V * L <= 1000 * b + 999
    BY ONLY <1>3, L \in Nat, MulBounds
  <2>. HIDE DEF a, b
  <2>5. V * L = W * L + 50 * K /\ W * L \in Nat
    BY <1>3 DEF K
  <2>. QED BY <1>5, <2>1, <2>2, <2>3, <2>4, <2>5
<1>. HIDE DEF a, b
<1>9. dB \in Int /\ 1000000 * dB + 999000 + 999 * T >= 50 * Q
  <2>. DEFINE m == Mul(a, T)
              n == Mul(b, T)
  <2>1. m \in Nat
    <3>1. a \in Nat
      BY <1>8
    <3>. QED BY ONLY <3>1, T \in Nat, MulNat
  <2>2. n \in Nat
    <3>1. b \in Nat
      BY <1>8
    <3>. QED BY ONLY <3>1, T \in Nat, MulNat
  <2>3. 1000 * m <= a * T
    BY ONLY <1>8, T \in Nat, MulBounds
  <2>4. b * T <= 1000 * n + 999
    BY ONLY <1>8, T \in Nat, MulBounds
  <2>. HIDE DEF m, n
  <2>. DEFINE u == 1000 * a + 50 * K
              v == 1000 * b + 999
  <2>5. u \in Int /\ v \in Int /\ u <= v
    BY <1>5, <1>8
  <2>6. u * T <= v * T
    <3>. HIDE DEF u, v
    <3>. QED BY ONLY <2>5, T \in Nat, TimesGrows
  <2>7. u * T = 1000 * (a * T) + 50 * Q /\ v * T = 1000 * (b * T) + 999 * T
    BY <1>5, <1>8 DEF Q
  <2>8. a * T \in Nat /\ b * T \in Nat
    BY <1>8
  <2>. HIDE DEF u, v
  <2>9. 1000 * (b * T) + 999 * T >= 1000 * (a * T) + 50 * Q
    BY <2>6, <2>7
  <2>. DEFINE aT == a * T
              bT == b * T
  <2>10. /\ aT \in Nat /\ bT \in Nat /\ 1000 * bT + 999 * T >= 1000 * aT + 50 * Q
         /\ 1000 * m <= aT /\ bT <= 1000 * n + 999
    BY <2>3, <2>4, <2>8, <2>9
  <2>11. dB = n - m
    BY <1>4 DEF m, n
  <2>. HIDE DEF aT, bT
  <2>. QED BY <1>6, <2>1, <2>2, <2>10, <2>11
\* The second lift.
<1>10. do \in Int /\ 1000 * do <= 17 * K + 999
  <2>. DEFINE y == ty + t2
              z == tz + t2
              m == Mul(L, y)
              n == Mul(L, z)
  <2>0. t2 \in Nat
    BY ONLY <1>1, T \in Nat, MulNat
  <2>. HIDE DEF t2
  <2>1. y \in Nat /\ z \in Nat /\ z <= y + 17 * H
    BY <1>1, <1>2, <2>0
  <2>. HIDE DEF y, z
  <2>2. m \in Nat
    BY ONLY <2>1, L \in Nat, MulNat
  <2>3. n \in Nat
    BY ONLY <2>1, L \in Nat, MulNat
  <2>4. L * y <= 1000 * m + 999
    BY ONLY <2>1, L \in Nat, MulBounds
  <2>5. 1000 * n <= L * z
    BY ONLY <2>1, L \in Nat, MulBounds
  <2>. HIDE DEF m, n
  <2>. DEFINE u == y + 17 * H
  <2>6. z \in Int /\ u \in Int /\ z <= u
    BY <2>1
  <2>7. z * L <= u * L
    <3>. HIDE DEF u
    <3>. QED BY ONLY <2>6, L \in Nat, TimesGrows
  <2>8. u * L = L * y + 17 * K /\ z * L = L * z /\ L * y \in Nat /\ L * z \in Nat
    BY <2>1 DEF K
  <2>9. do = n - m
    BY <1>4 DEF m, n, y, z
  <2>. HIDE DEF u
  <2>. QED BY <1>5, <2>2, <2>3, <2>4, <2>5, <2>7, <2>8, <2>9
\* The first.
<1>11. i \in Nat /\ i2 \in Nat /\ i2 <= i + 18 * H /\ (H = 1 => i2 <= i + 3)
  <2>1. i \in Nat
    BY ONLY <1>1, MulNat
  <2>2. i2 \in Nat
    BY ONLY <1>1, MulNat
  <2>3. hl * w2 <= 1000 * i + 999
    BY ONLY <1>1, MulBounds
  <2>4. 1000 * i2 <= hm * w2
    BY ONLY <1>1, MulBounds
  <2>. HIDE DEF i, i2
  <2>. DEFINE u == hl + 34 * H
              g == H * w2
  <2>5. hm \in Int /\ u \in Int /\ hm <= u
    BY <1>1, <1>2
  <2>6. hm * w2 <= u * w2
    <3>. HIDE DEF u
    <3>. QED BY ONLY <1>1, <2>5, TimesGrows
  <2>7. u * w2 = hl * w2 + 34 * g /\ hl * w2 \in Nat /\ hm * w2 \in Nat /\ g \in Nat
    BY <1>1
  <2>8. g <= 500 * H
    <3>1. w2 \in Int /\ 500 \in Int /\ w2 <= 500
      BY <1>1
    <3>2. w2 * H <= 500 * H
      BY ONLY <3>1, H \in Nat, TimesGrows
    <3>. QED BY <1>1, <3>2
  <2>9. H = 1 => g <= 62
    BY <1>1, <1>2
  <2>. HIDE DEF u, g
  <2>. DEFINE hw == hl * w2
              hv == hm * w2
  <2>10. /\ hw \in Nat /\ hv \in Nat /\ hv <= hw + 34 * g
         /\ hw <= 1000 * i + 999 /\ 1000 * i2 <= hv
    BY <2>3, <2>4, <2>6, <2>7
  <2>. HIDE DEF hw, hv
  <2>11. 1000 * i2 <= 1000 * i + 999 + 34 * g /\ g \in Nat
    BY <2>1, <2>2, <2>7, <2>10
  <2>12. i2 <= i + 18 * H
    BY <2>1, <2>2, <2>8, <2>11
  <2>13. H = 1 => i2 <= i + 3
    BY <2>1, <2>2, <2>9, <2>11
  <2>. QED BY <2>1, <2>2, <2>12, <2>13
<1>. HIDE DEF i, i2
<1>12. dn \in Int /\ \A e \in Nat : i2 <= i + e => 1000000 * dn <= (e * L) * T + 999 * L + 999000
  <2>. DEFINE y == x + j
              z == x + j2
              m == Mul(y, L)
              n == Mul(z, L)
  <2>1. j \in Nat
    <3>1. i \in Nat
      BY <1>11
    <3>. QED BY ONLY <3>1, T \in Nat, MulNat
  <2>2. j2 \in Nat
    <3>1. i2 \in Nat
      BY <1>11
    <3>. QED BY ONLY <3>1, T \in Nat, MulNat
  <2>3. i * T <= 1000 * j + 999
    BY ONLY <1>11, T \in Nat, MulBounds
  <2>4. 1000 * j2 <= i2 * T
    BY ONLY <1>11, T \in Nat, MulBounds
  <2>. HIDE DEF j, j2
  <2>5. x \in Nat
    BY <1>1
  <2>. HIDE DEF x
  <2>6. y \in Nat /\ z \in Nat /\ z - y = j2 - j
    BY <2>1, <2>2, <2>5
  <2>. HIDE DEF y, z
  <2>7. m \in Nat
    BY ONLY <2>6, L \in Nat, MulNat
  <2>8. n \in Nat
    BY ONLY <2>6, L \in Nat, MulNat
  <2>9. y * L <= 1000 * m + 999
    BY ONLY <2>6, L \in Nat, MulBounds
  <2>10. 1000 * n <= z * L
    BY ONLY <2>6, L \in Nat, MulBounds
  <2>11. dn = n - m
    BY <1>4 DEF m, n, y, z
  <2>. HIDE DEF m, n
  <2>12. ASSUME NEW e \in Nat, i2 <= i + e
         PROVE  1000000 * dn <= (e * L) * T + 999 * L + 999000
    <3>1. i2 * T <= i * T + e * T /\ i * T \in Nat /\ i2 * T \in Nat /\ e * T \in Nat
      <4>1. i2 \in Int /\ i + e \in Int
        BY <1>11
      <4>2. i2 * T <= (i + e) * T
        BY ONLY <2>12, <4>1, T \in Nat, TimesGrows
      <4>3. (i + e) * T = i * T + e * T /\ i * T \in Nat /\ i2 * T \in Nat /\ e * T \in Nat
        BY <1>11
      <4>. QED BY <4>2, <4>3
    <3>2. 1000 * j2 <= 1000 * j + e * T + 999
      <4>. DEFINE g == i * T
                  h == i2 * T
                  f == e * T
      <4>1. /\ g \in Nat /\ h \in Nat /\ f \in Nat /\ h <= g + f
            /\ g <= 1000 * j + 999 /\ 1000 * j2 <= h
        BY <2>3, <2>4, <3>1
      <4>. HIDE DEF g, h, f
      <4>2. 1000 * j2 <= 1000 * j + f + 999
        BY <2>1, <2>2, <4>1
      <4>. QED BY <4>2 DEF f
    <3>. DEFINE f == e * T
                u == 1000 * z
                v == 1000 * y + f + 999
    <3>3. f \in Nat
      OBVIOUS
    <3>4. u \in Int /\ v \in Int /\ u <= v
      <4>1. 1000 * j2 <= 1000 * j + f + 999
        BY <3>2
      <4>. HIDE DEF f
      <4>. QED BY <2>1, <2>2, <2>6, <3>3, <4>1
    <3>5. u * L <= v * L
      <4>. HIDE DEF u, v
      <4>. QED BY ONLY <3>4, L \in Nat, TimesGrows
    <3>6. f * L = (e * L) * T
      OBVIOUS
    <3>. HIDE DEF f
    <3>7. u * L = 1000 * (z * L) /\ v * L = 1000 * (y * L) + f * L + 999 * L
      BY <2>6, <3>3
    <3>8. z * L \in Nat /\ y * L \in Nat /\ f * L \in Nat
      BY <2>6, <3>3
    <3>. DEFINE zL == z * L
                yL == y * L
                fL == f * L
    <3>9. /\ zL \in Nat /\ yL \in Nat /\ fL \in Nat /\ 1000 * zL <= 1000 * yL + fL + 999 * L
          /\ yL <= 1000 * m + 999 /\ 1000 * n <= zL
      BY <2>9, <2>10, <3>5, <3>7, <3>8
    <3>. HIDE DEF zL, yL, u, v
    <3>10. fL = (e * L) * T
      BY <3>6
    <3>. HIDE DEF fL
    <3>11. 1000000 * dn <= fL + 999 * L + 999000
      BY <2>7, <2>8, <2>11, <3>9
    <3>. QED BY <3>10, <3>11
  <2>. QED BY <2>7, <2>8, <2>11, <2>12
<1>. HIDE DEF x, j, j2, t2
<1>. DEFINE u == H * dm
<1>. SUFFICES 3 * dn + 6 * do <= 4 * u + 3 * dB
  BY DEF VolumesOutgain, dm, dB, dn, do, u
\* A footing a foot high: every unit of the roundings counts.
<1>13. CASE H = 1
  <2>1. 1000000 * dn <= 3 * Q + 999 * L + 999000
    <3>1. 1000000 * dn <= (3 * L) * T + 999 * L + 999000
      BY <1>11, <1>12, <1>13
    <3>2. (3 * L) * T = 3 * Q
      BY <1>5, <1>13 DEF Q
    <3>. QED BY <3>1, <3>2
  <2>2. u = dm
    BY <1>7, <1>13
  <2>. HIDE DEF u
  <2>3. K = L /\ L >= 200
    BY <1>5, <1>13
  <2>4. CASE L >= 294
    <3>1. 4000000 * dm >= 132000 * L - 3996000
      BY <1>7, <2>3
    <3>2. 3000000 * dB >= 135 * Q - 2997000
      BY <1>6, <1>9
    <3>3. 6000000 * do <= 102000 * L + 5994000
      BY <1>10, <2>3
    <3>4. 3000000 * dn <= 9 * Q + 2997 * L + 2997000
      BY <1>6, <1>12, <2>1
    <3>5. 27003 * L + 126 * Q >= 15984000
      BY <1>6, <2>3, <2>4
    <3>. QED BY <1>6, <1>7, <1>9, <1>10, <1>12, <2>2, <3>1, <3>2, <3>3, <3>4, <3>5
  <2>5. CASE L < 294
    <3>1. dB >= dn + 1
      <4>1. CASE Q < 90000
        <5>1. dn <= 1
          BY <1>6, <1>12, <2>1, <2>5, <4>1
        <5>2. dB >= 2
          BY <1>6, <1>9, <2>3
        <5>. QED BY <1>9, <1>12, <5>1, <5>2
      <4>2. CASE Q >= 90000
        BY <1>6, <1>9, <1>12, <2>1, <2>5, <4>2
      <4>. QED BY <1>6, <4>1, <4>2
    <3>2. CASE L < 236
      <4>1. dm >= 6 /\ do <= 4
        BY <1>7, <1>10, <2>3, <3>2
      <4>. QED BY <1>7, <1>9, <1>10, <1>12, <2>2, <3>1, <4>1
    <3>3. CASE L >= 236
      <4>1. dm >= 7 /\ do <= 5
        BY <1>7, <1>10, <2>3, <2>5, <3>3
      <4>. QED BY <1>7, <1>9, <1>10, <1>12, <2>2, <3>1, <4>1
    <3>. QED BY <3>2, <3>3
  <2>. QED BY <2>4, <2>5
<1>14. CASE H >= 2
  <2>1. 1000000 * dn <= 18 * Q + 999 * L + 999000
    <3>1. 18 * H \in Nat /\ i2 <= i + 18 * H
      BY <1>11
    <3>2. 1000000 * dn <= ((18 * H) * L) * T + 999 * L + 999000
      BY <1>12, <3>1
    <3>3. ((18 * H) * L) * T = 18 * Q
      BY DEF Q, K
    <3>. QED BY <3>2, <3>3
  <2>2. 1000 * u + 999 * H >= 66 * K /\ u \in Int
    <3>. DEFINE g == 1000 * dm + 999
                f == 33 * K
    <3>1. f \in Nat /\ g \in Int /\ f <= g
      BY <1>5, <1>7
    <3>2. f * H <= g * H
      <4>. HIDE DEF f, g
      <4>. QED BY ONLY <3>1, f \in Int, H \in Nat, TimesGrows
    <3>3. 2 * f <= H * f
      <4>. HIDE DEF f
      <4>. QED BY ONLY <3>1, <1>14, 2 \in Int, H \in Int, TimesGrows
    <3>4. g * H = 1000 * u + 999 * H /\ u \in Int
      BY <1>7
    <3>5. f * H = H * f /\ H * f \in Nat
      BY <3>1
    <3>. QED BY <1>5, <3>2, <3>3, <3>4, <3>5
  <2>. HIDE DEF u
  <2>3. 264000 * K + 96 * Q >= 102000 * K + 2997 * L + 2997 * T + 3996000 * H + 11988000
    BY <1>5, <1>6, <1>14
  <2>4. 4000000 * u + 3000000 * dB >= 264000 * K + 150 * Q - 3996000 * H - 2997000 - 2997 * T
    BY <1>5, <1>6, <1>9, <2>2
  <2>5. 3000000 * dn + 6000000 * do <= 54 * Q + 2997 * L + 102000 * K + 8991000
    BY <1>5, <1>6, <1>10, <1>12, <2>1
  <2>. QED BY <1>5, <1>6, <1>9, <1>10, <1>12, <2>2, <2>3, <2>4, <2>5
<1>. QED BY <1>13, <1>14

LEMMA VolumesOutweigh ==
    ASSUME NEW H \in Nat, H >= 1, NEW r \in Nat, r >= 50 * H, NEW L \in Nat, L >= 200 * H,
           NEW w \in Nat, 4 * w <= 500 * H, w <= 1000, NEW T \in Nat, T >= 225
    PROVE  102 * LiftOne(r, L, w, T, H) + 204 * LiftTwo(r, L, w, T) + 400
             <= 132 * (H * HeelWater(r, L, w)) + 100 * BaseVolume(r, L, T)
<1>. DEFINE W  == 10 * r
            hl == heel(10 * r, w)
            ty == toe(10 * r, w)
            w2 == w \div 2
            x  == H * w2
            i  == Mul(hl, w2)
            j  == Mul(i, T)
            t2 == Mul(w2, T)
            y  == x + j
            z  == ty + t2
            a  == Mul(W, L)
            m  == HeelWater(r, L, w)
            mB == BaseVolume(r, L, T)
            n  == LiftOne(r, L, w, T, H)
            o  == LiftTwo(r, L, w, T)
            M1 == hl * L
            WT == W * T
            R  == WT * L
            D1 == x * L
            HL == H * L
            HM == H * M1
            Hm == H * m
<1>1. /\ hl \in Nat /\ ty \in Nat /\ w2 \in Nat /\ w2 <= 500 /\ 4 * w2 <= hl + 1
      /\ 3 * hl <= 2 * W /\ 2 * ty <= hl /\ 8 * w2 <= W /\ hl >= 249
  BY DEF heel, toe
<1>2. W \in Nat /\ L \in Nat /\ W >= 500 /\ L >= 200
  OBVIOUS
<1>3. m = Mul(hl, L) /\ mB = Mul(a, T) /\ n = Mul(y, L) /\ o = Mul(L, z)
  BY DEF HeelWater, BaseVolume, LiftOne, LiftTwo
<1>. HIDE DEF W, hl, ty, w2, m, mB, n, o
<1>4. x \in Nat /\ M1 \in Nat /\ WT \in Nat /\ HL \in Nat
  BY <1>1, <1>2
<1>5. D1 \in Nat /\ R \in Nat /\ HM \in Nat
  <2>. HIDE DEF x, M1, WT
  <2>. QED BY <1>2, <1>4
<1>6. i \in Nat /\ 1000 * i <= hl * w2
  <2>1. i \in Nat
    BY ONLY <1>1, MulNat
  <2>2. 1000 * Mul(hl, w2) <= hl * w2
    BY ONLY <1>1, MulBounds
  <2>. QED BY <2>1, <2>2
<1>. HIDE DEF i
<1>7. j \in Nat /\ 1000 * j <= i * T
  <2>1. j \in Nat
    <3>1. i \in Nat
      BY <1>6
    <3>. QED BY ONLY <3>1, T \in Nat, MulNat
  <2>2. 1000 * Mul(i, T) <= i * T
    BY ONLY <1>6, T \in Nat, MulBounds
  <2>. QED BY <2>1, <2>2
<1>. HIDE DEF j
<1>8. t2 \in Nat /\ 1000 * t2 <= w2 * T
  <2>1. t2 \in Nat
    BY ONLY <1>1, T \in Nat, MulNat
  <2>2. 1000 * Mul(w2, T) <= w2 * T
    BY ONLY <1>1, T \in Nat, MulBounds
  <2>. QED BY <2>1, <2>2
<1>. HIDE DEF t2
<1>9. a \in Nat /\ W * L <= 1000 * a + 999
  <2>1. a \in Nat
    BY ONLY <1>2, MulNat
  <2>2. W * L <= 1000 * Mul(W, L) + 999
    BY ONLY <1>2, MulBounds
  <2>. QED BY <2>1, <2>2
<1>. HIDE DEF a
<1>10. m \in Nat /\ M1 <= 1000 * m + 999
  <2>1. Mul(hl, L) \in Nat
    BY ONLY <1>1, <1>2, MulNat
  <2>2. hl * L <= 1000 * Mul(hl, L) + 999
    BY ONLY <1>1, <1>2, MulBounds
  <2>. QED BY <1>3, <2>1, <2>2
<1>11. mB \in Nat /\ a * T <= 1000 * mB + 999
  <2>1. Mul(a, T) \in Nat
    <3>1. a \in Nat
      BY <1>9
    <3>. QED BY ONLY <3>1, T \in Nat, MulNat
  <2>2. a * T <= 1000 * Mul(a, T) + 999
    BY ONLY <1>9, T \in Nat, MulBounds
  <2>. QED BY <1>3, <2>1, <2>2
<1>12. y \in Nat /\ z \in Nat
  BY <1>1, <1>4, <1>7, <1>8
<1>13. n \in Nat /\ 1000 * n <= D1 + j * L
  <2>1. y * L = D1 + j * L
    <3>. HIDE DEF x
    <3>. QED BY <1>2, <1>4, <1>7
  <2>. HIDE DEF y
  <2>2. Mul(y, L) \in Nat
    BY ONLY <1>2, <1>12, MulNat
  <2>3. 1000 * Mul(y, L) <= y * L
    BY ONLY <1>2, <1>12, MulBounds
  <2>. QED BY <1>3, <2>1, <2>2, <2>3
<1>14. o \in Nat /\ 1000 * o <= ty * L + t2 * L
  <2>1. L * z = ty * L + t2 * L
    BY <1>1, <1>2, <1>8
  <2>. HIDE DEF z
  <2>2. Mul(L, z) \in Nat
    BY ONLY <1>2, <1>12, MulNat
  <2>3. 1000 * Mul(L, z) <= L * z
    BY ONLY <1>2, <1>12, MulBounds
  <2>. QED BY <1>3, <2>1, <2>2, <2>3
\* The two shares of the base's depth in the lifts.
<1>15. 3000 * j <= WT
  <2>1. 3 * i <= W
    <3>. DEFINE b == hl * w2
    <3>1. b <= 500 * hl
      <4>1. w2 \in Int /\ 500 \in Int /\ w2 <= 500
        BY <1>1
      <4>2. w2 * hl <= 500 * hl
        BY ONLY <1>1, <4>1, TimesGrows
      <4>3. w2 * hl = b
        BY <1>1
      <4>. QED BY <4>2, <4>3
    <3>2. b \in Nat /\ 1000 * i <= b
      BY <1>1, <1>6
    <3>. HIDE DEF b
    <3>. QED BY <1>1, <1>2, <1>6, <3>1, <3>2
  <2>2. 3 * i \in Int /\ W \in Int
    BY <1>2, <1>6
  <2>3. (3 * i) * T <= W * T
    BY ONLY <2>1, <2>2, T \in Nat, TimesGrows
  <2>4. (3 * i) * T = 3 * (i * T) /\ i * T \in Nat
    BY <1>6
  <2>. QED BY <1>4, <1>7, <2>3, <2>4
<1>16. 8000 * t2 <= WT
  <2>1. 8 * w2 \in Int /\ W \in Int
    BY <1>1, <1>2
  <2>2. (8 * w2) * T <= W * T
    BY ONLY <1>1, <2>1, T \in Nat, TimesGrows
  <2>3. (8 * w2) * T = 8 * (w2 * T) /\ w2 * T \in Nat
    BY <1>1
  <2>. QED BY <1>4, <1>8, <2>2, <2>3
<1>17. 3000 * (j * L) <= R /\ j * L \in Nat
  <2>. HIDE DEF WT
  <2>1. 3000 * j \in Int /\ WT \in Int
    BY <1>4, <1>7
  <2>2. (3000 * j) * L <= WT * L
    BY ONLY <1>2, <1>15, <2>1, TimesGrows
  <2>3. (3000 * j) * L = 3000 * (j * L) /\ j * L \in Nat
    BY <1>2, <1>7
  <2>. QED BY <2>2, <2>3
<1>18. 8000 * (t2 * L) <= R /\ t2 * L \in Nat
  <2>. HIDE DEF WT
  <2>1. 8000 * t2 \in Int /\ WT \in Int
    BY <1>4, <1>8
  <2>2. (8000 * t2) * L <= WT * L
    BY ONLY <1>2, <1>16, <2>1, TimesGrows
  <2>3. (8000 * t2) * L = 8000 * (t2 * L) /\ t2 * L \in Nat
    BY <1>2, <1>8
  <2>. QED BY <2>2, <2>3
<1>19. 2 * (ty * L) <= M1 /\ ty * L \in Nat
  <2>1. 2 * ty \in Int /\ hl \in Int /\ 2 * ty <= hl
    BY <1>1
  <2>2. (2 * ty) * L <= hl * L
    BY ONLY <1>2, <2>1, TimesGrows
  <2>3. (2 * ty) * L = 2 * (ty * L) /\ ty * L \in Nat
    BY <1>1, <1>2
  <2>. QED BY <2>2, <2>3
<1>20. 4 * D1 <= HM + HL
  <2>. DEFINE b == hl + 1
  <2>1. 4 * w2 \in Int /\ b \in Int /\ 4 * w2 <= b
    BY <1>1
  <2>2. (4 * w2) * HL <= b * HL
    <3>. HIDE DEF b, HL
    <3>. QED BY ONLY <1>4, <2>1, TimesGrows
  <2>3. (4 * w2) * HL = 4 * D1
    BY <1>1, <1>2
  <2>4. b * HL = HM + HL
    BY <1>1, <1>2
  <2>. QED BY <2>2, <2>3, <2>4
<1>21. HM >= 249 * HL /\ HM >= M1
  <2>1. 249 \in Int /\ hl \in Int /\ 249 <= hl
    BY <1>1
  <2>2. 249 * HL <= hl * HL
    <3>. HIDE DEF HL
    <3>. QED BY ONLY <1>4, <2>1, TimesGrows
  <2>3. hl * HL = HM
    BY <1>1, <1>2
  <2>4. 1 * M1 <= H * M1
    <3>. HIDE DEF M1
    <3>. QED BY ONLY H \in Nat, H >= 1, 1 \in Int, H \in Int, <1>4, TimesGrows
  <2>. QED BY <1>4, <2>2, <2>3, <2>4
<1>22. HL >= 200 * H
  <2>1. 200 \in Int /\ L \in Int /\ 200 <= L
    BY <1>2
  <2>2. 200 * H <= L * H
    BY ONLY <2>1, H \in Nat, TimesGrows
  <2>. QED BY <1>2, <2>2
<1>23. R >= 100000 * T
  <2>1. 500 \in Int /\ W \in Int /\ 500 <= W
    BY <1>2
  <2>2. 500 * T <= WT
    BY ONLY <2>1, T \in Nat, TimesGrows
  <2>. HIDE DEF WT
  <2>3. 200 \in Int /\ L \in Int /\ 200 <= L
    BY <1>2
  <2>4. 200 * WT <= L * WT
    BY ONLY <1>4, <2>3, TimesGrows
  <2>5. L * WT = R
    BY <1>2, <1>4
  <2>6. 200 * WT <= R
    BY <2>4, <2>5
  <2>. HIDE DEF R
  <2>. QED BY <1>4, <1>5, <2>2, <2>6
<1>24. R <= 1000000 * mB + 999000 + 999 * T
  <2>. DEFINE b == 1000 * a + 999
              c == W * L
  <2>1. b \in Int /\ c \in Int /\ c <= b
    BY <1>2, <1>9
  <2>2. c * T <= b * T
    <3>. HIDE DEF b, c
    <3>. QED BY ONLY <2>1, T \in Nat, TimesGrows
  <2>3. c * T = R
    BY <1>2
  <2>4. b * T = 1000 * (a * T) + 999 * T /\ a * T \in Nat
    BY <1>9
  <2>. QED BY <1>5, <1>11, <2>2, <2>3, <2>4
<1>25. HM <= 1000 * Hm + 999 * H /\ Hm \in Nat
  <2>. DEFINE b == 1000 * m + 999
  <2>1. b \in Int /\ M1 \in Int /\ M1 <= b
    BY <1>4, <1>10
  <2>2. M1 * H <= b * H
    <3>. HIDE DEF b, M1
    <3>. QED BY ONLY <2>1, H \in Nat, TimesGrows
  <2>. HIDE DEF M1
  <2>3. M1 * H = HM /\ b * H = 1000 * Hm + 999 * H /\ Hm \in Nat
    BY <1>4, <1>10
  <2>. QED BY <2>2, <2>3
<1>. DEFINE jL == j * L
            tL == ty * L
            sL == t2 * L
<1>26. /\ jL \in Nat /\ tL \in Nat /\ sL \in Nat
       /\ 1000 * n <= D1 + jL /\ 1000 * o <= tL + sL
       /\ 3000 * jL <= R /\ 8000 * sL <= R /\ 2 * tL <= M1
  BY <1>13, <1>14, <1>17, <1>18, <1>19
<1>. HIDE DEF jL, tL, sL, M1, WT, R, D1, HL, HM, Hm
<1>. SUFFICES 102 * n + 204 * o + 400 <= 132 * Hm + 100 * mB
  BY DEF n, o, Hm, m, mB
<1>27. 3000000 * n <= 3000 * D1 + R /\ 8000000 * o <= 4000 * M1 + R
  BY <1>4, <1>5, <1>13, <1>14, <1>26
<1>28. 102000 * D1 + 102000 * M1 + 131868000 * H + 99900 * T + 499900000 <= 132000 * HM + 40 * R
  BY <1>4, <1>5, <1>20, <1>21, <1>22, <1>23
<1>29. 132000000 * Hm + 100000000 * mB + 131868000 * H + 99900 * T + 99900000 >= 132000 * HM + 100 * R
  BY <1>5, <1>11, <1>24, <1>25
<1>30. 102000000 * n + 204000000 * o <= 102000 * D1 + 102000 * M1 + 60 * R
  BY <1>4, <1>5, <1>13, <1>14, <1>27
<1>. QED BY <1>4, <1>5, <1>11, <1>13, <1>14, <1>25, <1>28, <1>29, <1>30

\* The lever arms of the water on the heel, of the base and of the two lifts.
WaterArm(r, w) == 10 * r - heel(10 * r, w) \div 2
BaseArm(r)     == (10 * r) \div 2
LiftArmOne(r)  == (10 * r) \div 3
LiftArmTwo(r)  == (2 * (10 * r)) \div 3

LEMMA ArmsGrow ==
    ASSUME NEW r \in Nat, NEW s \in Nat, s >= 1, NEW q \in Nat, q = r + 5 * s,
           NEW w \in Nat, w <= 10 * r, r >= 50
    PROVE  /\ WaterArm(r, w) \in Nat /\ WaterArm(q, w) \in Nat
           /\ BaseArm(r) \in Nat /\ BaseArm(q) \in Nat
           /\ LiftArmOne(r) \in Nat /\ LiftArmOne(q) \in Nat
           /\ LiftArmTwo(r) \in Nat /\ LiftArmTwo(q) \in Nat
           /\ WaterArm(r, w) + 33 * s <= WaterArm(q, w) /\ LiftArmTwo(q) <= WaterArm(q, w)
           /\ BaseArm(q) = BaseArm(r) + 25 * s /\ 3 * LiftArmTwo(q) <= 4 * BaseArm(q)
           /\ LiftArmOne(q) <= LiftArmOne(r) + 17 * s /\ 2 * LiftArmOne(q) <= LiftArmTwo(q)
           /\ LiftArmTwo(q) <= LiftArmTwo(r) + 34 * s
BY DEF heel, WaterArm, BaseArm, LiftArmOne, LiftArmTwo

\* The moments of the water and of the base gain at least one and a half times what those
\* of the lifts gain, each for a unit weight of one.
UnitTurns(H, r, L, q, M, w, T) ==
    LET Water(x, l)  == (H * HeelWater(x, l, w)) * WaterArm(x, w)
        Base(x, l)   == BaseVolume(x, l, T) * BaseArm(x)
        First(x, l)  == LiftOne(x, l, w, T, H) * LiftArmOne(x)
        Second(x, l) == LiftTwo(x, l, w, T) * LiftArmTwo(x)
    IN  /\ 3 * (First(q, M) - First(r, L)) + 3 * (Second(q, M) - Second(r, L)) + 200
             <= 2 * (Water(q, M) - Water(r, L)) + 2 * (Base(q, M) - Base(r, L))
        /\ Base(r, L) <= Base(q, M)

LEMMA UnitMomentsGain ==
    ASSUME NEW H \in Nat, H >= 1, NEW r \in Nat, r >= 50 * H, NEW L \in Nat, L >= 200 * H,
           NEW s \in Nat, s >= 1, NEW q \in Nat, q = r + 5 * s, NEW M \in Nat, L <= M,
           NEW w \in Nat, 4 * w <= 500 * H, w <= 1000, NEW T \in Nat, T >= 225,
           VolumesOutgain(H, r, L, q, M, w, T)
    PROVE  UnitTurns(H, r, L, q, M, w, T)
<1>. DEFINE m  == HeelWater(r, L, w)
            v  == HeelWater(q, M, w)
            b  == BaseVolume(r, L, T)
            B  == BaseVolume(q, M, T)
            n  == LiftOne(r, L, w, T, H)
            N  == LiftOne(q, M, w, T, H)
            o  == LiftTwo(r, L, w, T)
            O  == LiftTwo(q, M, w, T)
            am == WaterArm(r, w)
            AM == WaterArm(q, w)
            ab == BaseArm(r)
            AB == BaseArm(q)
            an == LiftArmOne(r)
            AN == LiftArmOne(q)
            ao == LiftArmTwo(r)
            Y  == LiftArmTwo(q)
            dm == v - m
            dB == B - b
            dn == N - n
            do == O - o
<1>0. /\ w <= 10 * r /\ r <= q /\ r >= 50
      /\ H \in Nat /\ r \in Nat /\ q \in Nat /\ L \in Nat /\ M \in Nat /\ w \in Nat /\ T \in Nat /\ L <= M
  OBVIOUS
<1>1. /\ m \in Nat /\ v \in Nat /\ m <= v /\ b \in Nat /\ B \in Nat /\ b <= B
      /\ n \in Nat /\ N \in Nat /\ n <= N /\ o \in Nat /\ O \in Nat /\ o <= O
  <2>1. m \in Nat /\ v \in Nat /\ m <= v
    BY ONLY <1>0, VolumesGrow
  <2>2. b \in Nat /\ B \in Nat /\ b <= B
    BY ONLY <1>0, VolumesGrow
  <2>3. n \in Nat /\ N \in Nat /\ n <= N
    BY ONLY <1>0, VolumesGrow
  <2>4. o \in Nat /\ O \in Nat /\ o <= O
    BY ONLY <1>0, VolumesGrow
  <2>. QED BY <2>1, <2>2, <2>3, <2>4
<1>2. /\ am \in Nat /\ AM \in Nat /\ ab \in Nat /\ AB \in Nat
      /\ an \in Nat /\ AN \in Nat /\ ao \in Nat /\ Y \in Nat
      /\ am + 33 * s <= AM /\ Y <= AM /\ AB = ab + 25 * s /\ 3 * Y <= 4 * AB
      /\ AN <= an + 17 * s /\ 2 * AN <= Y /\ Y <= ao + 34 * s
  BY ONLY <1>0, s \in Nat, s >= 1, q = r + 5 * s, ArmsGrow
<1>3. 3 * dn + 6 * do <= 4 * (H * dm) + 3 * dB
  BY DEF VolumesOutgain
<1>4. 102 * n + 204 * o + 400 <= 132 * (H * m) + 100 * b
  BY ONLY H \in Nat, H >= 1, r \in Nat, r >= 50 * H, L \in Nat, L >= 200 * H, w \in Nat,
          4 * w <= 500 * H, w <= 1000, T \in Nat, T >= 225, VolumesOutweigh
<1>. HIDE DEF m, v, b, B, n, N, o, O, am, AM, ab, AB, an, AN, ao, Y
<1>5. dm \in Nat /\ dB \in Nat /\ dn \in Nat /\ do \in Nat
  BY <1>1
<1>. SUFFICES /\ 3 * (N * AN - n * an) + 3 * (O * Y - o * ao) + 200
                   <= 2 * ((H * v) * AM - (H * m) * am) + 2 * (B * AB - b * ab)
              /\ b * ab <= B * AB
  BY DEF UnitTurns, m, v, b, B, n, N, o, O, am, AM, ab, AB, an, AN, ao, Y
\* Each moment gains with the volume and with the arm.
<1>6. (H * v) * AM >= (H * m) * am + (H * dm) * Y + 33 * (s * (H * m))
  <2>. DEFINE e == H * m
              E == H * v
              d == H * dm
  <2>1. e \in Nat /\ E \in Nat /\ d \in Nat /\ E = e + d
    BY <1>1, <1>5
  <2>. HIDE DEF e, E, d, dm
  <2>2. E * AM = e * AM + d * AM
    BY <1>2, <2>1
  <2>3. d * Y <= d * AM
    <3>1. Y * d <= AM * d
      BY ONLY <1>2, <2>1, Y \in Int, AM \in Int, TimesGrows
    <3>. QED BY <1>2, <2>1, <3>1
  <2>4. e * am + 33 * (s * e) <= e * AM
    <3>. DEFINE x == am + 33 * s
    <3>1. x \in Int /\ AM \in Int /\ x <= AM
      BY <1>2
    <3>2. x * e <= AM * e
      <4>. HIDE DEF x
      <4>. QED BY ONLY <2>1, <3>1, TimesGrows
    <3>3. x * e = e * am + 33 * (s * e) /\ AM * e = e * AM
      BY <1>2, <2>1
    <3>. QED BY <3>2, <3>3
  <2>5. e * am \in Nat /\ s * e \in Nat /\ e * AM \in Nat /\ d * Y \in Nat /\ d * AM \in Nat /\ E * AM \in Nat
    BY <1>2, <2>1
  <2>6. E * AM >= e * am + d * Y + 33 * (s * e)
    BY <2>2, <2>3, <2>4, <2>5
  <2>. QED BY <2>6 DEF e, E, d
<1>7. B * AB = b * ab + dB * AB + 25 * (s * b)
  <2>1. B = b + dB
    BY <1>1
  <2>. HIDE DEF dB
  <2>2. B * AB = b * AB + dB * AB
    BY <1>1, <1>2, <1>5, <2>1
  <2>3. b * AB = b * ab + 25 * (s * b)
    BY <1>1, <1>2
  <2>4. b * AB \in Nat /\ b * ab \in Nat /\ s * b \in Nat /\ dB * AB \in Nat /\ B * AB \in Nat
    BY <1>1, <1>2, <1>5
  <2>. QED BY <2>2, <2>3, <2>4
<1>8. 3 * (dB * Y) <= 4 * (dB * AB)
  <2>. HIDE DEF dB
  <2>1. 3 * Y \in Int /\ 4 * AB \in Int /\ 3 * Y <= 4 * AB
    BY <1>2
  <2>2. (3 * Y) * dB <= (4 * AB) * dB
    BY ONLY <1>5, <2>1, TimesGrows
  <2>3. (3 * Y) * dB = 3 * (dB * Y) /\ (4 * AB) * dB = 4 * (dB * AB)
    BY <1>2, <1>5
  <2>. QED BY <2>2, <2>3
<1>9. N * AN <= n * an + dn * AN + 17 * (s * n)
  <2>1. N = n + dn
    BY <1>1
  <2>. HIDE DEF dn
  <2>2. N * AN = n * AN + dn * AN
    BY <1>1, <1>2, <1>5, <2>1
  <2>. DEFINE x == an + 17 * s
  <2>3. x \in Int /\ AN \in Int /\ AN <= x
    BY <1>2
  <2>4. AN * n <= x * n
    <3>. HIDE DEF x
    <3>. QED BY ONLY <1>1, <2>3, TimesGrows
  <2>5. x * n = n * an + 17 * (s * n) /\ AN * n = n * AN
    BY <1>1, <1>2
  <2>6. n * AN <= n * an + 17 * (s * n)
    BY <2>4, <2>5
  <2>7. n * AN \in Nat /\ n * an \in Nat /\ s * n \in Nat /\ dn * AN \in Nat /\ N * AN \in Nat
    BY <1>1, <1>2, <1>5
  <2>. QED BY <2>2, <2>6, <2>7
<1>10. 2 * (dn * AN) <= dn * Y
  <2>. HIDE DEF dn
  <2>1. 2 * AN \in Int /\ Y \in Int /\ 2 * AN <= Y
    BY <1>2
  <2>2. (2 * AN) * dn <= Y * dn
    BY ONLY <1>5, <2>1, TimesGrows
  <2>3. (2 * AN) * dn = 2 * (dn * AN) /\ Y * dn = dn * Y
    BY <1>2, <1>5
  <2>. QED BY <2>2, <2>3
<1>11. O * Y <= o * ao + do * Y + 34 * (s * o)
  <2>1. O = o + do
    BY <1>1
  <2>. HIDE DEF do
  <2>2. O * Y = o * Y + do * Y
    BY <1>1, <1>2, <1>5, <2>1
  <2>. DEFINE x == ao + 34 * s
  <2>3. x \in Int /\ Y \in Int /\ Y <= x
    BY <1>2
  <2>4. Y * o <= x * o
    <3>. HIDE DEF x
    <3>. QED BY ONLY <1>1, <2>3, TimesGrows
  <2>5. x * o = o * ao + 34 * (s * o) /\ Y * o = o * Y
    BY <1>1, <1>2
  <2>6. o * Y <= o * ao + 34 * (s * o)
    BY <2>4, <2>5
  <2>7. o * Y \in Nat /\ o * ao \in Nat /\ s * o \in Nat /\ do * Y \in Nat /\ O * Y \in Nat
    BY <1>1, <1>2, <1>5
  <2>. QED BY <2>2, <2>6, <2>7
\* The two weighings, times the longest arm of the lifts and times the height.
<1>12. 3 * (dn * Y) + 6 * (do * Y) <= 4 * ((H * dm) * Y) + 3 * (dB * Y)
  <2>. DEFINE d == H * dm
              x == 3 * dn + 6 * do
              z == 4 * d + 3 * dB
  <2>. HIDE DEF dn, do, dm, dB
  <2>1. d \in Nat
    BY <1>5
  <2>2. x \in Int /\ z \in Int /\ x <= z
    BY <1>3, <1>5, <2>1
  <2>. HIDE DEF d
  <2>3. x * Y <= z * Y
    <3>. HIDE DEF x, z
    <3>. QED BY ONLY <1>2, <2>2, TimesGrows
  <2>4. x * Y = 3 * (dn * Y) + 6 * (do * Y)
    BY <1>2, <1>5
  <2>5. z * Y = 4 * (d * Y) + 3 * (dB * Y)
    BY <1>2, <1>5, <2>1
  <2>. QED BY <2>3, <2>4, <2>5 DEF d
<1>13. 102 * (s * n) + 204 * (s * o) + 400 * s <= 132 * (s * (H * m)) + 100 * (s * b)
  <2>. DEFINE d == H * m
              x == 102 * n + 204 * o + 400
              z == 132 * d + 100 * b
  <2>1. d \in Nat
    BY <1>1
  <2>2. x \in Int /\ z \in Int /\ x <= z
    BY <1>1, <1>4, <2>1
  <2>. HIDE DEF d
  <2>3. x * s <= z * s
    <3>. HIDE DEF x, z
    <3>. QED BY ONLY s \in Nat, <2>2, TimesGrows
  <2>4. x * s = 102 * (s * n) + 204 * (s * o) + 400 * s
    BY <1>1
  <2>5. z * s = 132 * (s * d) + 100 * (s * b)
    BY <1>1, <2>1
  <2>. QED BY <2>3, <2>4, <2>5 DEF d
<1>. HIDE DEF dm, dB, dn, do
<1>. DEFINE v1 == (H * v) * AM
            v2 == (H * m) * am
            v3 == (H * dm) * Y
            v4 == s * (H * m)
            b1 == B * AB
            b2 == b * ab
            b3 == dB * AB
            b4 == s * b
            b5 == dB * Y
            n1 == N * AN
            n2 == n * an
            n3 == dn * AN
            n4 == s * n
            n5 == dn * Y
            o1 == O * Y
            o2 == o * ao
            o3 == do * Y
            o4 == s * o
<1>14. v1 \in Int /\ v2 \in Int /\ v3 \in Int /\ v4 \in Int
  <2>1. H * v \in Nat /\ H * m \in Nat /\ H * dm \in Nat
    BY <1>1, <1>5
  <2>. QED BY <1>2, <2>1
<1>15. b1 \in Nat /\ b2 \in Nat /\ b3 \in Nat /\ b4 \in Nat /\ b5 \in Nat
  BY <1>1, <1>2, <1>5
<1>16. n1 \in Int /\ n2 \in Int /\ n3 \in Int /\ n4 \in Int /\ n5 \in Int
  BY <1>1, <1>2, <1>5
<1>17. o1 \in Int /\ o2 \in Int /\ o3 \in Int /\ o4 \in Int
  BY <1>1, <1>2, <1>5
<1>18. /\ v1 >= v2 + v3 + 33 * v4 /\ b1 = b2 + b3 + 25 * b4 /\ 3 * b5 <= 4 * b3
       /\ n1 <= n2 + n3 + 17 * n4 /\ 2 * n3 <= n5 /\ o1 <= o2 + o3 + 34 * o4
       /\ 3 * n5 + 6 * o3 <= 4 * v3 + 3 * b5
       /\ 102 * n4 + 204 * o4 + 400 * s <= 132 * v4 + 100 * b4
  BY <1>6, <1>7, <1>8, <1>9, <1>10, <1>11, <1>12, <1>13
<1>. HIDE DEF v1, v2, v3, v4, b1, b2, b3, b4, b5, n1, n2, n3, n4, n5, o1, o2, o3, o4
<1>19. /\ 3 * (n1 - n2) + 3 * (o1 - o2) + 200 <= 2 * (v1 - v2) + 2 * (b1 - b2)
       /\ b2 <= b1
  BY <1>2, <1>14, <1>15, <1>16, <1>17, <1>18
<1>. QED BY <1>19 DEF v1, v2, b1, b2, n1, n2, o1, o2

\* A product rounded down differs from the next by what the exact ones do, to a thousandth.
LEMMA RoundedGain ==
    ASSUME NEW u \in Nat, NEW x \in Nat, NEW v \in Nat, NEW y \in Nat
    PROVE  /\ v * y - u * x <= 1000 * (Mul(v, y) - Mul(u, x)) + 999
           /\ 1000 * (Mul(v, y) - Mul(u, x)) <= v * y - u * x + 999
<1>. DEFINE m == Mul(u, x)
            n == Mul(v, y)
            ux == u * x
            vy == v * y
<1>1. ux \in Nat /\ vy \in Nat
  OBVIOUS
<1>2. m \in Nat
  BY ONLY u \in Nat, x \in Nat, MulNat
<1>3. n \in Nat
  BY ONLY v \in Nat, y \in Nat, MulNat
<1>4. 1000 * m <= ux
  BY ONLY u \in Nat, x \in Nat, MulBounds
<1>5. ux <= 1000 * m + 999
  BY ONLY u \in Nat, x \in Nat, MulBounds
<1>6. 1000 * n <= vy
  BY ONLY v \in Nat, y \in Nat, MulBounds
<1>7. vy <= 1000 * n + 999
  BY ONLY v \in Nat, y \in Nat, MulBounds
<1>. HIDE DEF m, n, ux, vy
<1>8. vy - ux <= 1000 * (n - m) + 999 /\ 1000 * (n - m) <= vy - ux + 999
  BY <1>1, <1>2, <1>3, <1>4, <1>5, <1>6, <1>7
<1>. QED BY <1>8 DEF m, n, ux, vy

\* A unit weight taken out of the difference of two moments.
LEMMA WeightOut ==
    ASSUME NEW g \in Nat, NEW a \in Nat, NEW x \in Nat, NEW b \in Nat, NEW y \in Nat
    PROVE  (g * b) * y - (g * a) * x = g * (b * y - a * x)
<1>. DEFINE i == b * y
            j == a * x
<1>1. i \in Nat /\ j \in Nat
  OBVIOUS
<1>2. g * i = (g * b) * y /\ g * j = (g * a) * x
  OBVIOUS
<1>3. g * (i - j) = g * i - g * j
  <2>. HIDE DEF i, j
  <2>. QED BY <1>1
<1>. QED BY <1>2, <1>3

\* The moments the widening changes, of a footing of width 10 r and length L: of the water
\* on its heel, of its base, and the two buoyant ones.
WaterTurns(H, r, L, w)       == Mul(spec_water * (H * HeelWater(r, L, w)), WaterArm(r, w))
BaseTurns(g, r, L, T)        == Mul(g * BaseVolume(r, L, T), BaseArm(r))
LiftTurnsOne(H, r, L, w, T)  == Mul(spec_water * LiftOne(r, L, w, T, H), LiftArmOne(r))
LiftTurnsTwo(r, L, w, T)     == Mul(spec_water * LiftTwo(r, L, w, T), LiftArmTwo(r))

\* The terms of Mov.
LEMMA MovIs ==
    ASSUME NEW b, NEW r, b.base_width = 10 * r
    PROVE  Mov(b) = M_sta(Fst(b), b.height, b.base_thickness)
                      + (LiftTurnsOne(b.height, r, b.base_length, b.wall_t, b.base_thickness)
                         + LiftTurnsTwo(r, b.base_length, b.wall_t, b.base_thickness))
BY DEF Mov, M_bouy, fboy1, fboy2, LiftOne, LiftTwo, LiftArmOne, LiftArmTwo,
       LiftTurnsOne, LiftTurnsTwo

\* And the two moments of Mres it grows by: of the base and of the water on its heel.
LEMMA MbseIs ==
    ASSUME NEW g, NEW r, NEW L, NEW T
    PROVE  Mul(weight(g, 10 * r, L, T), (10 * r) \div 2) = BaseTurns(g, r, L, T)
BY DEF weight, BaseVolume, BaseArm, BaseTurns

LEMMA MwhIs ==
    ASSUME NEW H \in Nat, NEW r \in Nat, NEW L, NEW w, HeelWater(r, L, w) \in Nat
    PROVE  Mul(weight(spec_water, heel(10 * r, w), L, H * S), 10 * r - heel(10 * r, w) \div 2)
             = WaterTurns(H, r, L, w)
<1>. DEFINE m == HeelWater(r, L, w)
<1>1. m \in Nat
  OBVIOUS
<1>2. weight(spec_water, heel(10 * r, w), L, H * S) = spec_water * Mul(m, H * S)
  BY DEF weight, HeelWater
<1>. HIDE DEF m
<1>3. Mul(m, H * S) = H * m
  <2>. DEFINE h == H * S
  <2>1. h \in Int /\ m \in Int
    BY <1>1 DEF S
  <2>2. m * h = 1000 * (H * m)
    BY <1>1 DEF S
  <2>. HIDE DEF h
  <2>3. Mul(m, h) = (m * h) \div S
    BY ONLY <2>1, MulExact
  <2>. DEFINE v == H * m
  <2>4. v \in Nat
    BY <1>1
  <2>. HIDE DEF v
  <2>5. (1000 * v) \div 1000 = v
    BY <2>4
  <2>. QED BY <2>2, <2>3, <2>5 DEF S, h, v
<1>. QED BY <1>2, <1>3 DEF WaterArm, WaterTurns, m

\* What the two buoyant moments gain is no more than two thirds of what the other two do.
LiftsOutgained(g, H, r, L, q, M, w, T) ==
    LET w1 == WaterTurns(H, r, L, w)
        w2 == WaterTurns(H, q, M, w)
        b1 == BaseTurns(g, r, L, T)
        b2 == BaseTurns(g, q, M, T)
        f1 == LiftTurnsOne(H, r, L, w, T)
        f2 == LiftTurnsOne(H, q, M, w, T)
        s1 == LiftTurnsTwo(r, L, w, T)
        s2 == LiftTurnsTwo(q, M, w, T)
    IN  /\ w1 \in Nat /\ w2 \in Nat /\ b1 \in Nat /\ b2 \in Nat
        /\ f1 \in Nat /\ f2 \in Nat /\ s1 \in Nat /\ s2 \in Nat
        /\ 3 * (f2 - f1) + 3 * (s2 - s1) + 1 <= 2 * (w2 - w1) + 2 * (b2 - b1)

LEMMA LiftsOutweighed ==
    ASSUME NEW H \in Nat, H >= 1, NEW r \in Nat, r >= 50 * H, NEW L \in Nat, L >= 200 * H,
           NEW s \in Nat, s >= 1, NEW q \in Nat, q = r + 5 * s, NEW M \in Nat, L <= M,
           NEW w \in Nat, 4 * w <= 500 * H, w <= 1000, NEW T \in Nat, T >= 225,
           NEW g \in Nat, g >= spec_water, VolumesOutgain(H, r, L, q, M, w, T)
    PROVE  LiftsOutgained(g, H, r, L, q, M, w, T)
<1>. DEFINE m  == H * HeelWater(r, L, w)
            v  == H * HeelWater(q, M, w)
            b  == BaseVolume(r, L, T)
            B  == BaseVolume(q, M, T)
            n  == LiftOne(r, L, w, T, H)
            N  == LiftOne(q, M, w, T, H)
            o  == LiftTwo(r, L, w, T)
            O  == LiftTwo(q, M, w, T)
            am == WaterArm(r, w)
            ab == BaseArm(r)
            an == LiftArmOne(r)
            ao == LiftArmTwo(r)
            AM == WaterArm(q, w)
            AB == BaseArm(q)
            AN == LiftArmOne(q)
            AO == LiftArmTwo(q)
<1>h. /\ w <= 10 * r /\ r <= q /\ r >= 50
      /\ H \in Nat /\ r \in Nat /\ q \in Nat /\ L \in Nat /\ M \in Nat /\ w \in Nat /\ T \in Nat /\ L <= M
  OBVIOUS
<1>1. /\ m \in Nat /\ v \in Nat /\ b \in Nat /\ B \in Nat
      /\ n \in Nat /\ N \in Nat /\ o \in Nat /\ O \in Nat
  <2>1. HeelWater(r, L, w) \in Nat /\ HeelWater(q, M, w) \in Nat
    BY ONLY <1>h, VolumesGrow
  <2>2. m \in Nat /\ v \in Nat
    <3>. DEFINE i == HeelWater(r, L, w)
                j == HeelWater(q, M, w)
    <3>. HIDE DEF i, j
    <3>1. H * i \in Nat /\ H * j \in Nat
      BY <2>1 DEF i, j
    <3>. QED BY <3>1 DEF i, j
  <2>3. b \in Nat /\ B \in Nat
    BY ONLY <1>h, VolumesGrow
  <2>4. n \in Nat /\ N \in Nat
    BY ONLY <1>h, VolumesGrow
  <2>5. o \in Nat /\ O \in Nat
    BY ONLY <1>h, VolumesGrow
  <2>. QED BY <2>2, <2>3, <2>4, <2>5
<1>2. /\ am \in Nat /\ AM \in Nat /\ ab \in Nat /\ AB \in Nat
      /\ an \in Nat /\ AN \in Nat /\ ao \in Nat /\ AO \in Nat
  <2>1. s \in Nat /\ s >= 1 /\ q = r + 5 * s
    OBVIOUS
  <2>2. am \in Nat /\ AM \in Nat /\ ab \in Nat /\ AB \in Nat
    BY ONLY <1>h, <2>1, ArmsGrow
  <2>3. an \in Nat /\ AN \in Nat /\ ao \in Nat /\ AO \in Nat
    BY ONLY <1>h DEF LiftArmOne, LiftArmTwo
  <2>. QED BY <2>2, <2>3
<1>3. /\ 3 * (N * AN - n * an) + 3 * (O * AO - o * ao) + 200
           <= 2 * (v * AM - m * am) + 2 * (B * AB - b * ab)
      /\ b * ab <= B * AB
  <2>1. UnitTurns(H, r, L, q, M, w, T)
    BY UnitMomentsGain
  <2>. QED BY <2>1 DEF UnitTurns
<1>. HIDE DEF m, v, b, B, n, N, o, O, am, AM, ab, AB, an, AN, ao, AO
<1>s. spec_water \in Nat
  BY DEF spec_water
<1>0. spec_water = 64
  BY DEF spec_water
<1>. DEFINE dm == v * AM - m * am
            db == B * AB - b * ab
            dn == N * AN - n * an
            do == O * AO - o * ao
            r1 == Mul(spec_water * m, am)
            R1 == Mul(spec_water * v, AM)
            r2 == Mul(g * b, ab)
            R2 == Mul(g * B, AB)
            r3 == Mul(spec_water * n, an)
            R3 == Mul(spec_water * N, AN)
            r4 == Mul(spec_water * o, ao)
            R4 == Mul(spec_water * O, AO)
<1>4. dm \in Int /\ db \in Int /\ dn \in Int /\ do \in Int /\ db >= 0
  <2>1. /\ v * AM \in Int /\ m * am \in Int /\ B * AB \in Int /\ b * ab \in Int
        /\ N * AN \in Int /\ n * an \in Int /\ O * AO \in Int /\ o * ao \in Int
    BY <1>1, <1>2
  <2>. QED BY <1>3, <2>1
<1>5. r1 \in Nat /\ R1 \in Nat /\ spec_water * dm <= 1000 * (R1 - r1) + 999
  <2>. DEFINE u == spec_water * m
              y == spec_water * v
  <2>1. u \in Nat /\ y \in Nat
    BY <1>s, <1>1
  <2>2. y * AM - u * am = spec_water * dm
    BY ONLY <1>s, <1>1, <1>2, WeightOut
  <2>. HIDE DEF u, y
  <2>3. Mul(u, am) \in Nat /\ Mul(y, AM) \in Nat
    <3>1. Mul(u, am) \in Nat
      BY ONLY <2>1, <1>2, MulNat
    <3>2. Mul(y, AM) \in Nat
      BY ONLY <2>1, <1>2, MulNat
    <3>. QED BY <3>1, <3>2
  <2>4. y * AM - u * am <= 1000 * (Mul(y, AM) - Mul(u, am)) + 999
    BY ONLY <2>1, <1>2, RoundedGain
  <2>5. spec_water * dm <= 1000 * (Mul(y, AM) - Mul(u, am)) + 999
    BY <2>2, <2>4
  <2>. QED BY <2>3, <2>5 DEF u, y
<1>6. r2 \in Nat /\ R2 \in Nat /\ g * db <= 1000 * (R2 - r2) + 999
  <2>. DEFINE u == g * b
              y == g * B
  <2>1. u \in Nat /\ y \in Nat
    BY <1>s, <1>1
  <2>2. y * AB - u * ab = g * db
    BY ONLY g \in Nat, <1>1, <1>2, WeightOut
  <2>. HIDE DEF u, y
  <2>3. Mul(u, ab) \in Nat /\ Mul(y, AB) \in Nat
    <3>1. Mul(u, ab) \in Nat
      BY ONLY <2>1, <1>2, MulNat
    <3>2. Mul(y, AB) \in Nat
      BY ONLY <2>1, <1>2, MulNat
    <3>. QED BY <3>1, <3>2
  <2>4. y * AB - u * ab <= 1000 * (Mul(y, AB) - Mul(u, ab)) + 999
    BY ONLY <2>1, <1>2, RoundedGain
  <2>5. g * db <= 1000 * (Mul(y, AB) - Mul(u, ab)) + 999
    BY <2>2, <2>4
  <2>. QED BY <2>3, <2>5 DEF u, y
<1>7. r3 \in Nat /\ R3 \in Nat /\ 1000 * (R3 - r3) <= spec_water * dn + 999
  <2>. DEFINE u == spec_water * n
              y == spec_water * N
  <2>1. u \in Nat /\ y \in Nat
    BY <1>s, <1>1
  <2>2. y * AN - u * an = spec_water * dn
    BY ONLY <1>s, <1>1, <1>2, WeightOut
  <2>. HIDE DEF u, y
  <2>3. Mul(u, an) \in Nat /\ Mul(y, AN) \in Nat
    <3>1. Mul(u, an) \in Nat
      BY ONLY <2>1, <1>2, MulNat
    <3>2. Mul(y, AN) \in Nat
      BY ONLY <2>1, <1>2, MulNat
    <3>. QED BY <3>1, <3>2
  <2>4. 1000 * (Mul(y, AN) - Mul(u, an)) <= y * AN - u * an + 999
    BY ONLY <2>1, <1>2, RoundedGain
  <2>5. 1000 * (Mul(y, AN) - Mul(u, an)) <= spec_water * dn + 999
    BY <2>2, <2>4
  <2>. QED BY <2>3, <2>5 DEF u, y
<1>8. r4 \in Nat /\ R4 \in Nat /\ 1000 * (R4 - r4) <= spec_water * do + 999
  <2>. DEFINE u == spec_water * o
              y == spec_water * O
  <2>1. u \in Nat /\ y \in Nat
    BY <1>s, <1>1
  <2>2. y * AO - u * ao = spec_water * do
    BY ONLY <1>s, <1>1, <1>2, WeightOut
  <2>. HIDE DEF u, y
  <2>3. Mul(u, ao) \in Nat /\ Mul(y, AO) \in Nat
    <3>1. Mul(u, ao) \in Nat
      BY ONLY <2>1, <1>2, MulNat
    <3>2. Mul(y, AO) \in Nat
      BY ONLY <2>1, <1>2, MulNat
    <3>. QED BY <3>1, <3>2
  <2>4. 1000 * (Mul(y, AO) - Mul(u, ao)) <= y * AO - u * ao + 999
    BY ONLY <2>1, <1>2, RoundedGain
  <2>5. 1000 * (Mul(y, AO) - Mul(u, ao)) <= spec_water * do + 999
    BY <2>2, <2>4
  <2>. QED BY <2>3, <2>5 DEF u, y
<1>9. 3 * dn + 3 * do + 200 <= 2 * dm + 2 * db
  BY <1>3
<1>. HIDE DEF dm, db, dn, do, r1, R1, r2, R2, r3, R3, r4, R4
<1>10. 64 * db <= g * db /\ g * db \in Int
  <2>1. 64 \in Int /\ g \in Int /\ 64 <= g /\ db \in Nat
    BY <1>0, <1>4
  <2>. QED BY ONLY <2>1, TimesGrows
<1>11. 3 * (R3 - r3) + 3 * (R4 - r4) + 1 <= 2 * (R1 - r1) + 2 * (R2 - r2)
  <2>1. 64 * dm <= 1000 * (R1 - r1) + 999
    BY <1>0, <1>5
  <2>2. 64 * db <= 1000 * (R2 - r2) + 999
    BY <1>4, <1>6, <1>10
  <2>3. 1000 * (R3 - r3) <= 64 * dn + 999
    BY <1>0, <1>7
  <2>4. 1000 * (R4 - r4) <= 64 * do + 999
    BY <1>0, <1>8
  <2>. QED BY <1>4, <1>5, <1>6, <1>7, <1>8, <1>9, <2>1, <2>2, <2>3, <2>4
<1>. QED BY <1>5, <1>6, <1>7, <1>8, <1>11
         DEF LiftsOutgained, WaterTurns, BaseTurns, LiftTurnsOne, LiftTurnsTwo,
             r1, R1, r2, R2, r3, R3, r4, R4, m, v, b, B, n, N, o, O, am, AM, ab, AB, an, AN, ao, AO

\* A footing of the same thickness that is wider by half a tenth of its height or by a
\* tenth, and as long or longer by the share that goes with it, resists overturning if the
\* narrower one does.
LEMMA WiderStandsUp ==
    ASSUME NEW c \in ConstantsType, NEW b \in BarrierType, NEW d \in BarrierType,
           NEW r \in Nat, NEW s \in Nat, NEW q \in Nat, s >= 1, q = r + 5 * s,
           Ordinary(c, b), r >= 50 * b.height, 4 * b.wall_t <= 500 * b.height, b.wall_t <= S,
           b.base_thickness >= 225, Site(d) = Site(b),
           d.base_thickness = b.base_thickness, d.key_depth = b.key_depth,
           b.base_width = 10 * r, d.base_width = 10 * q, b.base_length >= 200 * b.height,
           d.base_length = b.base_length \/ d.base_length >= b.base_length + 40,
           VolumesOutgain(b.height, r, b.base_length, q, d.base_length, b.wall_t, b.base_thickness),
           Fst(b) >= 0, ~OverturningFails(c, b)
    PROVE  ~OverturningFails(c, d)
<1>. DEFINE H == b.height
            w == b.wall_t
            T == b.base_thickness
            L == b.base_length
            M == d.base_length
            g == c.spec_base
            push == M_sta(Fst(b), H, T)
<1>1. /\ H \in Nat /\ H >= 1 /\ w \in Nat /\ w <= 1000 /\ 4 * w <= 500 * H /\ T \in Nat /\ T >= 225
      /\ g \in Nat /\ L \in Nat /\ M \in Nat /\ L <= M /\ L >= 200 * H /\ r >= 50 * H
  BY DEF BarrierType, ConstantsType, S
<1>2. g >= spec_water
  BY OrdinaryHeavy
<1>3. /\ d.height = H /\ d.wall_t = w /\ Fst(d) = Fst(b)
  BY DEF Site, Fst
<1>4. push \in Nat
  <2>1. Fst(b) \in Nat
    BY PushSign
  <2>. DEFINE x == (H * S + T) \div 3
              y == Fst(b)
  <2>2. x \in Nat /\ y \in Nat
    BY <1>1, <2>1 DEF S
  <2>. HIDE DEF x, y
  <2>3. Mul(y, x) \in Nat
    BY ONLY <2>2, MulNat
  <2>. QED BY <2>3 DEF M_sta, x, y
<1>5. /\ Mov(b) = push + (LiftTurnsOne(H, r, L, w, T) + LiftTurnsTwo(r, L, w, T))
      /\ Mov(d) = push + (LiftTurnsOne(H, q, M, w, T) + LiftTurnsTwo(q, M, w, T))
  BY <1>3, MovIs
<1>. DEFINE BaseOf(e)  == Mul(weight(c.spec_base, e.base_width, e.base_length, e.base_thickness),
                              e.base_width \div 2)
            WaterOf(e) == Mul(weight(spec_water, heel(e.base_width, e.wall_t), e.base_length,
                                     e.height * S),
                              e.base_width - heel(e.base_width, e.wall_t) \div 2)
<1>6. BaseOf(b) = BaseTurns(g, r, L, T) /\ BaseOf(d) = BaseTurns(g, q, M, T)
  BY MbseIs
<1>7. WaterOf(b) = WaterTurns(H, r, L, w) /\ WaterOf(d) = WaterTurns(H, q, M, w)
  <2>1. HeelWater(r, L, w) \in Nat /\ HeelWater(q, M, w) \in Nat
    <3>. HIDE DEF H, w, T, L, M, push, BaseOf, WaterOf
    <3>1. /\ w <= 10 * r /\ r <= q
          /\ H \in Nat /\ r \in Nat /\ q \in Nat /\ L \in Nat /\ M \in Nat /\ w \in Nat /\ T \in Nat /\ L <= M
      BY <1>1
    <3>. QED BY ONLY <3>1, VolumesGrow
  <2>. QED BY <1>1, <1>3, <2>1, MwhIs
<1>8. b.base_width <= d.base_width /\ w <= b.base_width
  BY <1>1
<1>. DEFINE w1 == WaterTurns(H, r, L, w)
            w2 == WaterTurns(H, q, M, w)
            b1 == BaseTurns(g, r, L, T)
            b2 == BaseTurns(g, q, M, T)
            f1 == LiftTurnsOne(H, r, L, w, T)
            f2 == LiftTurnsOne(H, q, M, w, T)
            s1 == LiftTurnsTwo(r, L, w, T)
            s2 == LiftTurnsTwo(q, M, w, T)
            r1 == Mres(c, b)
            r2 == Mres(c, d)
            o1 == Mov(b)
            o2 == Mov(d)
<1>9. /\ w1 \in Nat /\ w2 \in Nat /\ b1 \in Nat /\ b2 \in Nat
      /\ f1 \in Nat /\ f2 \in Nat /\ s1 \in Nat /\ s2 \in Nat
      /\ 3 * (f2 - f1) + 3 * (s2 - s1) + 1 <= 2 * (w2 - w1) + 2 * (b2 - b1)
  <2>1. VolumesOutgain(H, r, L, q, M, w, T) /\ r \in Nat /\ q \in Nat /\ s \in Nat /\ s >= 1 /\ q = r + 5 * s
    OBVIOUS
  <2>2. LiftsOutgained(g, H, r, L, q, M, w, T)
    <3>. HIDE DEF H, w, T, L, M, g
    <3>. QED BY ONLY <1>1, <1>2, <2>1, LiftsOutweighed
  <2>. QED BY <2>2 DEF LiftsOutgained
<1>10. b2 - b1 + w2 - w1 <= r2 - r1
  <2>1. BaseOf(b) \in Nat /\ BaseOf(d) \in Nat /\ WaterOf(b) \in Nat /\ WaterOf(d) \in Nat
    BY <1>6, <1>7, <1>9
  <2>2. BaseOf(d) - BaseOf(b) + WaterOf(d) - WaterOf(b) <= Mres(c, d) - Mres(c, b)
    BY <1>8, <2>1, OthersGrow
  <2>. QED BY <1>6, <1>7, <2>2
<1>11. o1 = push + (f1 + s1) /\ o2 = push + (f2 + s2)
  BY <1>5
<1>12. r1 \in Int /\ r2 \in Int /\ ~BelowThreeHalves(r1, o1)
  BY MresInt DEF OverturningFails
<1>. HIDE DEF push, w1, w2, b1, b2, f1, f2, s1, s2, r1, r2, o1, o2
<1>13. o1 \in Nat /\ o2 \in Nat /\ 3 * (o2 - o1) + 1 <= 2 * (r2 - r1)
  BY <1>4, <1>9, <1>10, <1>11, <1>12
<1>14. ~BelowThreeHalves(r2, o2)
  BY <1>12, <1>13 DEF BelowThreeHalves
<1>. QED BY <1>14 DEF OverturningFails, r2, o2

ThinWall == Thin(barrier)

LEMMA ThinWallInit == ThinWalls /\ Init => ThinWall
<1>. SUFFICES ASSUME ThinWalls, Init PROVE ThinWall
  OBVIOUS
<1>1. PICK job \in Jobs : barrier = Unfooted(job.barrier)
  BY DEF Init
<1>2. job.barrier \in BarrierType
  BY JobsAssumption DEF JobType
<1>3. Thin(job.barrier)
  BY DEF ThinWalls
<1>4. Unfooted(job.barrier).wall_t = job.barrier.wall_t
  BY <1>2, UnfootedFields DEF Site
<1>5. WidthAt(Unfooted(job.barrier), 50) = WidthAt(job.barrier, 50)
  BY <1>2, UnfootedFields, UnfootedType, SameWidth
<1>. QED BY <1>1, <1>3, <1>4, <1>5 DEF ThinWall, Thin

LEMMA ThinWallStep == TypeOK /\ TypeOK' /\ ThinWall /\ [Next]_vars => ThinWall'
<1>. SUFFICES ASSUME TypeOK, TypeOK', ThinWall, [Next]_vars PROVE ThinWall'
  OBVIOUS
<1>1. Site(barrier') = Site(barrier)
  BY SiteStep
<1>2. WidthAt(barrier', 50) = WidthAt(barrier, 50)
  BY <1>1, SameWidth DEF TypeOK
<1>. QED BY <1>1, <1>2 DEF ThinWall, Thin, Site

\* A footing that passed the overturning check goes on passing it.
OverturningStands ==
    pc \notin {"design", "sliding", "overturning"} => ~OverturningFails(constants, barrier)

\* A multiple of the height is added to the width by either of the later loops.
LEMMA WiderByShare ==
    ASSUME NEW h \in Nat, NEW cf \in Nat, NEW n \in Nat
    PROVE  (cf + n) * h = cf * h + n * h
OBVIOUS

LEMMA LaterShares ==
    ASSUME TypeOK, ThinWall, Sited, OverturningStands, SlidingStands, Proportions, History,
           pc \in {"eccentricity", "settlement"}
    PROVE  /\ barrier.base_thickness >= 225
           /\ barrier.wall_t <= S /\ 4 * barrier.wall_t <= 500 * barrier.height
           /\ coeff * barrier.height \in Nat /\ coeff * barrier.height >= 50 * barrier.height
           /\ barrier.base_width = 10 * (coeff * barrier.height)
           /\ barrier.base_length \in Nat /\ barrier.base_length >= 200 * barrier.height
           /\ pc = "eccentricity" => barrier.base_length = 4 * (coeff * barrier.height)
           /\ Fst(barrier) >= 0 /\ ~OverturningFails(constants, barrier)
<1>. DEFINE h == barrier.height
            p == coeff * h
            cut == IF pc = "settlement" THEN passedAt["eccentricity"] ELSE coeff
            l == cut * h
<1>1. barrier \in BarrierType /\ constants \in ConstantsType /\ coeff \in Nat /\ 50 <= coeff
  BY DEF TypeOK
<1>2. h \in Nat /\ h >= 1
  BY <1>1 DEF BarrierType
<1>3. cut \in Nat /\ cut >= 50
  <2>1. CASE pc = "settlement"
    <3>1. "eccentricity" \in Checks \ Pending[pc]
      BY <2>1 DEF Checks, Pending
    <3>2. passedAt["eccentricity"] \in 50 .. coeff
      BY <3>1 DEF History
    <3>. QED BY <1>1, <2>1, <3>2
  <2>2. CASE pc = "eccentricity"
    BY <1>1, <2>2
  <2>. QED BY <2>1, <2>2
<1>4. /\ barrier.base_width = WidthAt(barrier, coeff)
      /\ barrier.base_thickness = base_thick(WidthAt(barrier, passedAt["sliding"]))
      /\ barrier.base_length = base_len(WidthAt(barrier, cut))
  BY DEF Proportions
<1>5. passedAt["sliding"] \in Nat /\ passedAt["sliding"] >= 50
  <2>1. "sliding" \in Checks \ Pending[pc]
    BY DEF Checks, Pending
  <2>2. passedAt["sliding"] \in 50 .. coeff
    BY <2>1 DEF History
  <2>. QED BY <1>1, <2>2
<1>6. barrier.base_thickness >= 225
  BY <1>1, <1>4, <1>5, Shares
<1>7. WidthAt(barrier, coeff) = 10 * p /\ WidthAt(barrier, 50) = 500 * h
  BY <1>1, <1>2 DEF WidthAt
<1>8. base_len(WidthAt(barrier, cut)) = 4 * l
  BY <1>1, <1>3, Shares
<1>9. barrier.wall_t <= S /\ 4 * barrier.wall_t <= 500 * h
  BY <1>7 DEF ThinWall, Thin
<1>10. pc = "eccentricity" => barrier.base_length = 4 * p
  BY <1>4, <1>8
<1>. HIDE DEF cut
<1>11. p \in Nat /\ 50 * h <= p /\ l \in Nat /\ 50 * h <= l
  <2>. HIDE DEF h
  <2>0. 50 \in Int /\ coeff \in Int /\ cut \in Int /\ 50 <= coeff /\ 50 <= cut
    BY <1>1, <1>3
  <2>1. 50 * h <= coeff * h
    BY ONLY <1>2, <2>0, TimesGrows
  <2>2. 50 * h <= cut * h
    BY ONLY <1>2, <2>0, TimesGrows
  <2>3. coeff * h \in Nat /\ cut * h \in Nat
    BY <1>1, <1>2, <1>3
  <2>. QED BY <2>1, <2>2, <2>3
<1>12. Fst(barrier) >= 0
  <2>1. ~SlidingFails(constants, barrier)
    BY DEF SlidingStands
  <2>2. barrier.wall_t <= barrier.base_width
    BY WallFits
  <2>. QED BY <1>1, <2>1, <2>2, NegativeFails, PushSign DEF Sited
<1>13. ~OverturningFails(constants, barrier)
  BY DEF OverturningStands
<1>. HIDE DEF l
<1>14. barrier.base_length \in Nat /\ barrier.base_length >= 200 * h
  BY <1>2, <1>4, <1>8, <1>11
<1>15. p >= 50 * h
  BY <1>2, <1>11
<1>. QED BY <1>4, <1>6, <1>7, <1>9, <1>10, <1>11, <1>12, <1>13, <1>14, <1>15

LEMMA OverturningStandsStep ==
    ASSUME TypeOK, TypeOK', Proportions, Proportions', History, Sited, SlidingStands,
           ThinWall, OverturningStands, [Next]_vars
    PROVE  OverturningStands'
<1>. DEFINE h == barrier.height
            p == coeff * h
<1>1. /\ barrier \in BarrierType /\ barrier' \in BarrierType /\ constants \in ConstantsType
      /\ coeff \in Nat /\ coeff' \in Nat /\ h \in Nat /\ h >= 1
  BY MaxCoeffAssumption DEF TypeOK, BarrierType
<1>2. constants' = constants /\ Site(barrier') = Site(barrier)
  BY SiteStep
<1>3. CASE FinishOverturning
  <2>1. barrier.base_length = base_len(barrier.base_width)
    BY <1>3 DEF FinishOverturning, Proportions
  <2>2. barrier' = barrier
    BY <1>1, <1>3, <2>1, RelengthenedSame DEF FinishOverturning
  <2>. QED BY <1>2, <1>3, <2>2 DEF FinishOverturning, OverturningStands
<1>4. CASE WidenAgainstEccentricity
  <2>. DEFINE b == Widened(barrier, coeff')
              q == p + 10 * h
              s == 2 * h
  <2>1. pc = "eccentricity" /\ coeff' = coeff + 10 /\ barrier' = Relengthened(b)
    BY <1>4 DEF WidenAgainstEccentricity, Widen
  <2>2. b \in BarrierType /\ b.base_width = WidthAt(barrier, coeff')
        /\ b.base_thickness = barrier.base_thickness /\ b.key_depth = barrier.key_depth
    BY <1>1, WidenedFields, WidenedType
  <2>3. coeff' * h = q
    <3>. HIDE DEF h
    <3>1. (coeff + 10) * h = coeff * h + 10 * h
      BY ONLY <1>1, WiderByShare
    <3>. QED BY <2>1, <3>1
  <2>4. barrier'.base_width = 10 * q /\ barrier'.base_length = 4 * q
    <3>1. base_len(WidthAt(barrier, coeff')) = 4 * (coeff' * h)
      BY <1>1, Shares
    <3>2. WidthAt(barrier, coeff') = 10 * (coeff' * h)
      BY <1>1 DEF WidthAt
    <3>3. /\ barrier'.base_width = WidthAt(barrier, coeff')
          /\ barrier'.base_length = base_len(WidthAt(barrier, coeff'))
      BY <2>1, <2>2, RelengthenedFields
    <3>. QED BY <2>3, <3>1, <3>2, <3>3
  <2>5. barrier'.base_thickness = barrier.base_thickness /\ barrier'.key_depth = barrier.key_depth
    BY <2>1, <2>2, RelengthenedFields
  <2>6. /\ barrier.base_thickness >= 225 /\ barrier.wall_t <= S /\ 4 * barrier.wall_t <= 500 * h
        /\ p \in Nat /\ p >= 50 * h /\ barrier.base_width = 10 * p
        /\ barrier.base_length \in Nat /\ barrier.base_length >= 200 * h
        /\ barrier.base_length = 4 * p
        /\ Fst(barrier) >= 0 /\ ~OverturningFails(constants, barrier)
    BY <2>1, LaterShares
  <2>. HIDE DEF p
  <2>7. q \in Nat /\ s \in Nat /\ s >= 1 /\ q = p + 5 * s /\ q = p + 10 * h
    BY <1>1, <2>6
  <2>8. barrier'.base_length >= barrier.base_length + 40
    BY <1>1, <2>4, <2>6
  <2>. HIDE DEF q, s, b
  <2>9. VolumesOutgain(h, p, barrier.base_length, q, barrier'.base_length, barrier.wall_t, barrier.base_thickness)
    <3>. DEFINE L == barrier.base_length
                M == barrier'.base_length
                w == barrier.wall_t
                T == barrier.base_thickness
    <3>1. L \in Nat /\ L = 4 * p /\ M \in Nat /\ M = 4 * q /\ w \in Nat /\ 4 * w <= 500 * h /\ w <= 1000
          /\ T \in Nat /\ T >= 225
      BY <1>1, <2>4, <2>6, <2>7 DEF BarrierType, S
    <3>. HIDE DEF L, M, w, T, h
    <3>2. VolumesOutgain(h, p, L, q, M, w, T)
      BY ONLY <1>1, <2>6, <2>7, <3>1, VolumesGain
    <3>. QED BY <3>2 DEF L, M, w, T
  <2>10. ~OverturningFails(constants, barrier')
    BY <1>1, <1>2, <2>4, <2>5, <2>6, <2>7, <2>8, <2>9, WiderStandsUp DEF Sited
  <2>. QED BY <1>2, <2>10 DEF OverturningStands
<1>5. CASE WidenAgainstSettlement
  <2>. DEFINE q == p + 5 * h
  <2>1. pc = "settlement" /\ coeff' = coeff + 5 /\ barrier' = Widened(barrier, coeff')
    BY <1>5 DEF WidenAgainstSettlement, Widen
  <2>2. /\ barrier'.base_width = WidthAt(barrier, coeff') /\ barrier'.base_length = barrier.base_length
        /\ barrier'.base_thickness = barrier.base_thickness /\ barrier'.key_depth = barrier.key_depth
    BY <1>1, <2>1, WidenedFields
  <2>3. coeff' * h = q
    <3>. HIDE DEF h
    <3>1. (coeff + 5) * h = coeff * h + 5 * h
      BY ONLY <1>1, WiderByShare
    <3>. QED BY <2>1, <3>1
  <2>4. barrier'.base_width = 10 * q
    <3>1. WidthAt(barrier, coeff') = 10 * (coeff' * h)
      BY <1>1 DEF WidthAt
    <3>. QED BY <2>2, <2>3, <3>1
  <2>5. /\ barrier.base_thickness >= 225 /\ barrier.wall_t <= S /\ 4 * barrier.wall_t <= 500 * h
        /\ p \in Nat /\ p >= 50 * h /\ barrier.base_width = 10 * p
        /\ barrier.base_length \in Nat /\ barrier.base_length >= 200 * h
        /\ Fst(barrier) >= 0 /\ ~OverturningFails(constants, barrier)
    BY <2>1, LaterShares
  <2>. HIDE DEF p
  <2>6. q \in Nat /\ q = p + 5 * h
    BY <1>1, <2>5
  <2>. HIDE DEF q
  <2>7. VolumesOutgain(h, p, barrier.base_length, q, barrier'.base_length, barrier.wall_t, barrier.base_thickness)
    <3>. DEFINE L == barrier.base_length
                w == barrier.wall_t
                T == barrier.base_thickness
    <3>1. L \in Nat /\ L >= 200 * h /\ w \in Nat /\ 4 * w <= 500 * h /\ w <= 1000
          /\ T \in Nat /\ T >= 225
      BY <1>1, <2>5 DEF BarrierType, S
    <3>. HIDE DEF L, w, T, h
    <3>2. VolumesOutgain(h, p, L, q, L, w, T)
      BY ONLY <1>1, <2>5, <2>6, <3>1, VolumesGainWider
    <3>. QED BY <2>2, <3>2 DEF L, w, T
  <2>8. ~OverturningFails(constants, barrier')
    BY <1>1, <1>2, <2>2, <2>4, <2>5, <2>6, <2>7, WiderStandsUp DEF Sited
  <2>. QED BY <1>2, <2>8 DEF OverturningStands
<1>6. CASE FinishEccentricity \/ FinishSettlement
  BY <1>2, <1>6 DEF FinishEccentricity, FinishSettlement, OverturningStands
<1>7. CASE Written \/ UNCHANGED vars
  BY <1>7 DEF Written, vars, OverturningStands
<1>8. CASE Design \/ WidenAgainstSliding \/ FinishSliding \/ WidenAgainstOverturning
  <2>1. pc' \in {"sliding", "overturning"}
    BY <1>8 DEF Design, WidenAgainstSliding, FinishSliding, Pass, WidenAgainstOverturning, Widen
  <2>. QED BY <2>1 DEF OverturningStands
<1>. QED BY <1>3, <1>4, <1>5, <1>6, <1>7, <1>8 DEF Next

LEMMA OverturningInvariant ==
    ASSUME OrdinarySites, ThinWalls PROVE Spec => []OverturningStands
<1>1. Init => ThinWall /\ OverturningStands
  BY ThinWallInit DEF Init, OverturningStands
<1>2. OInv /\ OInv' /\ ThinWall /\ OverturningStands /\ [Next]_vars => ThinWall' /\ OverturningStands'
  BY ThinWallStep, OverturningStandsStep DEF OInv, IInv
<1>. QED BY <1>1, <1>2, OInvInvariant, PTL DEF Spec

\* Over all ordinary sites with thin walls the footing written to barrier.csv resists
\* overturning by the factor 1.5 although the third loop has widened and lengthened it at
\* the thickness of the first, and the fourth widened it at the length of the third.
THEOREM OverturningNeverUndone ==
    ASSUME OrdinarySites, ThinWalls PROVE Spec => []OverturningResisted
<1>1. OInv /\ OverturningStands => OverturningResisted
  <2>. SUFFICES ASSUME OInv, OverturningStands, csv # NoFile
                PROVE  ~OverturningFails(constants, csv)
    BY DEF OverturningResisted
  <2>1. pc = "written" /\ csv = barrier
    BY DEF OInv, IInv, History
  <2>. QED BY <2>1 DEF OverturningStands
<1>. QED BY <1>1, OInvInvariant, OverturningInvariant, PTL

LEMMA SmallSquare == ASSUME NEW H \in 1 .. 11 PROVE Sq(H) = H * H
<1>1. H = 1 \/ H = 2 \/ H = 3 \/ H = 4 \/ H = 5 \/ H = 6 \/ H = 7 \/ H = 8 \/ H = 9 \/ H = 10 \/ H = 11
  OBVIOUS
<1>. QED BY <1>1 DEF Sq, Int8

LEMMA TrueMoment ==
    ASSUME NEW b \in BarrierType, b.height <= 11
    PROVE  TrueMov(b) = Mov(b)
<1>1. b.height \in 1 .. 11 /\ b.span_length \in Int /\ b.wall_t \in Int /\ b.base_thickness \in Int
  BY DEF BarrierType
<1>. DEFINE H == b.height
            l == tst(b.span_length, b.wall_t)
            push == (l * spec_water * H * H) \div 4
<1>2. l \in Int
  BY <1>1 DEF tst, S
<1>3. Sq(H) = H * H
  BY <1>1, SmallSquare
<1>. HIDE DEF l
<1>4. Fst(b) = (l * spec_water * (H * H)) \div 4
  BY <1>3 DEF Fst, F_sta, l
<1>5. l * spec_water * (H * H) = l * spec_water * H * H
  BY <1>1, <1>2 DEF spec_water
<1>6. push = Fst(b) /\ push \in Int
  BY <1>1, <1>2, <1>4, <1>5 DEF spec_water
<1>7. push - Fst(b) = 0
  BY <1>6
<1>8. M_sta(0, H, b.base_thickness) = 0
  <2>1. (H * S + b.base_thickness) \div 3 \in Int
    BY <1>1 DEF S
  <2>. DEFINE y == (H * S + b.base_thickness) \div 3
  <2>2. y \in Int
    BY <2>1
  <2>. HIDE DEF y
  <2>3. Mul(0, y) = 0
    BY <2>2 DEF Mul, S
  <2>. QED BY <2>3 DEF M_sta, y
<1>9. Mov(b) \in Int
  BY <1>1, OverturningMomentInt DEF BarrierType
<1>10. TrueMov(b) = Mov(b) + M_sta(push - Fst(b), H, b.base_thickness)
  BY DEF TrueMov, l
<1>. HIDE DEF push
<1>. QED BY <1>7, <1>8, <1>9, <1>10

\* Up to eleven feet the Int8 square is the square, so that the footing written resists
\* the true load with the factor 1.5 as well: the wrapped load of the taller barriers is
\* the only way to one that falls short of it.
THEOREM TrueLoadUpToEleven ==
    ASSUME OrdinarySites, ThinWalls
    PROVE  Spec => [](csv # NoFile /\ barrier.height <= 11 =>
                         ~BelowThreeHalves(Mres(constants, csv), TrueMov(csv)))
<1>. DEFINE Resisted == csv # NoFile /\ barrier.height <= 11 =>
                           ~BelowThreeHalves(Mres(constants, csv), TrueMov(csv))
<1>1. OInv /\ OverturningStands => Resisted
  <2>. SUFFICES ASSUME OInv, OverturningStands, csv # NoFile, barrier.height <= 11
                PROVE  ~BelowThreeHalves(Mres(constants, csv), TrueMov(csv))
    OBVIOUS
  <2>1. pc = "written" /\ csv = barrier /\ barrier \in BarrierType
    BY DEF OInv, IInv, History, TypeOK
  <2>2. TrueMov(csv) = Mov(csv)
    BY <2>1, TrueMoment
  <2>3. ~OverturningFails(constants, csv)
    BY <2>1 DEF OverturningStands
  <2>. QED BY <2>2, <2>3 DEF OverturningFails
<1>. QED BY <1>1, OInvInvariant, OverturningInvariant, PTL

----------------------------------------------------------------------------
(***************************************************************************)
(* The pressure under the edges of the base.                               *)
(***************************************************************************)

LEMMA QuotNat == ASSUME NEW a \in Nat, NEW b \in Nat PROVE Quot(a, b) \in Nat
<1>1. CASE b = 0
  BY <1>1 DEF Quot, Inf
<1>2. CASE b > 0
  <2>. DEFINE n == LongDiv(a, b)
  <2>1. n \in Int /\ 1000 * a < (n + 1) * b
    BY <1>2, LongDivides
  <2>2. Quot(a, b) = n
    BY <1>2 DEF Quot
  <2>. HIDE DEF n
  <2>3. ASSUME n + 1 <= 0 PROVE FALSE
    <3>1. n + 1 \in Int
      BY <2>1
    <3>2. (n + 1) * b <= 0 * b
      BY <2>3, <3>1, TimesGrows
    <3>3. (n + 1) * b \in Int
      BY <2>1
    <3>. QED BY <2>1, <3>2, <3>3
  <2>. QED BY <2>1, <2>2, <2>3
<1>. QED BY <1>1, <1>2

\* The pressure the settlement loop compares, the mean and its share of the tilt.
LEMMA PressureIs ==
    ASSUME NEW m \in Int, NEW q \in Int
    PROVE  Mul(m, S + q) = m + Mul(m, q)
<1>. DEFINE p == m * q
<1>1. p \in Int
  OBVIOUS
<1>2. m * (1000 + q) = 1000 * m + p
  OBVIOUS
<1>3. Mul(m, 1000 + q) = (m * (1000 + q)) \div 1000 /\ Mul(m, q) = p \div 1000
  BY MulExact DEF S
<1>. HIDE DEF p
<1>4. (1000 * m + p) \div 1000 = m + p \div 1000
  BY <1>1
<1>. QED BY <1>2, <1>3, <1>4 DEF S

\* Where the load lies on the toe side of the middle, by no more than k, neither edge
\* presses harder than the loop has computed from k.
LEMMA EdgePressure ==
    ASSUME NEW c \in ConstantsType, NEW b \in BarrierType, NEW e \in Int,
           fvertical(c, b) \in Nat, FreshEccentricity(c, b) >= 0,
           FreshEccentricity(c, b) <= e, ~OverPressed(c, b, e)
    PROVE  qmax(c, b) <= c.Sb * S
<1>. DEFINE fresh == FreshEccentricity(c, b)
            fv    == fvertical(c, b)
            area  == Mul(b.base_width, b.base_length)
            W     == b.base_width
            mean  == Quot(fv, area)
            q     == Quot(6 * fresh, W)
            r     == Quot(6 * e, W)
            tilt  == Mul(mean, q)
<1>1. W \in Nat /\ b.base_length \in Nat /\ c.Sb * S \in Int
  BY DEF BarrierType, ConstantsType, S
<1>2. area \in Nat
  BY <1>1, MulNat
<1>3. fresh \in Int /\ fresh >= 0 /\ fresh <= e
  BY FreshEccentricityInt
<1>4. qmax(c, b) = mean + (IF tilt < 0 THEN -tilt ELSE tilt)
  BY DEF qmax
<1>5. Mul(mean, S + r) <= c.Sb * S \/ ~(Mul(mean, S + r) \in Int)
  <2>1. soil_pressure(c, b, e) = Mul(mean, S + r)
    BY DEF soil_pressure, soil_p
  <2>. DEFINE p == Mul(mean, S + r)
  <2>2. ~(p > c.Sb * S)
    BY <2>1 DEF OverPressed
  <2>. HIDE DEF p
  <2>3. p \in Int => p <= c.Sb * S
    BY <1>1, <2>2
  <2>. QED BY <2>3 DEF p
<1>. HIDE DEF fresh, fv, area, W
<1>6. mean \in Nat
  BY <1>2, QuotNat DEF fv
<1>7. q \in Nat /\ r \in Nat /\ q <= r
  <2>. DEFINE x == 6 * fresh
              y == 6 * e
  <2>1. x \in Nat /\ y \in Nat /\ x <= y
    BY <1>3
  <2>. HIDE DEF x, y
  <2>2. Quot(x, W) \in Nat /\ Quot(y, W) \in Nat
    BY <1>1, <2>1, QuotNat
  <2>3. Quot(x, W) <= Quot(y, W)
    BY <1>1, <2>1, QuotGrows
  <2>. QED BY <2>2, <2>3 DEF x, y
<1>. HIDE DEF mean, q, r
<1>8. tilt \in Nat
  BY ONLY <1>6, <1>7, MulNat
<1>9. Mul(mean, r) \in Nat
  BY ONLY <1>6, <1>7, MulNat
<1>10. tilt <= Mul(mean, r)
  BY ONLY <1>6, <1>7, mean <= mean, MulBothGrow
<1>11. Mul(mean, S + r) = mean + Mul(mean, r)
  BY ONLY <1>6, <1>7, PressureIs
<1>. HIDE DEF tilt
<1>. DEFINE u == Mul(mean, r)
<1>. HIDE DEF u
<1>12. u \in Nat /\ tilt <= u /\ Mul(mean, S + r) = mean + u
  BY <1>9, <1>10, <1>11 DEF u
<1>. QED BY <1>1, <1>4, <1>5, <1>6, <1>8, <1>12

\* After the sliding loop no dimension is less than half a foot wide, two tenths long and
\* 225 thousandths thick.
LEMMA Sizes ==
    ASSUME TypeOK, Proportions, History, pc \notin {"design", "sliding"}
    PROVE  /\ barrier.base_width >= 500 /\ barrier.base_length >= 200
           /\ barrier.base_thickness >= 225
<1>. DEFINE cut == IF pc \in {"settlement", "written"} THEN passedAt["eccentricity"] ELSE coeff
<1>1. barrier \in BarrierType /\ coeff \in Nat /\ coeff >= 50
  BY MaxCoeffAssumption DEF TypeOK
<1>2. passedAt["sliding"] \in Nat /\ passedAt["sliding"] >= 50
  <2>1. "sliding" \in Checks \ Pending[pc]
    BY DEF TypeOK, Checks, Pending
  <2>2. passedAt["sliding"] \in 50 .. coeff
    BY <2>1 DEF History
  <2>. QED BY <1>1, <2>2
<1>3. cut \in Nat /\ cut >= 50
  <2>1. CASE pc \in {"settlement", "written"}
    <3>1. "eccentricity" \in Checks \ Pending[pc]
      BY <2>1 DEF Checks, Pending
    <3>2. passedAt["eccentricity"] \in 50 .. coeff
      BY <3>1 DEF History
    <3>. QED BY <1>1, <2>1, <3>2
  <2>. QED BY <1>1, <2>1
<1>4. /\ barrier.base_width = WidthAt(barrier, coeff)
      /\ barrier.base_thickness = base_thick(WidthAt(barrier, passedAt["sliding"]))
      /\ barrier.base_length = base_len(WidthAt(barrier, cut))
  BY DEF Proportions
<1>. HIDE DEF cut
<1>5. barrier.base_thickness >= 225
  BY <1>1, <1>2, <1>4, Shares
<1>6. \A cf \in Nat : cf >= 50 => cf * barrier.height >= 50 /\ cf * barrier.height \in Nat
  <2>. SUFFICES ASSUME NEW cf \in Nat, cf >= 50
                PROVE  cf * barrier.height >= 50 /\ cf * barrier.height \in Nat
    OBVIOUS
  <2>. DEFINE h == barrier.height
  <2>1. h \in Nat /\ 1 <= h
    BY <1>1 DEF BarrierType
  <2>. HIDE DEF h
  <2>2. 1 * cf <= h * cf
    BY <2>1, TimesGrows
  <2>3. h * cf = cf * h /\ cf * h \in Nat
    BY <2>1
  <2>. QED BY <2>2, <2>3 DEF h
<1>7. barrier.base_length >= 200
  <2>1. barrier.base_length = 4 * (cut * barrier.height)
    BY <1>1, <1>3, <1>4, Shares
  <2>. QED BY <1>3, <1>6, <2>1
<1>8. barrier.base_width >= 500
  <2>. DEFINE p == coeff * barrier.height
  <2>1. p \in Nat /\ p >= 50
    BY <1>1, <1>6
  <2>2. WidthAt(barrier, coeff) = 10 * p
    BY <1>1 DEF WidthAt, BarrierType
  <2>. HIDE DEF p
  <2>. QED BY <1>4, <2>1, <2>2
<1>. QED BY <1>5, <1>7, <1>8

\* Such a footing is heavier than the water it displaces.
LEMMA VerticalPositive ==
    ASSUME NEW c \in ConstantsType, NEW b \in BarrierType, Ordinary(c, b),
           b.wall_t <= b.base_width,
           b.base_width >= 500, b.base_length >= 200, b.base_thickness >= 225
    PROVE  fvertical(c, b) > 0
<1>. DEFINE W == b.base_width
            L == b.base_length
            T == b.base_thickness
            m == Mul(L, W)
            n == Mul(m, T)
            sp == c.spec_base - spec_water
            base  == weight(sp, L, W, T)
            water == weight(spec_water, heel(W, b.wall_t), L, b.height * S)
<1>1. /\ W \in Nat /\ L \in Nat /\ T \in Nat /\ b.wall_t \in Nat /\ b.height * S \in Nat
      /\ sp \in Nat /\ sp >= 1 /\ spec_water \in Nat /\ b.wall_t <= W /\ W <= W
  BY DEF BarrierType, ConstantsType, Ordinary, spec_water, S
<1>2. heel(W, b.wall_t) \in Nat
  BY <1>1, HeelGrows
<1>3. water \in Nat
  BY <1>1, <1>2, WeightNat
<1>4. fvertical(c, b) = base + water
  BY VerticalIs
<1>5. base = sp * n
  BY DEF weight
<1>. HIDE DEF W, L, T, sp, water, base
<1>6. m \in Nat /\ m >= 100
  <2>1. Mul(200, 500) <= m
    BY <1>1, MulBothGrow DEF W, L
  <2>2. Mul(200, 500) = 100
    BY DEF Mul, S
  <2>3. m \in Nat
    BY ONLY <1>1, MulNat
  <2>. QED BY <2>1, <2>2, <2>3
<1>. HIDE DEF m
<1>7. n \in Nat /\ n >= 22
  <2>1. Mul(100, 225) <= n
    BY <1>1, <1>6, MulBothGrow DEF T
  <2>2. Mul(100, 225) = 22
    BY DEF Mul, S
  <2>3. n \in Nat
    BY ONLY <1>1, <1>6, MulNat
  <2>. QED BY <2>1, <2>2, <2>3
<1>. HIDE DEF n
<1>8. sp * n \in Nat /\ sp * n >= 22
  <2>1. 1 * n <= sp * n
    BY <1>1, <1>7, TimesGrows
  <2>. QED BY <1>1, <1>7, <2>1
<1>. QED BY <1>3, <1>4, <1>5, <1>8

\* The vertical force is the base less the water it displaces, and the water on the heel.
LEMMA VerticalParts ==
    ASSUME NEW c \in ConstantsType, NEW b \in BarrierType, Ordinary(c, b),
           b.wall_t <= b.base_width
    PROVE  fvertical(c, b) =
               (c.spec_base - spec_water)
                   * Mul(Mul(b.base_width, b.base_length), b.base_thickness)
               + 64 * (Mul(heel(b.base_width, b.wall_t), b.base_length) * b.height)
<1>. DEFINE W  == b.base_width
            L  == b.base_length
            T  == b.base_thickness
            H  == b.height
            hl == heel(W, b.wall_t)
            sp == c.spec_base - spec_water
            A  == Mul(W, L)
            q  == Mul(A, T)
            m  == Mul(hl, L)
            fv == fvertical(c, b)
<1>1. /\ W \in Nat /\ L \in Nat /\ T \in Nat /\ H \in Nat /\ sp \in Nat
      /\ b.wall_t \in Nat /\ b.wall_t <= W
  BY DEF BarrierType, ConstantsType, Ordinary, spec_water
<1>2. fv = sp * q + 64 * (m * H)
  <2>1. fv = weight(sp, L, W, T) + weight(spec_water, hl, L, H * S)
    BY VerticalIs
  <2>2. weight(sp, L, W, T) = sp * q
    <3>1. Mul(L, W) = A
      BY <1>1, MulCommutes
    <3>. QED BY <3>1 DEF weight
  <2>3. weight(spec_water, hl, L, H * S) = 64 * (m * H)
    <3>1. hl \in Nat
      BY <1>1 DEF heel
    <3>. HIDE DEF hl
    <3>2. m \in Nat
      BY ONLY <1>1, <3>1, MulNat
    <3>. HIDE DEF m
    <3>3. Mul(m, H * 1000) = (m * (H * 1000)) \div 1000
      <4>. DEFINE mills == H * 1000
      <4>1. m \in Int /\ mills \in Int
        BY <1>1, <3>2
      <4>. HIDE DEF mills
      <4>2. Mul(m, mills) = (m * mills) \div 1000
        BY ONLY <4>1, MulExact DEF S
      <4>. QED BY <4>2 DEF mills
    <3>. DEFINE p == m * H
    <3>4. p \in Nat /\ m * (H * 1000) = 1000 * p
      BY <1>1, <3>2
    <3>. HIDE DEF p
    <3>5. (1000 * p) \div 1000 = p
      BY <3>4
    <3>6. Mul(m, H * S) = p
      BY <3>3, <3>4, <3>5 DEF S
    <3>. QED BY <3>6 DEF weight, spec_water, m, p
  <2>. QED BY <2>1, <2>2, <2>3
<1>. QED BY <1>2

\* The soil carries on average no more than PressureFloor and one pound per square foot.
LEMMA MeanPressure ==
    ASSUME NEW c \in ConstantsType, NEW b \in BarrierType, Ordinary(c, b),
           b.wall_t <= b.base_width, b.base_width >= 500 * b.height, b.base_length >= 200
    PROVE  /\ Quot(fvertical(c, b), Mul(b.base_width, b.base_length)) \in Int
           /\ Quot(fvertical(c, b), Mul(b.base_width, b.base_length)) <= PressureFloor(c, b) + S
           /\ PressureFloor(c, b) \in Nat
<1>. DEFINE W  == b.base_width
            L  == b.base_length
            T  == b.base_thickness
            H  == b.height
            hl == heel(W, b.wall_t)
            sp == c.spec_base - spec_water
            A  == Mul(W, L)
            q  == Mul(A, T)
            m  == Mul(hl, L)
            fv == fvertical(c, b)
            n  == Quot(fv, A)
            PF == PressureFloor(c, b)
<1>1. /\ W \in Nat /\ L \in Nat /\ T \in Nat /\ H \in Nat /\ H >= 1 /\ sp \in Nat
      /\ b.wall_t \in Nat /\ b.wall_t <= W /\ W >= 500 * H /\ L >= 200
  BY DEF BarrierType, ConstantsType, Ordinary, spec_water
<1>2. fv = sp * q + 64 * (m * H)
  BY VerticalParts
<1>3. PF = sp * T + (128000 * H) \div 3
  <2>1. 2 * spec_water * H * S = 128000 * H
    BY <1>1 DEF spec_water, S
  <2>. QED BY <2>1 DEF PressureFloor
<1>4. hl \in Nat /\ 3 * hl <= 2 * W
  BY <1>1 DEF heel
<1>. HIDE DEF W, L, T, H, hl, sp, fv, PF
<1>5. A \in Nat /\ A >= 100 * H /\ W * L <= 1000 * A + 999
  <2>0. A \in Nat
    BY ONLY <1>1, MulNat
  <2>1. W * L <= 1000 * A + 999
    BY ONLY <1>1, MulBounds
  <2>2. Mul(500 * H, 200) <= A
    <3>1. 500 * H \in Nat /\ 200 \in Nat
      BY <1>1
    <3>. QED BY ONLY <1>1, <3>1, MulBothGrow
  <2>3. Mul(500 * H, 200) = (500 * H * 200) \div 1000
    <3>1. 500 * H \in Int /\ 200 \in Int
      BY <1>1
    <3>. QED BY ONLY <3>1, MulExact DEF S
  <2>4. (500 * H * 200) \div 1000 = 100 * H
    BY <1>1
  <2>. QED BY <2>0, <2>1, <2>2, <2>3, <2>4
<1>6. m \in Nat /\ 3 * m <= 2 * A + 1
  <2>0. m \in Nat
    BY ONLY <1>1, <1>4, MulNat
  <2>1. 1000 * m <= hl * L
    BY ONLY <1>1, <1>4, MulBounds
  <2>. DEFINE x == hl * L
              y == W * L
  <2>2. x \in Nat /\ y \in Nat /\ 3 * x <= 2 * y
    <3>1. 3 * hl \in Int /\ 2 * W \in Int
      BY <1>1, <1>4
    <3>2. (3 * hl) * L <= (2 * W) * L
      BY <1>1, <1>4, <3>1, TimesGrows
    <3>3. (3 * hl) * L = 3 * x /\ (2 * W) * L = 2 * y /\ x \in Nat /\ y \in Nat
      BY <1>1, <1>4
    <3>. QED BY <3>2, <3>3
  <2>. HIDE DEF x
  <2>3. y <= 1000 * A + 999
    BY <1>5
  <2>. HIDE DEF y, m, A
  <2>. QED BY <1>5, <2>0, <2>1, <2>2, <2>3 DEF x
<1>. HIDE DEF A, m
<1>7. q \in Nat /\ 1000 * q <= A * T
  <2>1. q \in Nat
    BY ONLY <1>1, <1>5, MulNat
  <2>2. 1000 * q <= A * T
    BY ONLY <1>1, <1>5, MulBounds
  <2>. QED BY <2>1, <2>2
<1>. HIDE DEF q
<1>8. fv \in Nat
  <2>1. sp * q \in Nat /\ m * H \in Nat
    BY <1>1, <1>6, <1>7
  <2>. QED BY <1>2, <2>1
<1>9. PF \in Nat
  <2>1. sp * T \in Nat /\ (128000 * H) \div 3 \in Nat
    BY <1>1
  <2>. QED BY <1>3, <2>1
<1>10. A > 0
  BY <1>1, <1>5
<1>11. n \in Int /\ n * A <= 1000 * fv
  <2>1. n = LongDiv(fv, A)
    BY <1>5, <1>10 DEF Quot
  <2>. QED BY ONLY <1>5, <1>8, <1>10, <2>1, LongDivides
<1>. HIDE DEF n
<1>12. n <= PF + 1000
  <2>. SUFFICES ASSUME PF + 1001 <= n PROVE FALSE
    BY <1>9, <1>11
  <2>. DEFINE x == sp * (A * T)
              y == H * A
              z == m * H
              w == sp * q
  <2>1. x \in Nat /\ y \in Nat /\ z \in Nat /\ w \in Nat
    BY <1>1, <1>5, <1>6, <1>7
  <2>2. 1000 * w <= x
    <3>1. A * T \in Int /\ 1000 * q \in Int
      BY <1>1, <1>5, <1>7
    <3>2. (1000 * q) * sp <= (A * T) * sp
      BY <1>1, <1>7, <3>1, TimesGrows
    <3>3. (1000 * q) * sp = 1000 * w /\ (A * T) * sp = x
      BY <1>1, <1>5, <1>7
    <3>. QED BY <3>2, <3>3
  <2>3. 3 * z <= 2 * y + H
    <3>1. 3 * m \in Int /\ 2 * A + 1 \in Int
      BY <1>5, <1>6
    <3>2. (3 * m) * H <= (2 * A + 1) * H
      BY <1>1, <1>6, <3>1, TimesGrows
    <3>3. (3 * m) * H = 3 * z /\ (2 * A + 1) * H = 2 * y + H
      BY <1>1, <1>5, <1>6
    <3>. QED BY <3>2, <3>3
  <2>4. 3 * (PF * A) + 2 * A >= 3 * x + 128000 * y
    <3>. DEFINE g == (128000 * H) \div 3
                s == sp * T
    <3>1. g \in Nat /\ 3 * g + 2 >= 128000 * H /\ s \in Nat
      BY <1>1
    <3>2. PF = s + g
      BY <1>3
    <3>3. s * A = x
      BY <1>1, <1>5
    <3>. HIDE DEF g, s
    <3>4. 128000 * H \in Int /\ 3 * g + 2 \in Int
      BY <1>1, <3>1
    <3>5. (128000 * H) * A <= (3 * g + 2) * A
      BY <1>5, <3>1, <3>4, TimesGrows
    <3>6. (128000 * H) * A = 128000 * y /\ (3 * g + 2) * A = 3 * (g * A) + 2 * A
      BY <1>1, <1>5, <3>1
    <3>7. PF * A = s * A + g * A /\ s * A \in Nat /\ g * A \in Nat
      BY <1>5, <3>1, <3>2
    <3>. HIDE DEF x, y
    <3>. QED BY <1>5, <2>1, <3>3, <3>5, <3>6, <3>7
  <2>5. PF * A + 1001 * A <= n * A
    <3>1. PF + 1001 \in Int
      BY <1>9
    <3>2. (PF + 1001) * A <= n * A
      BY <1>5, <1>11, <3>1, TimesGrows
    <3>3. (PF + 1001) * A = PF * A + 1001 * A
      BY <1>5, <1>9
    <3>. QED BY <3>2, <3>3
  <2>6. fv = w + 64 * z
    BY <1>2
  <2>7. PF * A \in Nat /\ n * A \in Int
    BY <1>5, <1>9, <1>11
  <2>. DEFINE u == PF * A
              v == n * A
  <2>8. /\ u \in Nat /\ v \in Int /\ 3 * u + 2 * A >= 3 * x + 128000 * y
        /\ u + 1001 * A <= v /\ v <= 1000 * fv
    BY <1>11, <2>4, <2>5, <2>7
  <2>. HIDE DEF x, y, z, w, u, v
  <2>. QED BY <1>1, <1>5, <1>8, <2>1, <2>2, <2>3, <2>6, <2>8
<1>. QED BY <1>9, <1>11, <1>12 DEF S, n, fv, A, W, L, PF

LEMMA QuotAtMostOne ==
    ASSUME NEW a \in Int, NEW b \in Nat, b > 0, a <= b
    PROVE  Quot(a, b) \in Int /\ Quot(a, b) <= 1000
<1>. DEFINE n == LongDiv(a, b)
<1>1. n \in Int /\ n * b <= 1000 * a
  BY LongDivides
<1>2. Quot(a, b) = n
  BY DEF Quot
<1>. HIDE DEF n
<1>3. ASSUME 1001 <= n PROVE FALSE
  <2>1. 1001 * b <= n * b
    BY <1>1, <1>3, TimesGrows
  <2>2. n * b \in Int
    BY <1>1
  <2>. QED BY <1>1, <2>1, <2>2
<1>. QED BY <1>1, <1>2, <1>3

\* A soil that bears twice PressureFloor and one pound per square foot: with the load in
\* the middle third no edge presses more than twice the mean.
FirmSoil(c, b) == c.Sb * S >= 2 * (PressureFloor(c, b) + S)

LEMMA FirmSoilBears ==
    ASSUME NEW c \in ConstantsType, NEW b \in BarrierType, NEW e \in Int, Ordinary(c, b),
           b.wall_t <= b.base_width, b.base_width >= 500 * b.height, b.base_length >= 200,
           ~OffMiddleThird(e, b), FirmSoil(c, b)
    PROVE  ~OverPressed(c, b, e)
<1>. DEFINE mean == Quot(fvertical(c, b), Mul(b.base_width, b.base_length))
            r    == Quot(6 * e, b.base_width)
            PF   == PressureFloor(c, b)
            Sb   == c.Sb * S
            p    == Mul(mean, S + r)
<1>1. b.base_width \in Nat /\ b.base_width > 0 /\ b.base_length \in Nat /\ Sb \in Nat
  BY DEF BarrierType, ConstantsType, S
<1>2. mean \in Int /\ mean <= PF + S /\ PF \in Nat
  BY MeanPressure
<1>3. mean \in Nat
  <2>1. fvertical(c, b) \in Nat
    BY OrdinaryHeavy, VerticalNat
  <2>2. Mul(b.base_width, b.base_length) \in Nat
    BY <1>1, MulNat
  <2>. QED BY <2>1, <2>2, QuotNat
<1>4. r \in Int /\ r <= 1000
  <2>. DEFINE x == 6 * e
  <2>1. x \in Int /\ x <= b.base_width
    BY <1>1 DEF OffMiddleThird
  <2>. HIDE DEF x
  <2>2. Quot(x, b.base_width) \in Int /\ Quot(x, b.base_width) <= 1000
    BY <1>1, <2>1, QuotAtMostOne
  <2>. QED BY <2>2 DEF x
<1>5. soil_pressure(c, b, e) = p
  BY DEF soil_pressure, soil_p
<1>6. Sb >= 2 * (PF + 1000)
  BY DEF FirmSoil, S
<1>. HIDE DEF mean, r, PF, Sb
<1>7. p \in Int /\ p <= 2 * mean
  <2>. DEFINE s == S + r
  <2>1. s \in Int /\ s <= 2000 /\ mean \in Int /\ 2000 \in Int
    BY <1>2, <1>4 DEF S
  <2>2. p = Mul(mean, s)
    OBVIOUS
  <2>. HIDE DEF s, p
  <2>3. Mul(mean, s) = Mul(s, mean)
    BY ONLY <2>1, MulCommutes
  <2>4. Mul(s, mean) <= Mul(2000, mean)
    BY ONLY <1>3, <2>1, MulGrows
  <2>5. Mul(2000, mean) = (2000 * mean) \div 1000
    BY ONLY <2>1, MulExact DEF S
  <2>6. (2000 * mean) \div 1000 = 2 * mean
    BY <1>3
  <2>7. Mul(mean, s) \in Int
    BY ONLY <2>1, MulInt
  <2>. QED BY <2>2, <2>3, <2>4, <2>5, <2>6, <2>7
<1>. HIDE DEF p
<1>8. ~(p > Sb)
  BY <1>1, <1>2, <1>6, <1>7 DEF S
<1>. QED BY <1>5, <1>8 DEF OverPressed, Sb

Firm == FirmSoil(constants, barrier)

FirmStands == Firm => Unsunk

LEMMA FirmStandsStep ==
    ASSUME OInv, OInv', FirmStands, [Next]_vars
    PROVE  FirmStands'
<1>1. /\ barrier \in BarrierType /\ barrier' \in BarrierType /\ constants \in ConstantsType
      /\ coeff \in Nat /\ coeff' \in Nat /\ passedAt \in [Checks -> Nat]
  BY MaxCoeffAssumption DEF OInv, IInv, TypeOK
<1>2. constants' = constants
  BY SiteStep DEF OInv, IInv
<1>3. CASE FinishEccentricity
  <2>1. passedAt'["eccentricity"] = coeff /\ coeff' = coeff
    BY <1>1, <1>3 DEF FinishEccentricity, Pass, Checks
  <2>. QED BY <2>1 DEF FirmStands, Unsunk
<1>4. CASE WidenAgainstSettlement
  <2>1. pc = "settlement" /\ OverPressed(constants, barrier, k) /\ barrier' = Widened(barrier, coeff')
    BY <1>4 DEF WidenAgainstSettlement
  <2>2. ASSUME Firm' PROVE Firm
    <3>1. barrier'.base_thickness = barrier.base_thickness /\ barrier'.height = barrier.height
      BY <1>1, <2>1, WidenedFields DEF Site
    <3>. QED BY <1>2, <2>2, <3>1 DEF Firm, FirmSoil, PressureFloor
  <2>3. ASSUME Firm PROVE FALSE
    <3>1. Unsunk
      BY <2>3 DEF FirmStands
    <3>2. ~OffMiddleThird(k, barrier)
      BY <2>1, <3>1 DEF OInv, IInv, UnwidenedChecksStand, Unsunk
    <3>3. barrier.wall_t <= barrier.base_width
      BY WallFits DEF OInv, IInv
    <3>4. barrier.base_length >= 200
      BY <2>1, Sizes DEF OInv, IInv
    <3>5. barrier.base_width >= 500 * barrier.height
      <4>1. WidthAt(barrier, 50) <= WidthAt(barrier, coeff)
        BY <1>1, WidthMonotone DEF OInv, IInv, TypeOK
      <4>2. WidthAt(barrier, 50) = 500 * barrier.height
        BY <1>1 DEF WidthAt, BarrierType
      <4>. QED BY <4>1, <4>2 DEF OInv, IInv, Proportions
    <3>6. ~OverPressed(constants, barrier, k)
      BY <1>1, <2>3, <3>2, <3>3, <3>4, <3>5, FirmSoilBears DEF OInv, IInv, TypeOK, Sited, Firm
    <3>. QED BY <2>1, <3>6
  <2>. QED BY <2>2, <2>3 DEF FirmStands
<1>5. CASE FinishSettlement
  <2>1. passedAt'["eccentricity"] = passedAt["eccentricity"] /\ coeff' = coeff
    BY <1>1, <1>5 DEF FinishSettlement, Pass, Checks
  <2>2. barrier' = barrier /\ pc = "settlement"
    BY <1>5 DEF FinishSettlement
  <2>. QED BY <1>2, <2>1, <2>2 DEF FirmStands, Firm, Unsunk
<1>6. CASE Written \/ UNCHANGED vars
  BY <1>6 DEF Written, vars, FirmStands, Firm, Unsunk
<1>7. CASE Design \/ WidenAgainstSliding \/ FinishSliding \/ WidenAgainstOverturning
            \/ FinishOverturning \/ WidenAgainstEccentricity
  <2>1. pc' \in {"sliding", "overturning", "eccentricity"}
    BY <1>7 DEF Design, WidenAgainstSliding, FinishSliding, Pass, WidenAgainstOverturning,
         FinishOverturning, WidenAgainstEccentricity, Widen
  <2>. QED BY <2>1 DEF FirmStands, Unsunk
<1>. QED BY <1>3, <1>4, <1>5, <1>6, <1>7 DEF Next

\* Over all ordinary sites the settlement loop never widens a footing on a soil that bears
\* twice PressureFloor and a pound per square foot: what the eccentricity loop leaves
\* already presses no harder.
THEOREM FirmSoilNeverSinks == ASSUME OrdinarySites PROVE Spec => [](Firm => Unsunk)
<1>1. Init => FirmStands
  BY DEF Init, FirmStands, Unsunk
<1>2. OInv /\ OInv' /\ FirmStands /\ [Next]_vars => FirmStands'
  BY FirmStandsStep
<1>3. FirmStands <=> (Firm => Unsunk)
  BY DEF FirmStands
<1>. QED BY <1>1, <1>2, <1>3, OInvInvariant, PTL DEF Spec

----------------------------------------------------------------------------
(***************************************************************************)
(* The settlement loop: what widening adds to the moments carries the load *)
(* no further from the middle of the base than it was, for all that the    *)
(* loop never looks at it again.                                           *)
(***************************************************************************)

\* The widths, lengths and heights the settlement loop widens at, three feet high or more:
\* what the parts of the slack are measured by.
LEMMA Scales ==
    ASSUME NEW H \in Nat, H >= 3, NEW W \in Nat, W >= 500 * H, NEW L \in Nat, L >= 200 * H,
           NEW P, P = H * L, NEW X, X = P * W
    PROVE  /\ P \in Nat /\ X \in Nat
           /\ 1500 * P <= X /\ 900000 * H <= X /\ 1800 * W <= X /\ 3 * L <= P
           /\ 500 * (H * P) <= X /\ 3 * X <= H * X /\ X >= 2700000
           /\ 3 * (L * W) <= X
<1>1. W >= 1500 /\ L >= 600
  OBVIOUS
<1>2. P \in Nat /\ 600 * H <= P /\ 3 * L <= P
  <2>1. 600 * H <= L * H
    BY <1>1, TimesGrows
  <2>2. 3 * L <= H * L
    BY TimesGrows
  <2>3. L * H = H * L /\ H * L \in Nat
    OBVIOUS
  <2>. QED BY <2>1, <2>2, <2>3
<1>3. X \in Nat /\ 1500 * P <= X /\ 500 * (H * P) <= X /\ 1800 * W <= X
  <2>1. 1500 * P <= W * P
    BY <1>1, <1>2, TimesGrows
  <2>. DEFINE h == 500 * H
  <2>2. h \in Int /\ h <= W
    OBVIOUS
  <2>. HIDE DEF h
  <2>3. h * P <= W * P
    BY <1>2, <2>2, TimesGrows
  <2>4. h * P = 500 * (H * P)
    BY <1>2 DEF h
  <2>5. 1800 <= P
    BY <1>2
  <2>6. 1800 * W <= P * W
    BY <1>2, <2>5, TimesGrows
  <2>7. W * P = X /\ P * W = X /\ X \in Nat
    BY <1>2
  <2>. QED BY <2>1, <2>3, <2>4, <2>6, <2>7
<1>4. 3 * X <= H * X
  BY <1>3, TimesGrows
<1>5. 3 * (L * W) <= X
  <2>. DEFINE l == 3 * L
  <2>1. l \in Int /\ l <= P
    BY <1>2
  <2>. HIDE DEF l
  <2>2. l * W <= P * W
    BY <1>2, <2>1, TimesGrows
  <2>3. l * W = 3 * (L * W)
    BY DEF l
  <2>. QED BY <2>2, <2>3
<1>6. 900000 * H <= X
  BY <1>2, <1>3
<1>. QED BY <1>2, <1>3, <1>4, <1>5, <1>6

\* Twice the distance of the water on the heel from the middle of the base.
OffCentre(W, w) == W - 2 * (heel(W, w) \div 2)

LEMMA OffCentreGrows ==
    ASSUME NEW H \in Nat, H >= 3, NEW W \in Nat, W >= 500 * H, NEW V, V = W + 50 * H,
           NEW w \in Nat, 4 * w <= 500 * H
    PROVE  /\ OffCentre(W, w) \in Nat /\ OffCentre(V, w) \in Nat
           /\ OffCentre(W, w) + 16 * H <= OffCentre(V, w)
           /\ V - heel(V, w) <= OffCentre(V, w) /\ OffCentre(V, w) <= W
BY DEF heel, OffCentre

\* What the water on the heel gains over what half the width would.
WaterGained(W, V, w, X, m, n) ==
    21 * X <= 1000 * (n * OffCentre(V, w) - m * OffCentre(W, w))

LEMMA WaterOffCentre ==
    ASSUME NEW H \in Nat, H >= 3, NEW W \in Nat, W >= 500 * H, NEW V, V = W + 50 * H,
           NEW L \in Nat, L >= 200 * H, NEW w \in Nat, 4 * w <= 500 * H,
           NEW P, P = H * L, NEW X, X = P * W,
           NEW m, m = Mul(heel(W, w), L), NEW n, n = Mul(heel(V, w), L)
    PROVE  m \in Nat /\ n \in Nat /\ WaterGained(W, V, w, X, m, n)
<1>. DEFINE hl == heel(W, w)
            hv == heel(V, w)
            a  == OffCentre(W, w)
            c  == OffCentre(V, w)
            d  == n - m
            s  == c - a
<1>1. /\ hl \in Nat /\ hv \in Nat /\ hl + 33 * H <= hv /\ hv <= hl + 34 * H /\ 3 * hl <= 2 * W
  <2>1. heel(W, w) \in Nat /\ heel(V, w) \in Nat /\ 3 * heel(W, w) <= 2 * W
    BY DEF heel
  <2>2. heel(W, w) + 33 * H <= heel(V, w) /\ heel(V, w) <= heel(W, w) + 34 * H
    BY DEF heel
  <2>. QED BY <2>1, <2>2
<1>2. a \in Nat /\ c \in Nat /\ a + 16 * H <= c /\ V - hv <= c /\ c <= W /\ V \in Nat
  BY OffCentreGrows
<1>3. P \in Nat /\ X \in Nat /\ 900000 * H <= X /\ 1800 * W <= X
  BY Scales
<1>. HIDE DEF hl, hv, a, c
<1>4. /\ m \in Nat /\ n \in Nat
      /\ 1000 * m <= hl * L /\ hl * L <= 1000 * m + 999
      /\ 1000 * n <= hv * L /\ hv * L <= 1000 * n + 999
  <2>1. m = Mul(hl, L) /\ n = Mul(hv, L)
    BY DEF hl, hv
  <2>2. Mul(hl, L) \in Nat /\ Mul(hv, L) \in Nat
    BY ONLY <1>1, L \in Nat, MulNat
  <2>3. 1000 * Mul(hl, L) <= hl * L /\ hl * L <= 1000 * Mul(hl, L) + 999
    BY ONLY <1>1, L \in Nat, MulBounds
  <2>4. 1000 * Mul(hv, L) <= hv * L /\ hv * L <= 1000 * Mul(hv, L) + 999
    BY ONLY <1>1, L \in Nat, MulBounds
  <2>. QED BY <2>1, <2>2, <2>3, <2>4
<1>5. d \in Int /\ 33 * P <= 1000 * d + 999
  <2>. DEFINE u == hl + 33 * H
  <2>1. u \in Int /\ u <= hv
    BY <1>1
  <2>2. u * L = hl * L + 33 * P
    BY <1>1
  <2>. HIDE DEF u
  <2>3. u * L <= hv * L
    BY <1>1, <2>1, TimesGrows
  <2>4. hl * L \in Nat /\ hv * L \in Nat
    BY <1>1
  <2>. QED BY <1>3, <1>4, <2>2, <2>3, <2>4
<1>6. s \in Int /\ 16 * H <= s
  BY <1>2
<1>7. n * c - m * a = m * s + d * c
  <2>1. n * c = m * c + (n - m) * c
    BY <1>2, <1>4
  <2>2. m * c = m * a + m * (c - a)
    BY <1>2, <1>4
  <2>3. n * c \in Int /\ m * c \in Int /\ m * a \in Int /\ (n - m) * c \in Int /\ m * (c - a) \in Int
    BY <1>2, <1>4
  <2>. QED BY <2>1, <2>2, <2>3
<1>. HIDE DEF d, s
<1>8. 16 * (hl * P) <= 1000 * (m * s) + 15984 * H /\ m * s \in Int /\ hl * P \in Nat
  <2>. DEFINE u == 16 * H
              v == hl * L
              y == 1000 * m + 999
              mH == m * H
              hP == hl * P
  <2>1. u \in Int /\ u <= s /\ v \in Int /\ y \in Int /\ v <= y
    BY <1>1, <1>4, <1>6
  <2>2. u * m = 16 * mH /\ v * H = hP /\ y * H = 1000 * mH + 999 * H
    BY <1>1, <1>3, <1>4
  <2>3. mH \in Nat /\ hP \in Nat
    BY <1>1, <1>3, <1>4
  <2>. HIDE DEF u, v, y, mH
  <2>4. u * m <= s * m
    BY <1>4, <1>6, <2>1, TimesGrows
  <2>5. v * H <= y * H
    BY <2>1, TimesGrows
  <2>6. s * m = m * s /\ m * s \in Int
    BY <1>4, <1>6
  <2>. HIDE DEF hP
  <2>7. 16 * hP <= 1000 * (m * s) + 15984 * H
    BY <2>2, <2>3, <2>4, <2>5, <2>6
  <2>. QED BY <2>3, <2>6, <2>7 DEF hP
<1>9. 33 * X <= 1000 * (d * c) + 999 * W + 33 * (hl * P) /\ d * c \in Int
  <2>. DEFINE u == 33 * P
              v == 1000 * d + 999
              y == c + hl
              k1 == 999 * c
  <2>1. u \in Nat /\ v \in Int /\ u <= v /\ y \in Int /\ W <= y
    BY <1>1, <1>2, <1>3, <1>5
  <2>2. c * u = 33 * (c * P) /\ v * c = 1000 * (d * c) + 999 * c /\ y * P = c * P + hl * P
        /\ u * c = c * u
    BY <1>1, <1>2, <1>3, <1>5
  <2>. HIDE DEF u, v, y
  <2>3. u * c <= v * c
    BY <1>2, <2>1, TimesGrows
  <2>4. W * P <= y * P
    BY <1>3, <2>1, TimesGrows
  <2>5. W * P = X /\ c * P \in Int /\ hl * P \in Int /\ d * c \in Int
    BY <1>1, <1>2, <1>3, <1>5
  <2>. QED BY <1>2, <1>3, <2>2, <2>3, <2>4, <2>5
<1>10. 3 * (hl * P) <= 2 * X
  <2>. DEFINE u == 3 * hl
              v == 2 * W
  <2>1. u \in Int /\ v \in Int /\ u <= v /\ u * P = 3 * (hl * P) /\ v * P = 2 * X
    BY <1>1, <1>3
  <2>. HIDE DEF u, v
  <2>2. u * P <= v * P
    BY <1>3, <2>1, TimesGrows
  <2>. QED BY <2>1, <2>2
<1>11. 21 * X <= 1000 * (m * s + d * c)
  <2>. DEFINE u == m * s
              v == d * c
              y == hl * P
  <2>1. /\ u \in Int /\ v \in Int /\ y \in Nat /\ 16 * y <= 1000 * u + 15984 * H
        /\ 33 * X <= 1000 * v + 999 * W + 33 * y /\ 3 * y <= 2 * X
        /\ X \in Nat /\ 900000 * H <= X /\ 1800 * W <= X
    BY <1>3, <1>8, <1>9, <1>10
  <2>. HIDE DEF u, v, y
  <2>2. 21 * X <= 1000 * (u + v)
    BY ONLY <2>1, H \in Nat, W \in Nat
  <2>. QED BY <2>2 DEF u, v
<1>. QED BY <1>4, <1>7, <1>11 DEF WaterGained, a, c

\* What the second lift gains, and a rounding.
SecondSlack(W, V, X, Z, o, O) == 120000 * (V * O - W * o + o) <= 4330 * X + Z

LEMMA LiftTwoSlack ==
    ASSUME NEW H \in Nat, H >= 3, NEW W \in Nat, W >= 500 * H, NEW V, V = W + 50 * H,
           NEW L \in Nat, L >= 200 * H, NEW w \in Nat, 4 * w <= 500 * H, NEW T \in Nat,
           NEW P, P = H * L, NEW X, X = P * W, NEW Z, Z = X * T,
           NEW o, o = Mul(L, toe(W, w) + Mul(w \div 2, T)),
           NEW O, O = Mul(L, toe(V, w) + Mul(w \div 2, T))
    PROVE  o \in Nat /\ O \in Nat /\ SecondSlack(W, V, X, Z, o, O)
<1>. DEFINE t == toe(W, w)
            u == toe(V, w)
            z == w \div 2
            e == Mul(z, T)
            a == t + e
            c == u + e
            d == O - o
<1>1. t \in Nat /\ u \in Nat /\ t <= u /\ 3 * t <= W /\ 3 * u <= V /\ u <= t + 17 * H /\ V \in Nat
  BY DEF toe
<1>2. z \in Nat /\ 2 * z <= 125 * H
  OBVIOUS
<1>3. /\ P \in Nat /\ X \in Nat /\ 1800 * W <= X /\ 3 * L <= P /\ 500 * (H * P) <= X
      /\ 3 * (L * W) <= X
  BY Scales
<1>. HIDE DEF t, u, z
<1>4. e \in Nat /\ 1000 * e <= z * T
  <2>1. e \in Nat
    BY ONLY <1>2, T \in Nat, MulNat
  <2>2. 1000 * Mul(z, T) <= z * T
    BY ONLY <1>2, T \in Nat, MulBounds
  <2>. QED BY <2>1, <2>2
<1>. HIDE DEF e
<1>5. a \in Nat /\ c \in Nat /\ a <= c
  BY <1>1, <1>4
<1>6. /\ o \in Nat /\ O \in Nat
      /\ 1000 * o <= L * a /\ L * a <= 1000 * o + 999 /\ 1000 * O <= L * c
  <2>1. o = Mul(L, a) /\ O = Mul(L, c)
    BY DEF t, u, z, e
  <2>. HIDE DEF a, c
  <2>2. Mul(L, a) \in Nat /\ Mul(L, c) \in Nat
    BY ONLY <1>5, L \in Nat, MulNat
  <2>3. 1000 * Mul(L, a) <= L * a /\ L * a <= 1000 * Mul(L, a) + 999
    BY ONLY <1>5, L \in Nat, MulBounds
  <2>4. 1000 * Mul(L, c) <= L * c
    BY ONLY <1>5, L \in Nat, MulBounds
  <2>. QED BY <2>1, <2>2, <2>3, <2>4
<1>7. 8000 * (P * e) <= Z /\ P * e \in Nat /\ L * e \in Nat /\ 2 * (L * e) <= P * e /\ Z \in Nat
  <2>. DEFINE v == 2000 * e
              y == 250 * H
              HP == H * P
              Pe == P * e
              zT == z * T
              k1 == 2 * z
              k2 == 125 * H
              l2 == 2 * L
              h5 == 500 * HP
  <2>1. zT \in Nat /\ k1 \in Nat /\ k2 \in Nat /\ k1 <= k2 /\ l2 \in Nat /\ l2 <= P
        /\ HP \in Nat /\ h5 \in Nat /\ h5 <= X /\ Pe \in Nat
    BY <1>2, <1>3, <1>4
  <2>2. k1 * T = 2 * zT /\ k2 * T = 125 * (H * T) /\ l2 * e = 2 * (L * e) /\ h5 * T = 500 * (HP * T)
    BY <1>2, <1>3, <1>4
  <2>3. (H * T) * P = HP * T /\ H * T \in Nat /\ HP * T \in Nat /\ L * e \in Nat
    BY <1>3, <1>4
  <2>. HIDE DEF k1, k2, l2, h5
  <2>4. k1 * T <= k2 * T
    BY <2>1, TimesGrows
  <2>5. l2 * e <= P * e
    BY <1>3, <1>4, <2>1, TimesGrows
  <2>6. h5 * T <= X * T
    BY <1>3, <2>1, TimesGrows
  <2>. DEFINE x1 == 2000 * e
              x2 == 125 * (H * T)
  <2>7. x1 \in Nat /\ x2 \in Nat /\ x1 <= x2
    <3>. HIDE DEF zT
    <3>1. 1000 * e <= zT
      BY <1>4 DEF zT
    <3>. QED BY <1>4, <2>1, <2>2, <2>3, <2>4, <3>1
  <2>8. x1 * P = 2000 * Pe /\ x2 * P = 125 * (HP * T)
    BY <1>3, <1>4, <2>3
  <2>. HIDE DEF x1, x2
  <2>9. x1 * P <= x2 * P
    BY <1>3, <2>7, TimesGrows
  <2>10. X * T \in Nat
    BY <1>3
  <2>. HIDE DEF HP
  <2>. QED BY <1>3, <2>1, <2>2, <2>3, <2>5, <2>6, <2>8, <2>9, <2>10
<1>8. V * O - W * o + o = 50 * (H * O) + W * d + o /\ d \in Int
  <2>1. V * O = W * O + 50 * (H * O) /\ W * O = W * o + W * (O - o)
    BY <1>6
  <2>2. V * O \in Int /\ W * O \in Int /\ W * o \in Int /\ H * O \in Int /\ W * (O - o) \in Int
    BY <1>1, <1>6
  <2>. QED BY <1>6, <2>1, <2>2
<1>9. 3000 * (H * O) <= X + 50 * (H * P) + 3 * (P * e) /\ H * O \in Nat
  <2>. DEFINE x1 == 1000 * O
              x2 == L * c
              y1 == 3 * u
  <2>1. x1 \in Nat /\ x2 \in Nat /\ x1 <= x2 /\ y1 \in Nat /\ y1 <= V
    BY <1>1, <1>5, <1>6
  <2>2. x1 * H = 1000 * (H * O) /\ x2 * H = P * u + P * e /\ y1 * P = 3 * (P * u)
    <3>1. x2 * H = P * c
      BY <1>3, <1>5
    <3>2. P * (u + e) = P * u + P * e
      BY <1>1, <1>3, <1>4
    <3>. QED BY <1>1, <1>3, <1>6, <3>1, <3>2
  <2>. HIDE DEF x1, x2, y1
  <2>3. x1 * H <= x2 * H
    BY <2>1, TimesGrows
  <2>4. y1 * P <= V * P
    BY <1>1, <1>3, <2>1, TimesGrows
  <2>5. V * P = X + 50 * (H * P)
    BY <1>3
  <2>6. H * O \in Nat /\ P * u \in Nat /\ H * P \in Nat
    BY <1>1, <1>3, <1>6
  <2>. QED BY <1>3, <1>7, <2>2, <2>3, <2>4, <2>5, <2>6
<1>10. 1000 * (W * d) <= 17 * X + 999 * W /\ W * d \in Int
  <2>. DEFINE Lt == L * t
              Lu == L * u
              x1 == 17 * P + 999
              y1 == 17 * H
              y2 == u - t
              v  == 1000 * d
  <2>1. Lt \in Nat /\ Lu \in Nat /\ y1 \in Int /\ y2 \in Int /\ y2 <= y1
    BY <1>1
  <2>2. L * a = Lt + L * e /\ L * c = Lu + L * e
    BY <1>1, <1>4
  <2>3. y2 * L = Lu - Lt /\ y1 * L = 17 * P
    BY <1>1
  <2>. HIDE DEF y1, y2
  <2>4. y2 * L <= y1 * L
    BY <2>1, TimesGrows
  <2>. HIDE DEF Lt, Lu, a, c
  <2>5. v \in Int /\ x1 \in Int /\ v <= x1
    BY <1>3, <1>6, <1>7, <1>8, <2>1, <2>2, <2>3, <2>4
  <2>6. v * W = 1000 * (W * d) /\ x1 * W = 17 * X + 999 * W /\ W * d \in Int
    BY <1>3, <1>8
  <2>. HIDE DEF v, x1
  <2>7. v * W <= x1 * W
    BY <2>5, TimesGrows
  <2>. QED BY <2>6, <2>7
<1>11. 6000 * o <= X + 6 * (L * e)
  <2>. DEFINE y1 == 3 * t
  <2>1. y1 \in Int /\ y1 <= W
    BY <1>1
  <2>2. y1 * L = 3 * (L * t) /\ L * t \in Nat /\ W * L = L * W
    BY <1>1
  <2>3. L * a = L * t + L * e
    BY <1>1, <1>4
  <2>. HIDE DEF y1
  <2>4. y1 * L <= W * L
    BY <2>1, TimesGrows
  <2>5. L * W \in Nat
    OBVIOUS
  <2>. HIDE DEF a
  <2>. QED BY <1>3, <1>6, <1>7, <2>2, <2>3, <2>4, <2>5
<1>. QED
  <2>. DEFINE x1 == H * O
              x2 == W * d
              x3 == P * e
              x4 == L * e
              x5 == H * P
  <2>1. /\ x1 \in Nat /\ x2 \in Int /\ x3 \in Nat /\ x4 \in Nat /\ x5 \in Nat
        /\ 3000 * x1 <= X + 50 * x5 + 3 * x3 /\ 1000 * x2 <= 17 * X + 999 * W
        /\ 6000 * o <= X + 6 * x4 /\ 8000 * x3 <= Z /\ 2 * x4 <= x3 /\ 500 * x5 <= X
    BY <1>3, <1>7, <1>9, <1>10, <1>11
  <2>. HIDE DEF x1, x2, x3, x4, x5
  <2>2. 120000 * (50 * x1 + x2 + o) <= 4330 * X + Z
    BY <1>3, <1>6, <1>7, <2>1
  <2>. QED BY <1>6, <1>8, <2>2 DEF SecondSlack, x1, x2

\* What the first lift gains, and two roundings.
FirstLift(H, W, L, w, T) == Mul(H * (w \div 2) + Mul(Mul(heel(W, w), w \div 2), T), L)

FirstSlack(H, W, V, X, Z, n, N) ==
    100000 * (V * N - W * n + 2 * n) <= 625 * (H * X) + 4 * Z + 120 * X

LEMMA LiftOneSlack ==
    ASSUME NEW H \in Nat, H >= 3, NEW W \in Nat, W >= 500 * H, NEW V, V = W + 50 * H,
           NEW L \in Nat, L >= 200 * H, NEW w \in Nat, 4 * w <= 500 * H, w <= 1000, NEW T \in Nat,
           NEW P, P = H * L, NEW X, X = P * W, NEW Z, Z = X * T,
           NEW n, n = FirstLift(H, W, L, w, T), NEW N, N = FirstLift(H, V, L, w, T)
    PROVE  n \in Nat /\ N \in Nat /\ FirstSlack(H, W, V, X, Z, n, N)
<1>. DEFINE hl == heel(W, w)
            hv == heel(V, w)
            z  == w \div 2
            i  == Mul(hl, z)
            j  == Mul(hv, z)
            e  == Mul(i, T)
            E  == Mul(j, T)
            f  == H * z
            a  == f + e
            c  == f + E
            Y  == W * L
            TY == T * Y
            d  == N - n
<1>1. /\ hl \in Nat /\ hv \in Nat /\ hl <= hv /\ 3 * hl <= 2 * W /\ 30 * hv <= 22 * W
      /\ hv <= hl + 34 * H /\ V \in Nat
  <2>1. heel(W, w) \in Nat /\ heel(V, w) \in Nat /\ 3 * heel(W, w) <= 2 * W
    BY DEF heel
  <2>2. /\ heel(W, w) <= heel(V, w) /\ heel(V, w) <= heel(W, w) + 34 * H
        /\ 30 * heel(V, w) <= 22 * W
    BY DEF heel
  <2>. QED BY <2>1, <2>2
<1>2. z \in Nat /\ 2 * z <= 125 * H /\ z <= 500
  OBVIOUS
<1>3. /\ P \in Nat /\ X \in Nat /\ 1800 * W <= X /\ 500 * (H * P) <= X
      /\ 3 * (L * W) <= X
  <2>1. H \in Nat /\ H >= 3 /\ W \in Nat /\ W >= 500 * H /\ L \in Nat /\ L >= 200 * H
        /\ P = H * L /\ X = P * W
    OBVIOUS
  <2>. QED BY ONLY <2>1, Scales
<1>. HIDE DEF hl, hv, z
<1>4. i \in Nat /\ j \in Nat /\ 2 * i <= hl /\ 2 * j <= hv /\ 1000 * (j - i) <= 17000 * H + 999
  <2>1. Mul(hl, z) \in Nat /\ Mul(hv, z) \in Nat
    BY ONLY <1>1, <1>2, MulNat
  <2>2. 1000 * Mul(hl, z) <= hl * z /\ hl * z <= 1000 * Mul(hl, z) + 999
    BY ONLY <1>1, <1>2, MulBounds
  <2>3. 1000 * Mul(hv, z) <= hv * z
    BY ONLY <1>1, <1>2, MulBounds
  <2>. DEFINE h34 == 34 * H
              dh == hv - hl
  <2>4. dh \in Nat /\ h34 \in Nat /\ dh <= h34
    BY <1>1
  <2>5. dh * z = hv * z - hl * z /\ z * h34 = 34 * (H * z) /\ 500 * h34 = 17000 * H
    BY <1>1, <1>2
  <2>. HIDE DEF dh, h34
  <2>6. dh * z <= h34 * z
    BY <1>2, <2>4, TimesGrows
  <2>7. z * h34 <= 500 * h34
    BY <1>2, <2>4, TimesGrows
  <2>8. z * h34 = h34 * z /\ h34 * z \in Int
    BY <1>2, <2>4
  <2>9. z * hl <= 500 * hl /\ z * hv <= 500 * hv
    <3>1. z \in Int /\ 500 \in Int
      BY <1>2
    <3>2. z * hl <= 500 * hl
      BY <1>1, <1>2, <3>1, TimesGrows
    <3>3. z * hv <= 500 * hv
      BY <1>1, <1>2, <3>1, TimesGrows
    <3>. QED BY <3>2, <3>3
  <2>10. z * hl = hl * z /\ z * hv = hv * z /\ hl * z \in Nat /\ hv * z \in Nat
    BY <1>1, <1>2
  <2>11. i = Mul(hl, z) /\ j = Mul(hv, z)
    OBVIOUS
  <2>. HIDE DEF i, j
  <2>. QED BY <1>1, <2>1, <2>2, <2>3, <2>5, <2>6, <2>7, <2>8, <2>9, <2>10, <2>11
<1>. HIDE DEF i, j
<1>5. e \in Nat /\ E \in Nat /\ 1000 * e <= i * T /\ 1000 * E <= j * T
      /\ 1000 * (E - e) <= (j - i) * T + 999
  <2>0. i \in Nat /\ j \in Nat /\ T \in Nat
    BY <1>4
  <2>1. Mul(i, T) \in Nat /\ Mul(j, T) \in Nat
    BY ONLY <2>0, MulNat
  <2>2. 1000 * Mul(i, T) <= i * T /\ i * T <= 1000 * Mul(i, T) + 999
    BY ONLY <2>0, MulBounds
  <2>3. 1000 * Mul(j, T) <= j * T
    BY ONLY <2>0, MulBounds
  <2>4. (j - i) * T = j * T - i * T /\ j * T \in Int /\ i * T \in Int
    BY <1>4
  <2>. QED BY <2>1, <2>2, <2>3, <2>4
<1>6. f \in Nat /\ a \in Nat /\ c \in Nat
  BY <1>2, <1>5
<1>. HIDE DEF e, E
<1>7. /\ n \in Nat /\ N \in Nat /\ 1000 * n <= a * L /\ 1000 * N <= c * L
      /\ 1000 * d <= (E - e) * L + 999 /\ d \in Int
  <2>1. n = Mul(a, L) /\ N = Mul(c, L)
    BY DEF FirstLift, hl, hv, z, i, j, e, E
  <2>2. (E - e) * L = c * L - a * L /\ c * L \in Int /\ a * L \in Int
    <3>. HIDE DEF f
    <3>1. c - a = E - e
      BY <1>5, <1>6
    <3>. HIDE DEF a, c
    <3>2. (c - a) * L = c * L - a * L
      BY <1>6
    <3>. QED BY <1>6, <3>1, <3>2
  <2>. HIDE DEF a, c, f
  <2>0. a \in Nat /\ c \in Nat /\ L \in Nat
    BY <1>6
  <2>3. Mul(a, L) \in Nat /\ Mul(c, L) \in Nat
    BY ONLY <2>0, MulNat
  <2>4. 1000 * Mul(a, L) <= a * L /\ a * L <= 1000 * Mul(a, L) + 999
    BY ONLY <2>0, MulBounds
  <2>5. 1000 * Mul(c, L) <= c * L
    BY ONLY <2>0, MulBounds
  <2>. QED BY <2>1, <2>2, <2>3, <2>4, <2>5
<1>8. /\ Y \in Nat /\ 3 * Y <= X /\ TY \in Nat /\ 2 * TY <= Z /\ H * TY = Z /\ Z \in Nat
  <2>1. Y \in Nat /\ 3 * Y <= X /\ H * Y = X
    <3>1. Y = L * W /\ H * (L * W) = P * W /\ L * W \in Nat
      OBVIOUS
    <3>. QED BY <1>3, <3>1
  <2>. HIDE DEF Y
  <2>2. TY \in Nat /\ H * TY = Z /\ Z \in Nat
    <3>1. H * (T * Y) = (H * Y) * T
      BY <2>1
    <3>. QED BY <1>3, <2>1, <3>1
  <2>. HIDE DEF TY
  <2>3. 2 * TY <= H * TY
    BY <2>2, TimesGrows
  <2>. QED BY <2>1, <2>2, <2>3
<1>9. V * N - W * n + 2 * n = 50 * (H * N) + W * d + 2 * n /\ H * N \in Nat /\ W * d \in Int
  <2>1. V * N = W * N + 50 * (H * N) /\ W * N = W * n + W * (N - n)
    BY <1>7
  <2>2. V * N \in Int /\ W * N \in Int /\ W * n \in Int /\ H * N \in Nat /\ W * (N - n) \in Int
    BY <1>1, <1>7
  <2>. QED BY <1>7, <2>1, <2>2
\* The share of the wall in the lift, and that of the heel.
<1>10. 8 * (P * f) <= H * X /\ P * f \in Nat /\ H * X \in Nat /\ 8 * (f * L) <= X /\ f * L \in Nat
  <2>. DEFINE k1 == 2 * z
              k2 == 125 * H
              HP == H * P
              h5 == 500 * HP
  <2>1. k1 \in Nat /\ k2 \in Nat /\ k1 <= k2 /\ HP \in Nat /\ h5 \in Nat /\ h5 <= X
    BY <1>2, <1>3
  <2>2. k1 * HP = 2 * (z * HP) /\ k2 * HP = 125 * (H * HP) /\ h5 * H = 500 * (H * HP)
        /\ k1 * P = 2 * (z * P) /\ k2 * P = 125 * HP
    BY <1>2, <1>3, <2>1
  <2>3. P * f = z * HP /\ f * L = z * P /\ z * HP \in Nat /\ z * P \in Nat /\ H * HP \in Nat
    BY <1>2, <1>3
  <2>4. X * H = H * X /\ H * X \in Nat
    BY <1>3
  <2>. HIDE DEF k1, k2, h5, HP, f
  <2>5. k1 * HP <= k2 * HP
    BY <2>1, TimesGrows
  <2>6. h5 * H <= X * H
    BY <1>3, <2>1, TimesGrows
  <2>7. k1 * P <= k2 * P
    BY <1>3, <2>1, TimesGrows
  <2>8. h5 = 500 * HP
    BY DEF h5
  <2>. QED BY <2>1, <2>2, <2>3, <2>4, <2>5, <2>6, <2>7, <2>8
<1>11. 60000 * (P * E) <= 22 * Z /\ P * E \in Nat
  <2>. DEFINE k1 == 1000 * E
              k2 == j * T
              k3 == 60 * j
              k4 == 22 * W
              PT == P * T
  <2>1. k1 \in Nat /\ k2 \in Nat /\ k1 <= k2 /\ k3 \in Nat /\ k4 \in Nat /\ k3 <= k4 /\ PT \in Nat
    BY <1>1, <1>3, <1>4, <1>5
  <2>2. k1 * P = 1000 * (P * E) /\ k2 * P = j * PT /\ k3 * PT = 60 * (j * PT) /\ P * E \in Nat
    BY <1>3, <1>4, <1>5
  <2>3. k4 * PT = 22 * Z
    <3>1. k4 * PT = 22 * (W * PT) /\ W * PT = X * T
      BY <1>3
    <3>. QED BY <3>1
  <2>4. j * PT \in Nat
    BY <1>4, <2>1
  <2>. HIDE DEF k1, k2, k3, k4, PT
  <2>5. k1 * P <= k2 * P
    BY <1>3, <2>1, TimesGrows
  <2>6. k3 * PT <= k4 * PT
    BY <2>1, TimesGrows
  <2>. QED BY <1>8, <2>2, <2>3, <2>4, <2>5, <2>6
<1>12. 8000 * (H * N) <= H * X + 8 * (P * E)
  <2>. DEFINE k1 == 1000 * N
              k2 == c * L
  <2>1. k1 \in Nat /\ k2 \in Nat /\ k1 <= k2
    BY <1>6, <1>7
  <2>2. k1 * H = 1000 * (H * N) /\ k2 * H = P * f + P * E
    <3>1. k2 * H = P * c /\ P * c = P * f + P * E
      BY <1>3, <1>5, <1>6
    <3>. QED BY <1>7, <3>1
  <2>. HIDE DEF k1, k2
  <2>3. k1 * H <= k2 * H
    BY <2>1, TimesGrows
  <2>. QED BY <1>9, <1>10, <1>11, <2>2, <2>3
<1>13. 1000 * (W * d) <= (E - e) * Y + 999 * W /\ (E - e) * Y \in Int
  <2>. DEFINE k1 == 1000 * d
              k2 == (E - e) * L + 999
  <2>1. k1 \in Int /\ k2 \in Int /\ k1 <= k2
    BY <1>5, <1>7
  <2>2. k1 * W = 1000 * (W * d) /\ k2 * W = (E - e) * Y + 999 * W /\ (E - e) * Y \in Int
    <3>. DEFINE g == E - e
    <3>1. g \in Int
      BY <1>5
    <3>. HIDE DEF g
    <3>2. (g * L + 999) * W = g * Y + 999 * W /\ g * Y \in Int
      BY <3>1
    <3>. QED BY <1>7, <3>2 DEF g
  <2>. HIDE DEF k1, k2
  <2>3. k1 * W <= k2 * W
    BY <2>1, TimesGrows
  <2>. QED BY <2>2, <2>3
<1>14. 1000 * ((E - e) * Y) <= (j - i) * TY + 999 * Y /\ (j - i) * TY \in Int
  <2>. DEFINE g  == E - e
              u  == j - i
              k1 == 1000 * g
              k2 == u * T + 999
  <2>1. g \in Int /\ u \in Int /\ k1 \in Int /\ k2 \in Int /\ k1 <= k2
    BY <1>4, <1>5
  <2>. HIDE DEF g, u, Y
  <2>2. k1 * Y = 1000 * (g * Y) /\ k2 * Y = u * TY + 999 * Y /\ u * TY \in Int
    BY <1>8, <2>1
  <2>. HIDE DEF k1, k2
  <2>3. k1 * Y <= k2 * Y
    BY <1>8, <2>1, TimesGrows
  <2>. QED BY <2>2, <2>3 DEF g, u
<1>15. 1000 * ((j - i) * TY) <= 17000 * Z + 999 * TY
  <2>. DEFINE u  == j - i
              k1 == 1000 * u
              k2 == 17000 * H + 999
  <2>1. u \in Int /\ k1 \in Int /\ k2 \in Int /\ k1 <= k2
    BY <1>4
  <2>. HIDE DEF u, TY
  <2>2. k1 * TY = 1000 * (u * TY) /\ k2 * TY = 17000 * (H * TY) + 999 * TY
    BY <1>8, <2>1
  <2>. HIDE DEF k1, k2
  <2>3. k1 * TY <= k2 * TY
    BY <1>8, <2>1, TimesGrows
  <2>. QED BY <1>8, <2>2, <2>3 DEF u
<1>16. 3000 * (e * L) <= TY /\ e * L \in Nat
  <2>. DEFINE k1 == 1000 * e
              k2 == i * T
              k3 == 3 * i
              TL == T * L
  <2>1. k1 \in Nat /\ k2 \in Nat /\ k1 <= k2 /\ k3 \in Nat /\ k3 <= W /\ TL \in Nat
    BY <1>1, <1>4, <1>5
  <2>2. k1 * L = 1000 * (e * L) /\ k2 * L = i * TL /\ k3 * TL = 3 * (i * TL) /\ W * TL = TY
        /\ e * L \in Nat /\ i * TL \in Nat
    BY <1>4, <1>5
  <2>. HIDE DEF k1, k2, k3, TL
  <2>3. k1 * L <= k2 * L
    BY <2>1, TimesGrows
  <2>4. k3 * TL <= W * TL
    BY <2>1, TimesGrows
  <2>. QED BY <2>2, <2>3, <2>4
<1>17. 1000 * n <= f * L + e * L
  <2>1. a * L = f * L + e * L
    BY <1>5, <1>6
  <2>. QED BY <1>7, <2>1
<1>. QED
  <2>. DEFINE x1 == H * N
              x2 == W * d
              x3 == (E - e) * Y
              x4 == (j - i) * TY
              x5 == P * E
              x6 == e * L
              x7 == f * L
              x8 == H * X
  <2>1. /\ x1 \in Nat /\ x2 \in Int /\ x3 \in Int /\ x4 \in Int /\ x5 \in Nat /\ x6 \in Nat
        /\ x7 \in Nat /\ x8 \in Nat
        /\ 8000 * x1 <= x8 + 8 * x5 /\ 60000 * x5 <= 22 * Z
        /\ 1000 * x2 <= x3 + 999 * W /\ 1000 * x3 <= x4 + 999 * Y
        /\ 1000 * x4 <= 17000 * Z + 999 * TY /\ 3000 * x6 <= TY /\ 8 * x7 <= X
        /\ 1000 * n <= x7 + x6
    BY <1>9, <1>10, <1>11, <1>12, <1>13, <1>14, <1>15, <1>16, <1>17
  <2>. HIDE DEF x1, x2, x3, x4, x5, x6, x7, x8, Y, TY
  <2>2. 100000 * (50 * x1 + x2 + 2 * n) <= 625 * x8 + 4 * Z + 120 * X
    <3>0. /\ W \in Nat /\ X \in Nat /\ 1800 * W <= X /\ Y \in Nat /\ 3 * Y <= X
          /\ TY \in Nat /\ 2 * TY <= Z /\ Z \in Nat /\ n \in Nat
      BY <1>3, <1>7, <1>8
    <3>1. 5000000 * x1 <= 625 * x8 + 2 * Z
      BY ONLY <2>1, <3>0
    <3>2. 10000 * x3 <= 180 * Z + 3330 * X
      BY ONLY <2>1, <3>0
    <3>3. 100000 * x2 <= 100 * x3 + 56 * X
      BY ONLY <2>1, <3>0
    <3>4. 2400000 * n <= 300 * X + Z
      BY ONLY <2>1, <3>0
    <3>. QED BY ONLY <2>1, <3>0, <3>1, <3>2, <3>3, <3>4
  <2>. QED BY <1>7, <1>9, <2>2 DEF FirstSlack, x1, x2, x8

\* What the base gains in moment over half of what it gains in weight by half the width.
BaseGains(H, r, q, X, Z, b, B) ==
    /\ 5 * (H * B) <= q * B - r * b
    /\ 48000000 * (H * B) >= 47 * Z - 120 * X

LEMMA BaseSlack ==
    ASSUME NEW H \in Nat, H >= 3, NEW r \in Nat, r >= 50 * H, NEW q, q = r + 5 * H,
           NEW L \in Nat, L >= 200 * H, NEW T \in Nat,
           NEW P, P = H * L, NEW X, X = P * (10 * r), NEW Z, Z = X * T,
           NEW b, b = BaseVolume(r, L, T), NEW B, B = BaseVolume(q, L, T)
    PROVE  b \in Nat /\ B \in Nat /\ BaseGains(H, r, q, X, Z, b, B)
<1>. DEFINE W == 10 * r
            V == 10 * q
            m == Mul(W, L)
            n == Mul(V, L)
            y == H * B
            u == q * B - r * b
            Y == W * L
<1>1. W \in Nat /\ V \in Nat /\ q \in Nat /\ W <= V /\ W >= 500 * H
  OBVIOUS
<1>. HIDE DEF W, V
<1>2. m \in Nat /\ n \in Nat /\ m <= n /\ V * L <= 1000 * n + 999
  <2>1. Mul(W, L) \in Nat /\ Mul(V, L) \in Nat
    BY ONLY <1>1, L \in Nat, MulNat
  <2>2. Mul(W, L) <= Mul(V, L)
    BY ONLY <1>1, L \in Nat, MulGrows
  <2>3. V * L <= 1000 * Mul(V, L) + 999
    BY ONLY <1>1, L \in Nat, MulBounds
  <2>. QED BY <2>1, <2>2, <2>3
<1>. HIDE DEF m, n
<1>3. b \in Nat /\ B \in Nat /\ b <= B /\ n * T <= 1000 * B + 999
  <2>0. b = Mul(m, T) /\ B = Mul(n, T)
    BY DEF BaseVolume, m, n, W, V
  <2>t. m \in Nat /\ n \in Nat /\ m <= n /\ T \in Nat
    BY <1>2
  <2>1. Mul(m, T) \in Nat /\ Mul(n, T) \in Nat
    BY ONLY <2>t, MulNat
  <2>2. Mul(m, T) <= Mul(n, T)
    BY ONLY <2>t, MulGrows
  <2>3. n * T <= 1000 * Mul(n, T) + 999
    BY ONLY <2>t, MulBounds
  <2>. QED BY <2>0, <2>1, <2>2, <2>3
<1>4. y \in Nat /\ 2 * B <= y
  <2>1. 2 * B <= H * B
    BY <1>3, TimesGrows
  <2>. QED BY <1>3, <2>1
<1>5. u \in Int /\ 5 * y <= u
  <2>1. q * B = r * B + 5 * (H * B)
    BY <1>3
  <2>2. b * r <= B * r
    BY <1>3, TimesGrows
  <2>3. b * r = r * b /\ B * r = r * B /\ r * b \in Nat /\ r * B \in Nat /\ q * B \in Nat
    BY <1>1, <1>3
  <2>. QED BY <1>4, <2>1, <2>2, <2>3
<1>7. /\ P \in Nat /\ X \in Nat /\ 400000 * H <= X
  <2>1. X = P * W
    BY DEF W
  <2>. QED BY <1>1, <2>1, Scales
<1>8. 400000 * (H * T) <= Z /\ H * T \in Nat /\ Z \in Nat
  <2>. DEFINE k1 == 400000 * H
  <2>1. k1 \in Nat /\ k1 <= X /\ k1 * T = 400000 * (H * T)
    BY <1>7
  <2>. HIDE DEF k1
  <2>2. k1 * T <= X * T
    BY <1>7, <2>1, TimesGrows
  <2>. QED BY <1>7, <2>1, <2>2
<1>9. Z <= 1000000 * y + 999000 * H + 999 * (H * T)
  <2>. DEFINE k1 == 1000 * n + 999
              k2 == 1000000 * B + 999000 + 999 * T
              YT == Y * T
  <2>1. Y \in Nat /\ k1 \in Nat /\ k2 \in Nat /\ YT \in Nat /\ Y <= k1
    <3>1. W * L <= V * L
      BY <1>1, TimesGrows
    <3>2. W * L \in Nat /\ V * L \in Nat
      BY <1>1
    <3>. QED BY <1>2, <1>3, <3>1, <3>2
  <2>2. k1 * T = 1000 * (n * T) + 999 * T /\ k2 * H = 1000000 * y + 999000 * H + 999 * (H * T)
        /\ n * T \in Nat
    BY <1>2, <1>3
  <2>3. YT * H = Z
    <3>1. (W * L) * T * H = ((H * L) * W) * T
      BY <1>1
    <3>2. X = P * W
      BY DEF W
    <3>. QED BY <3>1, <3>2
  <2>. HIDE DEF Y, k1
  <2>4. Y * T <= k1 * T
    BY <2>1, TimesGrows
  <2>5. YT <= k2
    <3>. DEFINE nT == n * T
    <3>1. YT <= 1000 * nT + 999 * T /\ nT \in Nat /\ nT <= 1000 * B + 999 /\ B \in Nat
      BY <1>3, <2>2, <2>4
    <3>. HIDE DEF nT, YT
    <3>. QED BY ONLY <2>1, <3>1, T \in Nat
  <2>. HIDE DEF YT, k2
  <2>6. YT * H <= k2 * H
    BY <2>1, <2>5, TimesGrows
  <2>. QED BY <2>2, <2>3, <2>6
<1>. HIDE DEF y
<1>10. 48000000 * y >= 47 * Z - 120 * X
  BY <1>4, <1>7, <1>8, <1>9
<1>. QED BY <1>3, <1>5, <1>10 DEF BaseGains, y, u

\* The weight of the base less that of the water it displaces, and of the water above it.
Weighs(g, H, r, L, w, T) ==
    (g - spec_water) * BaseVolume(r, L, T) + spec_water * (H * HeelWater(r, L, w))

\* Twice what the moments gain is no less than what the weight gains over the width.
CentreGained(g, H, r, L, q, w, T) ==
    LET w1 == WaterTurns(H, r, L, w)
        w2 == WaterTurns(H, q, L, w)
        b1 == BaseTurns(g, r, L, T)
        b2 == BaseTurns(g, q, L, T)
        f1 == LiftTurnsOne(H, r, L, w, T)
        f2 == LiftTurnsOne(H, q, L, w, T)
        s1 == LiftTurnsTwo(r, L, w, T)
        s2 == LiftTurnsTwo(q, L, w, T)
        v1 == Weighs(g, H, r, L, w, T)
        v2 == Weighs(g, H, q, L, w, T)
    IN  /\ w1 \in Nat /\ w2 \in Nat /\ b1 \in Nat /\ b2 \in Nat
        /\ f1 \in Nat /\ f2 \in Nat /\ s1 \in Nat /\ s2 \in Nat /\ v1 \in Nat /\ v2 \in Nat
        /\ (10 * q) * v2 - (10 * r) * v1
             <= 2000 * ((w2 - w1) + (b2 - b1) - (f2 - f1) - (s2 - s1))

LEMMA CentreTurns ==
    ASSUME NEW H \in Nat, H >= 3, NEW r \in Nat, r >= 50 * H, NEW q, q = r + 5 * H,
           NEW L \in Nat, L >= 200 * H, NEW w \in Nat, 4 * w <= 500 * H, w <= 1000,
           NEW T \in Nat, NEW g \in Nat, g >= 65
    PROVE  CentreGained(g, H, r, L, q, w, T)
<1>. DEFINE W  == 10 * r
            V  == 10 * q
            P  == H * L
            X  == P * W
            Z  == X * T
            m  == HeelWater(r, L, w)
            M  == HeelWater(q, L, w)
            b  == BaseVolume(r, L, T)
            B  == BaseVolume(q, L, T)
            n  == LiftOne(r, L, w, T, H)
            N  == LiftOne(q, L, w, T, H)
            o  == LiftTwo(r, L, w, T)
            O  == LiftTwo(q, L, w, T)
            am == WaterArm(r, w)
            ab == BaseArm(r)
            an == LiftArmOne(r)
            ao == LiftArmTwo(r)
            AM == WaterArm(q, w)
            AB == BaseArm(q)
            AN == LiftArmOne(q)
            AO == LiftArmTwo(q)
            sm == OffCentre(W, w)
            SM == OffCentre(V, w)
            C  == V * N - W * n + 2 * n
            D  == V * O - W * o + o
            G  == M * SM - m * sm
            u  == q * B - r * b
<1>1. /\ W \in Nat /\ W >= 500 * H /\ V \in Nat /\ V = W + 50 * H /\ q \in Nat /\ W >= 1000
      /\ V >= 1000
  OBVIOUS
<1>2. /\ am \in Nat /\ AM \in Nat /\ 2 * am = W + sm /\ 2 * AM = V + SM /\ sm \in Nat /\ SM \in Nat
  <2>1. w <= W /\ w <= V
    BY <1>1
  <2>2. am = W - heel(W, w) \div 2 /\ AM = V - heel(V, w) \div 2
    BY DEF WaterArm
  <2>3. heel(W, w) \div 2 \in Nat /\ heel(V, w) \div 2 \in Nat
    <3>. HIDE DEF W, V
    <3>. QED BY <1>1, <2>1 DEF heel
  <2>4. sm \in Nat /\ SM \in Nat
    <3>. HIDE DEF W, V
    <3>. QED BY <1>1 DEF heel, OffCentre
  <2>5. sm = W - 2 * (heel(W, w) \div 2) /\ SM = V - 2 * (heel(V, w) \div 2)
    BY DEF OffCentre
  <2>6. heel(W, w) \div 2 <= W /\ heel(V, w) \div 2 <= V
    <3>. HIDE DEF W, V
    <3>. QED BY <1>1, <2>1 DEF heel
  <2>. HIDE DEF W, V, am, AM, sm, SM
  <2>. QED BY <1>1, <2>2, <2>3, <2>4, <2>5, <2>6
<1>3. /\ ab = 5 * r /\ AB = 5 * q /\ ab \in Nat /\ AB \in Nat
      /\ an \in Nat /\ AN \in Nat /\ ao \in Nat /\ AO \in Nat
      /\ 3 * AN <= V /\ W <= 3 * an + 2 /\ 3 * AO <= 2 * V /\ 2 * W <= 3 * ao + 2
  BY <1>1 DEF BaseArm, LiftArmOne, LiftArmTwo
<1>4. /\ P \in Nat /\ X \in Nat /\ 3 * X <= H * X /\ X >= 2700000 /\ Z \in Nat
  <2>. HIDE DEF W
  <2>1. P = H * L /\ X = P * W
    OBVIOUS
  <2>. HIDE DEF P, X
  <2>2. P \in Nat /\ X \in Nat /\ 3 * X <= H * X /\ X >= 2700000
    BY <1>1, <2>1, Scales
  <2>. QED BY <2>2
<1>5. m \in Nat /\ M \in Nat /\ 21 * X <= 1000 * G
  <2>1. m = Mul(heel(W, w), L) /\ M = Mul(heel(V, w), L) /\ P = H * L /\ X = P * W
    BY DEF HeelWater
  <2>. HIDE DEF W, V, P, X, m, M
  <2>2. m \in Nat /\ M \in Nat /\ WaterGained(W, V, w, X, m, M)
    BY <1>1, <2>1, WaterOffCentre
  <2>. QED BY <2>2 DEF WaterGained
<1>6. n \in Nat /\ N \in Nat /\ 100000 * C <= 625 * (H * X) + 4 * Z + 120 * X
  <2>1. /\ n = FirstLift(H, W, L, w, T) /\ N = FirstLift(H, V, L, w, T)
        /\ P = H * L /\ X = P * W /\ Z = X * T
    BY DEF LiftOne, FirstLift
  <2>. HIDE DEF W, V, P, X, Z, n, N
  <2>2. n \in Nat /\ N \in Nat /\ FirstSlack(H, W, V, X, Z, n, N)
    <3>1. /\ H \in Nat /\ H >= 3 /\ L \in Nat /\ L >= 200 * H /\ T \in Nat
          /\ w \in Nat /\ 4 * w <= 500 * H /\ w <= 1000
      OBVIOUS
    <3>. QED BY ONLY <1>1, <2>1, <3>1, LiftOneSlack
  <2>. QED BY <2>2 DEF FirstSlack
<1>7. o \in Nat /\ O \in Nat /\ 120000 * D <= 4330 * X + Z
  <2>1. /\ o = Mul(L, toe(W, w) + Mul(w \div 2, T)) /\ O = Mul(L, toe(V, w) + Mul(w \div 2, T))
        /\ P = H * L /\ X = P * W /\ Z = X * T
    BY DEF LiftTwo
  <2>. HIDE DEF W, V, P, X, Z, o, O
  <2>2. o \in Nat /\ O \in Nat /\ SecondSlack(W, V, X, Z, o, O)
    BY <1>1, <2>1, LiftTwoSlack
  <2>. QED BY <2>2 DEF SecondSlack
<1>8. b \in Nat /\ B \in Nat /\ 5 * (H * B) <= u /\ 48000000 * (H * B) >= 47 * Z - 120 * X
  <2>1. X = P * (10 * r) /\ Z = X * T /\ P = H * L
    OBVIOUS
  <2>. HIDE DEF P, X, Z, b, B
  <2>2. b = BaseVolume(r, L, T) /\ B = BaseVolume(q, L, T)
    BY DEF b, B
  <2>3. b \in Nat /\ B \in Nat /\ BaseGains(H, r, q, X, Z, b, B)
    BY <1>1, <2>1, <2>2, BaseSlack
  <2>. QED BY <2>3 DEF BaseGains
<1>s. spec_water = 64
  BY DEF spec_water
<1>. DEFINE Hm == H * m
            HM == H * M
            gb == (g - 64) * b
            gB == (g - 64) * B
            v1 == gb + 64 * Hm
            v2 == gB + 64 * HM
            r1 == Mul(64 * Hm, am)
            R1 == Mul(64 * HM, AM)
            r2 == Mul(g * b, ab)
            R2 == Mul(g * B, AB)
            r3 == Mul(64 * n, an)
            R3 == Mul(64 * N, AN)
            r4 == Mul(64 * o, ao)
            R4 == Mul(64 * O, AO)
            gu == g * u
            HG == H * G
            Vq == V * HM - W * Hm
<1>. HIDE DEF m, M, b, B, n, N, o, O, am, AM, ab, AB, an, AN, ao, AO, sm, SM, P, X, Z
<1>9. Hm \in Nat /\ HM \in Nat /\ gb \in Nat /\ gB \in Nat /\ g * b \in Nat /\ g * B \in Nat
      /\ u \in Int /\ gu \in Int /\ G \in Int /\ HG \in Int /\ Vq \in Int /\ C \in Int /\ D \in Int
  <2>1. Hm \in Nat /\ HM \in Nat /\ gb \in Nat /\ gB \in Nat /\ g * b \in Nat /\ g * B \in Nat
    BY <1>5, <1>8
  <2>2. u \in Int /\ G \in Int /\ C \in Int /\ D \in Int
    BY <1>1, <1>2, <1>5, <1>6, <1>7, <1>8
  <2>. HIDE DEF u, G, Hm, HM
  <2>3. gu \in Int /\ HG \in Int /\ Vq \in Int
    BY <1>1, <2>1, <2>2
  <2>. QED BY <2>1, <2>2, <2>3
<1>10. r1 \in Nat /\ R1 \in Nat /\ 64 * (Vq + HG) <= 2000 * (R1 - r1) + 1998
  <2>. DEFINE i == 64 * Hm
              j == 64 * HM
  <2>1. i \in Nat /\ j \in Nat
    BY <1>9
  <2>2. j * AM - i * am = 64 * (HM * AM - Hm * am)
    BY ONLY <1>2, <1>9, WeightOut, 64 \in Nat
  <2>3. 2 * (HM * AM - Hm * am) = Vq + HG
    <3>1. HM * (2 * AM) = HM * V + HM * SM /\ Hm * (2 * am) = Hm * W + Hm * sm
      <4>. HIDE DEF HM, Hm
      <4>1. HM * (V + SM) = HM * V + HM * SM /\ Hm * (W + sm) = Hm * W + Hm * sm
        BY <1>1, <1>2, <1>9
      <4>. QED BY <1>2, <4>1
    <3>2. HG = HM * SM - Hm * sm
      BY <1>2, <1>5
    <3>3. HM * V = V * HM /\ Hm * W = W * Hm
      <4>. HIDE DEF HM, Hm, V, W
      <4>. QED BY <1>1, <1>9
    <3>4. HM * (2 * AM) = 2 * (HM * AM) /\ Hm * (2 * am) = 2 * (Hm * am)
      <4>. HIDE DEF HM, Hm
      <4>. QED BY <1>2, <1>9
    <3>. HIDE DEF HM, Hm, V, W, HG
    <3>5. /\ HM * AM \in Int /\ Hm * am \in Int /\ V * HM \in Int /\ W * Hm \in Int
          /\ HM * SM \in Int /\ Hm * sm \in Int
      BY <1>1, <1>2, <1>9
    <3>. QED BY <3>1, <3>2, <3>3, <3>4, <3>5
  <2>. HIDE DEF i, j
  <2>4. Mul(i, am) \in Nat /\ Mul(j, AM) \in Nat
    BY ONLY <2>1, <1>2, MulNat
  <2>5. j * AM - i * am <= 1000 * (Mul(j, AM) - Mul(i, am)) + 999
    BY ONLY <2>1, <1>2, RoundedGain
  <2>. DEFINE K == HM * AM - Hm * am
  <2>6. K \in Int
    <3>. HIDE DEF HM, Hm
    <3>. QED BY <1>2, <1>9
  <2>7. 64 * K <= 1000 * (Mul(j, AM) - Mul(i, am)) + 999 /\ 2 * K = Vq + HG
    BY <2>2, <2>3, <2>5
  <2>. HIDE DEF K, Vq, HG
  <2>8. 64 * (Vq + HG) <= 2000 * (Mul(j, AM) - Mul(i, am)) + 1998
    BY <1>9, <2>4, <2>6, <2>7
  <2>. QED BY <2>4, <2>8 DEF i, j
<1>11. r2 \in Nat /\ R2 \in Nat /\ 10 * gu <= 2000 * (R2 - r2) + 1998
  <2>. DEFINE i == g * b
              j == g * B
  <2>1. i \in Nat /\ j \in Nat
    BY <1>9
  <2>2. j * AB - i * ab = g * (B * AB - b * ab)
    BY ONLY <1>3, <1>8, g \in Nat, WeightOut
  <2>3. B * AB - b * ab = 5 * u
    BY <1>1, <1>3, <1>8
  <2>4. g * (5 * u) = 5 * gu
    <3>. HIDE DEF u
    <3>. QED BY <1>9
  <2>. HIDE DEF i, j
  <2>5. Mul(i, ab) \in Nat /\ Mul(j, AB) \in Nat
    BY ONLY <2>1, <1>3, MulNat
  <2>6. j * AB - i * ab <= 1000 * (Mul(j, AB) - Mul(i, ab)) + 999
    BY ONLY <2>1, <1>3, RoundedGain
  <2>7. 5 * gu <= 1000 * (Mul(j, AB) - Mul(i, ab)) + 999
    BY <2>2, <2>3, <2>4, <2>6
  <2>. HIDE DEF gu
  <2>8. 10 * gu <= 2000 * (Mul(j, AB) - Mul(i, ab)) + 1998
    BY <1>9, <2>5, <2>7
  <2>. QED BY <2>5, <2>8 DEF i, j
<1>12. r3 \in Nat /\ R3 \in Nat /\ 3000 * (R3 - r3) <= 64 * C + 2997
  <2>. DEFINE i == 64 * n
              j == 64 * N
              K == N * AN - n * an
  <2>1. i \in Nat /\ j \in Nat /\ K \in Int
    BY <1>3, <1>6
  <2>2. j * AN - i * an = 64 * K
    BY ONLY <1>3, <1>6, 64 \in Nat, WeightOut
  <2>3. 3 * K <= C
    <3>. DEFINE k1 == 3 * AN
                k2 == 3 * an + 2
    <3>1. k1 \in Nat /\ k2 \in Nat /\ k1 <= V /\ W <= k2
      BY <1>3
    <3>2. k1 * N = 3 * (N * AN) /\ k2 * n = 3 * (n * an) + 2 * n
      BY <1>3, <1>6
    <3>. HIDE DEF k1, k2
    <3>3. k1 * N <= V * N
      BY <1>1, <1>6, <3>1, TimesGrows
    <3>4. W * n <= k2 * n
      BY <1>1, <1>6, <3>1, TimesGrows
    <3>5. N * AN \in Nat /\ n * an \in Nat /\ V * N \in Nat /\ W * n \in Nat
      BY <1>1, <1>3, <1>6
    <3>. HIDE DEF V, W
    <3>. QED BY <1>6, <3>2, <3>3, <3>4, <3>5
  <2>. HIDE DEF i, j
  <2>4. Mul(i, an) \in Nat /\ Mul(j, AN) \in Nat
    BY ONLY <2>1, <1>3, MulNat
  <2>5. 1000 * (Mul(j, AN) - Mul(i, an)) <= j * AN - i * an + 999
    BY ONLY <2>1, <1>3, RoundedGain
  <2>6. 1000 * (Mul(j, AN) - Mul(i, an)) <= 64 * K + 999
    BY <2>2, <2>5
  <2>. HIDE DEF K, C
  <2>7. 3000 * (Mul(j, AN) - Mul(i, an)) <= 64 * C + 2997
    BY <1>9, <2>1, <2>3, <2>4, <2>6
  <2>. QED BY <2>4, <2>7 DEF i, j
<1>13. r4 \in Nat /\ R4 \in Nat /\ 3000 * (R4 - r4) <= 128 * D + 2997
  <2>. DEFINE i == 64 * o
              j == 64 * O
              K == O * AO - o * ao
  <2>1. i \in Nat /\ j \in Nat /\ K \in Int
    BY <1>3, <1>7
  <2>2. j * AO - i * ao = 64 * K
    BY ONLY <1>3, <1>7, 64 \in Nat, WeightOut
  <2>3. 3 * K <= 2 * D
    <3>. DEFINE k1 == 3 * AO
                k2 == 3 * ao + 2
                VV == 2 * V
                WW == 2 * W
    <3>1. k1 \in Nat /\ k2 \in Nat /\ VV \in Nat /\ WW \in Nat /\ k1 <= VV /\ WW <= k2
      BY <1>1, <1>3
    <3>2. k1 * O = 3 * (O * AO) /\ k2 * o = 3 * (o * ao) + 2 * o
      BY <1>3, <1>7
    <3>3. VV * O = 2 * (V * O) /\ WW * o = 2 * (W * o)
      <4>. HIDE DEF V, W
      <4>. QED BY <1>1, <1>7
    <3>. HIDE DEF k1, k2, VV, WW
    <3>4. k1 * O <= VV * O
      BY <1>7, <3>1, TimesGrows
    <3>5. WW * o <= k2 * o
      BY <1>7, <3>1, TimesGrows
    <3>6. O * AO \in Nat /\ o * ao \in Nat /\ V * O \in Nat /\ W * o \in Nat
      BY <1>1, <1>3, <1>7
    <3>. HIDE DEF V, W
    <3>. QED BY <1>7, <3>2, <3>3, <3>4, <3>5, <3>6
  <2>. HIDE DEF i, j
  <2>4. Mul(i, ao) \in Nat /\ Mul(j, AO) \in Nat
    BY ONLY <2>1, <1>3, MulNat
  <2>5. 1000 * (Mul(j, AO) - Mul(i, ao)) <= j * AO - i * ao + 999
    BY ONLY <2>1, <1>3, RoundedGain
  <2>6. 1000 * (Mul(j, AO) - Mul(i, ao)) <= 64 * K + 999
    BY <2>2, <2>5
  <2>. HIDE DEF K, D
  <2>7. 3000 * (Mul(j, AO) - Mul(i, ao)) <= 128 * D + 2997
    BY <1>9, <2>1, <2>3, <2>4, <2>6
  <2>. QED BY <2>4, <2>7 DEF i, j
<1>14. V * v2 - W * v1 = 10 * (gu - 64 * u) + 64 * Vq
  <2>. DEFINE h == g - 64
  <2>1. h \in Nat
    OBVIOUS
  <2>2. (h * B) * q - (h * b) * r = h * (B * q - b * r)
    BY ONLY <1>1, <1>8, <2>1, r \in Nat, WeightOut
  <2>3. B * q - b * r = u
    BY <1>1, <1>8
  <2>4. h * u = gu - 64 * u
    <3>. HIDE DEF u
    <3>. QED BY <1>9
  <2>5. gB = h * B /\ gb = h * b
    OBVIOUS
  <2>6. V * v2 = 10 * (gB * q) + 64 * (V * HM) /\ W * v1 = 10 * (gb * r) + 64 * (W * Hm)
    <3>. HIDE DEF gB, gb, HM, Hm
    <3>. QED BY <1>1, <1>9
  <2>7. gB * q - gb * r = gu - 64 * u
    BY <2>2, <2>3, <2>4, <2>5
  <2>. HIDE DEF gB, gb, HM, Hm, V, W, gu, u, v1, v2
  <2>8. gB * q \in Int /\ gb * r \in Int /\ V * HM \in Int /\ W * Hm \in Int
    BY <1>1, <1>9
  <2>. QED BY <1>9, <2>6, <2>7, <2>8
<1>15. 21 * (H * X) <= 1000 * HG /\ H * X \in Nat
  <2>. DEFINE k1 == 21 * X
              k2 == 1000 * G
  <2>. HIDE DEF G
  <2>1. k1 \in Int /\ k2 \in Int /\ k1 <= k2 /\ k1 * H = 21 * (H * X) /\ k2 * H = 1000 * HG
    BY <1>4, <1>5, <1>9
  <2>. HIDE DEF k1, k2
  <2>2. k1 * H <= k2 * H
    BY <2>1, TimesGrows
  <2>. QED BY <1>4, <2>1, <2>2
<1>. DEFINE x1 == H * X
            y  == H * B
<1>18. /\ v1 \in Nat /\ v2 \in Nat
  <2>. HIDE DEF gb, gB, Hm, HM
  <2>. QED BY <1>9
<1>19. /\ x1 \in Nat /\ y \in Nat /\ X \in Nat /\ Z \in Nat /\ 3 * X <= x1 /\ X >= 2700000
       /\ 21 * x1 <= 1000 * HG /\ 5 * y <= u /\ 48000000 * y >= 47 * Z - 120 * X
       /\ 100000 * C <= 625 * x1 + 4 * Z + 120 * X /\ 120000 * D <= 4330 * X + Z
  BY <1>4, <1>6, <1>7, <1>8, <1>15
<1>20. V * v2 - W * v1 <= 2000 * ((R1 - r1) + (R2 - r2) - (R3 - r3) - (R4 - r4))
  <2>. HIDE DEF x1, y, HG, HM, gu, u, gB, C, D, Vq, r1, R1, r2, R2, r3, R3, r4, R4
  <2>. DEFINE l == V * v2 - W * v1
  <2>1. l = 10 * (gu - 64 * u) + 64 * Vq
    BY <1>14
  <2>. HIDE DEF l
  <2>2. /\ 10000 * (1920 * u) >= 94 * Z - 240 * X
        /\ 10000 * (192 * HG) >= 40320 * x1
        /\ 10000 * (128 * C) <= 8000 * x1 + 52 * Z + 1536 * X
        /\ 10000 * (256 * D) <= 92374 * X + 22 * Z
    BY ONLY <1>9, <1>19
  <2>3. 192 * HG + 1920 * u - 128 * C - 256 * D >= 23976
    BY ONLY <1>9, <1>19, <2>2
  <2>4. l <= 2000 * ((R1 - r1) + (R2 - r2) - (R3 - r3) - (R4 - r4))
    BY ONLY <1>9, <1>10, <1>11, <1>12, <1>13, <2>1, <2>3
  <2>. QED BY <2>4 DEF l
<1>21. /\ r1 = WaterTurns(H, r, L, w) /\ R1 = WaterTurns(H, q, L, w)
       /\ r2 = BaseTurns(g, r, L, T) /\ R2 = BaseTurns(g, q, L, T)
       /\ r3 = LiftTurnsOne(H, r, L, w, T) /\ R3 = LiftTurnsOne(H, q, L, w, T)
       /\ r4 = LiftTurnsTwo(r, L, w, T) /\ R4 = LiftTurnsTwo(q, L, w, T)
       /\ v1 = Weighs(g, H, r, L, w, T) /\ v2 = Weighs(g, H, q, L, w, T)
  BY <1>s DEF WaterTurns, BaseTurns, LiftTurnsOne, LiftTurnsTwo, Weighs,
         m, M, b, B, n, N, o, O, am, AM, ab, AB, an, AN, ao, AO
<1>. HIDE DEF r1, R1, r2, R2, r3, R3, r4, R4, v1, v2
<1>22. (10 * q) * v2 - (10 * r) * v1 <= 2000 * ((R1 - r1) + (R2 - r2) - (R3 - r3) - (R4 - r4))
  BY <1>20
<1>. QED BY <1>10, <1>11, <1>12, <1>13, <1>18, <1>21, <1>22 DEF CentreGained

\* A column of water of a whole number of feet.
LEMMA Column ==
    ASSUME NEW H \in Nat, NEW m \in Nat
    PROVE  Mul(m, H * S) = H * m
<1>. DEFINE h == H * S
            v == H * m
<1>1. h \in Int /\ m \in Int /\ m * h = 1000 * v /\ v \in Nat
  BY DEF S
<1>. HIDE DEF h
<1>2. Mul(m, h) = (m * h) \div S
  BY ONLY <1>1, MulExact
<1>. HIDE DEF v
<1>3. (1000 * v) \div 1000 = v
  BY <1>1
<1>. QED BY <1>1, <1>2, <1>3 DEF S, h, v

LEMMA VerticalWeighs ==
    ASSUME NEW c \in ConstantsType, NEW b \in BarrierType, NEW r \in Nat,
           b.base_width = 10 * r, HeelWater(r, b.base_length, b.wall_t) \in Nat
    PROVE  fvertical(c, b) = Weighs(c.spec_base, b.height, r, b.base_length, b.wall_t, b.base_thickness)
<1>. DEFINE m == HeelWater(r, b.base_length, b.wall_t)
<1>1. /\ b.height \in Nat /\ b.base_length \in Int /\ b.base_width \in Int /\ m \in Nat
  BY DEF BarrierType
<1>2. weight(c.spec_base - spec_water, b.base_length, b.base_width, b.base_thickness)
        = (c.spec_base - spec_water) * BaseVolume(r, b.base_length, b.base_thickness)
  <2>1. Mul(b.base_length, b.base_width) = Mul(b.base_width, b.base_length)
    BY <1>1, MulCommutes
  <2>. QED BY <2>1 DEF weight, BaseVolume
<1>3. weight(spec_water, heel(b.base_width, b.wall_t), b.base_length, b.height * S)
        = spec_water * (b.height * m)
  <2>1. Mul(m, b.height * S) = b.height * m
    <3>. HIDE DEF m
    <3>. QED BY ONLY <1>1, Column
  <2>2. weight(spec_water, heel(b.base_width, b.wall_t), b.base_length, b.height * S)
          = spec_water * Mul(m, b.height * S)
    BY DEF weight, HeelWater
  <2>. QED BY <2>1, <2>2
<1>. QED BY <1>2, <1>3, VerticalIs DEF Weighs

\* The eccentricity of a footing of an even width.
LEMMA EccentricityIs ==
    ASSUME NEW c \in ConstantsType, NEW b \in BarrierType, NEW r \in Nat, b.base_width = 10 * r
    PROVE  LET Q == Quot(Mres(c, b) - Mov(b), fvertical(c, b))
           IN  Q \in Int /\ FreshEccentricity(c, b) = 5 * r - Q
<1>. DEFINE M == Mres(c, b) - Mov(b)
            f == fvertical(c, b)
            Q == Quot(M, f)
<1>1. M \in Int /\ f \in Int
  BY MresInt, MovInt, fverticalInt
<1>. HIDE DEF M, f
<1>2. Q \in Int
  BY <1>1, QuotInt
<1>3. FreshEccentricity(c, b) = (10 * r) \div 2 - Q
  BY DEF FreshEccentricity, ecentricity, M, f
<1>. HIDE DEF Q
<1>4. FreshEccentricity(c, b) = 5 * r - Q
  BY <1>2, <1>3
<1>. QED BY <1>2, <1>4 DEF Q, M, f

\* A quotient is at least a whole number of thousandths when the numerator is.
LEMMA QuotAtLeast ==
    ASSUME NEW a \in Int, NEW b \in Nat, b > 0, NEW x \in Int
    PROVE  /\ Quot(a, b) \in Int /\ Quot(a, b) * b <= 1000 * a
           /\ x * b <= 1000 * a => x <= Quot(a, b)
<1>. DEFINE n == LongDiv(a, b)
<1>1. n \in Int /\ n * b <= 1000 * a /\ 1000 * a < (n + 1) * b
  BY LongDivides
<1>2. Quot(a, b) = n
  BY DEF Quot
<1>. HIDE DEF n
<1>3. ASSUME x * b <= 1000 * a, n + 1 <= x PROVE FALSE
  <2>1. n + 1 \in Int
    BY <1>1
  <2>2. (n + 1) * b <= x * b
    BY <1>3, <2>1, TimesGrows
  <2>3. (n + 1) * b \in Int /\ x * b \in Int
    BY <1>1
  <2>. QED BY <1>1, <1>3, <2>2, <2>3
<1>4. x * b <= 1000 * a => x <= n
  BY <1>1, <1>3
<1>. QED BY <1>1, <1>2, <1>4

\* A footing wider by half a tenth of its height, all else equal, has its load nearer to the
\* middle of the base than the narrower one, or on the heel's side of it.
LEMMA WiderStaysCentred ==
    ASSUME NEW c \in ConstantsType, NEW b \in BarrierType, NEW d \in BarrierType,
           NEW r \in Nat, NEW q \in Nat, q = r + 5 * b.height, b.height >= 3,
           Ordinary(c, b), r >= 50 * b.height, 4 * b.wall_t <= 500 * b.height, b.wall_t <= S,
           b.base_thickness >= 225, Site(d) = Site(b),
           d.base_thickness = b.base_thickness, d.key_depth = b.key_depth,
           b.base_width = 10 * r, d.base_width = 10 * q, b.base_length >= 200 * b.height,
           d.base_length = b.base_length
    PROVE  \/ FreshEccentricity(c, d) <= 0
           \/ FreshEccentricity(c, d) <= FreshEccentricity(c, b)
<1>. DEFINE H == b.height
            w == b.wall_t
            T == b.base_thickness
            L == b.base_length
            g == c.spec_base
            push == M_sta(Fst(b), H, T)
<1>1. /\ H \in Nat /\ H >= 3 /\ w \in Nat /\ w <= 1000 /\ 4 * w <= 500 * H /\ T \in Nat
      /\ g \in Nat /\ g >= 65 /\ L \in Nat /\ L >= 200 * H /\ r >= 50 * H /\ r \in Nat
      /\ q \in Nat /\ q = r + 5 * H
  BY DEF BarrierType, ConstantsType, S, Ordinary, spec_water
<1>2. /\ d.height = H /\ d.wall_t = w /\ Fst(d) = Fst(b)
  BY DEF Site, Fst
<1>3. push \in Int
  <2>1. Fst(b) \in Int
    BY FstInt
  <2>. DEFINE x == (H * S + T) \div 3
              y == Fst(b)
  <2>2. x \in Int /\ y \in Int
    BY <1>1, <2>1 DEF S
  <2>. HIDE DEF x, y
  <2>3. Mul(y, x) \in Int
    BY ONLY <2>2, MulInt
  <2>. QED BY <2>3 DEF M_sta, x, y
<1>4. /\ Mov(b) = push + (LiftTurnsOne(H, r, L, w, T) + LiftTurnsTwo(r, L, w, T))
      /\ Mov(d) = push + (LiftTurnsOne(H, q, L, w, T) + LiftTurnsTwo(q, L, w, T))
  BY <1>2, MovIs
<1>. DEFINE BaseOf(e)  == Mul(weight(c.spec_base, e.base_width, e.base_length, e.base_thickness),
                              e.base_width \div 2)
            WaterOf(e) == Mul(weight(spec_water, heel(e.base_width, e.wall_t), e.base_length,
                                     e.height * S),
                              e.base_width - heel(e.base_width, e.wall_t) \div 2)
<1>5. BaseOf(b) = BaseTurns(g, r, L, T) /\ BaseOf(d) = BaseTurns(g, q, L, T)
  BY MbseIs
<1>6. HeelWater(r, L, w) \in Nat /\ HeelWater(q, L, w) \in Nat
  <2>1. heel(10 * r, w) \in Nat /\ heel(10 * q, w) \in Nat
    BY <1>1 DEF heel
  <2>. DEFINE h1 == heel(10 * r, w)
              h2 == heel(10 * q, w)
  <2>. HIDE DEF h1, h2
  <2>2. h1 \in Nat /\ h2 \in Nat /\ L \in Nat
    BY <1>1, <2>1 DEF h1, h2
  <2>. HIDE DEF L
  <2>3. Mul(h1, L) \in Nat /\ Mul(h2, L) \in Nat
    BY ONLY <2>2, MulNat
  <2>. QED BY <2>3 DEF HeelWater, h1, h2
<1>7. WaterOf(b) = WaterTurns(H, r, L, w) /\ WaterOf(d) = WaterTurns(H, q, L, w)
  BY <1>1, <1>2, <1>6, MwhIs
<1>8. /\ fvertical(c, b) = Weighs(g, H, r, L, w, T)
      /\ fvertical(c, d) = Weighs(g, H, q, L, w, T)
  BY <1>1, <1>2, <1>6, VerticalWeighs
<1>9. b.base_width <= d.base_width /\ w <= b.base_width
  BY <1>1
<1>10. fvertical(c, b) > 0 /\ fvertical(c, d) > 0
  <2>1. fvertical(c, b) > 0
    BY <1>1, <1>9, VerticalPositive
  <2>2. WidthAt(d, 50) = WidthAt(b, 50)
    BY <1>2 DEF WidthAt
  <2>3. Ordinary(c, d)
    BY <1>2, <2>2 DEF Ordinary
  <2>4. d.wall_t <= d.base_width /\ d.base_width >= 500 /\ d.base_length >= 200 /\ d.base_thickness >= 225
    BY <1>1, <1>2
  <2>5. fvertical(c, d) > 0
    BY <2>3, <2>4, VerticalPositive
  <2>. QED BY <2>1, <2>5
<1>. DEFINE w1 == WaterTurns(H, r, L, w)
            w2 == WaterTurns(H, q, L, w)
            b1 == BaseTurns(g, r, L, T)
            b2 == BaseTurns(g, q, L, T)
            f1 == LiftTurnsOne(H, r, L, w, T)
            f2 == LiftTurnsOne(H, q, L, w, T)
            s1 == LiftTurnsTwo(r, L, w, T)
            s2 == LiftTurnsTwo(q, L, w, T)
            v1 == Weighs(g, H, r, L, w, T)
            v2 == Weighs(g, H, q, L, w, T)
            r1 == Mres(c, b)
            r2 == Mres(c, d)
            o1 == Mov(b)
            o2 == Mov(d)
            M1 == r1 - o1
            M2 == r2 - o2
<1>11. /\ w1 \in Nat /\ w2 \in Nat /\ b1 \in Nat /\ b2 \in Nat
       /\ f1 \in Nat /\ f2 \in Nat /\ s1 \in Nat /\ s2 \in Nat /\ v1 \in Nat /\ v2 \in Nat
       /\ (10 * q) * v2 - (10 * r) * v1
            <= 2000 * ((w2 - w1) + (b2 - b1) - (f2 - f1) - (s2 - s1))
  <2>1. CentreGained(g, H, r, L, q, w, T)
    <3>. HIDE DEF H, w, T, L, g
    <3>. QED BY ONLY <1>1, CentreTurns
  <2>. QED BY <2>1 DEF CentreGained
<1>12. b2 - b1 + w2 - w1 <= r2 - r1
  <2>1. BaseOf(b) \in Nat /\ BaseOf(d) \in Nat /\ WaterOf(b) \in Nat /\ WaterOf(d) \in Nat
    BY <1>5, <1>7, <1>11
  <2>2. BaseOf(d) - BaseOf(b) + WaterOf(d) - WaterOf(b) <= Mres(c, d) - Mres(c, b)
    BY <1>9, <2>1, OthersGrow
  <2>. QED BY <1>5, <1>7, <2>2
<1>13. o1 = push + (f1 + s1) /\ o2 = push + (f2 + s2)
  BY <1>4
<1>14. r1 \in Int /\ r2 \in Int
  BY MresInt
<1>. DEFINE p1 == (10 * r) * v1
            p2 == (10 * q) * v2
<1>15. p1 \in Nat /\ p2 \in Nat
  BY <1>1, <1>11
<1>16. v1 > 0 /\ v2 > 0 /\ v1 <= v2
  <2>1. Wider(b, d)
    BY <1>1, <1>9 DEF Wider
  <2>2. c.spec_base >= spec_water
    BY DEF Ordinary, ConstantsType, spec_water
  <2>3. fvertical(c, b) <= fvertical(c, d)
    BY <2>1, <2>2, VerticalGrows
  <2>. QED BY <1>8, <1>10, <2>3
<1>. DEFINE Q == Quot(M1, v1)
            R == Quot(M2, v2)
<1>17. M1 \in Int /\ Q \in Int /\ FreshEccentricity(c, b) = 5 * r - Q
  <2>1. M1 \in Int
    BY MresInt, MovInt
  <2>2. /\ Quot(Mres(c, b) - Mov(b), fvertical(c, b)) \in Int
        /\ FreshEccentricity(c, b) = 5 * r - Quot(Mres(c, b) - Mov(b), fvertical(c, b))
    BY EccentricityIs
  <2>. QED BY <1>8, <2>1, <2>2
<1>18. M2 \in Int /\ R \in Int /\ FreshEccentricity(c, d) = 5 * q - R
  <2>1. M2 \in Int
    BY MresInt, MovInt
  <2>2. /\ Quot(Mres(c, d) - Mov(d), fvertical(c, d)) \in Int
        /\ FreshEccentricity(c, d) = 5 * q - Quot(Mres(c, d) - Mov(d), fvertical(c, d))
    BY EccentricityIs
  <2>. QED BY <1>8, <2>1, <2>2
<1>. HIDE DEF push, w1, w2, b1, b2, f1, f2, s1, s2, v1, v2, r1, r2, o1, o2
<1>19. p2 - p1 <= 2000 * (M2 - M1)
  <2>. HIDE DEF p1, p2
  <2>1. p2 - p1 <= 2000 * ((w2 - w1) + (b2 - b1) - (f2 - f1) - (s2 - s1))
    BY <1>11 DEF p1, p2
  <2>. QED BY <1>3, <1>11, <1>12, <1>13, <1>14, <1>15, <2>1
<1>. HIDE DEF M1, M2
\* The least of the load's distance from the toe and half the width.
<1>. DEFINE y == IF Q <= 5 * r THEN Q ELSE 5 * r
            x == y + 25 * H
<1>20. Q * v1 <= 1000 * M1
  BY <1>11, <1>16, <1>17, QuotAtLeast
<1>. HIDE DEF Q, R
<1>21. y \in Int /\ y <= Q /\ y <= 5 * r /\ (y = Q \/ y = 5 * r) /\ x \in Int /\ x = y + 25 * H
  BY <1>1, <1>17
<1>. HIDE DEF y, x
<1>22. x * v2 <= 1000 * M2
  <2>1. y * v1 <= Q * v1
    BY <1>11, <1>17, <1>21, TimesGrows
  <2>. DEFINE dv == v2 - v1
              r5 == 5 * r
  <2>2. dv \in Nat /\ r5 \in Nat /\ y <= r5
    BY <1>1, <1>11, <1>16, <1>21
  <2>3. dv = v2 - v1
    OBVIOUS
  <2>4. r5 * dv = 5 * (r * v2) - 5 * (r * v1) /\ r * v2 \in Nat /\ r * v1 \in Nat
    BY <1>1, <1>11
  <2>5. y * dv = y * v2 - y * v1 /\ y * v2 \in Int /\ y * v1 \in Int
    BY <1>11, <1>21
  <2>. HIDE DEF dv, r5
  <2>6. y * dv <= r5 * dv
    BY <1>21, <2>2, TimesGrows
  <2>7. p1 = 10 * (r * v1) /\ p2 = 10 * (r * v2) + 50 * (H * v2) /\ H * v2 \in Nat
    BY <1>1, <1>11
  <2>8. x * v2 = y * v2 + 25 * (H * v2) /\ x * v2 \in Int
    BY <1>1, <1>11, <1>21
  <2>9. Q * v1 \in Int
    BY <1>11, <1>17
  <2>. HIDE DEF p1, p2
  <2>. QED BY <1>17, <1>18, <1>19, <1>20, <2>1, <2>4, <2>5, <2>6, <2>7, <2>8, <2>9
<1>23. x <= R
  <2>1. M2 \in Int /\ v2 \in Nat /\ v2 > 0 /\ x \in Int /\ x * v2 <= 1000 * M2
    BY <1>11, <1>16, <1>18, <1>21, <1>22
  <2>2. x <= Quot(M2, v2)
    BY ONLY <2>1, QuotAtLeast
  <2>. QED BY <2>2 DEF R
<1>24. 5 * q - R <= 0 \/ 5 * q - R <= 5 * r - Q
  BY <1>1, <1>17, <1>18, <1>21, <1>23
<1>. QED BY <1>17, <1>18, <1>24

HighWall == High(barrier)

LEMMA HighWallInit == HighWalls /\ Init => HighWall
<1>. SUFFICES ASSUME HighWalls, Init PROVE HighWall
  OBVIOUS
<1>1. PICK job \in Jobs : barrier = Unfooted(job.barrier)
  BY DEF Init
<1>2. job.barrier \in BarrierType
  BY JobsAssumption DEF JobType
<1>3. Unfooted(job.barrier).height = job.barrier.height
  BY <1>2, UnfootedFields DEF Site
<1>. QED BY <1>1, <1>3 DEF HighWalls, HighWall, High

LEMMA HighWallStep == TypeOK /\ TypeOK' /\ HighWall /\ [Next]_vars => HighWall'
<1>. SUFFICES ASSUME TypeOK, TypeOK', HighWall, [Next]_vars PROVE HighWall'
  OBVIOUS
<1>1. Site(barrier') = Site(barrier)
  BY SiteStep
<1>. QED BY <1>1 DEF HighWall, High, Site

\* The load on the toe's side of the middle of the base.
ToeLoaded == FreshEccentricity(constants, barrier) > 0

\* From the third loop on k is no smaller than the footing's own eccentricity, unless the
\* load is not on the toe's side; and what the last two loops compared goes on holding.
CentreStands ==
    /\ pc \in {"eccentricity", "settlement", "written"} /\ ToeLoaded =>
          FreshEccentricity(constants, barrier) <= k
    /\ pc \in {"settlement", "written"} => ~OffMiddleThird(k, barrier)
    /\ pc = "written" => ~OverPressed(constants, barrier, k)

\* The settlement loop keeps k and widens the footing by half a tenth of its height.
LEMMA SettlementKeepsCentre ==
    ASSUME TypeOK, TypeOK', Proportions, History, Sited, SlidingStands, ThinWall, HighWall,
           OverturningStands, WidenAgainstSettlement
    PROVE  /\ FreshEccentricity(constants, barrier') \in Int
           /\ FreshEccentricity(constants, barrier) \in Int
           /\ \/ FreshEccentricity(constants, barrier') <= 0
              \/ FreshEccentricity(constants, barrier') <= FreshEccentricity(constants, barrier)
           /\ barrier'.base_width >= barrier.base_width
<1>. DEFINE h == barrier.height
            p == coeff * h
            q == p + 5 * h
<1>1. /\ barrier \in BarrierType /\ barrier' \in BarrierType /\ constants \in ConstantsType
      /\ coeff \in Nat /\ coeff' \in Nat /\ h \in Nat /\ h >= 3
  BY MaxCoeffAssumption DEF TypeOK, BarrierType, HighWall, High
<1>2. Site(barrier') = Site(barrier)
  <2>1. [Next]_vars
    BY DEF Next
  <2>. QED BY <2>1, SiteStep
<1>3. pc = "settlement" /\ coeff' = coeff + 5 /\ barrier' = Widened(barrier, coeff')
  BY DEF WidenAgainstSettlement, Widen
<1>4. /\ barrier'.base_width = WidthAt(barrier, coeff') /\ barrier'.base_length = barrier.base_length
      /\ barrier'.base_thickness = barrier.base_thickness /\ barrier'.key_depth = barrier.key_depth
  BY <1>1, <1>3, WidenedFields
<1>5. coeff' * h = q
  <2>. HIDE DEF h
  <2>1. (coeff + 5) * h = coeff * h + 5 * h
    BY ONLY <1>1, WiderByShare
  <2>. QED BY <1>3, <2>1
<1>6. barrier'.base_width = 10 * q
  <2>1. WidthAt(barrier, coeff') = 10 * (coeff' * h)
    BY <1>1 DEF WidthAt
  <2>. QED BY <1>4, <1>5, <2>1
<1>7. /\ barrier.base_thickness >= 225 /\ barrier.wall_t <= S /\ 4 * barrier.wall_t <= 500 * h
      /\ p \in Nat /\ p >= 50 * h /\ barrier.base_width = 10 * p
      /\ barrier.base_length >= 200 * h
  BY <1>3, LaterShares
<1>. HIDE DEF p
<1>8. q \in Nat /\ q = p + 5 * h /\ p <= q
  BY <1>1, <1>7
<1>. HIDE DEF q
<1>9. /\ FreshEccentricity(constants, barrier') \in Int
      /\ FreshEccentricity(constants, barrier) \in Int
  BY <1>1, FreshEccentricityInt
<1>10. \/ FreshEccentricity(constants, barrier') <= 0
       \/ FreshEccentricity(constants, barrier') <= FreshEccentricity(constants, barrier)
  BY <1>1, <1>2, <1>4, <1>6, <1>7, <1>8, WiderStaysCentred DEF Sited
<1>11. barrier'.base_width >= barrier.base_width
  BY <1>6, <1>7, <1>8
<1>. QED BY <1>9, <1>10, <1>11

LEMMA CentreStandsStep ==
    ASSUME OInv, OInv', ThinWall, HighWall, OverturningStands, EccentricityStands',
           CentreStands, [Next]_vars
    PROVE  CentreStands'
<1>1. /\ constants' = constants /\ k \in Int /\ k' \in Int
  BY SiteStep DEF OInv, IInv, TypeOK
<1>2. CASE FinishOverturning \/ WidenAgainstEccentricity
  <2>1. pc' = "eccentricity"
    BY <1>2 DEF FinishOverturning, Pass, WidenAgainstEccentricity, Widen
  <2>2. FreshEccentricity(constants', barrier') <= k'
    BY <2>1 DEF EccentricityStands, StaleEccentricityIsSafe, Unsunk
  <2>. QED BY <2>1, <2>2 DEF CentreStands
<1>3. CASE FinishEccentricity
  <2>1. /\ pc = "eccentricity" /\ pc' = "settlement" /\ barrier' = barrier /\ k' = k
        /\ ~OffMiddleThird(k, barrier)
    BY <1>3 DEF FinishEccentricity, Pass
  <2>. QED BY <1>1, <2>1 DEF CentreStands, ToeLoaded
<1>4. CASE WidenAgainstSettlement
  <2>. DEFINE e == FreshEccentricity(constants, barrier)
              d == FreshEccentricity(constants, barrier')
  <2>1. pc = "settlement" /\ pc' = "settlement" /\ k' = k
    BY <1>4 DEF WidenAgainstSettlement, Widen
  <2>2. /\ d \in Int /\ e \in Int /\ (d <= 0 \/ d <= e)
        /\ barrier'.base_width >= barrier.base_width
    BY <1>4, SettlementKeepsCentre DEF OInv, IInv
  <2>3. (e > 0 => e <= k) /\ ~OffMiddleThird(k, barrier)
    BY <2>1 DEF CentreStands, ToeLoaded
  <2>4. ~OffMiddleThird(k, barrier')
    <3>1. barrier.base_width \in Nat /\ barrier'.base_width \in Nat
      BY DEF OInv, IInv, TypeOK, BarrierType
    <3>. QED BY <1>1, <2>2, <2>3, <3>1 DEF OffMiddleThird
  <2>. HIDE DEF e, d
  <2>5. d > 0 => d <= k
    BY <1>1, <2>2, <2>3
  <2>. QED BY <1>1, <2>1, <2>4, <2>5 DEF CentreStands, ToeLoaded, d
<1>5. CASE FinishSettlement
  <2>1. /\ pc = "settlement" /\ pc' = "written" /\ barrier' = barrier /\ k' = k
        /\ ~OverPressed(constants, barrier, k)
    BY <1>5 DEF FinishSettlement, Pass
  <2>. QED BY <1>1, <2>1 DEF CentreStands, ToeLoaded
<1>6. CASE Written \/ UNCHANGED vars
  BY <1>6 DEF Written, vars, CentreStands, ToeLoaded
<1>7. CASE Design \/ WidenAgainstSliding \/ FinishSliding \/ WidenAgainstOverturning
  <2>1. pc' \in {"sliding", "overturning"}
    BY <1>7 DEF Design, WidenAgainstSliding, FinishSliding, Pass, WidenAgainstOverturning, Widen
  <2>. QED BY <2>1 DEF CentreStands
<1>. QED BY <1>2, <1>3, <1>4, <1>5, <1>6, <1>7 DEF Next

LEMMA CentreInvariant ==
    ASSUME OrdinarySites, ThinWalls, HighWalls PROVE Spec => []CentreStands
<1>1. Init => ThinWall /\ HighWall /\ CentreStands
  BY ThinWallInit, HighWallInit DEF Init, CentreStands
<1>2. OInv /\ OInv' /\ ThinWall /\ HighWall /\ OverturningStands /\ EccentricityStands'
        /\ CentreStands /\ [Next]_vars => ThinWall' /\ HighWall' /\ CentreStands'
  BY ThinWallStep, HighWallStep, CentreStandsStep DEF OInv, IInv
<1>. QED BY <1>1, <1>2, OInvInvariant, OverturningInvariant, EccentricityInvariant, PTL DEF Spec

\* Over all ordinary sites with thin walls of three feet and more, weak soils included, the
\* eccentricity the settlement loop goes on using while it widens the footing is no smaller
\* than the footing's own wherever the load is on the toe's side.
THEOREM StaleEccentricityStaysSafe ==
    ASSUME OrdinarySites, ThinWalls, HighWalls
    PROVE  Spec => [](ToeLoaded => StaleEccentricityIsSafe)
<1>1. CentreStands => (ToeLoaded => StaleEccentricityIsSafe)
  BY DEF CentreStands, StaleEccentricityIsSafe
<1>. QED BY <1>1, CentreInvariant, PTL

LEMMA ToeFollows ==
    OInv /\ CentreStands /\ pc = "written" => ~Lifts(constants, barrier)
<1>. SUFFICES ASSUME OInv, CentreStands, pc = "written" PROVE ~Lifts(constants, barrier)
  OBVIOUS
<1>. DEFINE e == FreshEccentricity(constants, barrier)
<1>1. ~OffMiddleThird(k, barrier) /\ (e > 0 => e <= k)
  BY DEF CentreStands, ToeLoaded
<1>2. k \in Int /\ barrier.base_width \in Nat
  BY DEF OInv, IInv, TypeOK, BarrierType
<1>3. e \in Int
  <2>1. constants \in ConstantsType /\ barrier \in BarrierType
    BY DEF OInv, IInv, TypeOK
  <2>. QED BY <2>1, FreshEccentricityInt
<1>. HIDE DEF e
<1>4. ~(6 * e > barrier.base_width)
  BY <1>1, <1>2, <1>3 DEF OffMiddleThird
<1>. QED BY <1>4 DEF Lifts, OffMiddleThird, e

\* Over all ordinary sites with thin walls of three feet and more, weak soils included, the
\* footing on file keeps its load inside the middle third on the toe side, by its own
\* eccentricity and not only by the one the third loop compared, of which the fourth never
\* computes another.
THEOREM ToeNeverLifts ==
    ASSUME OrdinarySites, ThinWalls, HighWalls PROVE Spec => []ToeSideEccentricity
<1>1. OInv /\ CentreStands => ToeSideEccentricity
  <2>. SUFFICES ASSUME OInv, CentreStands, csv # NoFile
                PROVE  ~Lifts(constants, csv)
    BY DEF ToeSideEccentricity
  <2>1. pc = "written" /\ csv = barrier
    BY DEF OInv, IInv, History
  <2>. QED BY <2>1, ToeFollows
<1>. QED BY <1>1, OInvInvariant, CentreInvariant, PTL

LEMMA BearingFollows ==
    OInv /\ CentreStands /\ pc = "written" =>
        /\ fvertical(constants, barrier) > 0
        /\ ToeLoaded => qmax(constants, barrier) <= constants.Sb * S
<1>. SUFFICES ASSUME OInv, CentreStands, pc = "written"
              PROVE  /\ fvertical(constants, barrier) > 0
                     /\ ToeLoaded => qmax(constants, barrier) <= constants.Sb * S
  OBVIOUS
<1>1. /\ constants \in ConstantsType /\ barrier \in BarrierType /\ k \in Int
      /\ Ordinary(constants, barrier)
  BY DEF OInv, IInv, TypeOK, Sited
<1>2. barrier.wall_t <= barrier.base_width
  BY WallFits DEF OInv, IInv
<1>3. /\ barrier.base_width >= 500 /\ barrier.base_length >= 200
      /\ barrier.base_thickness >= 225
  BY Sizes DEF OInv, IInv
<1>4. fvertical(constants, barrier) > 0
  BY <1>1, <1>2, <1>3, VerticalPositive
<1>5. fvertical(constants, barrier) \in Nat
  BY <1>1, <1>2, OrdinaryHeavy, VerticalNat
<1>6. ASSUME ToeLoaded PROVE qmax(constants, barrier) <= constants.Sb * S
  <2>1. /\ FreshEccentricity(constants, barrier) <= k
        /\ ~OverPressed(constants, barrier, k)
    BY <1>6 DEF CentreStands
  <2>2. FreshEccentricity(constants, barrier) >= 0
    BY <1>1, <1>6, FreshEccentricityInt DEF ToeLoaded
  <2>. QED BY <1>1, <1>5, <2>1, <2>2, EdgePressure
<1>. QED BY <1>4, <1>6

\* Over all ordinary sites with thin walls of three feet and more, weak soils included,
\* neither edge of a footing on file whose load is on the toe's side presses the soil harder
\* than it bears, although the last loop compared the pressure of a stale eccentricity.
THEOREM BearingHoldsToeLoaded ==
    ASSUME OrdinarySites, ThinWalls, HighWalls PROVE Spec => [](ToeLoaded => BearingHolds)
<1>1. OInv /\ CentreStands => (ToeLoaded => BearingHolds)
  <2>. SUFFICES ASSUME OInv, CentreStands, ToeLoaded, csv # NoFile
                PROVE  qmax(constants, csv) <= constants.Sb * S
    BY DEF BearingHolds
  <2>1. pc = "written" /\ csv = barrier
    BY DEF OInv, IInv, History
  <2>. QED BY <2>1, BearingFollows
<1>. QED BY <1>1, OInvInvariant, CentreInvariant, PTL

----------------------------------------------------------------------------
(***************************************************************************)
(* The settlement loop on a soil below the pressure floor.                 *)
(***************************************************************************)

\* The mean pressure from below, all roundings counted: with W and L the sides of the base,
\* w the wall, t the thickness, A the area, V the volume, Y what the water stands on.
LEMMA MeanFromBelow ==
    ASSUME NEW u \in Nat, NEW t \in Nat, NEW H \in Nat, NEW W \in Nat, NEW w \in Nat,
           NEW L \in Nat, NEW h \in Nat, NEW A \in Nat, NEW V \in Nat, NEW Y \in Nat,
           NEW n \in Int,
           H >= 3, W >= 500 * H, L >= 200 * H, w <= W, A >= 900,
           1000 * A <= W * L, W * L <= 1000 * A + 999, A * t <= 1000 * V + 999,
           h * L <= 1000 * Y + 999, 2 * (W - w) <= 3 * h + 2,
           1000 * (u * V + 64 * (Y * H)) < (n + 1) * A
    PROVE  3 * (u * t * W) + 128000 * (H * W)
               <= 3 * (n * W) + 3 * W + 128256 * (H * (w + 1)) + 5005 * u + 960959
<1>. DEFINE x == W * L
            at == A * t
            uat == u * at
            uv == u * V
            hy == Y * H
            hx == H * x
            ha == H * A
            wl == (w + 1) * L
            hwl == H * wl
            hl == h * L
            hhl == H * hl
<1>0. /\ x \in Nat /\ at \in Nat /\ uat \in Nat /\ uv \in Nat /\ hy \in Nat /\ hx \in Nat
      /\ ha \in Nat /\ wl \in Nat /\ hwl \in Nat /\ hl \in Nat /\ hhl \in Nat
  <2>1. x \in Nat /\ at \in Nat /\ wl \in Nat /\ hl \in Nat
    OBVIOUS
  <2>. HIDE DEF x, at, wl, hl
  <2>. QED BY <2>1
<1>1. uat <= 1000 * uv + 999 * u
  <2>1. at \in Int /\ 1000 * V + 999 \in Int /\ at <= 1000 * V + 999
    OBVIOUS
  <2>. HIDE DEF at
  <2>2. at * u <= (1000 * V + 999) * u
    BY <2>1, TimesGrows
  <2>. QED BY <2>1, <2>2
<1>2. 2 * x <= 3 * hl + 2 * wl
  <2>1. 2 * W \in Int /\ 3 * h + 2 * (w + 1) \in Int /\ 2 * W <= 3 * h + 2 * (w + 1)
    OBVIOUS
  <2>2. (2 * W) * L <= (3 * h + 2 * (w + 1)) * L
    BY <2>1, TimesGrows
  <2>. QED BY <2>2
<1>3. hhl <= 1000 * hy + 999 * H
  <2>1. hl \in Int /\ 1000 * Y + 999 \in Int /\ hl <= 1000 * Y + 999
    BY <1>0
  <2>. HIDE DEF hl
  <2>2. hl * H <= (1000 * Y + 999) * H
    BY <2>1, TimesGrows
  <2>. QED BY <2>1, <2>2
<1>4. 1000 * ha <= hx
  <2>1. 1000 * A \in Int /\ x \in Int /\ 1000 * A <= x
    BY <1>0
  <2>. HIDE DEF x
  <2>2. (1000 * A) * H <= x * H
    BY <2>1, TimesGrows
  <2>. QED BY <2>1, <2>2
<1>5. 2 * hx <= 3 * hhl + 2 * hwl
  <2>. HIDE DEF x, hl, wl
  <2>1. 2 * x \in Int /\ 3 * hl + 2 * wl \in Int
    BY <1>0
  <2>2. (2 * x) * H <= (3 * hl + 2 * wl) * H
    BY <1>2, <2>1, TimesGrows
  <2>. QED BY <1>0, <2>2
<1>6. 1000 * (uv + 64 * hy) < (n + 1) * A
  OBVIOUS
<1>. DEFINE na == n * A
<1>7. na \in Int /\ (n + 1) * A = na + A
  OBVIOUS
<1>8. 3 * uat + 128000 * ha <= 3 * na + 3 * A + 128 * hwl + 2997 * u + 191808 * H
  <2>. HIDE DEF uat, uv, hy, hx, ha, hwl, hhl, na
  <2>. QED BY <1>0, <1>1, <1>3, <1>4, <1>5, <1>6, <1>7
\* Times the width: what is left of each error is then a multiple of the area.
<1>9. x <= 1002 * A
  <2>. HIDE DEF x
  <2>. QED BY <1>0 DEF x
<1>10. 200 * (H * W) <= x
  <2>1. 200 * H \in Int
    OBVIOUS
  <2>2. (200 * H) * W <= L * W
    BY <2>1, TimesGrows
  <2>. QED BY <2>2
<1>11. 600 * W <= x
  <2>1. 600 \in Int /\ 600 <= L
    OBVIOUS
  <2>2. 600 * W <= L * W
    BY <2>1, TimesGrows
  <2>. QED BY <2>2
<1>. DEFINE hw == H * W
            uw == u * W
            ua == u * A
            hw1 == H * (w + 1)
            hwa == hw1 * A
            hwlw == hwl * W
            utw == u * t * W
            utwa == utw * A
            hwA == hw * A
            naw == na * W
            wa == W * A
<1>12. /\ hw \in Nat /\ uw \in Nat /\ ua \in Nat /\ hw1 \in Nat /\ utw \in Nat
  OBVIOUS
<1>13. /\ hwa \in Nat /\ hwlw \in Nat /\ utwa \in Nat /\ hwA \in Nat /\ naw \in Int /\ wa \in Nat
  <2>. HIDE DEF hw, hw1, hwl, utw, na
  <2>. QED BY <1>0, <1>7, <1>12
<1>14. 191808 * hw <= 960959 * A
  <2>. HIDE DEF x, hw
  <2>. QED BY <1>0, <1>9, <1>10, <1>12 DEF hw
<1>15. 2997 * uw <= 5005 * ua
  <2>1. 2997 * W \in Int /\ 5005 * A \in Int /\ 2997 * W <= 5005 * A
    <3>. HIDE DEF x
    <3>. QED BY <1>0, <1>9, <1>11
  <2>2. (2997 * W) * u <= (5005 * A) * u
    BY <2>1, TimesGrows
  <2>. QED BY <2>2
<1>16. hwlw <= 1002 * hwa
  <2>1. x \in Int /\ 1002 * A \in Int
    BY <1>0
  <2>2. x * hw1 <= (1002 * A) * hw1
    <3>. HIDE DEF x, hw1
    <3>. QED BY <1>9, <1>12, <2>1, TimesGrows
  <2>3. x * hw1 = hwlw
    OBVIOUS
  <2>4. (1002 * A) * hw1 = 1002 * hwa
    <3>. HIDE DEF hw1
    <3>. QED BY <1>12
  <2>. QED BY <2>2, <2>3, <2>4
<1>17. (3 * uat + 128000 * ha) * W
           <= (3 * na + 3 * A + 128 * hwl + 2997 * u + 191808 * H) * W
  <2>. HIDE DEF uat, ha, na, hwl
  <2>1. /\ 3 * uat + 128000 * ha \in Int
        /\ 3 * na + 3 * A + 128 * hwl + 2997 * u + 191808 * H \in Int
    BY <1>0, <1>7
  <2>. QED BY <1>8, <2>1, TimesGrows
<1>18. (3 * uat + 128000 * ha) * W = 3 * utwa + 128000 * hwA
  <2>1. uat * W = utwa
    OBVIOUS
  <2>2. ha * W = hwA
    OBVIOUS
  <2>. HIDE DEF uat, ha
  <2>3. (3 * uat + 128000 * ha) * W = 3 * (uat * W) + 128000 * (ha * W)
    BY <1>0
  <2>. QED BY <2>1, <2>2, <2>3
<1>19. (3 * na + 3 * A + 128 * hwl + 2997 * u + 191808 * H) * W
           = 3 * naw + 3 * wa + 128 * hwlw + 2997 * uw + 191808 * hw
  <2>. HIDE DEF na, hwl
  <2>. QED BY <1>0, <1>7
<1>20. 3 * utwa + 128000 * hwA
           <= 3 * naw + 3 * wa + 128256 * hwa + 5005 * ua + 960959 * A
  <2>1. ua \in Nat /\ hw \in Nat /\ uw \in Nat
    BY <1>12
  <2>. HIDE DEF utwa, hwA, naw, wa, hwlw, hwa, uw, ua, hw, uat, ha, na, hwl
  <2>. QED BY <1>13, <1>14, <1>15, <1>16, <1>17, <1>18, <1>19, <2>1
<1>. DEFINE nw == n * W
            l == 3 * utw + 128000 * hw
            r == 3 * nw + 3 * W + 128256 * hw1 + 5005 * u + 960959
<1>21. nw \in Int /\ l \in Int /\ r \in Int
  <2>1. nw \in Int
    OBVIOUS
  <2>. HIDE DEF nw, utw, hw, hw1
  <2>. QED BY <1>12, <2>1
<1>22. l * A = 3 * utwa + 128000 * hwA
  <2>. HIDE DEF utw, hw
  <2>. QED BY <1>12
<1>23. r * A = 3 * naw + 3 * wa + 128256 * hwa + 5005 * ua + 960959 * A
  <2>1. naw = nw * A /\ nw \in Int
    OBVIOUS
  <2>. HIDE DEF naw, nw, hw1
  <2>. QED BY <1>12, <2>1
<1>24. l <= r
  <2>1. SUFFICES ASSUME r + 1 <= l PROVE FALSE
    BY <1>21
  <2>2. l * A <= r * A
    BY <1>20, <1>22, <1>23
  <2>. HIDE DEF l, r
  <2>3. (r + 1) * A <= l * A
    BY <1>21, <2>1, TimesGrows
  <2>4. (r + 1) * A = r * A + A /\ r * A \in Int /\ l * A \in Int
    BY <1>21
  <2>. QED BY <2>2, <2>3, <2>4
<1>. QED BY <1>24

\* A load out of the middle by the thickness of the wall makes up for the water the wall
\* keeps off the base, and for all roundings.
LEMMA TiltFromBelow ==
    ASSUME NEW u \in Nat, NEW t \in Nat, NEW H \in Nat, NEW W \in Nat, NEW w \in Nat,
           NEW n \in Int, NEW r \in Int, NEW ecc \in Int,
           H >= 3, W >= 500 * H, t >= 225 * H, 4 * w <= W, W <= 1000 * w, w <= ecc,
           6000 * ecc < (r + 1) * W,
           3 * (u * t * W) + 128000 * (H * W)
               <= 3 * (n * W) + 3 * W + 128256 * (H * (w + 1)) + 5005 * u + 960959
    PROVE  3 * (n * (1000 + r)) >= 1000 * (3 * (u * t) + 128000 * H) + 3000
<1>. DEFINE ut == u * t
            e == 3 * ut + 128000 * H
            utw == ut * w
            hw == H * w
            utW == ut * W
            hW == H * W
            nW == n * W
            g == 3 * W + 128256 * (H * (w + 1)) + 5005 * u + 960959
<1>0. /\ ut \in Nat /\ e \in Nat /\ utw \in Nat /\ hw \in Nat /\ utW \in Nat /\ hW \in Nat
      /\ nW \in Int /\ w >= 2 /\ W >= 1500 /\ t >= 675
  <2>1. ut \in Nat /\ hw \in Nat /\ hW \in Nat /\ nW \in Int /\ w >= 2 /\ W >= 1500 /\ t >= 675
    OBVIOUS
  <2>. HIDE DEF ut
  <2>. QED BY <2>1
<1>1. u * t * W = utW /\ H * (w + 1) = hw + H
  OBVIOUS
<1>2. e * W = 3 * utW + 128000 * hW /\ e * w = 3 * utw + 128000 * hw
  <2>. HIDE DEF ut
  <2>. QED BY <1>0
<1>3. 675 * u <= ut /\ 1350 * u <= utw /\ 1012500 * u <= utW
  <2>1. 675 * u <= t * u
    BY <1>0, TimesGrows
  <2>2. 675 * u <= ut
    BY <2>1
  <2>. HIDE DEF ut
  <2>3. 2 * ut <= w * ut /\ 1500 * ut <= W * ut
    BY <1>0, TimesGrows
  <2>. QED BY <1>0, <2>2, <2>3
<1>4. /\ 3 * w <= hw /\ 2 * H <= hw /\ 6 <= hw
      /\ 4 * hw <= hW /\ 1500 * H <= hW /\ 3 * W <= hW /\ 4500 <= hW
  <2>1. 3 * w <= H * w
    BY TimesGrows
  <2>2. 2 * H <= w * H /\ 1500 * H <= W * H
    BY <1>0, TimesGrows
  <2>3. 3 * W <= H * W
    BY TimesGrows
  <2>4. (4 * w) * H <= W * H
    <3>1. 4 * w \in Int
      OBVIOUS
    <3>. QED BY <3>1, TimesGrows
  <2>5. w * H = hw /\ W * H = hW /\ (4 * w) * H = 4 * hw
    OBVIOUS
  <2>. QED BY <1>0, <2>1, <2>2, <2>3, <2>4, <2>5
<1>5. g = 3 * W + 128256 * (hw + H) + 5005 * u + 960959 /\ g \in Int
  <2>. HIDE DEF hw
  <2>. QED BY <1>0, <1>1
<1>. DEFINE eW == e * W
            ew == e * w
<1>6. e * W <= 3 * nW + g
  BY <1>1, <1>2, <1>5
<1>. HIDE DEF ut, e, utw, hw, utW, hW, nW, g
<1>7. eW \in Nat /\ ew \in Nat
  BY <1>0
<1>8. 10 * g <= 3 * eW
  <2>. HIDE DEF eW
  <2>. QED BY <1>0, <1>2, <1>3, <1>4, <1>5, <1>7 DEF eW
<1>9. 2 * g + 6 * W <= 7 * ew
  <2>1. W <= 1000 * w
    OBVIOUS
  <2>. HIDE DEF ew
  <2>. QED BY <1>0, <1>2, <1>3, <1>4, <1>5, <1>7, <2>1 DEF ew
<1>10. 7 * e <= 30 * n /\ n \in Nat
  <2>1. 7 * eW <= 30 * nW
    <3>. HIDE DEF eW
    <3>. QED BY <1>0, <1>5, <1>6, <1>7, <1>8 DEF eW
  <2>2. ASSUME 30 * n + 1 <= 7 * e PROVE FALSE
    <3>1. 30 * n + 1 \in Int /\ 7 * e \in Int
      BY <1>0
    <3>2. (30 * n + 1) * W <= (7 * e) * W
      BY <2>2, <3>1, TimesGrows
    <3>3. (30 * n + 1) * W = 30 * nW + W /\ (7 * e) * W = 7 * eW
      BY <1>0 DEF nW
    <3>. HIDE DEF eW
    <3>. QED BY <1>0, <1>7, <2>1, <3>2, <3>3
  <2>3. 7 * e <= 30 * n
    BY <1>0, <2>2
  <2>. QED BY <1>0, <2>3
<1>11. 5000 * w <= r * W
  <2>. DEFINE rW == r * W
  <2>1. rW \in Int /\ (r + 1) * W = rW + W
    OBVIOUS
  <2>2. W <= 1000 * w /\ w <= ecc /\ 6000 * ecc < (r + 1) * W
    OBVIOUS
  <2>. HIDE DEF rW
  <2>3. 5000 * w <= rW
    BY <2>1, <2>2
  <2>. QED BY <2>3 DEF rW
<1>. DEFINE rW == r * W
            nw == n * w
            nrW == n * rW
<1>12. rW \in Int /\ nw \in Nat /\ nrW \in Int
  <2>1. rW \in Int
    OBVIOUS
  <2>. HIDE DEF rW
  <2>. QED BY <1>10, <2>1
<1>13. 5000 * nw <= nrW
  <2>. HIDE DEF rW
  <2>1. 5000 * w \in Int
    OBVIOUS
  <2>2. (5000 * w) * n <= rW * n
    BY <1>10, <1>11, <1>12, <2>1, TimesGrows DEF rW
  <2>. QED BY <1>10, <1>12, <2>2
<1>14. 7 * ew <= 30 * nw
  <2>1. 7 * e \in Int /\ 30 * n \in Int
    BY <1>0, <1>10
  <2>2. (7 * e) * w <= (30 * n) * w
    BY <1>10, <2>1, TimesGrows
  <2>. QED BY <1>0, <1>10, <2>2
<1>. DEFINE p == 3 * (n * (1000 + r))
            q == 1000 * e + 3000
<1>15. p \in Int /\ q \in Int /\ p * W = 3000 * nW + 3 * nrW /\ q * W = 1000 * eW + 3000 * W
  <2>1. p \in Int /\ q \in Int
    BY <1>0
  <2>2. p * W = 3000 * (n * W) + 3 * (n * (r * W))
    BY <1>10
  <2>3. q * W = 1000 * (e * W) + 3000 * W
    BY <1>0
  <2>. QED BY <2>1, <2>2, <2>3 DEF nW
<1>. HIDE DEF eW, ew, rW, nw, nrW, p, q
<1>16. q * W <= p * W
  <2>1. e * W = eW
    BY DEF eW
  <2>2. 1000 * eW <= 3000 * nW + 1000 * g
    BY <1>0, <1>5, <1>6, <1>7, <2>1
  <2>3. 1000 * g + 3000 * W <= 3500 * ew
    BY <1>5, <1>7, <1>9
  <2>4. 3500 * ew <= 3 * nrW
    BY <1>7, <1>12, <1>13, <1>14
  <2>. QED BY <1>0, <1>5, <1>7, <1>12, <1>15, <2>2, <2>3, <2>4
<1>17. q <= p
  <2>1. SUFFICES ASSUME p + 1 <= q PROVE FALSE
    BY <1>15
  <2>2. (p + 1) * W <= q * W
    BY <1>15, <2>1, TimesGrows
  <2>3. (p + 1) * W = p * W + W /\ p * W \in Int /\ q * W \in Int
    BY <1>15
  <2>. QED BY <1>0, <1>16, <2>2, <2>3
<1>. QED BY <1>17 DEF p, q, e, ut

\* Such a footing presses the soil harder than PressureFloor at the toe.
LEMMA PressesAboveFloor ==
    ASSUME NEW c \in ConstantsType, NEW b \in BarrierType, NEW e \in Int, Ordinary(c, b),
           b.height >= 3, b.base_width >= 500 * b.height, b.base_length >= 200 * b.height,
           b.base_thickness >= 225 * b.height,
           4 * b.wall_t <= b.base_width, b.base_width <= 1000 * b.wall_t, b.wall_t <= e
    PROVE  soil_pressure(c, b, e) \in Int /\ soil_pressure(c, b, e) > PressureFloor(c, b)
<1>. DEFINE W  == b.base_width
            L  == b.base_length
            T  == b.base_thickness
            H  == b.height
            w  == b.wall_t
            h  == heel(W, w)
            u  == c.spec_base - spec_water
            A  == Mul(W, L)
            V  == Mul(A, T)
            Y  == Mul(h, L)
            fv == fvertical(c, b)
            n  == LongDiv(fv, A)
            r  == LongDiv(6 * e, W)
            PF == PressureFloor(c, b)
            p  == soil_pressure(c, b, e)
            top == u * T
<1>1. /\ W \in Nat /\ L \in Nat /\ T \in Nat /\ H \in Nat /\ w \in Nat /\ u \in Nat
      /\ H >= 3 /\ W >= 500 * H /\ L >= 200 * H /\ T >= 225 * H
      /\ 4 * w <= W /\ W <= 1000 * w /\ w <= e
  BY DEF BarrierType, ConstantsType, Ordinary, spec_water
<1>2. w <= W /\ W > 0 /\ W >= 1500 /\ L >= 600
  BY <1>1
<1>3. fv = u * V + 64 * (Y * H)
  BY <1>2, VerticalParts
<1>4. PF = top + (128000 * H) \div 3
  <2>1. 2 * spec_water * H * S = 128000 * H
    BY <1>1 DEF spec_water, S
  <2>. QED BY <2>1 DEF PressureFloor
<1>5. h \in Nat /\ 2 * (W - w) <= 3 * h + 2
  BY <1>1, <1>2 DEF heel
<1>6. p = Mul(Quot(fv, A), S + Quot(6 * e, W))
  BY DEF soil_pressure, soil_p
<1>. HIDE DEF W, L, T, H, w, h, u, fv, PF, p
<1>7. A \in Nat /\ 1000 * A <= W * L /\ W * L <= 1000 * A + 999 /\ A >= 900
  <2>1. A \in Nat
    BY ONLY <1>1, MulNat
  <2>2. 1000 * A <= W * L /\ W * L <= 1000 * A + 999
    BY ONLY <1>1, MulBounds
  <2>3. A >= 900
    <3>1. 1500 * 600 <= W * L
      <4>1. 1500 \in Int /\ 600 \in Int
        OBVIOUS
      <4>2. 600 * 1500 <= L * 1500 /\ 1500 * L <= W * L
        BY <1>1, <1>2, <4>1, TimesGrows
      <4>. QED BY <1>1, <4>2
    <3>. DEFINE x == W * L
    <3>2. x \in Nat
      BY <1>1
    <3>. HIDE DEF x, A
    <3>. QED BY <2>1, <2>2, <3>1, <3>2 DEF x
  <2>. QED BY <2>1, <2>2, <2>3
<1>. HIDE DEF A
<1>8. V \in Nat /\ A * T <= 1000 * V + 999
  <2>1. V \in Nat
    BY ONLY <1>1, <1>7, MulNat
  <2>2. A * T <= 1000 * V + 999
    BY ONLY <1>1, <1>7, MulBounds
  <2>. QED BY <2>1, <2>2
<1>9. Y \in Nat /\ h * L <= 1000 * Y + 999
  <2>1. Y \in Nat
    BY ONLY <1>1, <1>5, MulNat
  <2>2. h * L <= 1000 * Y + 999
    BY ONLY <1>1, <1>5, MulBounds
  <2>. QED BY <2>1, <2>2
<1>. HIDE DEF V, Y
<1>10. fv \in Nat
  <2>1. u * V \in Nat /\ Y * H \in Nat
    BY <1>1, <1>8, <1>9
  <2>. QED BY <1>3, <2>1
<1>11. n \in Int /\ 1000 * fv < (n + 1) * A
  <2>1. A \in Nat /\ A > 0 /\ fv \in Int
    BY <1>7, <1>10
  <2>2. LongDiv(fv, A) \in Int /\ 1000 * fv < (LongDiv(fv, A) + 1) * A
    BY ONLY <2>1, LongDivides
  <2>. QED BY <2>2
<1>12. r \in Int /\ 6000 * e < (r + 1) * W
  <2>. DEFINE x == 6 * e
  <2>1. x \in Int
    OBVIOUS
  <2>. HIDE DEF x
  <2>2. LongDiv(x, W) \in Int /\ 1000 * x < (LongDiv(x, W) + 1) * W
    BY ONLY <1>1, <1>2, <2>1, LongDivides
  <2>3. 1000 * x = 6000 * e
    BY DEF x
  <2>. QED BY <2>2, <2>3 DEF x
<1>13. p = Mul(n, S + r)
  <2>1. Quot(fv, A) = n
    BY <1>7 DEF Quot
  <2>2. Quot(6 * e, W) = r
    BY <1>2 DEF Quot
  <2>. QED BY <1>6, <2>1, <2>2
<1>. HIDE DEF n, r
<1>14. 3 * (u * T * W) + 128000 * (H * W)
           <= 3 * (n * W) + 3 * W + 128256 * (H * (w + 1)) + 5005 * u + 960959
  <2>1. 1000 * (u * V + 64 * (Y * H)) < (n + 1) * A
    BY <1>3, <1>11
  <2>. QED BY ONLY <1>1, <1>2, <1>5, <1>7, <1>8, <1>9, <1>11, <2>1, MeanFromBelow
<1>15. 3 * (n * (1000 + r)) >= 1000 * (3 * (u * T) + 128000 * H) + 3000
  BY ONLY <1>1, <1>11, <1>12, <1>14, e \in Int, TiltFromBelow
<1>. DEFINE x == n * (1000 + r)
<1>16. p = x \div 1000 /\ x \in Int /\ p \in Int
  <2>1. S + r \in Int /\ S + r = 1000 + r
    BY <1>12 DEF S
  <2>2. Mul(n, S + r) = (n * (S + r)) \div S
    BY ONLY <1>11, <2>1, MulExact
  <2>3. x \in Int
    BY <1>11, <1>12
  <2>. HIDE DEF x
  <2>4. x \div 1000 \in Int
    BY <2>3
  <2>. QED BY <1>13, <2>1, <2>2, <2>3, <2>4 DEF S, x
<1>17. top \in Nat
  BY <1>1
<1>18. 3 * x >= 1000 * (3 * top + 128000 * H) + 3000
  BY <1>15
<1>. HIDE DEF x, top
<1>19. PF \in Nat /\ 3 * PF <= 3 * top + 128000 * H
  BY <1>1, <1>4, <1>17
<1>20. 1000 * PF + 1000 <= x
  BY <1>1, <1>16, <1>17, <1>18, <1>19
<1>21. PF + 1 <= x \div 1000
  BY <1>16, <1>19, <1>20
<1>. QED BY <1>16, <1>19, <1>21 DEF p, PF

\* Width, length and thickness of a footing on file, by the height of the barrier.
LEMMA ScaledSizes ==
    ASSUME TypeOK, Proportions, History, pc = "written"
    PROVE  /\ barrier.base_width >= 500 * barrier.height
           /\ barrier.base_length >= 200 * barrier.height
           /\ barrier.base_thickness >= 225 * barrier.height
<1>. DEFINE h == barrier.height
            s == passedAt["sliding"]
            cut == passedAt["eccentricity"]
<1>1. barrier \in BarrierType /\ coeff \in Nat /\ coeff >= 50
  BY MaxCoeffAssumption DEF TypeOK
<1>2. s \in Nat /\ s >= 50 /\ cut \in Nat /\ cut >= 50
  <2>1. "sliding" \in Checks \ Pending[pc] /\ "eccentricity" \in Checks \ Pending[pc]
    BY DEF Checks, Pending
  <2>2. s \in 50 .. coeff /\ cut \in 50 .. coeff
    BY <2>1 DEF History
  <2>. QED BY <1>1, <2>2
<1>3. /\ barrier.base_width = WidthAt(barrier, coeff)
      /\ barrier.base_thickness = base_thick(WidthAt(barrier, s))
      /\ barrier.base_length = base_len(WidthAt(barrier, cut))
  BY DEF Proportions
<1>4. h \in Nat
  BY <1>1 DEF BarrierType
<1>5. \A cf \in Nat : WidthAt(barrier, cf) = 10 * (cf * h)
  BY <1>1, <1>4 DEF WidthAt
<1>. HIDE DEF h, s, cut
<1>6. \A cf \in Nat : cf >= 50 => cf * h \in Nat /\ 50 * h <= cf * h
  <2>. SUFFICES ASSUME NEW cf \in Nat, cf >= 50 PROVE cf * h \in Nat /\ 50 * h <= cf * h
    OBVIOUS
  <2>1. 50 \in Int /\ 50 <= cf /\ cf \in Int
    OBVIOUS
  <2>. QED BY ONLY <1>4, <2>1, cf \in Nat, TimesGrows
<1>7. WidthAt(barrier, coeff) >= 500 * h
  BY <1>1, <1>4, <1>5, <1>6
<1>8. base_len(WidthAt(barrier, cut)) >= 200 * h
  <2>. DEFINE x == cut * h
  <2>1. x \in Nat /\ 50 * h <= x /\ WidthAt(barrier, cut) = 10 * x
    BY <1>2, <1>5, <1>6
  <2>. HIDE DEF x
  <2>2. base_len(10 * x) = 4 * x
    BY <2>1 DEF base_len
  <2>. QED BY <1>4, <2>1, <2>2
<1>9. base_thick(WidthAt(barrier, s)) >= 225 * h
  <2>. DEFINE x == s * h
  <2>1. x \in Nat /\ 50 * h <= x /\ WidthAt(barrier, s) = 10 * x
    BY <1>2, <1>5, <1>6
  <2>. HIDE DEF x
  <2>2. base_thick(10 * x) >= 225 * h
    BY <1>4, <2>1 DEF base_thick
  <2>. QED BY <2>1, <2>2
<1>. QED BY <1>3, <1>7, <1>8, <1>9 DEF h

\* Over all ordinary sites with thin walls of three feet and more, the settlement loop
\* accepts no footing on a soil that bears no more than PressureFloor, as long as the load
\* it goes on using is the thickness of the wall out of the middle and the footing not a
\* thousand times as wide: the water the wall keeps off the base weighs less than the tilt
\* adds.
THEOREM FloorNeverReached ==
    ASSUME OrdinarySites, ThinWalls, HighWalls
    PROVE  Spec => [](barrier.base_width <= 1000 * barrier.wall_t => WeakSoilNeverSettles)
<1>1. OInv /\ ThinWall /\ HighWall /\ CentreStands
          => (barrier.base_width <= 1000 * barrier.wall_t => WeakSoilNeverSettles)
  <2>. SUFFICES ASSUME OInv, ThinWall, HighWall, CentreStands, pc = "written",
                       barrier.base_width <= 1000 * barrier.wall_t, barrier.wall_t <= k
                PROVE  constants.Sb * S > PressureFloor(constants, barrier)
    BY DEF WeakSoilNeverSettles
  <2>1. /\ constants \in ConstantsType /\ barrier \in BarrierType /\ k \in Int
        /\ Ordinary(constants, barrier) /\ TypeOK /\ Proportions /\ History
    BY DEF OInv, IInv, TypeOK, Sited
  <2>2. /\ barrier.base_width >= 500 * barrier.height
        /\ barrier.base_length >= 200 * barrier.height
        /\ barrier.base_thickness >= 225 * barrier.height
    BY <2>1, ScaledSizes
  <2>3. barrier.height >= 3
    BY DEF HighWall, High
  <2>4. 4 * barrier.wall_t <= barrier.base_width
    <3>1. 4 * barrier.wall_t <= WidthAt(barrier, 50)
      BY DEF ThinWall, Thin
    <3>2. WidthAt(barrier, 50) = 500 * barrier.height
      BY <2>1 DEF WidthAt, BarrierType
    <3>3. barrier.wall_t \in Nat /\ barrier.height \in Nat /\ barrier.base_width \in Nat
      BY <2>1 DEF BarrierType
    <3>. QED BY <2>2, <3>1, <3>2, <3>3
  <2>5. /\ soil_pressure(constants, barrier, k) \in Int
        /\ soil_pressure(constants, barrier, k) > PressureFloor(constants, barrier)
    BY <2>1, <2>2, <2>3, <2>4, PressesAboveFloor
  <2>6. ~(soil_pressure(constants, barrier, k) > constants.Sb * S)
    BY DEF CentreStands, OverPressed
  <2>7. constants.Sb * S \in Int /\ PressureFloor(constants, barrier) \in Int
    <3>1. /\ constants.Sb \in Int /\ constants.spec_base \in Int
          /\ barrier.base_thickness \in Int /\ barrier.height \in Int
      BY <2>1 DEF ConstantsType, BarrierType
    <3>. QED BY <3>1 DEF PressureFloor, S, spec_water
  <2>. QED BY <2>5, <2>6, <2>7
<1>2. Init => ThinWall /\ HighWall
  BY ThinWallInit, HighWallInit
<1>3. OInv /\ OInv' /\ ThinWall /\ HighWall /\ [Next]_vars => ThinWall' /\ HighWall'
  BY ThinWallStep, HighWallStep DEF OInv, IInv
<1>. QED BY <1>1, <1>2, <1>3, OInvInvariant, CentreInvariant, PTL DEF Spec

----------------------------------------------------------------------------
(***************************************************************************)
(* The flow chart of the design documentation.                             *)
(***************************************************************************)

\* The flow chart's formulas and criteria are those of the program.
LEMMA SameCriteria ==
    /\ \A a, b : FC!fvertical(a, b) = fvertical(a, b)
    /\ \A a, b : FC!SlidingFails(a, b) <=> SlidingFails(a, b)
    /\ \A a, b : FC!OverturningFails(a, b) <=> OverturningFails(a, b)
    /\ \A a, b : FC!Lifts(a, b) <=> Lifts(a, b)
    /\ \A a, b : FC!qmax(a, b) = qmax(a, b)
    /\ \A a : FC!Unfooted(a) = Unfooted(a)
<1>1. \A a, b : FC!Mul(a, b) = Mul(a, b)
  BY DEF FC!Mul, Mul, FC!S, S
<1>2. \A a, b : FC!LongDiv(a, b) = LongDiv(a, b)
  BY DEF FC!LongDiv, LongDiv, FC!S, S
<1>3. FC!Inf = Inf
  BY DEF FC!Inf, Inf
<1>4. \A a, b : FC!Quot(a, b) = Quot(a, b)
  BY <1>2, <1>3 DEF FC!Quot, Quot
<1>5. \A a : FC!Sq(a) = Sq(a)
  BY DEF FC!Sq, Sq, FC!Int8, Int8
<1>6. \A a : FC!Float16(a) = Float16(a)
  BY DEF FC!Float16, Float16, FC!S, S
<1>7. \A a, b : FC!BelowThreeHalves(a, b) <=> BelowThreeHalves(a, b)
  BY DEF FC!BelowThreeHalves, BelowThreeHalves
<1>8. \A a, b : FC!heel(a, b) = heel(a, b)
  BY DEF FC!heel, heel
<1>9. \A a, b : FC!toe(a, b) = toe(a, b)
  BY DEF FC!toe, toe
<1>10. \A a, b, c, d : FC!ecentricity(a, b, c, d) = ecentricity(a, b, c, d)
  BY <1>4 DEF FC!ecentricity, ecentricity
<1>11. \A a, b : FC!tst(a, b) = tst(a, b)
  BY DEF FC!tst, tst, FC!S, S
<1>12. \A a, b, c, d : FC!weight(a, b, c, d) = weight(a, b, c, d)
  BY <1>1 DEF FC!weight, weight
<1>13. \A a, b, c, d, e, f : FC!fboy1(a, b, c, d, e, f) = fboy1(a, b, c, d, e, f)
  BY <1>1 DEF FC!fboy1, fboy1
<1>14. \A a, b, c, d, e : FC!fboy2(a, b, c, d, e) = fboy2(a, b, c, d, e)
  BY <1>1 DEF FC!fboy2, fboy2
<1>15. \A a, b, c, d : FC!Fbuoy(a, b, c, d) = Fbuoy(a, b, c, d)
  BY <1>12 DEF FC!Fbuoy, Fbuoy
<1>16. \A a, b, c, d : FC!Fv(a, b, c, d) = Fv(a, b, c, d)
  BY DEF FC!Fv, Fv
<1>17. \A a, b, c : FC!F_sta(a, b, c) = F_sta(a, b, c)
  BY <1>5 DEF FC!F_sta, F_sta
<1>18. \A a, b, c : FC!Pressure(a, b, c) = Pressure(a, b, c)
  BY <1>6 DEF FC!Pressure, Pressure, FC!S, S
<1>19. \A a, b : FC!Fr(a, b) = Fr(a, b)
  BY <1>1 DEF FC!Fr, Fr
<1>20. \A a, b : FC!Fc(a, b) = Fc(a, b)
  BY DEF FC!Fc, Fc
<1>21. \A a, b, c, d, e : FC!Fp(a, b, c, d, e) = Fp(a, b, c, d, e)
  BY <1>18, <1>1 DEF FC!Fp, Fp
<1>22. \A a, b, c, d, e : FC!Fkey(a, b, c, d, e) = Fkey(a, b, c, d, e)
  BY <1>21 DEF FC!Fkey, Fkey
<1>23. \A a, b, c, d, e, f : FC!Fwall(a, b, c, d, e, f) = Fwall(a, b, c, d, e, f)
  BY <1>18, <1>1 DEF FC!Fwall, Fwall, FC!S, S
<1>24. \A a, b, c : FC!M_sta(a, b, c) = M_sta(a, b, c)
  BY <1>1 DEF FC!M_sta, M_sta, FC!S, S
<1>25. \A a, b : FC!M_fp(a, b) = M_fp(a, b)
  BY <1>1 DEF FC!M_fp, M_fp
<1>26. \A a, b, c : FC!M_bouy(a, b, c) = M_bouy(a, b, c)
  BY <1>1 DEF FC!M_bouy, M_bouy
<1>27. \A a, b : FC!Mbse(a, b) = Mbse(a, b)
  BY <1>1 DEF FC!Mbse, Mbse
<1>28. \A a, b, c : FC!Mwallwt(a, b, c) = Mwallwt(a, b, c)
  BY <1>1 DEF FC!Mwallwt, Mwallwt
<1>29. \A a, b, c : FC!Mwh(a, b, c) = Mwh(a, b, c)
  BY <1>1 DEF FC!Mwh, Mwh
<1>30. \A a, b : FC!Mfwall(a, b) = Mfwall(a, b)
  BY <1>1 DEF FC!Mfwall, Mfwall
<1>31. \A a, b : FC!Mfkey(a, b) = Mfkey(a, b)
  BY <1>1 DEF FC!Mfkey, Mfkey
<1>32. \A a : FC!Keyed(a) = Keyed(a)
  BY DEF FC!Keyed, Keyed
<1>33. \A a, b : FC!fvertical(a, b) = fvertical(a, b)
  BY <1>12, <1>8, <1>15, <1>16 DEF FC!fvertical, fvertical, FC!S, S, FC!spec_water, spec_water
<1>34. \A a, b : FC!Fres(a, b) = Fres(a, b)
  BY <1>32, <1>19, <1>20, <1>21, <1>22, <1>23, <1>33 DEF FC!Fres, Fres, FC!spec_water, spec_water
<1>35. \A a : FC!Fst(a) = Fst(a)
  BY <1>17, <1>11 DEF FC!Fst, Fst, FC!spec_water, spec_water
<1>36. \A a, b : FC!SlidingFails(a, b) <=> SlidingFails(a, b)
  BY <1>7, <1>34, <1>35 DEF FC!SlidingFails, SlidingFails
<1>37. \A a, b : FC!Mres(a, b) = Mres(a, b)
  BY <1>27, <1>12, <1>28, <1>9, <1>8, <1>21, <1>23, <1>22, <1>25, <1>29, <1>30, <1>31 DEF FC!Mres, Mres, FC!S, S, FC!spec_water, spec_water
<1>38. \A a : FC!Mov(a) = Mov(a)
  BY <1>24, <1>35, <1>8, <1>9, <1>13, <1>14, <1>26 DEF FC!Mov, Mov, FC!spec_water, spec_water
<1>39. \A a, b : FC!OverturningFails(a, b) <=> OverturningFails(a, b)
  BY <1>7, <1>37, <1>38 DEF FC!OverturningFails, OverturningFails
<1>40. \A a, b : FC!FreshEccentricity(a, b) = FreshEccentricity(a, b)
  BY <1>10, <1>37, <1>38, <1>33 DEF FC!FreshEccentricity, FreshEccentricity
<1>41. \A a, b : FC!OffMiddleThird(a, b) <=> OffMiddleThird(a, b)
  BY DEF FC!OffMiddleThird, OffMiddleThird
<1>42. \A a, b : FC!Lifts(a, b) <=> Lifts(a, b)
  BY <1>41, <1>40 DEF FC!Lifts, Lifts
<1>43. \A a, b : FC!qmax(a, b) = qmax(a, b)
  BY <1>40, <1>4, <1>33, <1>1 DEF FC!qmax, qmax
<1>44. \A a : FC!Unfooted(a) = Unfooted(a)
  BY DEF FC!Unfooted, Unfooted, FC!Widened, Widened, FC!WidthAt, WidthAt
<1>. QED BY <1>33, <1>36, <1>39, <1>42, <1>43, <1>44, Zenon

\* The runs the flow chart speaks of: when the last loop ends the load is on the toe's side.
Favourable ==
    pc = "written" => ToeLoaded

LEMMA FlowChartInit == Init => FC!Init
<1>. SUFFICES ASSUME Init PROVE FC!Init
  OBVIOUS
<1>1. PICK job \in Jobs : barrier = Unfooted(job.barrier)
  BY DEF Init
<1>2. job.barrier \in BarrierType
  BY JobsAssumption DEF JobType
<1>3. barrier \in BarrierType /\ Site(barrier) = Site(job.barrier)
  BY <1>1, <1>2, UnfootedFields, UnfootedType
<1>4. Unfooted(barrier) = barrier
  BY <1>1, <1>2, <1>3, UnfootedSame
<1>5. FC!Unfooted(barrier) = barrier
  BY <1>4, SameCriteria
<1>6. (pc = "written") = FALSE
  BY DEF Init
<1>. QED BY <1>5, <1>6 DEF FC!Init

LEMMA FlowChartStep ==
    ASSUME OInv, OInv', CentreStands', OverturningStands', Favourable', [Next]_vars
    PROVE  [FC!Next]_<<constants, barrier, pc = "written">>
<1>1. /\ barrier'.base_width >= barrier.base_width
      /\ FC!Unfooted(barrier') = FC!Unfooted(barrier)
      /\ constants' = constants
  <2>1. /\ barrier'.base_width >= barrier.base_width
        /\ Unfooted(barrier') = Unfooted(barrier)
        /\ constants' = constants
    BY WideningStep DEF OInv, IInv
  <2>2. FC!Unfooted(barrier') = Unfooted(barrier') /\ FC!Unfooted(barrier) = Unfooted(barrier)
    BY SameCriteria
  <2>. QED BY <2>1, <2>2
<1>2. CASE FinishSettlement
  <2>1. pc = "settlement" /\ pc' = "written" /\ barrier' = barrier
    BY <1>2 DEF FinishSettlement, Pass
  <2>2. /\ fvertical(constants, barrier) > 0 /\ qmax(constants, barrier) <= constants.Sb * S
        /\ ~OverturningFails(constants, barrier)
    <3>0. (OInv /\ CentreStands /\ pc = "written" =>
              /\ fvertical(constants, barrier) > 0
              /\ ToeLoaded => qmax(constants, barrier) <= constants.Sb * S)'
      BY BearingFollows, PTL
    <3>1. ToeLoaded'
      BY <2>1 DEF Favourable
    <3>2. fvertical(constants', barrier') > 0 /\ qmax(constants', barrier') <= constants'.Sb * S
      BY <2>1, <3>0, <3>1
    <3>3. ~OverturningFails(constants', barrier')
      BY <2>1 DEF OverturningStands
    <3>. QED BY <1>1, <2>1, <3>2, <3>3
  <2>3. ~SlidingFails(constants, barrier)
    BY <2>1 DEF OInv, SlidingStands
  <2>4. ~Lifts(constants, barrier)
    <3>0. (OInv /\ CentreStands /\ pc = "written" => ~Lifts(constants, barrier))'
      BY ToeFollows, PTL
    <3>. QED BY <1>1, <2>1, <3>0
  <2>5. FC!Sound(constants, barrier)
    <3>1. /\ FC!fvertical(constants, barrier) > 0
          /\ FC!qmax(constants, barrier) <= constants.Sb * FC!S
      BY <2>2, SameCriteria DEF FC!S, S
    <3>2. /\ ~FC!SlidingFails(constants, barrier)
          /\ ~FC!OverturningFails(constants, barrier)
          /\ ~FC!Lifts(constants, barrier)
      BY <2>2, <2>3, <2>4, SameCriteria
    <3>. QED BY <3>1, <3>2 DEF FC!Sound
  <2>6. ~(pc = "written") /\ (pc = "written")' = TRUE
    BY <2>1
  <2>. QED BY <1>1, <2>1, <2>5, <2>6 DEF FC!Next, FC!Accept
<1>3. CASE Written \/ UNCHANGED vars
  BY <1>3 DEF Written, vars
<1>4. ASSUME ~FinishSettlement, ~(Written \/ UNCHANGED vars)
      PROVE  FC!Redimension
  <2>1. ~(pc = "written") /\ ~(pc' = "written")
    BY <1>4 DEF Next, Design, WidenAgainstSliding, FinishSliding, WidenAgainstOverturning,
         FinishOverturning, WidenAgainstEccentricity, FinishEccentricity,
         WidenAgainstSettlement, Widen, Pass
  <2>2. (pc = "written")' = (pc = "written")
    BY <2>1
  <2>. QED BY <1>1, <2>1, <2>2 DEF FC!Redimension
<1>. QED BY <1>2, <1>3, <1>4 DEF FC!Next

\* Over all ordinary sites with thin walls of three feet and more, weak soils included, the
\* one pass through four loops is an implementation of the flow chart, which accepts only a
\* footing that meets all criteria at once, in every run whose written footing carries its
\* load on the toe's side.
THEOREM FollowsFlowChart ==
    ASSUME OrdinarySites, ThinWalls, HighWalls PROVE Spec /\ []Favourable => ImplementsFlowChart
<1>1. Init => FC!Init
  BY FlowChartInit
<1>2. OInv /\ OInv' /\ CentreStands' /\ OverturningStands' /\ Favourable' /\ [Next]_vars
        => [FC!Next]_<<constants, barrier, pc = "written">>
  BY FlowChartStep
<1>. QED BY <1>1, <1>2, OInvInvariant, CentreInvariant, OverturningInvariant, PTL
       DEF Spec, ImplementsFlowChart, FC!Spec
=============================================================================
