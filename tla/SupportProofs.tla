----------------------------- MODULE SupportProofs -----------------------------
(***************************************************************************)
(* Proofs about Support, for every wall and every bound on the             *)
(* coefficient: what the loop leaves on file, and which walls it reaches.  *)
(***************************************************************************)
EXTENDS Support, FormulaProofs

----------------------------------------------------------------------------
\* What the formulas return.

LEMMA ThicknessNat ==
    ASSUME NEW w \in WallType
    PROVE  SpanThickness(w.height, w.span_length, w.bstress, w.young) \in Nat
<1>1. w.young \in Nat \ {0}
  BY DEF WallType
<1>2. \A h, l, b, x : bending_stress(h, l, b, x) \in Nat
  BY IsqrtNat DEF bending_stress, thickness
<1>3. ASSUME NEW h, NEW l, NEW x
      PROVE  deflection(h, l, w.young, x) \in Nat
  <2>1. \A i : (100 * Isqrt(i)) \div w.young \in Nat
    BY <1>1, IsqrtNat
  <2>. QED BY <2>1 DEF deflection, thicknes
<1>4. design_wall(w.height, w.span_length, w.bstress, w.young) \in Nat
  BY <1>2, <1>3 DEF design_wall
<1>. QED BY <1>4 DEF SpanThickness

LEMMA RequiredInt == ASSUME NEW w \in WallType PROVE RequiredModulus(w) \in Int
<1>1. /\ w.height \in Int /\ w.height > 0 /\ w.span_length \in Int /\ w.bstress \in Int
  BY DEF WallType
<1>2. Sq(w.height) \in Int
  BY <1>1 DEF Sq, Int8
<1>3. F_sta(64, w.height, w.span_length * S) \in Int
  BY <1>1, <1>2 DEF F_sta, S
<1>4. (2 * F_sta(64, w.height, w.span_length * S)) \div w.height \in Int
  BY <1>1, <1>3
<1>5. Mst(w) \in Int
  BY <1>2, <1>4 DEF Mst
<1>6. Quot(10 * Mst(w), 144 * w.bstress) \in Int
  <2>1. 10 * Mst(w) \in Int /\ 144 * w.bstress \in Int
    BY <1>1, <1>5
  <2>. QED BY <2>1, QuotInt
<1>. QED BY <1>6 DEF RequiredModulus, S

LEMMA ModulusInt ==
    ASSUME NEW coef \in Nat, coef >= 3, NEW h \in Nat
    PROVE  sec_modulus(coef, h) \in Int
<1>1. CASE h = 0
  BY <1>1 DEF sec_modulus, Inf
<1>2. CASE h > 0
  <2>. DEFINE cube  == (((h * h) \div 100000) * h) \div 1000
              outer == (((h + 9852) \div 10) * ((h + 9852) \div 10)) \div 1000
  <2>1. cube \in Int
    <3>1. (h * h) \div 100000 \in Int
      OBVIOUS
    <3>. QED BY <3>1
  <2>2. outer \in Int
    <3>1. (h + 9852) \div 10 \in Int
      OBVIOUS
    <3>. QED BY <3>1
  <2>3. sec_modulus(coef, h) = coef * coef * cube - 100 * ((2 * outer * outer) \div (3 * coef * h))
    BY <1>2 DEF sec_modulus
  <2>. HIDE DEF cube, outer
  <2>4. 3 * coef * h \in Nat \ {0}
    BY <1>2
  <2>5. (2 * outer * outer) \div (3 * coef * h) \in Int
    <3>. DEFINE a == 2 * outer * outer
                d == 3 * coef * h
    <3>1. a \in Int /\ d \in Nat \ {0}
      BY <2>2, <2>4
    <3>. HIDE DEF a, d
    <3>2. a \div d \in Int
      BY <3>1
    <3>. QED BY <3>2 DEF a, d
  <2>. QED BY <2>1, <2>3, <2>5
<1>. QED BY <1>1, <1>2

----------------------------------------------------------------------------
\* The loop has tried every coefficient below support.coef, the depth of the support
\* is what ch_base made it, and the file holds it.
Deepened ==
    /\ wall \in Walls
    /\ pc \in {"design_wall", "design_support", "MethodError"} =>
           support.coef = 3 /\ supports_csv = <<>>
    /\ pc \in {"deepen", "append", "done"} => support.height = support.coef * span_t
    /\ \A n \in 3 .. support.coef - 1 : sec_modulus(n, span_t) < Required[wall]
    /\ supports_csv # <<>> =>
           /\ pc \in {"append", "done"}
           /\ supports_csv.thickness = support.height
           /\ ~TooWeak(support)

LEMMA DeepenedInit == Init => TypeOK /\ Deepened
<1>. SUFFICES ASSUME Init PROVE TypeOK /\ Deepened
  OBVIOUS
<1>1. support_data \in Seq(LineType)
  BY DEF Init
<1>2. TypeOK
  BY <1>1, WallsAssumption, MaxCoefAssumption DEF Init, TypeOK
<1>3. Deepened
  BY DEF Init, Deepened
<1>. QED BY <1>2, <1>3

LEMMA LineTyped == ASSUME TypeOK PROVE SupportLine \in LineType
BY DEF TypeOK, SupportLine, LineType, WallType

LEMMA ProductNat == ASSUME NEW a \in Nat, NEW b \in Nat PROVE a * b \in Nat
OBVIOUS

LEMMA SupportTypesStep == TypeOK /\ Deepened /\ [Next]_vars => TypeOK'
<1>. SUFFICES ASSUME TypeOK, Deepened, [Next]_vars PROVE TypeOK'
  OBVIOUS
<1>. USE DEF TypeOK
<1>1. CASE DesignWall
  <2>1. Plate[wall] \in Nat
    BY <1>1, ThicknessNat, WallsAssumption DEF Deepened, Plate, DesignWall
  <2>. QED BY <1>1, <2>1 DEF DesignWall
<1>7. CASE RaiseMethodError
  BY <1>7 DEF RaiseMethodError
<1>2. CASE DesignSupport
  <2>1. 6 * span_t \in Nat /\ support.coef * span_t \in Nat
    BY ProductNat, MaxCoefAssumption
  <2>. QED BY <1>2, <2>1 DEF DesignSupport
<1>3. CASE Deepen
  <2>1. support.coef + 1 \in 3 .. MaxCoef /\ (support.coef + 1) * span_t \in Nat
    <3>1. support.coef + 1 \in 3 .. MaxCoef
      BY <1>3, MaxCoefAssumption DEF Deepen
    <3>. QED BY <3>1, ProductNat, MaxCoefAssumption
  <2>. QED BY <1>3, <2>1 DEF Deepen
<1>4. CASE WriteSupports
  BY <1>4, LineTyped DEF WriteSupports
<1>5. CASE AppendSupportData
  BY <1>5, LineTyped DEF AppendSupportData
<1>6. CASE UNCHANGED vars
  BY <1>6 DEF vars
<1>. QED BY <1>1, <1>2, <1>3, <1>4, <1>5, <1>6, <1>7 DEF Next, Done

LEMMA DeepenedStep == TypeOK /\ Deepened /\ [Next]_vars => Deepened'
<1>. SUFFICES ASSUME TypeOK, Deepened, [Next]_vars PROVE Deepened'
  OBVIOUS
<1>1. /\ support \in [height : Nat, width : Nat, coef : 3 .. MaxCoef]
      /\ span_t \in Nat /\ MaxCoef \in Nat /\ support.coef \in 3 .. MaxCoef
  BY MaxCoefAssumption DEF TypeOK
<1>2. CASE DesignWall
  BY <1>2 DEF DesignWall, Deepened
<1>8. CASE RaiseMethodError
  BY <1>8 DEF RaiseMethodError, Deepened
<1>3. CASE DesignSupport
  BY <1>1, <1>3 DEF DesignSupport, Deepened
<1>4. CASE Deepen
  <2>1. /\ pc = "deepen" /\ pc' = pc /\ TooWeak(support)
        /\ support'.coef = support.coef + 1 /\ support'.height = (support.coef + 1) * span_t
        /\ UNCHANGED <<wall, span_t, supports_csv>>
    BY <1>1, <1>4 DEF Deepen
  <2>2. \A n \in 3 .. support.coef : sec_modulus(n, span_t) < Required[wall]
    BY <1>1, <2>1 DEF Deepened, TooWeak
  <2>. QED BY <1>1, <2>1, <2>2 DEF Deepened
<1>5. CASE WriteSupports
  <2>1. /\ pc = "deepen" /\ pc' = "append" /\ ~TooWeak(support)
        /\ supports_csv'.thickness = support.height
        /\ UNCHANGED <<wall, span_t, support>>
    BY <1>5 DEF WriteSupports, SupportLine
  <2>. QED BY <2>1 DEF Deepened, TooWeak
<1>6. CASE AppendSupportData
  BY <1>6 DEF AppendSupportData, Deepened, TooWeak
<1>7. CASE UNCHANGED vars
  BY <1>7 DEF vars, Deepened, TooWeak
<1>. QED BY <1>2, <1>3, <1>4, <1>5, <1>6, <1>7, <1>8 DEF Next, Done

LEMMA SupportInvariant == Spec => [](TypeOK /\ Deepened)
BY DeepenedInit, SupportTypesStep, DeepenedStep, PTL DEF Spec

----------------------------------------------------------------------------
\* Every variable of the support's design keeps its type.
THEOREM SupportTypeCorrect == Spec => []TypeOK
BY SupportInvariant, PTL

\* Up to 11 ft an Int8 holds the square of the height.
LEMMA SquareHeld == ASSUME NEW H \in 1 .. 11 PROVE Sq(H) = H * H
<1>1. H \in {1, 2, 3, 4, 5, 6, 7, 8, 9, 10, 11}
  OBVIOUS
<1>. QED BY <1>1 DEF Sq, Int8

LEMMA RequiredIsTrue ==
    ASSUME NEW w \in WallType, w.height <= 11
    PROVE  TrueModulus(w) = RequiredModulus(w)
<1>1. w.height \in 1 .. 11
  BY DEF WallType
<1>2. Sq(w.height) = w.height * w.height
  BY <1>1, SquareHeld
<1>. QED BY <1>2 DEF TrueModulus, RequiredModulus, Mst, F_sta

\* What supports.csv holds is the shallowest section, from coefficient 3 on, that
\* carries the moment at its foot, and up to 11 ft that moment is the real one.
THEOREM SupportLeastSection == Spec => []LeastSection
<1>1. TypeOK /\ Deepened => LeastSection
  <2>. SUFFICES ASSUME TypeOK, Deepened, supports_csv # <<>>
                PROVE  /\ supports_csv.thickness = support.coef * span_t
                       /\ sec_modulus(support.coef, span_t) >= Required[wall]
                       /\ \A n \in 3 .. support.coef - 1 : sec_modulus(n, span_t) < Required[wall]
                       /\ wall.height <= 11 =>
                              sec_modulus(support.coef, span_t) >= TrueModulus(wall)
    BY DEF LeastSection
  <2>1. sec_modulus(support.coef, span_t) \in Int
    BY ModulusInt, MaxCoefAssumption DEF TypeOK
  <2>2. Required[wall] \in Int
    BY RequiredInt, WallsAssumption DEF Deepened, Required
  <2>3. ~(sec_modulus(support.coef, span_t) < Required[wall])
    BY DEF Deepened, TooWeak
  <2>4. wall.height <= 11 => TrueModulus(wall) = Required[wall]
    BY RequiredIsTrue, WallsAssumption DEF Deepened, Required
  <2>. QED BY <2>1, <2>2, <2>3, <2>4 DEF Deepened
<1>. QED BY <1>1, SupportInvariant, PTL

----------------------------------------------------------------------------
\* Where the plate table ends.  The positive side of TableCovers: what the search
\* in wall.jl does find, for every wall, and what becomes of the others.

\* Which column the search stops at.
LEMMA ColumnFound ==
    ASSUME NEW r \in Nat, NEW i \in 3 .. 9, r < Column(i).ratio, Column(i - 1).ratio <= r
    PROVE  LET hi == Column(i)
               lo == Column(i - 1)
           IN  Coefficient(r, "beta") =
                   ((hi["beta"] - lo["beta"]) * (r - lo.ratio)) \div (hi.ratio - lo.ratio)
                       + lo["beta"]
<1>. DEFINE above == {j \in Searched : r < Column(j).ratio}
            k == CHOOSE j \in above : \A m \in above : j <= m
<1>1. \A a \in Searched, b \in Searched : a <= b => Column(a).ratio <= Column(b).ratio
  BY DEF Searched, Column, WallTable
<1>2. \A j \in 2 .. 10 : Column(j).ratio \in Nat
  BY DEF Column, WallTable
<1>3. Searched = 2 .. 9
  BY DEF Searched
<1>4. i \in above
  BY <1>3
<1>5. ASSUME NEW m \in above PROVE i <= m
  <2>1. SUFFICES ASSUME m <= i - 1 PROVE FALSE
    BY <1>3
  <2>2. i - 1 \in Searched
    BY <1>3
  <2>3. Column(m).ratio <= Column(i - 1).ratio
    BY <1>1, <2>1, <2>2
  <2>4. r < Column(m).ratio /\ Column(i - 1).ratio <= r
    BY <2>1
  <2>. QED BY <1>2, <1>3, <2>2, <2>3, <2>4
<1>6. k \in above /\ \A m \in above : k <= m
  BY <1>4, <1>5
<1>7. k = i
  <2>1. k <= i /\ i <= k
    BY <1>4, <1>5, <1>6
  <2>. QED BY <1>3, <1>6, <2>1
<1>8. above # {}
  BY <1>4
<1>. QED BY <1>7, <1>8 DEF Coefficient

\* From 0.05 to 3.5 the bending coefficient is at least the table's smallest.
LEMMA CoefficientFound ==
    ASSUME NEW r \in Nat, 50 <= r, r < 3500
    PROVE  Coefficient(r, "beta") \in Nat /\ Coefficient(r, "beta") >= 3000
<1>1. CASE 50 <= r /\ r < 670
  <2>1. 3 \in 3 .. 9 /\ r < Column(3).ratio /\ Column(3 - 1).ratio <= r
    BY <1>1 DEF Column, WallTable
  <2>. QED BY <2>1, ColumnFound DEF Column, WallTable
<1>2. CASE 670 <= r /\ r < 1000
  <2>1. 4 \in 3 .. 9 /\ r < Column(4).ratio /\ Column(4 - 1).ratio <= r
    BY <1>2 DEF Column, WallTable
  <2>2. (1000 * (r - 670)) \div 330 \in Nat
    BY <1>2
  <2>. QED BY <2>1, <2>2, ColumnFound DEF Column, WallTable
<1>3. CASE 1000 <= r /\ r < 1500
  <2>1. 5 \in 3 .. 9 /\ r < Column(5).ratio /\ Column(5 - 1).ratio <= r
    BY <1>3 DEF Column, WallTable
  <2>2. (1000 * (r - 1000)) \div 500 \in Nat
    BY <1>3
  <2>. QED BY <2>1, <2>2, ColumnFound DEF Column, WallTable
<1>4. CASE 1500 <= r /\ r < 2000
  <2>1. 6 \in 3 .. 9 /\ r < Column(6).ratio /\ Column(6 - 1).ratio <= r
    BY <1>4 DEF Column, WallTable
  <2>2. (1000 * (r - 1500)) \div 500 \in Nat
    BY <1>4
  <2>. QED BY <2>1, <2>2, ColumnFound DEF Column, WallTable
<1>5. CASE 2000 <= r /\ r < 2500
  <2>1. 7 \in 3 .. 9 /\ r < Column(7).ratio /\ Column(7 - 1).ratio <= r
    BY <1>5 DEF Column, WallTable
  <2>. QED BY <2>1, ColumnFound DEF Column, WallTable
<1>6. CASE 2500 <= r /\ r < 3000
  <2>1. 8 \in 3 .. 9 /\ r < Column(8).ratio /\ Column(8 - 1).ratio <= r
    BY <1>6 DEF Column, WallTable
  <2>2. (1000 * (r - 2500)) \div 500 \in Nat
    BY <1>6
  <2>. QED BY <2>1, <2>2, ColumnFound DEF Column, WallTable
<1>7. CASE 3000 <= r /\ r < 3500
  <2>1. 9 \in 3 .. 9 /\ r < Column(9).ratio /\ Column(9 - 1).ratio <= r
    BY <1>7 DEF Column, WallTable
  <2>. QED BY <2>1, ColumnFound DEF Column, WallTable
<1>. QED BY <1>1, <1>2, <1>3, <1>4, <1>5, <1>6, <1>7

\* From 3.5 on no column is found, and both coefficients keep their initial 0.
LEMMA CoefficientMissed ==
    ASSUME NEW r \in Nat, r >= 3500, NEW row
    PROVE  Coefficient(r, row) = 0
<1>1. {j \in Searched : r < Column(j).ratio} = {}
  BY DEF Searched, Column, WallTable
<1>. QED BY <1>1 DEF Coefficient

\* wall.jl compares inches with inches: the same ratio.
LEMMA SameRatio ==
    ASSUME NEW h \in Nat, NEW l \in Nat \ {0}
    PROVE  /\ (S * (12 * h)) \div (12 * l) = (S * h) \div l
           /\ (S * h) \div l \in Nat
<1>. DEFINE x == 1000 * h
            q == x \div l
            r == x % l
<1>1. x \in Nat /\ q \in Nat /\ r \in Nat /\ x = q * l + r /\ r < l
  BY Divides
<1>. HIDE DEF x, q, r
<1>2. 12 * x = q * (12 * l) + 12 * r /\ 12 * r \in Nat /\ 12 * r < 12 * l /\ 12 * l \in Nat \ {0}
  BY <1>1
<1>. DEFINE y == 12 * x
            w == 12 * l
<1>4. y \in Nat /\ w \in Nat \ {0} /\ y = q * w + 12 * r /\ 12 * r < w
  BY <1>1, <1>2
<1>. HIDE DEF y, w
<1>. DEFINE p == y \div w
            s == y % w
<1>3. p \in Int /\ s \in Nat /\ y = p * w + s /\ s < w
  BY <1>4, Divides
<1>. HIDE DEF p, s
<1>5. p = q
  <2>1. CASE p + 1 <= q
    <3>1. (p + 1) * w <= q * w
      <4>1. p + 1 \in Int /\ q \in Int /\ w \in Nat /\ p + 1 <= q
        BY <1>1, <1>3, <1>4, <2>1
      <4>. QED BY ONLY <4>1, TimesGrows
    <3>. QED BY <1>1, <1>3, <1>4, <3>1
  <2>2. CASE q + 1 <= p
    <3>1. (q + 1) * w <= p * w
      <4>1. q + 1 \in Int /\ p \in Int /\ w \in Nat /\ q + 1 <= p
        BY <1>1, <1>3, <1>4, <2>2
      <4>. QED BY ONLY <4>1, TimesGrows
    <3>. QED BY <1>1, <1>3, <1>4, <3>1
  <2>. QED BY <1>1, <1>3, <2>1, <2>2
<1>6. S * (12 * h) = y /\ 12 * l = w /\ S * h = x
  BY DEF S, x, y, w
<1>. QED BY <1>1, <1>5, <1>6 DEF p, q

\* Products of natural numbers grow with both factors.
LEMMA GrownProduct ==
    ASSUME NEW a \in Nat, NEW b \in Nat, NEW c \in Nat, NEW d \in Nat, a <= c, b <= d
    PROVE  a * b <= c * d /\ c * d \in Nat
<1>1. a * b <= c * b
  BY TimesGrows
<1>2. b * c <= d * c
  BY TimesGrows
<1>. QED BY <1>1, <1>2, ProductNat

LEMMA RootOfNothing == Isqrt(0) = 0
<1>1. 0 \in Int /\ 1 \in Nat /\ 0 < 1 /\ 1 <= 46399 /\ ~(1 * 1 <= 0)
  OBVIOUS
<1>2. 1 <= Isqrt(0) <=> 1 * 1 <= 0
  BY <1>1, IsqrtReached
<1>3. Isqrt(0) \in Nat
  BY IsqrtNat
<1>. QED BY <1>1, <1>2, <1>3

\* Nothing divided is nothing, and a thousandth or more is not.
LEMMA NothingDivided == ASSUME NEW b \in Nat, b > 0 PROVE LongDiv(0, b) = 0
<1>. DEFINE q == LongDiv(0, b)
<1>1. q \in Int /\ q * b <= 1000 * 0 /\ 1000 * 0 < (q + 1) * b
  <2>1. 0 \in Int
    OBVIOUS
  <2>. QED BY ONLY <2>1, LongDivides, b \in Nat, b > 0
<1>. HIDE DEF q
<1>2. CASE q >= 1
  <2>1. 1 * b <= q * b
    BY <1>1, <1>2, TimesGrows
  <2>. QED BY <1>1, <2>1
<1>3. CASE q + 1 <= 0
  <2>1. (q + 1) * b <= 0 * b
    BY <1>1, <1>3, TimesGrows
  <2>. QED BY <1>1, <2>1
<1>. QED BY <1>1, <1>2, <1>3 DEF q

LEMMA SomethingDivided ==
    ASSUME NEW a \in Nat, NEW b \in Nat, b > 0, b <= 1000 * a
    PROVE  LongDiv(a, b) \in Nat /\ LongDiv(a, b) >= 1
<1>. DEFINE q == LongDiv(a, b)
<1>1. q \in Int /\ 1000 * a < (q + 1) * b
  <2>1. a \in Int
    OBVIOUS
  <2>. QED BY ONLY <2>1, LongDivides, b \in Nat, b > 0
<1>. HIDE DEF q
<1>2. SUFFICES ASSUME q <= 0 PROVE FALSE
  BY <1>1 DEF q
<1>3. (q + 1) * b <= 1 * b
  BY <1>1, <1>2, TimesGrows
<1>. QED BY <1>1, <1>3

\* Far beyond any material: steel yields at some ten thousand pounds per square inch.
Strongest == 100000000

\* A plate of material that yields below a hundred million pounds per square inch
\* needs some thickness, if its ratio is found: the least pressure on the narrowest
\* plate is 63 pounds.
LEMMA PlateNeeded ==
    ASSUME NEW w \in WallType, w.bstress <= Strongest,
           50 <= (S * w.height) \div w.span_length, (S * w.height) \div w.span_length < 3500
    PROVE  SpanThickness(w.height, w.span_length, w.bstress, w.young) > 0
<1>. DEFINE h == 12 * w.height
            l == 12 * w.span_length
            ph == 37037 * h
            load == PlateLoad(ph, l)
            bet == Coefficient((S * h) \div l, "beta")
            bent == Isqrt(100 * LongDiv(load * bet, w.bstress))
            tick == deflection(h, l, w.young, 37037)
<1>1. /\ w.height \in Nat \ {0} /\ w.span_length \in Nat \ {0} /\ w.bstress \in Nat \ {0}
      /\ w.young \in Nat \ {0}
  BY DEF WallType
<1>2. bet \in Nat /\ bet >= 3000
  <2>1. (S * h) \div l = (S * w.height) \div w.span_length /\ (S * h) \div l \in Nat
    <3>1. w.height \in Nat /\ w.span_length \in Nat \ {0}
      BY <1>1
    <3>. QED BY ONLY <3>1, SameRatio
  <2>. DEFINE r == (S * h) \div l
  <2>2. r \in Nat /\ 50 <= r /\ r < 3500
    BY <2>1
  <2>. HIDE DEF r
  <2>. QED BY <2>2, CoefficientFound DEF r
<1>3. load \in Nat /\ load >= 63
  <2>. DEFINE p == ph \div 100
  <2>1. p \in Nat /\ p >= 4444
    BY <1>1
  <2>2. l \in Nat /\ l >= 12
    BY <1>1
  <2>3. load = (p * l * l) \div 10000
    BY DEF PlateLoad
  <2>. HIDE DEF p, l
  <2>4. p * l * l \in Nat /\ p * l * l >= 4444 * 12 * 12
    <3>1. p * l \in Nat /\ 4444 * 12 <= p * l
      <4>1. 4444 \in Nat /\ 12 \in Nat /\ 4444 <= p /\ 12 <= l
        BY <2>1, <2>2
      <4>. QED BY <2>1, <2>2, <4>1, GrownProduct
    <3>2. (4444 * 12) * 12 <= (p * l) * l
      <4>1. 4444 * 12 \in Nat /\ 12 \in Nat /\ 12 <= l
        BY <2>2
      <4>. QED BY <2>2, <3>1, <4>1, GrownProduct
    <3>. QED BY <2>2, <3>1, <3>2, ProductNat
  <2>. DEFINE x == p * l * l
  <2>. HIDE DEF x
  <2>5. x \in Nat /\ x >= 4444 * 12 * 12
    BY <2>4 DEF x
  <2>6. x \div 10000 \in Nat /\ x \div 10000 >= 63
    BY <2>5, SMT
  <2>. QED BY <2>3, <2>6 DEF x
<1>. HIDE DEF load, bet
<1>4. load * bet \in Nat /\ 63 * 3000 <= load * bet
  <2>1. 63 \in Nat /\ 3000 \in Nat /\ 63 <= load /\ 3000 <= bet
    BY <1>2, <1>3
  <2>. QED BY <1>2, <1>3, <2>1, GrownProduct
<1>. DEFINE a == load * bet
            b == w.bstress
            q == LongDiv(a, b)
<1>5. q \in Int /\ q >= 1
  <2>1. a \in Nat /\ 63 * 3000 <= a
    BY <1>4
  <2>2. b \in Nat /\ b > 0 /\ b <= 1000 * (63 * 3000)
    BY <1>1, SMT DEF Strongest
  <2>. HIDE DEF a, b
  <2>3. b <= 1000 * a
    BY <2>1, <2>2, SMT
  <2>. QED BY ONLY <2>1, <2>2, <2>3, SomethingDivided
<1>6. bent >= 10 /\ bent \in Nat
  <2>1. 100 * q \in Int /\ 10 \in Nat /\ 0 < 10 /\ 10 <= 46399 /\ 10 * 10 <= 100 * q
    BY <1>5
  <2>2. 10 <= Isqrt(100 * q)
    BY <2>1, IsqrtReached
  <2>. QED BY <2>2, IsqrtNat
<1>7. tick \in Nat
  <2>1. \A i : (100 * Isqrt(i)) \div w.young \in Nat
    BY <1>1, IsqrtNat
  <2>. QED BY <2>1 DEF deflection, thicknes
<1>8. bending_stress(h, l, w.bstress, 37037) = bent
  BY DEF bending_stress, thickness, Ph, load, bet
<1>9. design_wall(w.height, w.span_length, w.bstress, w.young)
          = IF bent < tick THEN tick ELSE bent
  <2>1. (64 * 1000000) \div 1728 = 37037
    OBVIOUS
  <2>. QED BY <1>8, <2>1 DEF design_wall
<1>. HIDE DEF bent, tick
<1>10. design_wall(w.height, w.span_length, w.bstress, w.young) \in Nat
       /\ design_wall(w.height, w.span_length, w.bstress, w.young) >= 10
  BY <1>6, <1>7, <1>9
<1>. QED BY <1>10 DEF SpanThickness

\* Without a coefficient bending and deflection ask for nothing.
LEMMA PlateForgotten ==
    ASSUME NEW w \in WallType, (S * w.height) \div w.span_length >= 3500
    PROVE  SpanThickness(w.height, w.span_length, w.bstress, w.young) = 0
<1>. DEFINE h == 12 * w.height
            l == 12 * w.span_length
<1>1. /\ w.height \in Nat \ {0} /\ w.span_length \in Nat \ {0} /\ w.bstress \in Nat \ {0}
      /\ w.young \in Nat \ {0}
  BY DEF WallType
<1>2. \A row : Coefficient((S * h) \div l, row) = 0
  <2>1. (S * h) \div l = (S * w.height) \div w.span_length /\ (S * h) \div l \in Nat
    <3>1. w.height \in Nat /\ w.span_length \in Nat \ {0}
      BY <1>1
    <3>. QED BY ONLY <3>1, SameRatio
  <2>. DEFINE r == (S * h) \div l
  <2>2. r \in Nat /\ r >= 3500
    BY <2>1
  <2>. HIDE DEF r
  <2>. QED BY <2>2, CoefficientMissed DEF r
<1>3. \A x \in Int : PlateLoad(x, l) \in Int
  <2>. SUFFICES ASSUME NEW x \in Int PROVE PlateLoad(x, l) \in Int
    OBVIOUS
  <2>. DEFINE p == x \div 100
  <2>1. p \in Int /\ l \in Int
    BY <1>1
  <2>. HIDE DEF p, l
  <2>2. p * l * l \in Int
    BY <2>1
  <2>. DEFINE y == p * l * l
  <2>. HIDE DEF y
  <2>3. y \div 10000 \in Int
    BY <2>2 DEF y
  <2>. QED BY <2>3 DEF PlateLoad, p, y
<1>4. 37037 * h \in Int
  BY <1>1
<1>5. bending_stress(h, l, w.bstress, 37037) = 0
  <2>1. PlateLoad(37037 * h, l) * 0 = 0
    BY <1>3, <1>4
  <2>2. 0 \in Int /\ 100 * LongDiv(0, w.bstress) = 0
    <3>1. LongDiv(0, w.bstress) = 0
      BY <1>1, NothingDivided
    <3>. QED BY <3>1
  <2>. QED BY <1>2, <2>1, <2>2, RootOfNothing DEF bending_stress, thickness, Ph
<1>6. deflection(h, l, w.young, 37037) = 0
  <2>. DEFINE z == (9 * l * PlateLoad(37037 * h, l)) \div 2500
  <2>1. z \in Int
    <3>. DEFINE f == PlateLoad(37037 * h, l)
    <3>1. f \in Int /\ l \in Int
      BY <1>1, <1>3, <1>4
    <3>. HIDE DEF f, l
    <3>2. 9 * l * f \in Int
      BY <3>1
    <3>. DEFINE y == 9 * l * f
    <3>. HIDE DEF y
    <3>3. y \div 2500 \in Int
      BY <3>2 DEF y
    <3>. QED BY <3>3 DEF y, f
  <2>. HIDE DEF z
  <2>2. z * 0 = 0
    BY <2>1
  <2>3. (100 * 0) \div w.young = 0
    BY <1>1
  <2>. QED BY <1>2, <2>2, <2>3, RootOfNothing DEF deflection, thicknes, Ph, z
<1>7. design_wall(w.height, w.span_length, w.bstress, w.young) = 0
  <2>1. (64 * 1000000) \div 1728 = 37037
    OBVIOUS
  <2>. QED BY <1>5, <1>6, <2>1 DEF design_wall
<1>. QED BY <1>7 DEF SpanThickness

\* The modulus a support must have is never negative, not even where the Int8 square
\* is: the code takes that square twice.
LEMMA RequiredPositive ==
    ASSUME NEW w \in WallType
    PROVE  RequiredModulus(w) \in Int /\ RequiredModulus(w) >= 0
<1>. DEFINE s == Sq(w.height)
            push == F_sta(64, w.height, w.span_length * S)
            load == (2 * push) \div w.height
<1>1. w.height \in Nat \ {0} /\ w.span_length \in Nat \ {0} /\ w.bstress \in Nat \ {0}
  BY DEF WallType
<1>2. s \in Int
  BY <1>1 DEF Sq, Int8
<1>. HIDE DEF s
<1>3. push \in Int /\ (s >= 0 => push >= 0) /\ (s < 0 => push <= 0)
  <2>. DEFINE m == w.span_length * S * 64
              x == m * s
  <2>1. m \in Nat
    BY <1>1 DEF S
  <2>. HIDE DEF m
  <2>2. x \in Int /\ (s >= 0 => x >= 0) /\ (s < 0 => x <= 0)
    <3>1. CASE s >= 0
      BY <1>2, <2>1, <3>1, ProductNat
    <3>2. CASE s < 0
      <4>1. s * m <= 0 * m
        BY <1>2, <2>1, <3>2, TimesGrows
      <4>. QED BY <1>2, <2>1, <3>2, <4>1
    <3>. QED BY <1>2, <3>1, <3>2
  <2>3. push = x \div 4
    BY DEF F_sta, s, m
  <2>. HIDE DEF x
  <2>. QED BY <2>2, <2>3
<1>. HIDE DEF push
<1>4. load \in Int /\ (s >= 0 => load >= 0) /\ (s < 0 => load <= 0)
  <2>. DEFINE x == 2 * push
              k == w.height
  <2>1. x \in Int /\ (s >= 0 => x >= 0) /\ (s < 0 => x <= 0) /\ k \in Nat /\ k > 0
    BY <1>1, <1>3
  <2>. HIDE DEF x, k
  <2>. DEFINE q == x \div k
              r == x % k
  <2>2. q \in Int /\ r \in Nat /\ r < k /\ x = q * k + r
    BY <2>1, Divides
  <2>. HIDE DEF q, r
  <2>3. x >= 0 => q >= 0
    <3>1. SUFFICES ASSUME x >= 0, q + 1 <= 0 PROVE FALSE
      BY <2>2
    <3>2. (q + 1) * k <= 0 * k
      BY <2>1, <2>2, <3>1, TimesGrows
    <3>. QED BY <2>1, <2>2, <3>1, <3>2
  <2>4. x <= 0 => q <= 0
    <3>1. SUFFICES ASSUME x <= 0, 1 <= q PROVE FALSE
      BY <2>2
    <3>2. 1 * k <= q * k
      BY <2>1, <2>2, <3>1, TimesGrows
    <3>. QED BY <2>1, <2>2, <3>1, <3>2
  <2>5. load = q
    BY DEF q, x, k
  <2>. QED BY <1>2, <2>1, <2>2, <2>3, <2>4, <2>5
<1>5. Mst(w) = (load * s) \div 6
  BY DEF Mst, s, push
<1>. HIDE DEF load
<1>6. load * s \in Nat
  <2>1. CASE s >= 0
    BY <1>2, <1>4, <2>1, ProductNat
  <2>2. CASE s < 0
    <3>1. -load \in Nat /\ -s \in Nat
      BY <1>2, <1>4, <2>2
    <3>2. (-load) * (-s) \in Nat
      BY <3>1, ProductNat
    <3>. QED BY <1>2, <1>4, <3>2
  <2>. QED BY <1>2, <2>1, <2>2
<1>. DEFINE x == load * s
<1>. HIDE DEF x
<1>7. x \in Nat /\ x \div 6 \in Nat
  BY <1>6 DEF x
<1>8. 10 * Mst(w) \in Int /\ 10 * Mst(w) >= 0
  BY <1>5, <1>7 DEF x
<1>9. Quot(10 * Mst(w), 144 * w.bstress) \in Int /\ Quot(10 * Mst(w), 144 * w.bstress) >= 0
  <2>. DEFINE a == 10 * Mst(w)
              b == 144 * w.bstress
              q == LongDiv(a, b)
  <2>1. a \in Int /\ a >= 0 /\ b \in Nat /\ b > 0
    BY <1>1, <1>8
  <2>. HIDE DEF a, b
  <2>2. q \in Int /\ 1000 * a < (q + 1) * b
    BY <2>1, LongDivides
  <2>. HIDE DEF q
  <2>3. q >= 0
    <3>1. SUFFICES ASSUME q + 1 <= 0 PROVE FALSE
      BY <2>2
    <3>2. (q + 1) * b <= 0 * b
      BY <2>1, <2>2, <3>1, TimesGrows
    <3>. QED BY <2>1, <2>2, <3>1, <3>2
  <2>4. Quot(a, b) = q
    BY <2>1 DEF Quot, q
  <2>. QED BY <2>2, <2>3, <2>4 DEF a, b
<1>. QED BY <1>9 DEF RequiredModulus, S

----------------------------------------------------------------------------
\* Which walls read the titles: those less than a twentieth as high as their span.
LEMMA FlatWalls ==
    ASSUME NEW w \in Walls
    PROVE  w \in Flat <=> (S * w.height) \div w.span_length < 50
<1>1. w.height \in Nat /\ w.span_length \in Nat \ {0}
  BY WallsAssumption DEF WallType
<1>2. (S * (12 * w.height)) \div (12 * w.span_length) = (S * w.height) \div w.span_length
  BY ONLY <1>1, SameRatio
<1>3. Column(2).ratio = 50
  BY DEF Column, WallTable
<1>. QED BY <1>2, <1>3 DEF Flat, ReadsTitles

\* The plate is the table's, and what has no thickness is never built.
PlateFollowed ==
    /\ pc \notin {"design_wall", "MethodError"} => wall \notin Flat /\ span_t = Plate[wall]
    /\ pc = "MethodError" => span_t = 0
    /\ pc = "design_wall" => span_t = 0
    /\ pc \in {"design_wall", "design_support", "deepen", "MethodError"} =>
           supports_csv = <<>> /\ support_data = <<>>
    /\ pc = "MethodError" => wall \in Flat

LEMMA PlateFollowedStep == PlateFollowed /\ [Next]_vars => PlateFollowed'
<1>. SUFFICES ASSUME PlateFollowed, [Next]_vars PROVE PlateFollowed'
  OBVIOUS
<1>0. Flat' = Flat /\ Plate' = Plate
  BY DEF Flat, Plate
<1>1. CASE DesignWall
  BY <1>0, <1>1 DEF DesignWall, PlateFollowed
<1>2. CASE DesignSupport
  BY <1>0, <1>2 DEF DesignSupport, PlateFollowed
<1>3. CASE Deepen
  BY <1>0, <1>3 DEF Deepen, PlateFollowed
<1>4. CASE WriteSupports
  BY <1>0, <1>4 DEF WriteSupports, PlateFollowed
<1>5. CASE AppendSupportData
  BY <1>0, <1>5 DEF AppendSupportData, PlateFollowed
<1>6. CASE UNCHANGED vars
  BY <1>0, <1>6 DEF vars, PlateFollowed
<1>7. CASE RaiseMethodError
  BY <1>0, <1>7 DEF RaiseMethodError, PlateFollowed
<1>. QED BY <1>1, <1>2, <1>3, <1>4, <1>5, <1>6, <1>7 DEF Next, Done

LEMMA PlateInvariant == Spec => []PlateFollowed
<1>1. Init => PlateFollowed
  BY DEF Init, PlateFollowed
<1>. QED BY <1>1, PlateFollowedStep, PTL DEF Spec

\* The search in wall.jl finds a plate for every wall from a twentieth to less than 3.5
\* times as high as its span and for no other, whatever the table's last column says:
\* where TableCovers holds and where it does not.  Flatter walls end in a MethodError
\* with no thickness assigned.
THEOREM TableReaches ==
    ASSUME \A w \in Walls : w.bstress <= Strongest
    PROVE  Spec => [](pc # "design_wall" =>
                          /\ span_t > 0 <=> BetweenColumns
                          /\ pc = "MethodError" <=> Slenderness < 50)
<1>1. TypeOK /\ Deepened /\ PlateFollowed
          => (pc # "design_wall" =>
                  /\ span_t > 0 <=> BetweenColumns
                  /\ pc = "MethodError" <=> Slenderness < 50)
  <2>. SUFFICES ASSUME TypeOK, Deepened, PlateFollowed, pc # "design_wall"
                PROVE  /\ span_t > 0 <=> BetweenColumns
                       /\ pc = "MethodError" <=> Slenderness < 50
    OBVIOUS
  <2>1. wall \in Walls /\ wall \in WallType /\ wall.bstress <= Strongest
    BY DEF Deepened, TypeOK
  <2>3. Slenderness = (S * wall.height) \div wall.span_length /\ Slenderness \in Nat
    <3>1. wall.height \in Nat /\ wall.span_length \in Nat \ {0}
      BY <2>1 DEF WallType
    <3>. QED BY <3>1, SameRatio DEF Slenderness
  <2>4. wall \in Flat <=> Slenderness < 50
    BY <2>1, <2>3, FlatWalls
  <2>5. CASE pc = "MethodError"
    <3>1. span_t = 0 /\ wall \in Flat
      BY <2>5 DEF PlateFollowed
    <3>. QED BY <2>3, <2>4, <2>5, <3>1 DEF BetweenColumns
  <2>6. CASE pc # "MethodError"
    <3>1. wall \in Walls \ Flat /\ span_t = Plate[wall]
      BY <2>1, <2>6 DEF PlateFollowed
    <3>2. span_t = SpanThickness(wall.height, wall.span_length, wall.bstress, wall.young)
      BY <3>1 DEF Plate
    <3>3. CASE Slenderness < 3500
      <4>1. 50 <= Slenderness
        BY <2>3, <2>4, <3>1
      <4>2. span_t > 0
        BY <2>1, <2>3, <3>2, <3>3, <4>1, PlateNeeded
      <4>. QED BY <2>3, <2>6, <3>3, <4>1, <4>2 DEF BetweenColumns
    <3>4. CASE Slenderness >= 3500
      <4>1. span_t = 0
        BY <2>1, <2>3, <3>2, <3>4, PlateForgotten
      <4>. QED BY <2>3, <2>6, <3>4, <4>1 DEF BetweenColumns
    <3>. QED BY <2>3, <3>3, <3>4
  <2>. QED BY <2>5, <2>6
<1>. QED BY <1>1, SupportInvariant, PlateInvariant, PTL

\* A wall outside these ratios never gets supports, whatever the bound.  A section of no
\* thickness has a modulus of -Inf at every coefficient, so for tall walls the loop of
\* design_support does not end; flat ones never come to it.
THEOREM OutsideTableNeverSupported ==
    Spec => [](~BetweenColumns => supports_csv = <<>> /\ support_data = <<>>)
<1>. DEFINE Early == {"design_wall", "design_support", "deepen", "MethodError"}
            Unbuilt == ~BetweenColumns => pc \in Early
<1>1. Init => Unbuilt
  BY DEF Init
<1>2. TypeOK /\ Deepened /\ PlateFollowed /\ Unbuilt /\ [Next]_vars => Unbuilt'
  <2>. SUFFICES ASSUME TypeOK, Deepened, PlateFollowed, Unbuilt, [Next]_vars,
                       ~BetweenColumns'
                PROVE  pc' \in Early
    OBVIOUS
  <2>1. wall' = wall
    BY DEF Next, DesignWall, RaiseMethodError, DesignSupport, Deepen, WriteSupports,
           AppendSupportData, Done, vars
  <2>2. ~BetweenColumns
    BY <2>1 DEF Slenderness, BetweenColumns
  <2>3. pc \in Early
    BY <2>2
  <2>4. wall \in Walls /\ wall \in WallType
    BY DEF Deepened, TypeOK
  <2>5. CASE pc = "deepen"
    <3>1. wall \in Walls \ Flat /\ span_t = Plate[wall]
      BY <2>4, <2>5 DEF PlateFollowed
    <3>2. Slenderness >= 3500
      <4>1. Slenderness \in Nat
        <5>1. wall.height \in Nat /\ wall.span_length \in Nat \ {0}
          BY <2>4 DEF WallType
        <5>. QED BY <5>1, SameRatio DEF Slenderness
      <4>2. ~(Slenderness < 50)
        BY <3>1, FlatWalls DEF Slenderness
      <4>. QED BY <2>2, <4>1, <4>2 DEF BetweenColumns
    <3>3. span_t = 0
      <4>1. span_t = SpanThickness(wall.height, wall.span_length, wall.bstress, wall.young)
        BY <3>1 DEF Plate
      <4>. QED BY <2>4, <3>2, <4>1, PlateForgotten DEF Slenderness
    <3>4. sec_modulus(support.coef, span_t) = -Inf
      BY <3>3 DEF sec_modulus
    <3>5. Required[wall] \in Int /\ Required[wall] >= 0
      BY <2>4, RequiredPositive DEF Required
    <3>6. TooWeak(support)
      BY <3>4, <3>5 DEF TooWeak, Inf
    <3>. QED BY <2>5, <3>6
          DEF Next, DesignWall, RaiseMethodError, DesignSupport, Deepen, WriteSupports,
              AppendSupportData, Done, vars
  <2>6. CASE pc \in {"design_wall", "design_support", "MethodError"}
    BY <2>6
          DEF Next, DesignWall, RaiseMethodError, DesignSupport, Deepen, WriteSupports,
              AppendSupportData, Done, vars
  <2>. QED BY <2>3, <2>5, <2>6
<1>3. PlateFollowed /\ Unbuilt
          => (~BetweenColumns => supports_csv = <<>> /\ support_data = <<>>)
  BY DEF PlateFollowed
<1>. HIDE DEF Unbuilt
<1>. QED BY <1>1, <1>2, <1>3, SupportInvariant, PlateInvariant, PTL DEF Spec
=============================================================================
