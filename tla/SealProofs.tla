------------------------------ MODULE SealProofs ------------------------------
(***************************************************************************)
(* Proofs about SealDesign: the walk through the table, whatever loads the *)
(* formulas give, and the shear the formulas do give.                      *)
(***************************************************************************)
EXTENDS SealDesign, FormulaProofs

----------------------------------------------------------------------------
\* The loads and areas are integers.

LEMMA EffectiveInt == ASSUME NEW w \in Int PROVE Effective(w) \in Int
BY IsqrtNat DEF Effective

LEMMA LoadsInt ==
    ASSUME NEW j \in SealType
    PROVE  Wm1(j) \in Int /\ Wm2(j) \in Int
<1>1. /\ j.height \in Int /\ j.span_t \in Nat /\ j.seal_select \in 2 .. 6
  BY DEF SealType
<1>2. Effective(width(j)) \in Int
  BY <1>1, EffectiveInt DEF width
<1>3. (224 * j.height * j.height) \div 15 \in Int
  BY <1>1
<1>4. 12 * SeatingPressure[j.seal_select] \in Int
  BY <1>1 DEF SeatingPressure
<1>. QED BY <1>2, <1>3, <1>4, MulInt DEF Wm1, Wm2

LEMMA ScrewsInt ==
    ASSUME NEW col \in Screws
    PROVE  Fi(col) \in Int /\ Area1(col) \in Nat
<1>1. StressArea[col] \in Nat
  BY DEF Screws, StressArea
<1>. QED BY <1>1 DEF Fi, Area1

LEMMA ShareInt ==
    ASSUME NEW j \in SealType
    PROVE  Quot(fst(j), 4177 * j.height * j.mat_shear) \div 10 \in Int
<1>1. j.height \in Int /\ j.span_length \in Int /\ j.mat_shear \in Int
  BY DEF SealType
<1>2. Sq(j.height) \in Int
  BY <1>1 DEF Sq, Int8
<1>3. fst(j) \in Int
  BY <1>1, <1>2 DEF fst, F_sta, S
<1>4. 4177 * j.height * j.mat_shear \in Int
  BY <1>1
<1>. QED BY <1>3, <1>4, QuotInt

\* A screw that fails the shear check at a strength converted too often fails it at
\* its own strength as well.
LEMMA ShearedAnyway ==
    ASSUME NEW j \in SealType, NEW col \in Screws, NEW k \in Nat \ {0}, Sheared(j, col, k)
    PROVE  Sheared(j, col, 1)
<1>. DEFINE once == Quot(fst(j), 4177 * j.height * j.mat_shear) \div 10
<1>1. once \in Int /\ Area1(col) \in Nat
  BY ShareInt, ScrewsInt
<1>2. Area2(j, k) = once \div k /\ Area2(j, 1) = once \div 1
  BY DEF Area2
<1>. HIDE DEF once
<1>3. once \div 1 = once /\ once \div k \in Int
  BY <1>1
<1>4. Area1(col) < once \div k
  BY <1>2 DEF Sheared
<1>5. once \div k <= once
  BY <1>1, <1>3, <1>4, QuotientBelow
<1>. QED BY <1>1, <1>2, <1>3, <1>4, <1>5 DEF Sheared

\* What des_bolts checks first is whether the screw seats the seal against both loads.
LEMMA SeatedMeans ==
    ASSUME job \in SealType, NEW col \in Screws
    PROVE  Seats(col) <=> ~NotSeated(job, col)
BY LoadsInt, ScrewsInt DEF Seats, NotSeated, Load

LEMMA LineTyped == ASSUME job \in SealType PROVE SealLine \in SealLineType
BY DEF SealType, SealLine, SealLineType, len, width

----------------------------------------------------------------------------
\* Every screw before n has failed, and one of them for the shear if the strength has
\* been multiplied; from the moment one is accepted n stands still, and
\* it is the screw on file.
Walked ==
    /\ \A col \in Screws : col < n => ~Seats(col) \/ Sheared(job, col, 1)
    /\ pc \in {"screw_data", "test_screw_data", "_seal_data", "test_seal_data", "done"} =>
           n \in Screws /\ Seats(n) /\ (Sheared(job, n, 1) => RefusedBefore(n))
    /\ factor # 1 => RefusedBefore(n)
    /\ pc \in {"fit", "screw_data", "BoundsError"} => screw_data = NoFile
    /\ pc = "BoundsError" => n \notin Screws
    /\ screw_data # NoFile => screw_data = n

LEMMA SealTypesInit == Init => TypeOK
<1>. SUFFICES ASSUME Init PROVE TypeOK
  OBVIOUS
<1>1. test_screw_data \in Seq(Screws) /\ test_seal_data \in Seq(SealLineType)
  BY DEF Init
<1>. QED BY <1>1, SealsAssumption DEF Init, TypeOK, NoFile

LEMMA SealTypesStep == TypeOK /\ Walked /\ [Next]_vars => TypeOK'
<1>. SUFFICES ASSUME TypeOK, Walked, [Next]_vars PROVE TypeOK'
  OBVIOUS
<1>. USE DEF TypeOK
<1>1. CASE TooWeak
  BY <1>1 DEF TooWeak, Screws
<1>2. CASE TooThin
  BY <1>2 DEF TooThin, Screws
<1>3. CASE PastTable
  BY <1>3 DEF PastTable
<1>4. CASE Fits
  BY <1>4 DEF Fits
<1>5. CASE WriteScrew
  BY <1>5 DEF WriteScrew, Walked
<1>6. CASE AppendScrew
  BY <1>6 DEF AppendScrew, Walked
<1>7. CASE WriteSeal
  BY <1>7, LineTyped DEF WriteSeal
<1>8. CASE AppendSeal
  BY <1>8, LineTyped DEF AppendSeal
<1>9. CASE UNCHANGED vars
  BY <1>9 DEF vars
<1>. QED BY <1>1, <1>2, <1>3, <1>4, <1>5, <1>6, <1>7, <1>8, <1>9 DEF Next, End

LEMMA WalkedStep == TypeOK /\ Walked /\ [Next]_vars => Walked'
<1>. SUFFICES ASSUME TypeOK, Walked, [Next]_vars PROVE Walked'
  OBVIOUS
<1>1. job \in SealType /\ n \in 2 .. 15 /\ factor \in Nat \ {0}
  BY DEF TypeOK
<1>2. CASE TooWeak
  <2>1. pc = "fit" /\ n \in Screws /\ n' = n + 1 /\ NotSeated(job, n) /\ UNCHANGED <<pc, job, screw_data>>
    BY <1>2 DEF TooWeak
  <2>2. ~Seats(n)
    BY <1>1, <2>1, SeatedMeans
  <2>3. \A col \in Screws : col < n + 1 => ~Seats(col) \/ Sheared(job, col, 1)
    BY <1>1, <2>2 DEF Walked, Screws
  <2>4. factor' # 1 => RefusedBefore(n)'
    <3>1. RefusedBefore(n) => RefusedBefore(n)'
      BY <1>1, <2>1 DEF RefusedBefore, Seats
    <3>. QED BY <1>2, <3>1 DEF TooWeak, Walked
  <2>. QED BY <2>1, <2>3, <2>4 DEF Walked, Seats
<1>3. CASE TooThin
  <2>1. /\ pc = "fit" /\ n \in Screws /\ n' = n + 1 /\ Sheared(job, n, factor)
        /\ ~NotSeated(job, n) /\ UNCHANGED <<pc, job, screw_data>>
    BY <1>3 DEF TooThin
  <2>2. Sheared(job, n, 1)
    BY <1>1, <2>1, ShearedAnyway
  <2>3. \A col \in Screws : col < n + 1 => ~Seats(col) \/ Sheared(job, col, 1)
    BY <1>1, <2>2 DEF Walked, Screws
  <2>4. RefusedBefore(n)'
    <3>1. Seats(n) /\ n \in 2 .. n' - 1
      BY <1>1, <2>1, SeatedMeans
    <3>. QED BY <2>1, <2>2, <3>1 DEF RefusedBefore, Seats
  <2>. QED BY <2>1, <2>3, <2>4 DEF Walked, Seats
<1>4. CASE PastTable
  BY <1>4 DEF PastTable, Walked, Seats, RefusedBefore
<1>5. CASE Fits
  <2>1. pc = "fit" /\ n \in Screws /\ ~NotSeated(job, n) /\ pc' = "screw_data" /\ UNCHANGED <<job, n, screw_data>>
    BY <1>5 DEF Fits
  <2>2. Seats(n)
    BY <1>1, <2>1, SeatedMeans
  <2>3. Sheared(job, n, 1) => RefusedBefore(n)
    BY <1>5 DEF Fits, Walked
  <2>4. factor' = factor
    BY <1>5 DEF Fits
  <2>. QED BY <2>1, <2>2, <2>3, <2>4 DEF Walked, Seats, RefusedBefore
<1>6. CASE WriteScrew \/ AppendScrew \/ WriteSeal \/ AppendSeal
  BY <1>6 DEF WriteScrew, AppendScrew, WriteSeal, AppendSeal, Walked, Seats, RefusedBefore
<1>7. CASE UNCHANGED vars
  BY <1>7 DEF vars, Walked, Seats, RefusedBefore
<1>. QED BY <1>2, <1>3, <1>4, <1>5, <1>6, <1>7 DEF Next, End

LEMMA WalkedInit == Init => Walked
BY DEF Init, Walked, Screws

LEMMA SealInvariant == Spec => [](TypeOK /\ Walked)
BY SealTypesInit, SealTypesStep, WalkedInit, WalkedStep, PTL DEF Spec

----------------------------------------------------------------------------
\* The column never gets further than one past the table, and what is written has the
\* type of what is read back.
THEOREM SealTypeCorrect == Spec => []TypeOK
BY SealInvariant, PTL

\* The screw on file seats the seal against both loads, every smaller one of the table
\* fails a check, and it carries the shear at the strength of the command line unless a
\* smaller screw that seats was refused for the shear: that call is the only one whose
\* successor may accept a screw too soft.  The BoundsError of seal.jl:12 means that no
\* screw passes.
THEOREM SealLeastScrew == Spec => []LeastScrew
<1>1. TypeOK /\ Walked => LeastScrew
  <2>. SUFFICES ASSUME TypeOK, Walked PROVE LeastScrew
    OBVIOUS
  <2>1. n \in 2 .. 15 /\ screw_data \in Screws \cup {NoFile}
    BY DEF TypeOK
  <2>2. ASSUME screw_data # NoFile
        PROVE  /\ Seats(screw_data)
               /\ \A col \in 2 .. screw_data - 1 : ~Seats(col) \/ Sheared(job, col, 1)
               /\ Sheared(job, screw_data, 1) => RefusedBefore(screw_data)
    <3>1. screw_data = n /\ n \in Screws
      BY <2>1, <2>2 DEF Walked
    <3>2. pc \in {"screw_data", "test_screw_data", "_seal_data", "test_seal_data", "done"}
      BY <2>2 DEF TypeOK, Walked
    <3>3. \A col \in 2 .. n - 1 : col \in Screws /\ col < n
      BY <3>1 DEF Screws
    <3>. QED BY <3>1, <3>2, <3>3 DEF Walked
  <2>3. ASSUME pc = "BoundsError"
        PROVE  \A col \in Screws : ~Seats(col) \/ Sheared(job, col, 1)
    <3>1. \A col \in Screws : col < n
      BY <2>1, <2>3 DEF Walked, Screws
    <3>. QED BY <3>1 DEF Walked
  <2>. QED BY <2>2, <2>3 DEF LeastScrew
<1>. QED BY <1>1, SealInvariant, PTL

----------------------------------------------------------------------------
(***************************************************************************)
(* The shear.  It grows with the square of an Int8 height, which is never  *)
(* more than eleven times the height, and is shared by twice as many       *)
(* screws as the seal is feet high.                                        *)
(***************************************************************************)

LEMMA SquareBelow ==
    ASSUME NEW H \in 1 .. 127
    PROVE  Sq(H) \in Int /\ Sq(H) <= 11 * H
<1>1. H * H \in Int
  OBVIOUS
<1>2. CASE H <= 11
  <2>1. H * H <= 11 * H
    BY <1>2, TimesGrows
  <2>2. H * H >= 0
    BY TimesGrows
  <2>. HIDE <1>2
  <2>. DEFINE q == H * H
  <2>3. q \in Int /\ q <= 121 /\ q >= 0 /\ q <= 11 * H
    BY <1>2, <1>1, <2>1, <2>2
  <2>. HIDE DEF q
  <2>4. Int8(q) = q
    BY <2>3 DEF Int8
  <2>. QED BY <2>3, <2>4 DEF Sq, q
<1>3. CASE H > 11
  <2>. DEFINE q == H * H
  <2>1. q \in Int
    BY <1>1
  <2>. HIDE DEF q
  <2>2. Int8(q) \in Int /\ Int8(q) <= 127
    BY <2>1 DEF Int8
  <2>. QED BY <1>3, <2>2 DEF Sq, q
<1>. QED BY <1>2, <1>3

\* The share of one screw, in 1e-6 in2, times the strength of the screw.
LEMMA ShareBounded ==
    ASSUME NEW j \in SealType
    PROVE  /\ Area2(j, 1) \in Int
           /\ 4177 * (Area2(j, 1) * j.mat_shear) <= 17600000 * j.span_length
<1>. DEFINE H == j.height
            L == j.span_length
            m == j.mat_shear
            f == fst(j)
            d == 4177 * H * m
            q == Quot(f, d)
            A == Area2(j, 1)
            x == H * L
            y == A * m
            z == Sq(H)
<1>1. H \in 1 .. 127 /\ L \in 1 .. 127 /\ H \in Nat /\ L \in Nat /\ m \in Nat /\ m > 0
  BY DEF SealType
<1>. HIDE DEF H, L, m
<1>2. z \in Int /\ z <= 11 * H
  BY <1>1, SquareBelow
<1>. HIDE DEF z
<1>3. f \in Int /\ f = 16000 * (z * L)
  <2>1. f = (L * S * 64 * z) \div 4
    BY DEF fst, F_sta, z, H, L
  <2>. DEFINE u == z * L
  <2>2. u \in Int /\ L * S * 64 * z = 64000 * u
    BY <1>1, <1>2 DEF S
  <2>. HIDE DEF u, f
  <2>3. f = (64000 * u) \div 4
    BY <2>1, <2>2
  <2>. QED BY <2>2, <2>3 DEF u
<1>4. z * L <= 11 * x /\ x \in Nat
  <2>. DEFINE e == 11 * H
  <2>1. e \in Int /\ z <= e /\ e * L = 11 * x /\ x \in Nat
    BY <1>1, <1>2
  <2>. HIDE DEF e
  <2>2. z * L <= e * L
    BY <1>1, <1>2, <2>1, TimesGrows
  <2>. QED BY <2>1, <2>2
<1>. DEFINE Hm == H * m
<1>5. Hm \in Nat /\ Hm > 0 /\ d = 4177 * Hm /\ d \in Nat /\ d > 0
  <2>1. Hm \in Nat /\ d = 4177 * Hm
    BY <1>1
  <2>2. 1 * m <= H * m
    BY <1>1, TimesGrows
  <2>. QED BY <1>1, <2>1, <2>2
<1>. HIDE DEF f, d, Hm
<1>6. q \in Int /\ q * d <= 1000 * f
  <2>1. q = LongDiv(f, d)
    BY <1>5 DEF Quot
  <2>2. LongDiv(f, d) \in Int /\ LongDiv(f, d) * d <= 1000 * f
    <3>1. f \in Int /\ d \in Nat /\ d > 0
      BY <1>3, <1>5
    <3>. QED BY ONLY <3>1, LongDivides
  <2>. QED BY <2>1, <2>2
<1>7. A = (q \div 10) \div 1
  BY DEF Area2, q, f, d, H, m
<1>. HIDE DEF q, A
<1>8. A \in Int /\ 10 * A <= q
  BY <1>6, <1>7
<1>9. (10 * A) * d <= q * d
  BY <1>5, <1>6, <1>8, TimesGrows
<1>10. (10 * A) * d = 41770 * (A * Hm)
  BY <1>5, <1>8
<1>11. A * Hm = y * H /\ y \in Int
  BY <1>1, <1>8 DEF Hm
<1>12. 41770 * (A * Hm) <= 16000000 * (z * L)
  BY <1>1, <1>2, <1>3, <1>5, <1>6, <1>8, <1>9, <1>10
<1>13. 4177 * (y * H) <= 17600000 * (L * H)
  <2>1. z * L \in Int /\ y * H \in Int
    BY <1>1, <1>2, <1>11
  <2>2. 41770 * (y * H) <= 16000000 * (z * L)
    BY <1>11, <1>12
  <2>3. x = L * H
    BY <1>1
  <2>. HIDE DEF x, y
  <2>. QED BY <1>4, <2>1, <2>2, <2>3
<1>. HIDE DEF y
<1>14. 4177 * y <= 17600000 * L
  <2>. DEFINE a == 4177 * y
              b == 17600000 * L
  <2>1. a \in Int /\ b \in Int /\ a * H <= b * H
    <3>1. a * H = 4177 * (y * H) /\ b * H = 17600000 * (L * H)
      BY <1>1, <1>11
    <3>2. a \in Int /\ b \in Int
      BY <1>1, <1>11
    <3>. HIDE DEF a, b
    <3>. QED BY <1>13, <3>1, <3>2
  <2>. HIDE DEF a, b
  <2>2. ASSUME a > b PROVE FALSE
    <3>1. (b + 1) * H <= a * H
      BY <1>1, <2>1, <2>2, TimesGrows
    <3>2. (b + 1) * H = b * H + H
      BY <1>1, <2>1
    <3>. QED BY <1>1, <2>1, <3>1, <3>2
  <2>. QED BY <2>1, <2>2 DEF a, b
<1>. QED BY <1>8, <1>14 DEF A, y, L, m

\* No screw of the table is too thin for a share at 100 MPa or more.
LEMMA StrongScrewsHold ==
    ASSUME NEW j \in SealType, j.mat_shear >= 100, NEW col \in Screws
    PROVE  ~Sheared(j, col, 1)
<1>. DEFINE A == Area2(j, 1)
            m == j.mat_shear
<1>1. A \in Int /\ 4177 * (A * m) <= 17600000 * j.span_length
  BY ShareBounded
<1>2. m \in Nat /\ m >= 100 /\ j.span_length \in 1 .. 127
  BY DEF SealType
<1>. HIDE DEF A
<1>3. Area1(col) >= 22010
  BY DEF Area1, StressArea, Screws
<1>4. A < 6000
  <2>1. CASE A < 0
    BY <2>1, <1>1
  <2>2. CASE A >= 0
    <3>1. 100 * A <= m * A
      BY <1>1, <1>2, <2>2, TimesGrows
    <3>2. m * A = A * m /\ A * m \in Int
      BY <1>1, <1>2
    <3>3. 4177 * (100 * A) <= 17600000 * 127
      BY <1>1, <1>2, <3>1, <3>2
    <3>. QED BY <1>1, <3>3
  <2>. QED BY <1>1, <2>1, <2>2
<1>. QED BY <1>1, <1>3, <1>4, ScrewsInt DEF Sheared, A

ConvertedOnce == job.mat_shear >= 100 => factor = 1

LEMMA ConvertedOnceStep == TypeOK /\ ConvertedOnce /\ [Next]_vars => ConvertedOnce'
<1>. SUFFICES ASSUME TypeOK, ConvertedOnce, [Next]_vars PROVE ConvertedOnce'
  OBVIOUS
<1>1. CASE TooThin
  <2>1. job \in SealType /\ n \in Screws /\ Sheared(job, n, factor) /\ job' = job
    BY <1>1 DEF TypeOK, TooThin
  <2>2. ~(job.mat_shear >= 100)
    BY <2>1, StrongScrewsHold DEF ConvertedOnce
  <2>. QED BY <2>1, <2>2 DEF ConvertedOnce
<1>2. CASE TooWeak \/ PastTable \/ Fits \/ WriteScrew \/ AppendScrew \/ WriteSeal \/ AppendSeal
            \/ UNCHANGED vars
  BY <1>2 DEF TooWeak, PastTable, Fits, WriteScrew, AppendScrew, WriteSeal, AppendSeal, vars,
       ConvertedOnce
<1>. QED BY <1>1, <1>2 DEF Next, End

LEMMA ConvertedOnceInvariant == Spec => []ConvertedOnce
<1>1. Init => ConvertedOnce
  BY DEF Init, ConvertedOnce
<1>. QED BY <1>1, ConvertedOnceStep, SealInvariant, PTL DEF Spec

SeatsAlone ==
    job.mat_shear >= 100 =>
        /\ factor = 1
        /\ screw_data # NoFile =>
              /\ Seats(screw_data)
              /\ \A col \in 2 .. screw_data - 1 : ~Seats(col)

\* With screws of 100 MPa or more, of whatever seal, the shear check never fails: no call
\* hands on the strength it has converted, and the first screw that seats the seal is the
\* one written.
THEOREM SealSeatsAlone == Spec => []SeatsAlone
<1>1. TypeOK /\ ConvertedOnce /\ LeastScrew => SeatsAlone
  <2>. SUFFICES ASSUME TypeOK, ConvertedOnce, LeastScrew, job.mat_shear >= 100
                PROVE  /\ factor = 1
                       /\ screw_data # NoFile =>
                             /\ Seats(screw_data)
                             /\ \A col \in 2 .. screw_data - 1 : ~Seats(col)
    BY DEF SeatsAlone
  <2>1. factor = 1
    BY DEF ConvertedOnce
  <2>2. ASSUME screw_data # NoFile, NEW col \in 2 .. screw_data - 1
        PROVE  ~Seats(col)
    <3>1. job \in SealType /\ col \in Screws
      BY <2>2 DEF TypeOK, Screws
    <3>2. ~Sheared(job, col, 1)
      BY <3>1, StrongScrewsHold
    <3>. QED BY <2>2, <3>2 DEF LeastScrew
  <2>3. screw_data # NoFile => Seats(screw_data)
    BY DEF LeastScrew
  <2>. QED BY <2>1, <2>2, <2>3
<1>. QED BY <1>1, SealInvariant, ConvertedOnceInvariant, SealLeastScrew, PTL

\* A broad seal presses so hard that the screw that seats it carries its share of the
\* shear in the right unit as well.
LEMMA SeatedCarries ==
    ASSUME job \in SealType, Broad(job), NEW col \in Screws, Seats(col)
    PROVE  144 * Area2(job, 1) <= Area1(col)
<1>. DEFINE A == Area2(job, 1)
            m == job.mat_shear
            L == job.span_length
            E == Effective(width(job))
            P == SeatingPressure[job.seal_select]
            a == StressArea[col]
<1>1. m \in Nat /\ m > 0 /\ L \in 1 .. 127 /\ job.span_t \in Nat
  BY DEF SealType
<1>2. A \in Int /\ 4177 * (A * m) <= 17600000 * L
  BY ShareBounded
<1>3. E \in Int /\ E * m >= 1000000 * L
  BY <1>1, EffectiveInt DEF Broad, width
<1>4. P \in Int /\ P >= 1595
  BY DEF SealType, SeatingPressure
<1>5. a \in Nat /\ Area1(col) = 155 * a /\ Fi(col) = (45524 * a) \div 10
  BY DEF StressArea, Screws, Area1, Fi
<1>6. Mul(E, 12 * P) <= Fi(col)
  BY DEF Seats, Wm2
<1>. HIDE DEF A, E, P, a
<1>7. E >= 0
  <2>1. ASSUME E < 0 PROVE FALSE
    <3>1. E * m <= 0 * m
      BY <1>1, <1>3, <2>1, TimesGrows
    <3>. QED BY <1>1, <1>3, <3>1
  <2>. QED BY <1>3, <2>1
<1>8. 19140 * E <= 1000 * Fi(col) + 999
  <2>1. Mul(E, 12 * P) = (E * (12 * P)) \div 1000
    BY <1>3, <1>4, MulExact DEF S
  <2>2. 19140 * E <= (12 * P) * E
    BY <1>3, <1>4, <1>7, TimesGrows
  <2>. DEFINE x == E * (12 * P)
  <2>3. x \in Int /\ 19140 * E <= x
    BY <1>3, <1>4, <2>2
  <2>. HIDE DEF x
  <2>4. x \div 1000 <= (45524 * a) \div 10
    BY <1>5, <1>6, <2>1 DEF x
  <2>. QED BY <1>3, <1>5, <2>3, <2>4
<1>9. 19140 * E <= 4552400 * a + 999
  BY <1>3, <1>5, <1>8
<1>10. 4177 * A <= 18 * E
  <2>. DEFINE u == 4177 * A
              v == 18 * E
  <2>1. u \in Int /\ v \in Int /\ u * m = 4177 * (A * m) /\ v * m = 18 * (E * m)
    BY <1>1, <1>2, <1>3
  <2>2. A * m \in Int /\ E * m \in Int
    BY <1>1, <1>2, <1>3
  <2>3. u * m <= v * m
    BY <1>1, <1>2, <1>3, <2>1, <2>2
  <2>. HIDE DEF u, v
  <2>4. ASSUME u > v PROVE FALSE
    <3>1. (v + 1) * m <= u * m
      BY <1>1, <2>1, <2>4, TimesGrows
    <3>2. (v + 1) * m = v * m + m
      BY <1>1, <2>1
    <3>3. u * m \in Int /\ v * m \in Int
      BY <1>1, <2>1
    <3>. QED BY <1>1, <2>3, <3>1, <3>2, <3>3
  <2>. QED BY <2>1, <2>4 DEF u, v
<1>11. 144 * A <= 155 * a
  BY <1>2, <1>3, <1>5, <1>9, <1>10
<1>. QED BY <1>5, <1>11 DEF A

\* For broad seals and screws of 100 MPa or more, the screw on file carries its share of
\* the shear although des_bolts divides that by 144 and compares it with square inches.
THEOREM ShearCarriedAnyway == ASSUME BroadSeals PROVE Spec => []ShearCarried
<1>1. Init => BroadSeals /\ (job.mat_shear >= 100 => Broad(job))
  BY DEF Init, BroadSeals
<1>2. [Next]_vars => job' = job
  BY DEF Next, TooWeak, TooThin, PastTable, Fits, WriteScrew, AppendScrew, WriteSeal,
       AppendSeal, End, vars
<1>3. (job.mat_shear >= 100 => Broad(job)) /\ [Next]_vars => (job.mat_shear >= 100 => Broad(job))'
  BY <1>2 DEF Broad, width
<1>4. TypeOK /\ LeastScrew /\ ConvertedOnce /\ (job.mat_shear >= 100 => Broad(job)) => ShearCarried
  <2>. SUFFICES ASSUME TypeOK, LeastScrew, ConvertedOnce, Broad(job),
                       job.mat_shear >= 100, screw_data # NoFile
                PROVE  factor = 1 /\ 144 * Area2(job, 1) <= Area1(screw_data)
    BY DEF ShearCarried
  <2>1. job \in SealType /\ screw_data \in Screws /\ Seats(screw_data)
    BY DEF TypeOK, LeastScrew
  <2>. QED BY <2>1, SeatedCarries DEF ConvertedOnce
<1>. QED BY <1>1, <1>3, <1>4, SealInvariant, ConvertedOnceInvariant, SealLeastScrew, PTL DEF Spec
=============================================================================
