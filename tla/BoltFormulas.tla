---------------------------- MODULE BoltFormulas -----------------------------
(***************************************************************************)
(* The forces on an anchor bolt and the resistances of the five sizes      *)
(* (formulas.jl 39-48, the tables of bolts/ and the comparisons of         *)
(* bolts.jl), in whole newtons.  A size is its column in the tables: 2 for *)
(* M8 to 6 for M20, column 1 holds the titles.                             *)
(***************************************************************************)
EXTENDS FloodDesign, Roots

Sizes == 2 .. 6

\* The tables, row by row; Ae, kcr, sr and dnom in tenths.  lnd and lnl are the
\* logarithms of dnom and le in thousandths, for the powers of concrete_edge.
Table ==
    [Ae   |-> <<366, 580, 843, 1567, 2448>>,
     fut  |-> <<800, 800, 800, 800, 800>>,
     fyk  |-> <<640, 640, 640, 640, 640>>,
     hef  |-> <<60, 71, 80, 100, 125>>,
     kcr  |-> <<71, 71, 88, 88, 88>>,
     sr   |-> <<243, 391, 580, 960, 1230>>,
     dnom |-> <<115, 145, 175, 235, 275>>,
     lnd  |-> <<2442, 2674, 2862, 3157, 3314>>,
     le   |-> <<23, 29, 35, 47, 55>>,
     lnl  |-> <<3135, 3367, 3555, 3850, 4007>>,
     kcp  |-> <<1, 2, 2, 2, 2>>]

Of(row, n) == Table[row][n - 1]

\* e^x in thousandths, for x up to five.
Exp(x) ==
    LET f == x % S
        square == (f * f) \div S
        fraction == S + f + square \div 2 + (square * f) \div (6 * S)
                    + (square * square) \div (24 * S)
    IN  (<<1000, 2718, 7389, 20086, 54598>>[x \div S + 1] * fraction) \div S

----------------------------------------------------------------------------
\* The tension the overturning moment puts on the bolts: half of it, in N.mm, over
\* the flange.  A flange of no length makes it infinite.
des_t(movert, bwallt, coeff) == Quot(2226 * (movert \div S), coeff * bwallt) \div S

\* The share of the water's push one of four bolts carries.  The push is on the
\* plate alone: span_length, not tst(span_length, wall_t).
Shear(b) == (445 * (F_sta(spec_water, b.height, b.span_length * S) \div S)) \div 400

\* Both in tenths.
Tensr(Ae, fuk) == Ae * fuk
Yms(fuk, fyk) == (12 * fuk) \div fyk

TensionResistance(n) == Tensr(Of("Ae", n), Of("fut", n)) \div Yms(Of("fut", n), Of("fyk", n))

\* kc * sqrt(fc) * he^1.5
cconr(kc, he, fc) == (kc * Isqrt(fc * he * he * he)) \div 10

ConeResistance(fc, n) == cconr(Of("kcr", n), Of("hef", n), fc)

\* stren/1.25 of sr in kN.
ShearResistance(n) == 80 * Of("sr", n)

\* Feet to millimetres, as the code has it.  Beyond 10 m the edge carries any load.
Far == 10000000
Converted(c1) == IF c1 > Far \div 305 THEN Far ELSE (609 * c1) \div 2

\* The exponents of concrete_edge, in thousandths; c1 is in thousandths of a
\* millimetre.  bet stops growing at 0.14, below 2 mm.
alph(le, c1) == Isqrt((10000000 * le) \div c1)
bet(dnom, c1) ==
    2 * Cardinality({r \in 1 .. 70 :
        (r * r * r * r * r) \div 31250 <= (1000000 * dnom) \div c1})

\* 1.35 * dnom^alph * le^bet * sqrt(fc) * c1^1.5
edge_res(n, fc, c1) ==
    LET power == Mul(c1, 10 * Isqrt(10 * c1)) \div 100
        steel == Mul(Exp(Mul(Of("lnd", n), alph(Of("le", n), c1))),
                     Exp(Mul(Of("lnl", n), bet(Of("dnom", n), c1))))
    IN  (27 * Mul(Mul(power, 10 * Isqrt(10000 * fc)), steel)) \div 200

----------------------------------------------------------------------------
\* The comparisons: each is of a resistance with its margin against a load.
TensionFails(n, dest) == TensionResistance(n) < dest
ConeFails(cone, dest) == 2 * cone < 3 * dest
ShearFails(n, fst) == ShearResistance(n) < fst
PryFails(n, cone, fst) == Of("kcp", n) * cone < fst

\* At a distance of exactly nothing the resistance is Inf * 0: NaN, which is not
\* less than any load.
EdgeFails(n, fc, c1, fst) == c1 # 0 /\ 2 * edge_res(n, fc, c1) < 3 * fst
=============================================================================
