------------------------------ MODULE WallSpan -------------------------------
(***************************************************************************)
(* wall.jl: the thickness of the plate between two supports, the larger of *)
(* what bending and what deflection ask for.  Both read a coefficient from *)
(* wall_span/wall.csv by the height-to-width ratio of the plate.           *)
(* Thicknesses are in 1e-5 inch, the coefficients in 1e-5, pressures in    *)
(* 1e-6 lb/in2; heights and widths are whole inches.                       *)
(***************************************************************************)
EXTENDS FloodFormulas, Roots

\* wall_span/wall.csv, the columns p1 to p9: ratio in thousandths.
WallTable ==
    << [ratio |->   50, alpha |-> 11000, beta |-> 3000],
       [ratio |->  670, alpha |-> 16000, beta |-> 3000],
       [ratio |-> 1000, alpha |-> 20000, beta |-> 4000],
       [ratio |-> 1500, alpha |-> 28000, beta |-> 5000],
       [ratio |-> 2000, alpha |-> 32000, beta |-> 6000],
       [ratio |-> 2500, alpha |-> 35000, beta |-> 6000],
       [ratio |-> 3000, alpha |-> 36000, beta |-> 7000],
       [ratio |-> 3500, alpha |-> 37000, beta |-> 7000],
       [ratio |-> 4000, alpha |-> 37000, beta |-> 7000] >>

\* CSV.read counts the row titles as column 1: p1 is column 2.
Column(i) == WallTable[i - 1]

\* A slip: the search ends one column earlier.
SearchedShort == 2 .. 8

\* The columns the loop "for i = 2:9" compares with: it ends at p8 and never
\* reads p9.
Searched == 2 .. 9

\* Below the first ratio the search stops at column 2, whose left neighbour holds
\* the row titles: no method subtracts a string from a number.
ReadsTitles(height, width) == (S * height) \div width < Column(2).ratio

\* A slip: the column's own value, not interpolated.
CoefficientAbove(r, row) ==
    LET above == {i \in Searched : r < Column(i).ratio}
    IN  IF above = {} THEN 0 ELSE Column(CHOOSE j \in above : \A m \in above : j <= m)[row]

\* Linear interpolation in the first column whose ratio exceeds r; the
\* coefficient keeps its initial 0 when there is none.  For an r that does not
\* read the titles.
Coefficient(r, row) ==
    LET above == {i \in Searched : r < Column(i).ratio}
        i     == CHOOSE j \in above : \A m \in above : j <= m
        hi    == Column(i)
        lo    == Column(i - 1)
    IN  IF above = {} THEN 0
        ELSE ((hi[row] - lo[row]) * (r - lo.ratio)) \div (hi.ratio - lo.ratio) + lo[row]

\* Y in 1e-6 lb/in3 and H in inches.
Ph(Y, H) == Y * H

\* ph*wc^2 in whole pounds.
PlateLoad(ph, wc) == ((ph \div 100) * wc * wc) \div 10000

thickness(ph, wc, bet, stress) == Isqrt(100 * LongDiv(PlateLoad(ph, wc) * bet, stress))

\* E is in kip/in2, as the command line gives it.
thicknes(alph, P, wc, E) ==
    (100 * Isqrt(((9 * wc * PlateLoad(P, wc)) \div 2500) * alph)) \div E

bending_stress(height, width, stress, water) ==
    thickness(Ph(water, height), width, Coefficient((S * height) \div width, "beta"), stress)

deflection(height, width, young, water) ==
    thicknes(Coefficient((S * height) \div width, "alpha"), Ph(water, height), width, young)

design_wall(height, span_length, bstress, young) ==
    LET water == (64 * 1000000) \div 1728
        bent  == bending_stress(12 * height, 12 * span_length, bstress, water)
        tick  == deflection(12 * height, 12 * span_length, young, water)
    IN  IF bent < tick THEN tick ELSE bent

\* barrier.span_t = 2*(1/12) * design_wall(...), in 1e-6 ft.
SpanThickness(height, span_length, bstress, young) ==
    (10 * design_wall(height, span_length, bstress, young)) \div 6
=============================================================================
