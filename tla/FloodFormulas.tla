---------------------------- MODULE FloodFormulas ----------------------------
(***************************************************************************)
(* formulas.jl: the force, moment and pressure formulas every design stage *)
(* evaluates.  Julia computes them in Float64; here a length, a force, a   *)
(* moment or a pressure is an integer number of THOUSANDTHS of its unit    *)
(* (ft, lb, lb.ft, lb/ft2), rounded down after each product.  Heights,     *)
(* span lengths and unit weights are whole numbers, as the command line    *)
(* parses them.  No product here leaves TLC's 32-bit integers for barriers *)
(* up to 30 ft.                                                            *)
(***************************************************************************)
EXTENDS Integers

\* One unit, in thousandths.
S == 1000

\* a*b of two fixed-point numbers.  a is split so that the intermediate
\* products stay small: b must be the smaller factor (a length).
Mul(a, b) == (a \div S) * b + ((a % S) * b) \div S

\* The quotient of two fixed-point numbers, three decimals by long division.
LongDiv(a, b) ==
    LET r1 == 10 * (a % b)
        r2 == 10 * (r1 % b)
        r3 == 10 * (r2 % b)
    IN  S * (a \div b) + 100 * (r1 \div b) + 10 * (r2 \div b) + (r3 \div b)

\* Float64's Inf: larger than every quotient the formulas meet.
Inf == 1000000000

\* Float64 division: it is total, a zero divisor gives an infinity.
Quot(a, b) ==
    IF b > 0 THEN LongDiv(a, b)
    ELSE IF b < 0 THEN LongDiv(-a, -b)
    ELSE IF a < 0 THEN -Inf ELSE Inf

\* Int8 multiplication keeps the low 8 bits of the product.
Int8(n) == ((n + 128) % 256) - 128

\* H^2 of an Int8 height: Julia evaluates the literal power as H*H in Int8.
Sq(H) == Int8(H * H)

\* A Float16 has 11 significant bits; results are rounded to nearest, ties to
\* even.  Below 128 its spacing is finer than the thousandths kept here.
Float16(x) ==
    LET ulp  == IF x >= 512 * S THEN 500 ELSE IF x >= 256 * S THEN 250
                ELSE IF x >= 128 * S THEN 125 ELSE 1
        q    == x \div ulp
        rest == 2 * (x % ulp)
    IN  IF rest > ulp \/ (rest = ulp /\ q % 2 = 1) THEN (q + 1) * ulp ELSE q * ulp

\* A slip: multiplied out without regard to the sign of den.
BelowThreeHalvesUnsigned(num, den) == num < den + den \div 2

\* num/den < 3/2 in Float64, den of any sign.
BelowThreeHalves(num, den) ==
    IF den > 0 THEN num < den + den \div 2
    ELSE IF den < 0 THEN num > den - ((-den) \div 2)
    ELSE num < 0

----------------------------------------------------------------------------
\* Assumptions for dimensions
base_len(x)  == (2 * x) \div 5
base_thick(x) == (9 * x) \div 20
\* A slip: the shares of heel and toe swapped.
heelOfToe(x, z) == (x - z) \div 3

heel(x, z) == (2 * (x - z)) \div 3
toe(x, z)  == (x - z) \div 3
ecentricity(B, Mr, Mo, fv) == B \div 2 - Quot(Mr - Mo, fv)
tst(blen, wlt) == blen * S + 2 * wlt

\* Vertical forces
weight(spec_wt, leng, width, height) == spec_wt * Mul(Mul(leng, width), height)
fboy1(a, H, twall, ah, t, len) ==
    a * Mul(H * (twall \div 2) + Mul(Mul(ah, twall \div 2), t), len)
fboy2(gm, c, twall, tf, lent) == gm * Mul(lent, c + Mul(twall \div 2, tf))
Fbuoy(spec_wt, leng, width, height) == weight(spec_wt, leng, width, height)
Fv(wall, basew, Wwat, fb) == basew + wall + Wwat - fb

\* Sliding force; the square is taken in Int8.
F_sta(sp, H, len) == (len * sp * Sq(H)) \div 4

\* Resisting forces (horizontal).  kp is a Float16, so the earth pressure
\* coefficient is computed in Float16.
Pressure(kp, spec_soil, spec_water) ==
    Float16(Float16(kp * (spec_soil - spec_water)) + spec_water * S)
Fr(Cf, fv) == Mul(fv, Cf)
Fc(Cb, B) == Cb * B
Fp(kp, spec_soil, spec_water, t, len) ==
    Mul(Mul(Pressure(kp, spec_soil, spec_water), Mul(t, t)), len) \div 2
Fkey(kp, spec_soil, spec_water, tkey, len) == Fp(kp, spec_soil, spec_water, tkey, len)
Fwall(kp, spec_soil, spec_water, tbase, len, t) ==
    Mul(Mul(Pressure(kp, spec_soil, spec_water), Mul(tbase, tbase)), len * S - t) \div 4

\* Moments
M_sta(fst, H, t) == Mul(fst, (H * S + t) \div 3)
M_fp(fpee, t) == Mul(fpee, t \div 3)
M_bouy(fb1, fb2, B) == Mul(fb1, B \div 3) + Mul(fb2, (2 * B) \div 3)
Mbse(bw, B) == Mul(bw, B \div 2)
Mwallwt(Fwt, C, twall) == Mul(Fwt, C + twall \div 2)
Mwh(waterw, B, Ah) == Mul(waterw, B - Ah \div 2)
Mfwall(fwall, t) == Mul(fwall, t \div 3)
Mfkey(fkey, t) == Mul(fkey, (2 * t) \div 3)

\* A slip: the width squared for the area of the base.
soil_pSquare(fv, blen, bwidth, ece) ==
    Mul(Quot(fv, Mul(bwidth, bwidth)), S + Quot(6 * ece, bwidth))

\* Soil pressure under the toe
soil_p(fv, blen, bwidth, ece) ==
    Mul(Quot(fv, Mul(bwidth, blen)), S + Quot(6 * ece, bwidth))
=============================================================================
