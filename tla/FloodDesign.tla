----------------------------- MODULE FloodDesign -----------------------------
(***************************************************************************)
(* design.jl: the checks a footing is designed against, as operators of    *)
(* the two global objects of the program,                                  *)
(*   c - Constants (material weights and soil coefficients), and           *)
(*   b - Barrier   (height, span_length, wall_t and the footing).          *)
(* A Julia function that also assigns to the barrier is split in two: what *)
(* it returns, and the barrier it leaves behind (Designed, Relengthened).  *)
(***************************************************************************)
EXTENDS FloodFormulas

spec_water == 64

fvertical(c, b) ==
    LET basew == weight(c.spec_base, b.base_length, b.base_width, b.base_thickness)
        Wwat  == weight(spec_water, heel(b.base_width, b.wall_t), b.base_length, b.height * S)
        fb    == Fbuoy(spec_water, b.base_width, b.base_length, b.base_thickness)
    IN  Fv(basew, Wwat, 0, fb)

\* Fres returns the resistance to sliding and, on the way, sizes the key.
Keyed(b) == [b EXCEPT !.key_depth = (6 * b.base_thickness) \div 5]

Fres(c, b) ==
    LET tkey == Keyed(b).key_depth + b.base_thickness
    IN  Fr(c.Cf, fvertical(c, b)) + Fc(c.Cb, b.base_width)
        + Fp(c.Kp, c.spec_soil, spec_water, b.base_thickness, b.base_length)
        + Fkey(c.Kp, c.spec_soil, spec_water, tkey, b.base_length)
        + Fwall(c.Kp, c.spec_soil, spec_water, b.base_thickness, b.span_length, b.base_length)

\* The water's push on the wall and the two supports that carry it.
Fst(b) == F_sta(spec_water, b.height, tst(b.span_length, b.wall_t))

\* design re-proportions the whole footing from its width ...
Designed(b) ==
    Keyed([b EXCEPT !.base_length = base_len(b.base_width),
                    !.base_thickness = base_thick(b.base_width)])

\* ... and returns the factor of safety against sliding, compared with 1.5.
SlidingFails(c, b) == BelowThreeHalves(Fres(c, b), Fst(b))

Mres(c, b) ==
    LET Mbase  == Mbse(weight(c.spec_base, b.base_width, b.base_length, b.base_thickness),
                       b.base_width)
        wallwt == weight(c.spec_mat, b.wall_t, b.span_length * S, b.height * S) \div 2
        Mwwt   == Mwallwt(wallwt, toe(b.base_width, b.wall_t), b.wall_t)
        hl     == heel(b.base_width, b.wall_t)
        wh     == weight(spec_water, hl, b.base_length, b.height * S)
        fp     == Fp(c.Kp, c.spec_soil, spec_water, b.base_thickness, b.base_length)
        fwall  == Fwall(c.Kp, c.spec_soil, spec_water, b.base_thickness, b.span_length, b.base_length)
        fkey   == Fkey(c.Kp, c.spec_soil, spec_water, b.key_depth, b.base_length)
    IN  M_fp(fp, b.base_thickness) + Mwwt + Mbase + Mwh(wh, b.base_width, hl)
        + Mfwall(fwall, b.base_thickness) + Mfkey(fkey, b.key_depth)

\* Slips: line 90 not commented out; another share than the one of design.
Rethickened(b) ==
    [b EXCEPT !.base_length = base_len(b.base_width),
              !.base_thickness = base_thick(b.base_width)]

RelengthenedShort(b) == [b EXCEPT !.base_length = (3 * b.base_width) \div 10]

\* overturning re-proportions the length only: the line that would resize the
\* thickness is commented out in the source.
Relengthened(b) == [b EXCEPT !.base_length = base_len(b.base_width)]

\* The overturning moment of a footing whose length is already set.
Mov(b) ==
    LET Mst == M_sta(Fst(b), b.height, b.base_thickness)
        hel == heel(b.base_width, b.wall_t)
        toy == toe(b.base_width, b.wall_t)
        fbuoy1 == fboy1(spec_water, b.height, b.wall_t, hel, b.base_thickness, b.base_length)
        fbuoy2 == fboy2(spec_water, toy, b.wall_t, b.base_thickness, b.base_length)
    IN  Mst + M_bouy(fbuoy1, fbuoy2, b.base_width)

OverturningFails(c, b) == BelowThreeHalves(Mres(c, b), Mov(b))

\* A slip: the moments taken the other way round, the resisting one after the
\* length is reset and the overturning one before.
EcentricitySwapped(c, b) ==
    LET after == Relengthened(b)
    IN  ecentricity(b.base_width, Mres(c, after), Mov(b), fvertical(c, after))

\* Ecentricity takes the resisting moment BEFORE overturning resets the length,
\* the overturning moment and the vertical force after it.
Ecentricity(c, b) ==
    LET after == Relengthened(b)
    IN  ecentricity(b.base_width, Mres(c, b), Mov(after), fvertical(c, after))

\* The larger of the two soil pressures: the one main compares with Sb.
soil_pressure(c, b, k) == soil_p(fvertical(c, b), b.base_length, b.base_width, k)
=============================================================================
