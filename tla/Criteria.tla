------------------------------- MODULE Criteria -------------------------------
(***************************************************************************)
(* The four criteria a footing is designed against (steps 4 to 7 of the    *)
(* design documentation, the loops of barrier1.jl), as state functions of  *)
(* the two global objects, and the types of those objects.                 *)
(***************************************************************************)
EXTENDS FloodDesign

ConstantsType == [spec_base : Nat, spec_soil : Nat, spec_mat : Nat,
                  Cb : Nat, Cf : Nat, Kp : Nat, Sb : Nat]

BarrierType == [height : 1 .. 127, span_length : 1 .. 127, wall_t : Nat, span_t : Nat,
                base_width : Nat, base_thickness : Nat, base_length : Nat, key_depth : Nat]

\* barrier.base_width = coeff * barrier.height, in thousandths.
WidthAt(b, cf) == 10 * cf * b.height

Widened(b, cf) == [b EXCEPT !.base_width = WidthAt(b, cf)]

\* The barrier as line 86 leaves it: wall and supports designed, no footing yet.
Unfooted(b) == [Widened(b, 50) EXCEPT !.base_thickness = 0, !.base_length = 0, !.key_depth = 0]

\* k > base_width/6: the load leaves the middle third of the base.
OffMiddleThird(e, b) == 6 * e > b.base_width

OverPressed(c, b, e) == soil_pressure(c, b, e) > c.Sb * S

\* The eccentricity of a footing with its dimensions as they are, not with values
\* left over from a loop.
FreshEccentricity(c, b) ==
    ecentricity(b.base_width, Mres(c, b), Mov(b), fvertical(c, b))

Lifts(c, b) == OffMiddleThird(FreshEccentricity(c, b), b)

\* The larger of the soil pressures at the two edges of the base.
qmax(c, b) ==
    LET e == FreshEccentricity(c, b)
        mean == Quot(fvertical(c, b), Mul(b.base_width, b.base_length))
        tilt == Mul(mean, Quot(6 * e, b.base_width))
    IN  mean + (IF tilt < 0 THEN -tilt ELSE tilt)
=============================================================================
