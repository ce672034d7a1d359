---------------------------- MODULE LeastFooting -----------------------------
(***************************************************************************)
(* What the four loops of main compute, without the loops: each check in   *)
(* turn takes the least width, from the previous one's on and in its own   *)
(* steps, that passes.                                                     *)
(***************************************************************************)
EXTENDS Criteria

\* The coefficients a loop reaches that starts at from, and the one it stops at.
Steps(from, step, max) == {x \in from .. max : (x - from) % step = 0}

FirstOf(from, step, max, Passes(_)) ==
    CHOOSE x \in Steps(from, step, max) :
        Passes(x) /\ \A y \in Steps(from, step, x - 1) : ~Passes(y)

\* The footings the loops try: sliding proportions it whole, overturning sets the
\* length of one that slid at s, and the eccentricity is computed before the length
\* follows, except where overturning has left it at t.
Slid(b, x)         == Designed(Widened(b, x))
Turned(b, s, x)    == Relengthened(Widened(Slid(b, s), x))
Lifted(b, s, t, x) == IF x = t THEN Turned(b, s, t) ELSE Widened(Turned(b, s, x - 10), x)
Settled(b, s, l, x) == Widened(Turned(b, s, l), x)

\* Which of them fail, given where the earlier loops ended.
Slides(c, b, x)      == SlidingFails(c, Slid(b, x))
Turns(c, b, s, x)    == OverturningFails(c, Turned(b, s, x))
Tilts(c, b, s, t, x) == OffMiddleThird(Ecentricity(c, Lifted(b, s, t, x)), Turned(b, s, x))
Sinks(c, b, s, t, l, x) ==
    OverPressed(c, Settled(b, s, l, x), Ecentricity(c, Lifted(b, s, t, l)))

\* Where each loop ends.
SlidingEnd(c, b, max)          == FirstOf(50, 5, max, LAMBDA x : ~Slides(c, b, x))
OverturningEnd(c, b, s, max)   == FirstOf(s, 2, max, LAMBDA x : ~Turns(c, b, s, x))
EccentricityEnd(c, b, s, t, max)  == FirstOf(t, 10, max, LAMBDA x : ~Tilts(c, b, s, t, x))
SettlementEnd(c, b, s, t, l, max) == FirstOf(l, 5, max, LAMBDA x : ~Sinks(c, b, s, t, l, x))

\* The footing of a barrier whose wall and supports are designed.
FootingOf(c, b, max) ==
    LET s == SlidingEnd(c, b, max)
        t == OverturningEnd(c, b, s, max)
        l == EccentricityEnd(c, b, s, t, max)
    IN  Settled(b, s, l, SettlementEnd(c, b, s, t, l, max))
=============================================================================
