---------------------------- MODULE SupportSection ----------------------------
(***************************************************************************)
(* The section moduli of support.jl, for a wall w = [height, span_length,  *)
(* bstress, young].  Lengths are in 1e-6 ft, moduli in 1e-10 ft3, moments  *)
(* in thousandths of lb.ft.                                                *)
(***************************************************************************)
EXTENDS WallSpan

\* The moment at the foot of the support; both powers are taken in Int8.
Mst(w) ==
    LET Fsta == F_sta(64, w.height, w.span_length * S)
        load == (2 * Fsta) \div w.height
    IN  (load * Sq(w.height)) \div 6

\* Z = Mst/stress_yield.
RequiredModulus(w) == S * Quot(10 * Mst(w), 144 * w.bstress)

\* (Ibig - Ismall)/y.  A zero thickness gives -Ismall/0, that is -Inf.
sec_modulus(coef, h) ==
    LET h1    == 9852
        cube  == (((h * h) \div 100000) * h) \div 1000
        outer == (((h + h1) \div 10) * ((h + h1) \div 10)) \div 1000
    IN  IF h = 0 THEN -Inf
        ELSE coef * coef * cube - 100 * ((2 * outer * outer) \div (3 * coef * h))

\* What the loop of design_support looks for: the least coefficient, from the
\* initial 3 on, whose section carries the moment.  0 if none does up to max.
LeastCoef(w, h, max) ==
    LET strong == {n \in 3 .. max : sec_modulus(n, h) >= RequiredModulus(w)}
    IN  IF strong = {} THEN 0 ELSE CHOOSE n \in strong : \A m \in strong : n <= m
=============================================================================
