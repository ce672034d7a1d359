------------------------------ MODULE MCStability ------------------------------
EXTENDS Stability

\* Wall and support of the shipped materials, from the formulas of Support.
LOCAL SUP == INSTANCE SupportSection

Wall(H, span, stress) ==
    LET w == [height |-> H, span_length |-> span, bstress |-> stress, young |-> 49300]
        h == SUP!SpanThickness(H, span, stress, 49300)
    IN  [span_t |-> h \div S, wall_t |-> (h * SUP!LeastCoef(w, h, 40)) \div S]

\* A command line: the shipped soil and materials, as barrier.sh and
\* barrier.bat give them (cf 0.55 and kp 3.7 as Float16 holds them).
JobOf(H, span, stress, sb) ==
    LET wall == Wall(H, span, stress)
    IN  [constants |-> [spec_base |-> 150, spec_soil |-> 120, spec_mat |-> 175,
                        Cb |-> 0, Cf |-> 550, Kp |-> 3699, Sb |-> sb],
         barrier |-> [height |-> H, span_length |-> span, wall_t |-> wall.wall_t,
                      span_t |-> wall.span_t, base_width |-> 0, base_thickness |-> 0,
                      base_length |-> 0, key_depth |-> 0]]

\* The heights the design documentation covers (1 m to just over 3 m), with the
\* spans and stresses of both scripts.
ShippedJobs ==
    {JobOf(H, 4, 35286, 2000) : H \in 3 .. 11} \cup {JobOf(H, 6, 50800, 2000) : H \in 3 .. 11}

\* Soils from soft clay up, for which the settlement loop matters.
WeakSoilJobs ==
    {JobOf(H, 4, 35286, sb) : H \in 3 .. 11, sb \in {200, 300, 400, 500, 700, 900}}
    \cup {JobOf(H, 6, 50800, sb) : H \in 3 .. 11, sb \in {300, 400, 600, 800, 1000}}

\* Other sites: lighter or heavier soil and concrete, other friction, passive
\* pressure and cohesion, under the shipped walls.
SiteJobs ==
    {LET job == JobOf(H, 4, 35286, 2000)
     IN  [job EXCEPT !.constants.spec_soil = soil, !.constants.Cf = cf, !.constants.Kp = kp,
                     !.constants.spec_base = base, !.constants.Cb = cb] :
        H \in {3, 5, 7, 9, 11}, soil \in {90, 130}, cf \in {300, 600}, kp \in {2000, 3699},
        base \in {140, 160}, cb \in {0, 40}}

DocumentedJobs == ShippedJobs \cup SiteJobs

\* Heights an Int8 holds but whose square it does not: 12 to 15 wrap to a negative
\* load, 16 to none, 17 to 19 to a fraction of it.
TallJobs == {JobOf(H, 6, 50800, 2000) : H \in 12 .. 19}

\* With two heights whose square is negative.
AllJobs == DocumentedJobs \cup {JobOf(H, 6, 50800, 2000) : H \in {12, 13}}

\* What the proofs about the footing assume of a job holds of every one above.
ASSUME ShippedSites == OrdinarySites /\ ThinWalls /\ HighWalls

\* barrier/barrier.csv as the repository holds it, written by barrier.sh (height 5,
\* span 6), in thousandths of a foot.
RecordedDesign ==
    csv # NoFile /\ csv.height = 5 /\ csv.span_length = 6 =>
        csv = [height |-> 5, wall_t |-> 192, base_width |-> 4100, base_thickness |-> 1575,
               base_length |-> 1640, span_length |-> 6, key_depth |-> 1890, span_t |-> 14]
=============================================================================
