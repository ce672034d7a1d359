------------------------------- MODULE MCBolts --------------------------------
EXTENDS BoltDesign, LeastFooting

\* Wall and support of the shipped materials, from the formulas of Support.
LOCAL SUP == INSTANCE SupportSection

\* The soil and the materials of both scripts.
Site == [spec_base |-> 150, spec_soil |-> 120, spec_mat |-> 175,
         Cb |-> 0, Cf |-> 550, Kp |-> 3699, Sb |-> 2000]

\* The footing main has designed when it comes to the bolts.
Footing(H, span, stress) ==
    LET h == SUP!SpanThickness(H, span, stress, 49300)
        w == [height |-> H, span_length |-> span, bstress |-> stress, young |-> 49300]
    IN  FootingOf(Site,
            [height |-> H, span_length |-> span, span_t |-> h \div S,
             wall_t |-> (h * SUP!LeastCoef(w, h, 40)) \div S, base_width |-> 0,
             base_thickness |-> 0, base_length |-> 0, key_depth |-> 0], 100)

Footings4 == [H \in 3 .. 11 |-> Footing(H, 4, 35286)]
Footings6 == [H \in 3 .. 11 |-> Footing(H, 6, 50800)]

AnchorOf(footing, flange, cube) ==
    [flange_coeff |-> flange, cube_stren |-> cube] @@ footing

\* Every documented height under both scripts, with flanges from short to the
\* default of the command line, in the concrete of both scripts.
ShippedAnchors ==
    {AnchorOf(f, flange, 30) :
        f \in {Footings4[H] : H \in 3 .. 11} \cup {Footings6[H] : H \in 3 .. 11},
        flange \in {3, 5, 7, 9, 12, 16, 19}}

\* The footings main designs for spans at the end of what is possible; their sections
\* leave the integers of SupportSection, so the numbers are given.
LongSpans ==
    {[height |-> 11, span_length |-> 48, span_t |-> 163, wall_t |-> 652, base_width |-> 12210,
      base_thickness |-> 4702, base_length |-> 4884, key_depth |-> 5643],
     [height |-> 11, span_length |-> 52, span_t |-> 176, wall_t |-> 706, base_width |-> 12430,
      base_thickness |-> 4702, base_length |-> 4972, key_depth |-> 5643]}

\* Concrete so weak that M20 fails the cone or the edge check, and spans so long
\* that it fails the shear check.
WeakAnchors ==
    {AnchorOf(f, flange, cube) :
        f \in {Footings4[H] : H \in {7, 9, 11}} \cup {Footings6[H] : H \in {7, 9, 11}},
        flange \in {7, 9, 12}, cube \in {5, 10, 15, 20}}
    \cup {AnchorOf(f, 7, 30) : f \in LongSpans}

AllAnchors == ShippedAnchors \cup WeakAnchors

\* The hypothesis of the theorem about the retries of the edge check.
ASSUME ShippedEdgesWeaken == \A a \in AllAnchors : EdgeWeakens(a)

BarrierSh == anchor.height = 5 /\ anchor.span_length = 6
             /\ anchor.flange_coeff = 19 /\ anchor.cube_stren = 30

\* bolts/hole_params.csv as the repository holds it is the column of M10: barrier.sh
\* (height 5, span 6, the default flange) writes it, and ends in a DomainError.
RecordedHoles ==
    BarrierSh =>
        /\ hole_params \in {NoFile, 3}
        /\ pc \in Ends => hole_params = 3 /\ pc = "DomainError"
=============================================================================
