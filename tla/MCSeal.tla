-------------------------------- MODULE MCSeal --------------------------------
EXTENDS SealDesign, WallSpan

\* The plates of both scripts, with every filler and ordinary to strong screws.
ShippedSeals ==
    UNION {[height : {H}, span_length : {4}, span_t : {SpanThickness(H, 4, 35286, 49300)},
            seal_select : 2 .. 6, mat_shear : {100, 330, 500}] : H \in 3 .. 11}
    \cup
    UNION {[height : {H}, span_length : {6}, span_t : {SpanThickness(H, 6, 50800, 49300)},
            seal_select : 2 .. 6, mat_shear : {100, 330, 500}] : H \in 3 .. 19}

\* Plates for a long span: a seal of just under and just over 1/4 inch up to one that
\* no screw seats, in water so high that its load is the larger one.
OddSeals ==
    [height : {11, 43, 44, 120}, span_length : {30}, span_t : {10416, 10417, 40000, 80000, 163000},
     seal_select : {2, 3, 5}, mat_shear : {330}]

\* Screws of lead and thin seals, for which the shear check does fail.
SoftScrews ==
    [height : {9, 11}, span_length : {24, 48}, span_t : {2000, 5000}, seal_select : {5},
     mat_shear : {1, 2}]

AllSeals == ShippedSeals \cup OddSeals \cup SoftScrews

\* What the proof about the shear assumes of a seal holds of every one above.
ASSUME ShippedSealsAreBroad == BroadSeals

\* seal/bolts/test_screw_data.csv and seal/test_seal_data.csv for the plate of
\* barrier.bat, heights 3 to 10: the screw's column and the seal's width.
RecordedScrews ==
    << [screw |-> 8, width |-> 212522], [screw |-> 9, width |-> 272564],
       [screw |-> 9, width |-> 323221], [screw |-> 9, width |-> 373224],
       [screw |-> 10, width |-> 422804], [screw |-> 10, width |-> 472095],
       [screw |-> 10, width |-> 500732], [screw |-> 10, width |-> 527818] >>

\* The seals and screws the model designs are those the program recorded: the width
\* to one part in a thousand, the screw exactly.
RecordedSeals ==
    test_seal_data # <<>> /\ job.span_length = 4 /\ job.seal_select = 2 /\ job.height <= 10 =>
        LET line == RecordedScrews[job.height - 2]
        IN  /\ test_screw_data = <<line.screw>>
            /\ screw_data = line.screw
            /\ Len(test_seal_data) = 1
            /\ test_seal_data[1] = seal_data
            /\ seal_data.len = 12 * job.height
            /\ S * seal_data.width \in (S - 1) * line.width .. (S + 1) * line.width
=============================================================================
