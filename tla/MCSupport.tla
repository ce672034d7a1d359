------------------------------ MODULE MCSupport ------------------------------
EXTENDS Support, SequencesExt

\* The heights and spans of barrier.sh and barrier.bat, with their plates.
ShippedWalls ==
    [height : 3 .. 11, span_length : {4}, bstress : {35286}, young : {49300}]
    \cup [height : 3 .. 11, span_length : {6}, bstress : {50800}, young : {49300}]

\* Narrow, wide and tall barriers: ratios from 0.3 past the end of the plate table,
\* and heights whose square an Int8 does not hold.
OddWalls ==
    [height : 2 .. 17, span_length : {2, 3}, bstress : {50800}, young : {49300}]
    \cup [height : {2, 16, 17}, span_length : {5}, bstress : {50800}, young : {49300}]

\* Up to the very flat ones that read the titles of the plate table: 20 times as
\* long as high just does not.
FlatWalls ==
    [height : {1}, span_length : {19, 20, 21, 30}, bstress : {50800}, young : {49300}]
    \cup [height : {2, 5}, span_length : {101}, bstress : {50800}, young : {49300}]

AllWalls == ShippedWalls \cup OddWalls \cup FlatWalls

\* wall_span/support_data.csv as the repository holds it for the plate of
\* barrier.bat (span 4) and barrier.sh (span 6, height 5): height, thickness and
\* web in millionths of a foot.
Recorded4 ==
    << [height |-> 3, thickness |-> 115116, web |-> 8855],
       [height |-> 4, thickness |-> 158996, web |-> 11357],
       [height |-> 5, thickness |-> 202013, web |-> 13468],
       [height |-> 6, thickness |-> 248816, web |-> 15551],
       [height |-> 7, thickness |-> 299486, web |-> 17617],
       [height |-> 8, thickness |-> 334401, web |-> 19671],
       [height |-> 9, thickness |-> 396413, web |-> 20864],
       [height |-> 10, thickness |-> 439849, web |-> 21992] >>
Recorded6 == << [height |-> 5, thickness |-> 192889, web |-> 14838] >>

\* Equal up to the rounding of the fixed-point formulas, one part in a thousand.
Near(a, b) == S * a \in (S - 1) * b .. (S + 1) * b

\* The supports the model designs are those the program recorded.
RecordedSupports ==
    supports_csv # <<>> =>
        \A line \in Range(IF wall.span_length = 4 THEN Recorded4
                          ELSE IF wall.span_length = 6 THEN Recorded6 ELSE <<>>) :
            line.height = supports_csv.height =>
                /\ Near(supports_csv.thickness, line.thickness)
                /\ Near(supports_csv.web, line.web)
=============================================================================
