------------------------------ MODULE SealDesign ------------------------------
(***************************************************************************)
(* seal.jl: the load that seats the seal and the load the water adds, the  *)
(* walk through the screws of seal/bolts/bolts.csv until one carries the   *)
(* larger load and its share of the shear, and the four files written      *)
(* then.  Widths are in 1e-6 inch, loads in thousandths of lb, areas in    *)
(* 1e-6 in2, span_t in 1e-6 ft as WallSpan computes it.                    *)
(***************************************************************************)
EXTENDS FloodFormulas, Roots, Sequences

CONSTANT Seals  \* what main has designed and the command line asks for

SealType == [height : 1 .. 127, span_length : 1 .. 127, span_t : Nat,
             seal_select : 2 .. 6, mat_shear : Nat \ {0}]

ASSUME SealsAssumption == Seals \subseteq SealType

VARIABLES
    pc,               \* which line of des_seal or des_bolts runs next
    job,              \* barrier, constants.seal_select and constants.mat_shear
    n,                \* the column of bolts.csv des_bolts is called with
    factor,           \* by how much the argument shear exceeds mat_shear in lb/in2
    screw_data,       \* the column that seal/bolts/screw_data.csv holds, or NoFile
    test_screw_data,  \* the columns this process appended to test_screw_data.csv
    seal_data,        \* the line of seal/_seal_data.csv, or <<>>
    test_seal_data    \* the lines this process appended to test_seal_data.csv

vars == <<pc, job, n, factor, screw_data, test_screw_data, seal_data, test_seal_data>>

NoFile == 0

----------------------------------------------------------------------------
\* seal/bolts/bolts.csv: the stress areas of M5 to M27, in tenths of mm2.  Column 1
\* holds the row titles, so M5 is column 2.
StressArea ==
    <<0, 142, 201, 289, 366, 580, 843, 1150, 1570, 1920, 2450, 3030, 3530, 4590>>

Screws == 2 .. 14

\* seal/seal_data.csv: the seating pressure of the five fillers, again from column 2.
SeatingPressure == <<0, 1885, 2320, 2320, 1595, 1595>>

width(j) == 24 * j.span_t
len(j) == 12 * j.height

\* A slip: the root not halved.
EffectiveRoot(w) == IF w < 250000 THEN w ELSE 100 * Isqrt(100 * w)

\* b: the width itself below 1/4 inch, half its root from there on.
Effective(w) == IF w < 250000 THEN w ELSE 50 * Isqrt(100 * w)

\* 2*b*len*m*P with m = 1.4 and P = 64*height/144.
Wm1(j) == Mul(Effective(width(j)), (224 * j.height * j.height) \div 15)

Wm2(j) == Mul(Effective(width(j)), 12 * SeatingPressure[j.seal_select])

\* A slip: the smaller of the two.
LoadLesser(j) == IF Wm1(j) < Wm2(j) THEN Wm1(j) ELSE Wm2(j)

\* The load des_seal asks des_bolts to carry.
Load(j) == IF Wm1(j) < Wm2(j) THEN Wm2(j) ELSE Wm1(j)

\* Area1 and the load it carries at nine tenths of 225 MPa.
Area1(col) == 155 * StressArea[col]
Fi(col) == (45524 * StressArea[col]) \div 10

NotSeated(j, col) == Fi(col) < Load(j)

fst(j) == F_sta(64, j.height, j.span_length * S)

\* Area2: the share of one of 2*height screws, over 144, at the strength of des_bolts,
\* which is k times that of the screw.
Area2(j, k) == (Quot(fst(j), 4177 * j.height * j.mat_shear) \div 10) \div k

Sheared(j, col, k) == Area1(col) < Area2(j, k)

----------------------------------------------------------------------------
\* des_seal calls des_bolts with the first screw of the table.
Init ==
    /\ pc = "fit"
    /\ job \in Seals
    /\ n = 2
    /\ factor = 1
    /\ screw_data = NoFile
    /\ test_screw_data = <<>>
    /\ seal_data = <<>>
    /\ test_seal_data = <<>>

\* A slip: every second screw tried.
TooWeakByTwo ==
    /\ pc = "fit" /\ n \in Screws
    /\ NotSeated(job, n)
    /\ n' = n + 2
    /\ UNCHANGED <<pc, job, factor, screw_data, test_screw_data, seal_data, test_seal_data>>

\* A slip: the strength converted before the seat is checked.
TooWeakConverted ==
    /\ pc = "fit" /\ n \in Screws
    /\ NotSeated(job, n)
    /\ n' = n + 1
    /\ factor' = 145 * factor
    /\ UNCHANGED <<pc, job, screw_data, test_screw_data, seal_data, test_seal_data>>

\* The screw does not seat the seal: des_bolts calls itself with the next.
TooWeak ==
    /\ pc = "fit" /\ n \in Screws
    /\ NotSeated(job, n)
    /\ n' = n + 1
    /\ UNCHANGED <<pc, job, factor, screw_data, test_screw_data, seal_data, test_seal_data>>

\* It does not carry the shear: the same, but the call passes on the strength that
\* has just been multiplied by 145.03773.
TooThin ==
    /\ pc = "fit" /\ n \in Screws
    /\ ~NotSeated(job, n)
    /\ Sheared(job, n, factor)
    /\ n' = n + 1
    /\ factor' = 145 * factor
    /\ UNCHANGED <<pc, job, screw_data, test_screw_data, seal_data, test_seal_data>>

\* There is no test for the end of the table: cols[15] raises.
PastTable ==
    /\ pc = "fit" /\ n \notin Screws
    /\ pc' = "BoundsError"
    /\ UNCHANGED <<job, n, factor, screw_data, test_screw_data, seal_data, test_seal_data>>

\* A slip: the column after the one that was accepted.
FitsNext ==
    /\ pc = "fit" /\ n \in Screws
    /\ ~NotSeated(job, n)
    /\ ~Sheared(job, n, factor)
    /\ n' = IF n < 14 THEN n + 1 ELSE n
    /\ pc' = "screw_data"
    /\ UNCHANGED <<job, factor, screw_data, test_screw_data, seal_data, test_seal_data>>

Fits ==
    /\ pc = "fit" /\ n \in Screws
    /\ ~NotSeated(job, n)
    /\ ~Sheared(job, n, factor)
    /\ pc' = "screw_data"
    /\ UNCHANGED <<job, n, factor, screw_data, test_screw_data, seal_data, test_seal_data>>

\* output_screw_dimensions overwrites one file and appends to another, ...
WriteScrew ==
    /\ pc = "screw_data"
    /\ screw_data' = n
    /\ pc' = "test_screw_data"
    /\ UNCHANGED <<job, n, factor, test_screw_data, seal_data, test_seal_data>>

AppendScrew ==
    /\ pc = "test_screw_data"
    /\ test_screw_data' = Append(test_screw_data, n)
    /\ pc' = "_seal_data"
    /\ UNCHANGED <<job, n, factor, screw_data, seal_data, test_seal_data>>

\* ... des_seal does the same with the seal.
SealLine == [len |-> len(job), width |-> width(job)]

WriteSeal ==
    /\ pc = "_seal_data"
    /\ seal_data' = SealLine
    /\ pc' = "test_seal_data"
    /\ UNCHANGED <<job, n, factor, screw_data, test_screw_data, test_seal_data>>

AppendSeal ==
    /\ pc = "test_seal_data"
    /\ test_seal_data' = Append(test_seal_data, SealLine)
    /\ pc' = "done"
    /\ UNCHANGED <<job, n, factor, screw_data, test_screw_data, seal_data>>

End ==
    /\ pc \in {"done", "BoundsError"}
    /\ UNCHANGED vars

Next ==
    \/ TooWeak \/ TooThin \/ PastTable \/ Fits
    \/ WriteScrew \/ AppendScrew \/ WriteSeal \/ AppendSeal
    \/ End

Spec == Init /\ [][Next]_vars /\ WF_vars(Next)

----------------------------------------------------------------------------
\* Every value keeps its type; the column is one past the table at most.
SealLineType == [len : Nat, width : Nat]

TypeOK ==
    /\ pc \in {"fit", "screw_data", "test_screw_data", "_seal_data", "test_seal_data",
               "done", "BoundsError"}
    /\ job \in SealType
    /\ n \in 2 .. 15
    /\ factor \in Nat \ {0}
    /\ screw_data \in Screws \cup {NoFile}
    /\ test_screw_data \in Seq(Screws)
    /\ seal_data \in SealLineType \cup {<<>>}
    /\ test_seal_data \in Seq(SealLineType)

Seats(col) == Wm1(job) <= Fi(col) /\ Wm2(job) <= Fi(col)

\* A smaller screw than col seats the seal and is refused for the shear.
RefusedBefore(col) == \E c \in 2 .. col - 1 : Seats(c) /\ Sheared(job, c, 1)

\* The screw on file holds the seal against both loads, and every smaller screw of
\* the table fails one of the two checks: although the walk reads the table with the
\* titles in it, it neither skips a screw nor stops before the last.  It passes the
\* check of the shear at its own strength too, unless a smaller one was refused by
\* that check: only such a call hands on a strength converted already (seal.jl:24).
LeastScrew ==
    /\ screw_data # NoFile =>
        /\ Seats(screw_data)
        /\ \A col \in 2 .. screw_data - 1 : ~Seats(col) \/ Sheared(job, col, 1)
        /\ Sheared(job, screw_data, 1) => RefusedBefore(screw_data)
    /\ pc = "BoundsError" =>
        \A col \in Screws : ~Seats(col) \/ Sheared(job, col, 1)

\* A seal broad enough for its span and its screws, as those of the plates main designs
\* are: a hundredth of an inch of effective width for each foot of span, with screws of
\* 100 MPa, and less with stronger ones.
Broad(j) == Effective(width(j)) * j.mat_shear >= 1000000 * j.span_length

BroadSeals == \A j \in Seals : j.mat_shear >= 100 => Broad(j)

\* Area2 is in square feet and Area1 in square inches, and a failed shear check hands
\* on a strength converted twice.  With screws of at least 100 MPa neither matters:
\* the check never fails, and the screw that seats the seal carries the shear in
\* square inches as well.
ShearCarried ==
    job.mat_shear >= 100 /\ screw_data # NoFile =>
        /\ factor = 1
        /\ 144 * Area2(job, 1) <= Area1(screw_data)

=============================================================================
