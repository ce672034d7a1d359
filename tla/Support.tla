------------------------------- MODULE Support -------------------------------
(***************************************************************************)
(* barrier1.jl lines 81-86 with support.jl: the wall span is designed,     *)
(* then its support is deepened, one span thickness at a time, until its   *)
(* section modulus carries the bending moment; the result overwrites       *)
(* wall_span/supports.csv and is appended to wall_span/support_data.csv.   *)
(* Lengths are in 1e-6 ft and section moduli in 1e-10 ft3.                 *)
(***************************************************************************)
EXTENDS SupportSection, Sequences

CONSTANTS
    Walls,   \* the command lines: records [height, span_length, bstress, young]
    MaxCoef  \* bound on support.coef, which the program itself does not bound

WallType == [height : 1 .. 127, span_length : 1 .. 127, bstress : Nat \ {0}, young : Nat \ {0}]

ASSUME WallsAssumption == Walls \subseteq WallType
ASSUME MaxCoefAssumption == MaxCoef \in Nat /\ MaxCoef >= 3

VARIABLES
    pc,            \* which line of main or design_support runs next
    wall,          \* the arguments
    span_t,        \* barrier.span_t
    support,       \* the global Support object
    supports_csv,  \* the line of wall_span/supports.csv, or <<>>
    support_data   \* the lines this process appended to support_data.csv

vars == <<pc, wall, span_t, support, supports_csv, support_data>>

Init ==
    /\ pc = "design_wall"
    /\ wall \in Walls
    /\ span_t = 0
    /\ support = [height |-> 0, width |-> 0, coef |-> 3]
    /\ supports_csv = <<>>
    /\ support_data = <<>>

\* Very flat walls, more than 20 times as long as high: main compares inches.
Flat == {w \in Walls : ReadsTitles(12 * w.height, 12 * w.span_length)}

\* What the two designs are asked for, by the arguments alone.
Plate == [w \in Walls \ Flat |-> SpanThickness(w.height, w.span_length, w.bstress, w.young)]
Required == [w \in Walls |-> RequiredModulus(w)]

DesignWall ==
    /\ pc = "design_wall"
    /\ wall \notin Flat
    /\ span_t' = Plate[wall]
    /\ pc' = "design_support"
    /\ UNCHANGED <<wall, support, supports_csv, support_data>>

\* bending_stress raises before anything is assigned or written.
RaiseMethodError ==
    /\ pc = "design_wall"
    /\ wall \in Flat
    /\ pc' = "MethodError"
    /\ UNCHANGED <<wall, span_t, support, supports_csv, support_data>>

\* The first evaluation of the section modulus sets support.height.
DesignSupport ==
    /\ pc = "design_support"
    /\ support' = [support EXCEPT !.width = 6 * span_t, !.height = support.coef * span_t]
    /\ pc' = "deepen"
    /\ UNCHANGED <<wall, span_t, supports_csv, support_data>>

\* A slip: the coefficient of the iteration before.
TooWeakBefore(s) == sec_modulus(s.coef - 1, span_t) < Required[wall]

TooWeak(s) == sec_modulus(s.coef, span_t) < Required[wall]

\* ch_base and the re-evaluation.
Deepen ==
    /\ pc = "deepen"
    /\ TooWeak(support)
    /\ support.coef < MaxCoef
    /\ support' = [support EXCEPT !.coef = @ + 1, !.height = (support.coef + 1) * span_t]
    /\ UNCHANGED <<pc, wall, span_t, supports_csv, support_data>>

\* output_dimensioning writes the same line to two files, one after the other.
SupportLine == [height |-> wall.height, thickness |-> support.height,
                width |-> support.width, web |-> span_t]

WriteSupports ==
    /\ pc = "deepen"
    /\ ~TooWeak(support)
    /\ supports_csv' = SupportLine
    /\ pc' = "append"
    /\ UNCHANGED <<wall, span_t, support, support_data>>

\* A slip: the support itself for the line of the file.
AppendSupport ==
    /\ pc = "append"
    /\ support_data' = Append(support_data, support)
    /\ pc' = "done"
    /\ UNCHANGED <<wall, span_t, support, supports_csv>>

AppendSupportData ==
    /\ pc = "append"
    /\ support_data' = Append(support_data, SupportLine)
    /\ pc' = "done"
    /\ UNCHANGED <<wall, span_t, support, supports_csv>>

Done ==
    /\ pc \in {"done", "MethodError"}
    /\ UNCHANGED vars

Next == DesignWall \/ RaiseMethodError \/ DesignSupport \/ Deepen \/ WriteSupports \/ AppendSupportData \/ Done

\* One thread, never paused.
Spec == Init /\ [][Next]_vars /\ WF_vars(Next)

----------------------------------------------------------------------------
\* Every value keeps its type, in both files as well.
LineType == [height : 1 .. 127, thickness : Nat, width : Nat, web : Nat]

TypeOK ==
    /\ pc \in {"design_wall", "design_support", "deepen", "append", "done", "MethodError"}
    /\ wall \in WallType
    /\ span_t \in Nat
    /\ support \in [height : Nat, width : Nat, coef : 3 .. MaxCoef]
    /\ supports_csv \in LineType \cup {<<>>}
    /\ support_data \in Seq(LineType)

\* What the support must carry by the plain square of the height, where the code
\* takes the square twice in Int8.
TrueModulus(w) ==
    LET H    == w.height
        load == (2 * ((w.span_length * S * 64 * (H * H)) \div 4)) \div H
    IN  S * Quot(10 * ((load * (H * H)) \div 6), 144 * w.bstress)

\* The support on file carries the bending moment at its foot, and no shallower
\* one would have: the loop neither stops early nor overshoots, although
\* sec_modulus keeps the depth in the very object that ch_base changes.  Up to
\* 11 ft that moment is the real one, not one of a wrapped square.
LeastSection ==
    supports_csv # <<>> =>
        /\ supports_csv.thickness = support.coef * span_t
        /\ sec_modulus(support.coef, span_t) >= Required[wall]
        /\ \A n \in 3 .. support.coef - 1 : sec_modulus(n, span_t) < Required[wall]
        /\ wall.height <= 11 => sec_modulus(support.coef, span_t) >= TrueModulus(wall)

\* Every barrier at least a twentieth and less than 3.5 times as high as its spans
\* are long gets supports: the walls the search in wall.jl finds two columns for.
Slenderness == (S * wall.height) \div wall.span_length
BetweenColumns == 50 <= Slenderness /\ Slenderness < 3500

StandsWithinTable == (pc = "design_wall" /\ BetweenColumns) ~> (pc = "done")

\* The plate table goes from a height of 0.05 to one of 4 spans (wall_span/wall.csv:2),
\* so every barrier between these ratios gets a plate.
TableCovers ==
    pc # "design_wall"
        /\ Slenderness \in WallTable[1].ratio .. WallTable[Len(WallTable)].ratio
    => span_t > 0
=============================================================================
