----------------------------- MODULE BoltDesign ------------------------------
(***************************************************************************)
(* bolts.jl: the anchor bolts.  design_bolts walks through five checks,    *)
(* each starting at the size the one before accepted and going on to the   *)
(* next larger size while it fails.  A check that M20 fails lengthens the  *)
(* flange and calls design_bolts, and so does, with a shorter flange, an   *)
(* edge distance below zero; those calls nest, and what the caller does    *)
(* with their result is part of the model.                                 *)
(***************************************************************************)
EXTENDS BoltFormulas, SequencesExt

CONSTANTS
    Anchors,  \* the designs main calls design_bolts with, see AnchorType
    MaxDepth  \* how many calls Julia's stack holds

AnchorType == [height : 1 .. 127, span_length : 1 .. 127, wall_t : Nat \ {0}, span_t : Nat,
               base_width : Nat, base_thickness : Nat, base_length : Nat, key_depth : Nat,
               flange_coeff : Int, cube_stren : Nat]

ASSUME AnchorsAssumption == Anchors \subseteq AnchorType
ASSUME MaxDepthAssumption == MaxDepth \in Nat

VARIABLES
    pc,            \* the check that runs next, or how the program goes on
    anchor,        \* Barrier, and flange_coeff and cube_stren as the command line gives them
    flange_coeff,  \* constants.flange_coeff, which the retries change
    n,             \* the size under check
    c1,            \* concrete_edge's argument: the edge distance
    ccres,         \* answer2[3]: the resistance of the cone
    calls,         \* the calls of design_bolts that wait for a nested one
    hole_params    \* the column of base.csv in bolts/hole_params.csv, or NoFile

vars == <<pc, anchor, flange_coeff, n, c1, ccres, calls, hole_params>>

NoFile == 0

Checks == {"tension", "cone", "shear", "edge", "pry"}

\* How main goes on, or does not.
Errors == {"BoundsError", "DomainError", "StackOverflowError"}
Ends == {"seal"} \cup Errors

dest == des_t(Mov(anchor), anchor.wall_t, flange_coeff)
fst == Shear(anchor)

\* The half flange is taken off the toe.
DistanceOf(a, flange) == toe(a.base_width, a.wall_t) - (flange * a.wall_t) \div 2
EdgeDistance == DistanceOf(anchor, flange_coeff)

\* design_bolts begins: overturning resets the length of the footing.
Init ==
    /\ pc = "tension"
    /\ \E a \in Anchors : anchor = Relengthened(a)
    /\ flange_coeff = anchor.flange_coeff
    /\ n = 2
    /\ c1 = 0
    /\ ccres = 0
    /\ calls = <<>>
    /\ hole_params = NoFile

\* A slip: the sum never assigned.
AgainUnassigned(coeff, distance) ==
    /\ calls' = Append(calls, [from |-> pc, n |-> n, c1 |-> distance, ccres |-> ccres])
    /\ pc' = IF Len(calls) < MaxDepth THEN "tension" ELSE "StackOverflowError"
    /\ n' = 2
    /\ UNCHANGED <<anchor, flange_coeff, c1, ccres, hole_params>>

\* A nested call of design_bolts with another flange; the frame keeps the locals
\* the caller goes on with.
Again(coeff, distance) ==
    /\ flange_coeff' = coeff
    /\ calls' = Append(calls, [from |-> pc, n |-> n, c1 |-> distance, ccres |-> ccres])
    /\ pc' = IF Len(calls) < MaxDepth THEN "tension" ELSE "StackOverflowError"
    /\ n' = 2
    /\ UNCHANGED <<anchor, c1, ccres, hole_params>>

----------------------------------------------------------------------------
Fails ==
    \/ pc = "tension" /\ TensionFails(n, dest)
    \/ pc = "cone"    /\ ConeFails(ConeResistance(anchor.cube_stren, n), dest)
    \/ pc = "shear"   /\ ShearFails(n, fst)
    \/ pc = "edge"    /\ EdgeFails(n, anchor.cube_stren, Converted(c1), fst)
    \/ pc = "pry"     /\ PryFails(n, ccres, fst)

\* concrete_edge takes the root of le/c1.
Raises == pc = "edge" /\ c1 < 0

After ==
    [tension |-> "cone", cone |-> "shear", shear |-> "distance", edge |-> "pry", pry |-> "write"]

\* Slips: each check starts at M8; M20 passes whatever the check says.
AcceptFromM8 ==
    /\ pc \in Checks /\ ~Raises /\ ~Fails
    /\ pc' = After[pc]
    /\ ccres' = IF pc = "cone" THEN ConeResistance(anchor.cube_stren, n) ELSE ccres
    /\ n' = IF pc \in {"tension", "cone"} THEN 2 ELSE n
    /\ UNCHANGED <<anchor, flange_coeff, c1, calls, hole_params>>

AcceptM20 ==
    /\ pc \in Checks /\ ~Raises /\ (Fails => n = 6)
    /\ pc' = After[pc]
    /\ ccres' = IF pc = "cone" THEN ConeResistance(anchor.cube_stren, n) ELSE ccres
    /\ UNCHANGED <<anchor, flange_coeff, n, c1, calls, hole_params>>

\* The check passes; the cone's resistance is kept for the pry-out check.
Accept ==
    /\ pc \in Checks /\ ~Raises /\ ~Fails
    /\ pc' = After[pc]
    /\ ccres' = IF pc = "cone" THEN ConeResistance(anchor.cube_stren, n) ELSE ccres
    /\ UNCHANGED <<anchor, flange_coeff, n, c1, calls, hole_params>>

\* Slips: no last size; every other size.
NextSizeForEver ==
    /\ pc \in Checks /\ ~Raises /\ Fails
    /\ n' = n + 1
    /\ c1' = IF pc = "edge" THEN Converted(c1) ELSE c1
    /\ UNCHANGED <<pc, anchor, flange_coeff, ccres, calls, hole_params>>

NextSizeButOne ==
    /\ pc \in Checks /\ ~Raises /\ Fails
    /\ n < 6
    /\ n' = IF n < 5 THEN n + 2 ELSE 6
    /\ c1' = IF pc = "edge" THEN Converted(c1) ELSE c1
    /\ UNCHANGED <<pc, anchor, flange_coeff, ccres, calls, hole_params>>

\* The check calls itself with the next size.  concrete_edge hands down the c1 it
\* has converted to millimetres, and converts it again.
NextSize ==
    /\ pc \in Checks /\ ~Raises /\ Fails
    /\ n < 6
    /\ n' = n + 1
    /\ c1' = IF pc = "edge" THEN Converted(c1) ELSE c1
    /\ UNCHANGED <<pc, anchor, flange_coeff, ccres, calls, hole_params>>

\* A slip: the sign.
LengthenFlangeDown ==
    /\ pc \in Checks /\ ~Raises /\ Fails
    /\ n = 6
    /\ Again(flange_coeff - 1, c1)

LengthenFlange ==
    /\ pc \in Checks /\ ~Raises /\ Fails
    /\ n = 6
    /\ Again(flange_coeff + 1, c1)

RootOfNegative ==
    /\ Raises
    /\ pc' = "DomainError"
    /\ UNCHANGED <<anchor, flange_coeff, n, c1, ccres, calls, hole_params>>

\* A slip: no look at the sign of the distance.
MeasureAnyEdge ==
    /\ pc = "distance"
    /\ c1' = EdgeDistance
    /\ pc' = "edge"
    /\ UNCHANGED <<anchor, flange_coeff, n, ccres, calls, hole_params>>

\* The edge distance; below zero, design_bolts calls itself and then goes on.
MeasureEdge ==
    /\ pc = "distance"
    /\ EdgeDistance >= 0
    /\ c1' = EdgeDistance
    /\ pc' = "edge"
    /\ UNCHANGED <<anchor, flange_coeff, n, ccres, calls, hole_params>>

ShortenFlange ==
    /\ pc = "distance"
    /\ EdgeDistance < 0
    /\ Again(flange_coeff - 1, EdgeDistance)

WriteBoltData ==
    /\ pc = "write"
    /\ hole_params' = n
    /\ pc' = "return"
    /\ UNCHANGED <<anchor, flange_coeff, n, c1, ccres, calls>>

\* A slip: every call returns to main.
ReturnToMainAlways ==
    /\ pc = "return"
    /\ pc' = "seal"
    /\ UNCHANGED <<anchor, flange_coeff, n, c1, ccres, calls, hole_params>>

\* return 0 ... to main,
ReturnToMain ==
    /\ pc = "return"
    /\ calls = <<>>
    /\ pc' = "seal"
    /\ UNCHANGED <<anchor, flange_coeff, n, c1, ccres, calls, hole_params>>

\* ... to a check, whose caller takes the second element of the 0,
ReturnToCheck ==
    /\ pc = "return"
    /\ calls # <<>> /\ Last(calls).from \in Checks
    /\ pc' = "BoundsError"
    /\ UNCHANGED <<anchor, flange_coeff, n, c1, ccres, calls, hole_params>>

\* A slip: the caller measures again, with the size it had.
ReturnToMeasure ==
    /\ pc = "return"
    /\ calls # <<>> /\ Last(calls).from = "distance"
    /\ n' = Last(calls).n
    /\ ccres' = Last(calls).ccres
    /\ calls' = Front(calls)
    /\ pc' = "distance"
    /\ UNCHANGED <<anchor, flange_coeff, c1, hole_params>>

\* ... or to the line after the distance, with the locals of then.
ReturnToDistance ==
    /\ pc = "return"
    /\ calls # <<>> /\ Last(calls).from = "distance"
    /\ n' = Last(calls).n
    /\ c1' = Last(calls).c1
    /\ ccres' = Last(calls).ccres
    /\ calls' = Front(calls)
    /\ pc' = "edge"
    /\ UNCHANGED <<anchor, flange_coeff, hole_params>>

End ==
    /\ pc \in Ends
    /\ UNCHANGED vars

Next ==
    \/ Accept \/ NextSize \/ LengthenFlange \/ RootOfNegative
    \/ MeasureEdge \/ ShortenFlange
    \/ WriteBoltData
    \/ ReturnToMain \/ ReturnToCheck \/ ReturnToDistance
    \/ End

Spec == Init /\ [][Next]_vars /\ WF_vars(Next)

----------------------------------------------------------------------------
(***************************************************************************)
(* What the bolts are worth.                                               *)
(***************************************************************************)

FrameType == [from : Checks \cup {"distance"}, n : Sizes, c1 : Int, ccres : Nat]

\* Every variable keeps its type; in particular the size never leaves the tables.
TypeOK ==
    /\ pc \in Checks \cup {"distance", "write", "return"} \cup Ends
    /\ anchor \in AnchorType
    /\ flange_coeff \in Int
    /\ n \in Sizes
    /\ c1 \in Int
    /\ ccres \in Nat
    /\ calls \in Seq(FrameType)
    /\ hole_params \in Sizes \cup {NoFile}

HoldsSteelAndCone(size) ==
    /\ ~TensionFails(size, dest)
    /\ ~ConeFails(ConeResistance(anchor.cube_stren, size), dest)
    /\ ~ShearFails(size, fst)
    /\ ~PryFails(size, ConeResistance(anchor.cube_stren, size), fst)

HoldsEdge(size) == ~EdgeFails(size, anchor.cube_stren, Converted(EdgeDistance), fst)

\* The size is handed from check to check and only the last one is written: it
\* still passes the earlier checks, for the flange the retries have ended with.
BoltOnFileHolds == hole_params # NoFile => HoldsSteelAndCone(hole_params)

\* The bolt on file is no larger than needed: one size smaller fails one of the
\* checks, although the retries start over from M8.
NoLargerThanNeeded ==
    hole_params > 2 => ~(HoldsSteelAndCone(hole_params - 1) /\ HoldsEdge(hole_params - 1))

\* However deep the calls are nested, hole_params.csv is written once, and nothing
\* changes the flange it was computed for afterwards.
WrittenOnce ==
    [][hole_params # NoFile => UNCHANGED <<hole_params, flange_coeff>>]_vars

\* A design that had to change the flange never gets as far as the seal: main goes
\* on only after a first call that had no need of a second.
RetriesNeverReachTheSeal == pc = "seal" => flange_coeff = anchor.flange_coeff

\* A BoundsError or DomainError ends the program only after hole_params.csv has
\* been written by a nested call: the failed run leaves a new file behind.
ErrorsFollowTheFile == pc \in {"BoundsError", "DomainError"} => hole_params # NoFile

EdgeFailed == \E i \in DOMAIN calls : calls[i].from = "edge"

\* The flanges that leave the bolts on the footing.
Flanges(a) == 0 .. (2 * toe(a.base_width, a.wall_t) + 1) \div a.wall_t

\* What the retries of the edge check rely on, and edge_res does not grant: at every
\* longer flange that leaves the bolts off the very edge M20 resists no more.  Within a
\* few thousandths of a foot of the edge the powers of concrete_edge outgrow c1^1.5.
EdgeWeakens(a) ==
    /\ a.flange_coeff \in Nat /\ a.wall_t <= a.base_width
    /\ \A k, l \in Flanges(a) : k < l /\ DistanceOf(a, l) >= 0 =>
          /\ DistanceOf(a, l) > 0
          /\ edge_res(6, a.cube_stren, Converted(DistanceOf(a, l)))
                <= edge_res(6, a.cube_stren, Converted(DistanceOf(a, k)))

\* A longer flange brings the bolts closer to the edge: once M20 has failed the
\* edge check, no bolt written for a longer flange resists edge failure either.
EdgeRetriesAreHopeless ==
    EdgeFailed /\ hole_params # NoFile => ~HoldsEdge(hole_params)

\* A longer flange takes nothing off the shear force: where M20 fails it, the
\* flange is lengthened until the stack is exhausted.
ShearRetriesAreHopeless ==
    ShearFails(6, fst) => pc \in {"tension", "cone", "shear", "StackOverflowError"}

\* Every design ends, and without exhausting the stack unless M20 fails the shear
\* check, which no flange changes, or the retries go in both directions: the flange is
\* too short for a check and one wall thickness more is too long for the edge.
BothDirections ==
    \E i, j \in DOMAIN calls : calls[i].from \in Checks /\ calls[j].from = "distance"

Over ==
    /\ pc \in Ends
    /\ pc = "StackOverflowError" => ShearFails(6, fst) \/ BothDirections

Ended == <>Over

\* "changing flange_length" (bolts.jl:31): a design that M20 fails goes on with the
\* bolt found for the longer flange.
LongerFlangeAnswers == pc # "BoundsError"

\* "Against edge failure" (bolts.jl:161): the bolt on file resists it, at the edge
\* distance in millimetres.
EdgeHolds == hole_params # NoFile => HoldsEdge(hole_params)
=============================================================================
