------------------------------ MODULE Stability ------------------------------
(***************************************************************************)
(* main of barrier1.jl, lines 79-119: the footing starts half as wide as   *)
(* the barrier is high and is widened by four loops in turn - against      *)
(* sliding, overturning, eccentricity of the load and settlement - and is  *)
(* then written to barrier/barrier.csv.                                    *)
(*                                                                         *)
(* Each loop re-computes only part of the footing: sliding re-proportions  *)
(* it whole, overturning and eccentricity reset the length but not the     *)
(* thickness, settlement changes the width alone and keeps using the       *)
(* eccentricity k of the loop before it.  No loop goes back to an earlier  *)
(* check.  One action is one evaluation of a loop's body or of the code    *)
(* between two loops.                                                      *)
(***************************************************************************)
EXTENDS LeastFooting

CONSTANTS
    Jobs,      \* the command lines: records [constants, barrier], see JobType
    MaxCoeff   \* bound on coeff, which the program itself does not bound

JobType == [constants : ConstantsType, barrier : BarrierType]

ASSUME JobsAssumption == Jobs \subseteq JobType
ASSUME MaxCoeffAssumption == MaxCoeff \in Nat /\ MaxCoeff >= 50

VARIABLES
    pc,         \* which line of main runs next
    constants,  \* the global Constants object
    barrier,    \* the global Barrier object
    coeff,      \* base width as a fraction of the height, in hundredths
    k,          \* main's eccentricity
    csv,        \* the line of barrier/barrier.csv this run wrote, or NoFile
    passedAt    \* history: the coefficient at which each check last passed

vars == <<pc, constants, barrier, coeff, k, csv, passedAt>>

Checks == {"sliding", "overturning", "eccentricity", "settlement"}

NotYet == 0
NoFile == <<>>

Init ==
    /\ pc = "design"
    /\ \E job \in Jobs : constants = job.constants /\ barrier = Unfooted(job.barrier)
    /\ coeff = 50
    /\ k = 0
    /\ csv = NoFile
    /\ passedAt = [check \in Checks |-> NotYet]

Pass(check, next) ==
    /\ passedAt' = [passedAt EXCEPT ![check] = coeff]
    /\ pc' = next

\* Slips: the coefficient lowered, and the sum never assigned.
WidenDown(step) ==
    /\ coeff + step <= MaxCoeff
    /\ coeff' = coeff - step
    /\ UNCHANGED <<pc, constants, csv, passedAt>>

WidenUnassigned(step) ==
    /\ coeff + step <= MaxCoeff
    /\ UNCHANGED <<pc, constants, coeff, csv, passedAt>>

\* One pass through a loop's body, up to the re-evaluation of its check.
Widen(step) ==
    /\ coeff + step <= MaxCoeff
    /\ coeff' = coeff + step
    /\ UNCHANGED <<pc, constants, csv, passedAt>>

----------------------------------------------------------------------------
\* j = design(constants, barrier), before the first loop.
Design ==
    /\ pc = "design"
    /\ barrier' = Designed(barrier)
    /\ pc' = "sliding"
    /\ UNCHANGED <<constants, coeff, k, csv, passedAt>>

\* A slip: the increment of another loop.
WidenTwiceAgainstSliding ==
    /\ pc = "sliding"
    /\ SlidingFails(constants, barrier)
    /\ Widen(10)
    /\ barrier' = Designed(Widened(barrier, coeff'))
    /\ UNCHANGED k

WidenAgainstSliding ==
    /\ pc = "sliding"
    /\ SlidingFails(constants, barrier)
    /\ Widen(5)
    /\ barrier' = Designed(Widened(barrier, coeff'))
    /\ UNCHANGED k

\* A slip: the loop is left whatever the check says.
LeaveSliding ==
    /\ pc = "sliding"
    /\ Pass("sliding", "overturning")
    /\ barrier' = Relengthened(barrier)
    /\ UNCHANGED <<constants, coeff, k, csv>>

\* The loop ends and line 94 evaluates overturning for the first time.
FinishSliding ==
    /\ pc = "sliding"
    /\ ~SlidingFails(constants, barrier)
    /\ Pass("sliding", "overturning")
    /\ barrier' = Relengthened(barrier)
    /\ UNCHANGED <<constants, coeff, k, csv>>

\* A slip: the coefficient starts again from 0.5.
RestartAgainstOverturning ==
    /\ pc = "overturning"
    /\ OverturningFails(constants, barrier)
    /\ coeff' = 52
    /\ UNCHANGED <<pc, constants, csv, passedAt>>
    /\ barrier' = Relengthened(Widened(barrier, coeff'))
    /\ UNCHANGED k

WidenAgainstOverturning ==
    /\ pc = "overturning"
    /\ OverturningFails(constants, barrier)
    /\ Widen(2)
    /\ barrier' = Relengthened(Widened(barrier, coeff'))
    /\ UNCHANGED k

\* A slip: the loop is left whatever the check says.
LeaveOverturning ==
    /\ pc = "overturning"
    /\ Pass("overturning", "eccentricity")
    /\ k' = Ecentricity(constants, barrier)
    /\ barrier' = Relengthened(barrier)
    /\ UNCHANGED <<constants, coeff, csv>>

FinishOverturning ==
    /\ pc = "overturning"
    /\ ~OverturningFails(constants, barrier)
    /\ Pass("overturning", "eccentricity")
    /\ k' = Ecentricity(constants, barrier)
    /\ barrier' = Relengthened(barrier)
    /\ UNCHANGED <<constants, coeff, csv>>

WidenAgainstEccentricity ==
    /\ pc = "eccentricity"
    /\ OffMiddleThird(k, barrier)
    /\ Widen(10)
    /\ k' = Ecentricity(constants, Widened(barrier, coeff'))
    /\ barrier' = Relengthened(Widened(barrier, coeff'))

\* A slip: the loop is left whatever the check says.
LeaveEccentricity ==
    /\ pc = "eccentricity"
    /\ Pass("eccentricity", "settlement")
    /\ UNCHANGED <<constants, barrier, coeff, k, csv>>

FinishEccentricity ==
    /\ pc = "eccentricity"
    /\ ~OffMiddleThird(k, barrier)
    /\ Pass("eccentricity", "settlement")
    /\ UNCHANGED <<constants, barrier, coeff, k, csv>>

\* A slip: the new width is never given to the barrier.
WidenNothingAgainstSettlement ==
    /\ pc = "settlement"
    /\ OverPressed(constants, barrier, k)
    /\ Widen(5)
    /\ UNCHANGED <<barrier, k>>

WidenAgainstSettlement ==
    /\ pc = "settlement"
    /\ OverPressed(constants, barrier, k)
    /\ Widen(5)
    /\ barrier' = Widened(barrier, coeff')
    /\ UNCHANGED k

\* A slip: barrier.csv written after design_bolts, which calls overturning again.
FinishSettlementLate ==
    /\ pc = "settlement"
    /\ ~OverPressed(constants, barrier, k)
    /\ Pass("settlement", "written")
    /\ csv' = Relengthened(barrier)
    /\ UNCHANGED <<constants, barrier, coeff, k>>

\* The last loop ends and output_dimensions overwrites barrier.csv; design_bolts, whose
\* call of overturning resets the length once more, comes after it.
FinishSettlement ==
    /\ pc = "settlement"
    /\ ~OverPressed(constants, barrier, k)
    /\ Pass("settlement", "written")
    /\ csv' = barrier
    /\ UNCHANGED <<constants, barrier, coeff, k>>

Written ==
    /\ pc = "written"
    /\ UNCHANGED vars

Next ==
    \/ Design
    \/ WidenAgainstSliding \/ FinishSliding
    \/ WidenAgainstOverturning \/ FinishOverturning
    \/ WidenAgainstEccentricity \/ FinishEccentricity
    \/ WidenAgainstSettlement \/ FinishSettlement
    \/ Written

\* The program is one thread that is never paused: it takes its next step.
Spec == Init /\ [][Next]_vars /\ WF_vars(Next)

----------------------------------------------------------------------------
(***************************************************************************)
(* What the design is worth.                                               *)
(***************************************************************************)

\* Every value keeps its type; in particular no dimension becomes negative.
TypeOK ==
    /\ pc \in {"design", "written"} \cup Checks
    /\ constants \in ConstantsType
    /\ barrier \in BarrierType
    /\ coeff \in 50 .. MaxCoeff
    /\ k \in Int
    /\ csv \in BarrierType \cup {NoFile}
    /\ passedAt \in [Checks -> 0 .. MaxCoeff]

\* Which of the footing's dimensions follow its width, and which are left behind
\* by the loops: the thickness and the key stay at those of the width that passed
\* the sliding check (the resizing in overturning is commented out, design.jl:90),
\* and the length at that of the width that passed the eccentricity check (the
\* settlement loop assigns the width alone, barrier1.jl:111-116).
Proportions ==
    LET sized  == IF pc = "sliding" THEN coeff ELSE passedAt["sliding"]
        cut    == IF pc \in {"settlement", "written"} THEN passedAt["eccentricity"] ELSE coeff
    IN  /\ barrier.base_width = WidthAt(barrier, coeff)
        /\ pc # "design" =>
              /\ barrier.base_thickness = base_thick(WidthAt(barrier, sized))
              /\ barrier.key_depth = (6 * barrier.base_thickness) \div 5
              /\ barrier.base_length = base_len(WidthAt(barrier, cut))

\* The checks that have not passed yet, by the line of main.
Pending ==
    [design       |-> Checks,
     sliding      |-> Checks,
     overturning  |-> {"overturning", "eccentricity", "settlement"},
     eccentricity |-> {"eccentricity", "settlement"},
     settlement   |-> {"settlement"},
     written      |-> {}]

\* The checks pass in the order of main's loops, none at a width the footing has
\* not had; barrier.csv is written once, from the final footing.
History ==
    /\ pc = "design" => coeff = 50
    /\ \A check \in Pending[pc] : passedAt[check] = NotYet
    /\ \A check \in Checks \ Pending[pc] :
          /\ passedAt[check] \in 50 .. coeff
          /\ \A later \in Pending[check] \ Pending[pc] : passedAt[check] <= passedAt[later]
    /\ csv = IF pc = "written" THEN barrier ELSE NoFile

\* A check that passed at the present width still holds of the present footing:
\* what the later code does to the barrier without widening it cannot undo it.
UnwidenedChecksStand ==
    /\ passedAt["sliding"] = coeff => ~SlidingFails(constants, barrier)
    /\ passedAt["overturning"] = coeff =>
          ~OverturningFails(constants, barrier) /\ k = FreshEccentricity(constants, barrier)
    /\ passedAt["eccentricity"] = coeff => ~OffMiddleThird(k, barrier)
    /\ passedAt["settlement"] = coeff => ~OverPressed(constants, barrier, k)

\* A site in concrete heavier and soil no lighter than water, under a wall no thicker
\* than the footing is wide at first: nothing floats, no lever arm is negative.  Every
\* shipped command line is one; the program does not check its arguments for it.
Ordinary(c, b) ==
    /\ c.spec_base > spec_water
    /\ c.spec_soil >= spec_water
    /\ b.wall_t <= WidthAt(b, 50)

OrdinarySites == \A job \in Jobs : Ordinary(job.constants, job.barrier)

\* A wall no thicker than a foot and than a quarter of the footing's first width, as the
\* support design makes those of every shipped command line.
Thin(b) == b.wall_t <= S /\ 4 * b.wall_t <= WidthAt(b, 50)

ThinWalls == \A job \in Jobs : Thin(job.barrier)

\* A barrier three feet high at least: the design documentation begins at one metre.
High(b) == b.height >= 3

HighWalls == \A job \in Jobs : High(job.barrier)

\* The first two loops stop at the first width that passes: one step narrower,
\* the footing the loop had just left fails its check.
NoNeedlessWidening ==
    /\ passedAt["sliding"] > 50 =>
          SlidingFails(constants, Designed(Widened(barrier, passedAt["sliding"] - 5)))
    /\ passedAt["overturning"] > passedAt["sliding"] =>
          OverturningFails(constants, Relengthened(Widened(barrier, passedAt["overturning"] - 2)))

\* The loops compute the least widths, check after check and each in its own steps.
WritesLeastFooting ==
    csv # NoFile => csv = FootingOf(constants, Unfooted(barrier), coeff)

\* The loops never go back to an earlier check, yet what is written to
\* barrier.csv resists sliding and overturning by the factor 1.5 although the
\* thickness and, under a weak soil, the length did not follow the last widths.
SlidingResisted    == csv # NoFile => ~SlidingFails(constants, csv)
OverturningResisted == csv # NoFile => ~OverturningFails(constants, csv)

\* The load stays inside the middle third on the toe side, for the eccentricity
\* recomputed from what is written.
ToeSideEccentricity == csv # NoFile => ~Lifts(constants, csv)

\* Ecentricity mixes the resisting moment of the old length with the overturning
\* moment of the new one, and the settlement loop reuses its result: the k that
\* is used never understates the eccentricity of the footing it is used for.
StaleEccentricityIsSafe ==
    pc \in {"eccentricity", "settlement", "written"} =>
        FreshEccentricity(constants, barrier) <= k

\* The soil under either edge of the written footing carries no more than Sb: for
\* soils strong enough that the settlement loop is never entered.
BearingHolds == csv # NoFile => qmax(constants, csv) <= constants.Sb * S

\* The wall, the supports and the site are never touched, and the footing only
\* ever grows wider.
OnlyWidens ==
    [][ /\ barrier'.base_width >= barrier.base_width
        /\ Unfooted(barrier') = Unfooted(barrier)
        /\ constants' = constants ]_vars

\* The wider the footing, the closer the pressure computed by the settlement loop
\* comes to the weight of the water and the submerged base over one square foot.
PressureFloor(c, b) ==
    (c.spec_base - spec_water) * b.base_thickness + (2 * spec_water * b.height * S) \div 3

\* A soil that cannot carry that weight is never satisfied, as long as the load the loop
\* goes on using is the wall's thickness out of the middle of the base (nearer to it the
\* water the wall keeps off the base counts for more than the tilt): the loop widens on.
WeakSoilNeverSettles ==
    pc = "written" /\ barrier.wall_t <= k => constants.Sb * S > PressureFloor(constants, barrier)

\* A soil a quarter stronger than that ends the loop.
Carried == \E c \in {constants}, b \in {barrier} : 4 * c.Sb * S >= 5 * PressureFloor(c, b)

SettlesAboveFloor == (pc = "settlement" /\ Carried) ~> (pc = "written")

\* Every run of the program ends with a footing on file, unless the square of the
\* height is negative in Int8.
Pushed == pc = "design" /\ Sq(barrier.height) >= 0

Terminates == Pushed ~> (pc = "written")

\* The length on file is the documented share of the width on file (base_len,
\* formulas.jl:1-2).
LengthFollowsWidth == csv # NoFile => csv.base_length = base_len(csv.base_width)

\* The footing on file resists overturning by water of its real height, the square of
\* the height in feet taken in full, with the factor of safety 1.5 of main's check
\* (barrier1.jl:3, 14, 96).
TrueMov(b) ==
    LET push == (tst(b.span_length, b.wall_t) * spec_water * b.height * b.height) \div 4
    IN  Mov(b) + M_sta(push - Fst(b), b.height, b.base_thickness)

TrueLoadResisted ==
    csv # NoFile => ~BelowThreeHalves(Mres(constants, csv), TrueMov(csv))

\* A height whose square is negative in Int8 turns the water's push around: no
\* footing ever passes the sliding check, the first loop widens for ever.
NegativeLoadNeverSlides == Sq(barrier.height) < 0 => pc \in {"design", "sliding"}

\* The program follows the design documentation's flow chart: what it accepts
\* satisfies all criteria at once, although it checks them one after the other.
FC == INSTANCE FlowChart WITH footing <- barrier, accepted <- (pc = "written")

ImplementsFlowChart == FC!Spec
=============================================================================
