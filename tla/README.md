# Floodwall: a verification development

The program in this repository designs a demountable flood barrier: a plate
between two supports, a concrete footing with a key, anchor bolts and a seal.
`barrier1.jl` computes the dimensions and leaves them in CSV files; `barrier.py`
draws solids from those files in FreeCAD. The modules here specify that program in
TLA+, TLC checks them on the heights, spans and soils the program is used for, and
TLAPS proves the properties that hold for every one.

## The system

| part | source | state | operations | correct when |
|---|---|---|---|---|
| formulas | `formulas.jl` | none | forces, moments, pressures, thicknesses | - |
| stability checks | `design.jl` | the globals `barrier`, `constants` | `design`, `overturning`, `Ecentricity`, `soil_pressure`, `output_dimensions` | a check means the same of the footing it is computed for and of the one that is written |
| driver | `barrier1.jl` | `coeff`, `k`, the factors of safety | four loops, the writing of `barrier/barrier.csv`, the calls of the other parts | what is written passes all checks at once; the loops end |
| plate | `wall.jl`, `wall_span/wall.csv` | `wall`, `wconst` | `design_wall` | every ratio of the table gets a thickness |
| supports | `support.jl` | `support` | `design_support`, `output_dimensioning` | the shallowest section that carries the moment; the loop ends |
| bolts | `bolts.jl`, `bolts/*.csv` | `bolt`, `bconsts`, `constants.flange_coeff`, the call stack | `design_bolts` and five checks that call it back | a bolt that passes all five checks, or a clean refusal |
| seal | `seal.jl`, `seal/*.csv` | `seal` | `des_seal`, `des_bolts`, four files | the smallest screw that holds the seal against both loads |
| CAD export | `barrier.py` | `simulations/<height>` | reads four files, exports five STEP files | all solids of one design |
| scripts | `barrier.sh`, `barrier.bat` | the files of all runs | `julia`, then `freecadcmd`, whatever the first returned | - |
| earlier program | `barrier.jl` | types of its own, read from a terminal | two of the four loops, printed | - |

`src/julia` is the vendored language distribution; `j.jl`, `test.py` and `test.bat`
are scratch files nothing uses.

The parts are called in one thread, in the order plate, supports, footing, bolts,
seal, and interact through three things: the global objects, which every check may
also change; `constants.flange_coeff`, which the bolt checks change before they
call the whole bolt design again; and the files, each written at its own moment of
the run and read together by `barrier.py`. What is hard here is therefore not
concurrency but

* loops in sequence that change the same footing and never return to an earlier
  check, with values (`k`, `base_length`, `base_thickness`) left over from the
  loop before;
* loops without a bound: each needs a reason to end, and some have none;
* narrow integers: the height is an `Int8`, so its square wraps from 12 ft on;
* checks that recurse into the whole design and return something else than their
  caller expects;
* runs that stop between two files, and a script that goes on regardless.

PROJECT.json lists these hazards one by one, with the properties that watch them.

## The modules

| module | models | kind |
|---|---|---|
| `FloodFormulas` | `formulas.jl` | operators |
| `FloodDesign` | `design.jl` | operators |
| `Criteria` | the conditions of `main`'s loops, the two global objects | operators |
| `Stability` | `barrier1.jl` 79-119 | state machine |
| `FlowChart` | what the design procedure promises | abstract specification of `Stability` |
| `LeastFooting` | the four loops in closed form: check after check the least width that passes | reference definition for `Stability`, input of `MCBolts` |
| `MCStability` | command lines | constants for TLC |
| `StabilityProofs` | - | theorems about `Stability`, whatever its formulas compute |
| `FootingProofs` | - | theorems about `Stability` and its formulas: which checks widening does not undo |
| `Roots`, `WallSpan` | `sqrt`; `wall.jl` with its table | operators |
| `SupportSection` | the moduli of `support.jl` | operators |
| `Support` | `barrier1.jl` 81-86 and `support.jl` | state machine |
| `MCSupport` | command lines, recorded results | constants for TLC |
| `SupportProofs` | - | theorems about `Support` |
| `BoltFormulas` | `formulas.jl` 39-48, the tables of `bolts/`, the comparisons of `bolts.jl` | operators |
| `BoltDesign` | `bolts.jl` | state machine |
| `MCBolts` | the footings main has designed, flanges, concretes | constants for TLC |
| `BoltProofs` | - | theorems about `BoltDesign` |
| `SealDesign` | `seal.jl`, `formulas.jl` 63-65, the tables of `seal/` | state machine |
| `MCSeal` | seals and screws, recorded results | constants for TLC |
| `SealProofs` | - | theorems about `SealDesign` |
| `Pipeline` | `barrier.sh`, `barrier.bat`, `barrier.py` and the writes of all parts of `barrier1.jl` | state machine that composes the parts through the files |
| `MCPipeline` | scripts | constants for TLC |
| `PipelineProofs`, `PipelineSafetyProofs` | - | theorems about `Pipeline` |
| `FormulaProofs` | - | lemmas about the fixed-point operators and the square root, for all proofs |

### Numbers

Julia computes in `Float64`. TLC has 32-bit integers, so lengths, forces, moments
and pressures are fixed-point: thousandths of ft, lb, lb.ft and lb/ft2 in
`FloodFormulas`, millionths of a foot in `WallSpan` and `Support`, rounded down
after each product. What the code does in a narrower type keeps that type: the
height's square is taken modulo 2^8 (`Int8`, `Sq`), the earth pressure coefficient
has the 11 significant bits of a `Float16`. `Quot` is total, as float division is.
The rounding is finer than any step of a loop: for heights 3 to 11 ft and both
scripts the model goes through exactly the iterations of the program, and four
invariants hold the model to files the repository itself recorded:
`RecordedDesign` to `barrier/barrier.csv` (to the last thousandth of a foot),
`RecordedSupports` to `wall_span/support_data.csv` and `RecordedSeals` to
`seal/test_seal_data.csv` (to one part in a thousand) and
`seal/bolts/test_screw_data.csv`, `RecordedHoles` to `bolts/hole_params.csv`.

### Stability

The variables are main's own: `constants` and `barrier` are the two global
objects, `coeff` and `k` its locals, `pc` the loop it is in, `csv` the line of
`barrier/barrier.csv`. `passedAt` is a history variable, the coefficient at which
each check last passed. One action is one evaluation of a loop's body with the
re-evaluation of its check, or the code between two loops: a Julia function that
also changes the barrier is split into what it returns and the barrier it leaves
behind (`design` is `Designed` and `SlidingFails`, `overturning` is `Relengthened`
and `OverturningFails`), and the action applies both. The order inside
`Ecentricity` - resisting moment, then the call that resets the length, then the
rest - is kept. `coeff` counts hundredths; `MaxCoeff` is the one bound, a guard of
`Widen`, and only jobs whose loop never ends reach it.

`FlowChart` is the procedure the design documentation draws: re-dimension until
all criteria hold of the same footing, then accept. `Stability` implements it
under `footing <- barrier, accepted <- (pc = "written")`.

### Support

`wall` is the command line, `span_t` the plate, `support` the global object with
the coefficient of the loop; `supports_csv` and `support_data` are the two files
`output_dimensioning` writes, in two steps. `Plate` and `Required` are functions
of the command line because `design_wall` and the required modulus do not depend
on anything the loop changes. `MaxCoef` bounds `support.coef`.

The search of `wall.jl` counts the column of row titles as column 1, and `Column` and
`Searched` count as it does: the last ratio is never compared, and a wall flatter than the
first one (`ReadsTitles`) would interpolate between it and a title. Julia has no such
arithmetic: `RaiseMethodError`, for the walls in `Flat`. `TrueModulus` is the modulus
required with the square of the height taken in full.

### BoltDesign

`anchor` is the barrier main has designed with the command line's `flange_coeff`
and `cube_stren`; the variable `flange_coeff` is `constants.flange_coeff`, which the
retries change. The five check functions share their control - pass, try the next
size, or at M20 lengthen the flange and call `design_bolts` - so they share three
actions (`Accept`, `NextSize`, `LengthenFlange`) and differ in `Fails` and `After`.
`calls` is the call stack: a frame holds which line made the nested call and the
locals that line goes on with. What happens to the 0 a nested call returns is in the
three actions named `ReturnTo...`. The prologue of `design_bolts` (the call of
`overturning`, which resets the length) is in `Init`; it changes nothing in a nested
call, where the width is the same. `hole_params` is the column of `base.csv` that the
file holds. Forces are in newtons, the edge distance in thousandths of the unit
`concrete_edge` believes it has.

`^` is computed from logarithms in the table and a short series for `exp`, to about
one percent. Of the 126 shipped designs of the run `bolts`, 123 end with the same error or
none, the same flange and the same size as the same formulas in floating point; the
other three differ by one in the flange, where a comparison is decided by the rounding
of `wall_t`.

### SealDesign

`job` is the plate main has designed with the command line's filler and screw
strength. `des_bolts` is a walk: `n` is the column it is called with, `TooWeak` and
`TooThin` are its two recursive calls (one per comparison), `PastTable` is the access
of a column the table does not have, `Fits` the end. The argument `shear` is not kept
as a number: `factor` says by how much it exceeds the strength of the command line,
because the call of `TooThin` passes on a strength that `des_bolts` has already
converted (145.03773 times). Each of the four files is written by an action of its
own, in the order of the code. The tables are read with their title column, so the
first screw is column 2. Areas keep the units the code gives them: `Area2` is divided
by 144 although the area it is compared with is not.

### Pipeline

Nothing runs in parallel here, but several programs run over the same files, and each
leaves off where it fails. A design is known by the number of its run, in the order the
runs start; 0 is what was on disk before. A job of a script says how many of its eight
writes julia gets through (`reach`) and how it ends (`returns`, `raises`, `loops`): that
is what the other modules establish of a command line, and each job of `MCPipeline`
names the run that shows it. `disk` holds for each overwritten file whose design it is
and whether it has its line already (`open(..., "w")` empties it first: `OpenFile`,
`CloseFile`), `logs` which designs appended a line. `EndJulia` has no look at how
julia ended, as the scripts have none. `barrier.py` makes the folder of the height it
*reads* (`ReadBarrier`), then exports solid after solid (`BeginSolid`, `FinishSolid`);
`locals` is whose numbers it has in hand, `MadeFrom` which of them end in a solid. An
empty file has no row that would assign its variables: `EmptyFile`, a NameError.
`Kill` is a user who stops a program, with or without the script around it.
`barrier.py` opens `barrier.csv` under `/home/nsambataufeeq/usb` and everything else
relative to where it is started, as julia does. A job says whether julia writes there
(`home`): `barrier.sh` is taken to be started there, `barrier.bat`, on drive `F:` of a
Windows system, cannot be, and `NoBarrier`, an IOError before a folder is made, is all its
drawings come to. That `freecadcmd` comes back after an error of the script
it runs is FreeCAD's part and external.

### Slips

Some definitions are preceded by variants called slips: the same code with one
plausible mistake (an assignment left out, a share swapped, a loop that does not
look at its check). No specification uses them; PROJECT.json pairs each with the
property that fails when it takes the place of the original.

## What is checked

| run | instance | shows |
|---|---|---|
| `footing` | 18 shipped command lines (3-11 ft, both scripts), 160 other sites, 12 and 13 ft | type, proportions, minimal widths, the recorded design, only widening, the refinement of `FlowChart`; termination wherever the square of the height is not negative, and never where it is |
| `weak_soil` | soils from 200 to 1000 lb/ft2, 3-11 ft, both spans | the least footing in closed form, checks that still stand, sliding, overturning and the middle third of what is written, the stale eccentricity on the safe side, no end of the last loop on a soil below the pressure floor (while its load is a wall's thickness out of the middle), always one a quarter above it |
| `supports` | 59 walls, ratios 0.03 to 8.5 | the least section for the moment the code computes, up to 11 ft the real one; the recorded supports; supports for every wall from a twentieth to less than 3.5 spans high |
| `bolts` | 3-11 ft, both scripts, flanges of 3 to 19 wall thicknesses; concrete of 5 to 20 N/mm2; spans of 48 and 52 ft | type, the bolt on file holds and is the least, written once, never to the seal after a retry, errors come after the file, edge and shear failures that no longer flange repairs, termination, the recorded `hole_params.csv` |
| `seal` | 466 seals: both scripts up to 19 ft, all fillers, seals from 0.024 to nearly 4 inch wide, screws of 1 to 500 MPa | type, the least screw (a screw too thin for the shear at its own strength only after one refused for it), the mixed units without effect for screws of 100 MPa and more, the recorded screws and seals |
| `pipeline` | both scripts and six others whose designs fail at four places, hang or return; three runs of julia, one kill at any moment | files age in the order they are written, one design per drawing, only a kill leaves anything half done, no other folder touched, every design that gets to the bolts where `barrier.py` looks for it is drawn |

Six more runs expect a counterexample, each a disagreement between code and text:

* `weak_soil_bearing`: the settlement loop accepts a footing that presses the soil
  beyond the allowable bearing stress, because `k` is stale and only the toe side
  is compared;
* `tall_load`: at 16 ft and more the wrapped load lets through a footing that misses the
  factor of 1.5 against the water of that height. It does not fall over: the resisting
  moment is about 1.08 times the overturning one at 16 ft, up to 1.2 times at 19 ft;
* `plate_table`: a barrier 3.5 to 4 spans high gets a plate of no thickness,
  because the last column of the table is never read;
* `retry_answers`: a nested call finds and writes a bolt, and its caller raises a
  BoundsError on the 0 it returned;
* `edge_holds`: a distance converted to millimetres twice lets a bolt pass the edge
  check;
* `drawn_design`: `barrier.sh` as shipped ends in a DomainError after
  `hole_params.csv` and before the seal, and starts `barrier.py` all the same, which
  reads the screws of an earlier design (the repository's own files are such a mixture:
  `barrier/barrier.csv` is of 5 ft, `seal/_seal_data.csv` of 4 ft).

The error behind `drawn_design` is not harmful to the drawing today, because nothing
uses the screws `barrier.py` reads: `DrawsOneDesign` holds for that run.

**Bounds.** The heights are those the design documentation covers (1 m to just over
3 m, that is 3 to 11 ft) plus all for which `Int8` matters up to 19 ft; each run
is a single deterministic thread per command line, so a run covers its instance
completely and breadth comes from the set of command lines. `MaxCoeff` bounds the
width: in `weak_soil` (300) 48 designs end, the widest at 288, and the soils below or
just above the pressure floor stop at the bound, as the two endless jobs of `footing`
(200) do; those runs do not check deadlock, and no property of theirs depends on where the
bound lies. `MaxCoef` = 60 is above any coefficient a plate with a thickness asks for
(at most 27). `MaxDepth` (12) stands for a stack Julia exhausts
after many thousand calls: the shipped designs that end need at most 10 nested calls
(from a flange of 19 to one of 9), the others go back and forth between two flanges or
lengthen the flange for ever. `MaxRuns` = 3 and `MaxKills` = 1 in `pipeline`: every
mixture of files the properties are about is of two designs, with a third run to meet
what they left; `barrier.bat` alone is two runs of one script. An instance with two
kills and three scripts has been checked as well, and the theorems below have no bound.

**Fairness.** `WF_vars(Next)`: the program is one thread of straight code, and a
process that is not killed takes its next step. In `Pipeline` it is
`WF_vars(ProgramSteps)`: what is running goes on, but no user is bound to start a script
or to kill one, so a script that hangs may hang for ever (`DesignsAreDrawn` promises
nothing for the designs behind it).

## What is proved

`StabilityProofs` proves, for every set of command lines in `JobType` and every
bound, with no assumption on the soil, the material or the height:

* `TypeCorrect`: `Spec => []TypeOK`. The work is in the arithmetic: that rounded
  products and quotients stay integers, and that no dimension becomes negative.
* `ProportionsCorrect`: `Spec => []Proportions`, which dimensions follow the width
  and at which earlier width the others were left. `Proportions` needs `TypeOK`.
* `WideningOnly`: `Spec => OnlyWidens`, from the two above: the width is
  `WidthAt(barrier, coeff)`, `coeff` never falls, and no step touches the site.
* `ChecksStand`: `Spec => []UnwidenedChecksStand`. The code after a check changes
  the barrier (`overturning` resets the length, `Ecentricity` does so again). The
  inductive invariant `IInv` is types, proportions, the history of the checks and
  the property itself: `Proportions` says that each of those assignments rewrites a
  value the barrier already has, `History` that a check that passed at the present
  width did so after the last widening.
* `NeverOverdesigned`: `Spec => []NoNeedlessWidening`, strengthened with the same
  fact for the loop that is running (`StepNeeded`).
* `LoopsInClosedForm`: `Spec => []WritesLeastFooting`. What the four loops leave on
  file is what `LeastFooting` defines without a loop, a `CHOOSE` of the least width in
  each check's own steps. The invariant says of the loop that is running that every
  earlier width of it has failed.
* `OverturningLastSound`: if no loop after the overturning check widened the
  footing, all criteria hold of what is written, with its own eccentricity and
  length.

`FootingProofs` proves what depends on the formulas: that the checks `main` never
returns to still hold of what it writes. That is false for some sites, so these
theorems name the sites they are about:

* `OrdinarySites`: the concrete is heavier and the soil no lighter than water, and the
  wall is no thicker than the footing is wide at first (half the height);
* `ThinWalls`, for the moments of the overturning check: the wall is no thicker than a
  foot and than a quarter of that width;
* `HighWalls`, for the load's place under the base: the barrier is three feet high or
  more (the design documentation begins at one metre).

The program does not check its arguments for any of them, but every job of the runs
satisfies all three (TLC evaluates `ShippedSites` in every run of `MCStability`). Nothing
is assumed of the soil's strength or the material. The invariant is `OInv`:
`IInv`, the hypotheses carried along, and that a footing which has passed the sliding
check stands (`SlidingStands`).

* `SlidingNeverUndone`: `Spec => []SlidingResisted`. The weight, and with it the
  friction, grows with width and length, rounding included (`DivGrows`, `MulExact`);
  the push does not depend on either.
* `NegativeLoadNeverEnds`: `Spec => []NegativeLoadNeverSlides`. A negative square makes
  the push at least 16 lb the other way, which no rounding of the resistance reaches.
* `OverturningNeverUndone`: `Spec => []OverturningResisted`. Here widening is no obvious
  gain: the uplift under the longer base and its lever arm grow too, while the base
  keeps the thickness of the first loop. The proof compares the volumes of water,
  concrete and lift at both widths (`VolumesOutgain`), once for a step of the
  eccentricity loop, which lengthens the base with it, and once for a step of the
  settlement loop, which does not; turns them into moments (`UnitTurns`) and weighs them
  (`LiftsOutgained`): what the resisting moment gains is one and a half times what the
  overturning moment gains, with enough to spare for all roundings.
* `MixedMomentsAreSafe`: `StaleEccentricityIsSafe` as long as the settlement loop has
  widened nothing (`Unsunk`): the moments `Ecentricity` mixes are of two lengths, and the
  longer base resists more than the longer lift overturns.
* `StaleEccentricityStaysSafe`: the same for every width of the settlement loop, wherever
  the load is on the toe's side (`ToeLoaded`), and `ToeNeverLifts`:
  `Spec => []ToeSideEccentricity`, both for every soil. The loop never computes an
  eccentricity again, so the proof has to show that widening carries the load no further
  out (`WiderStaysCentred`): with `V`, `W` the widths and `F`, `f` the vertical forces
  after and before, `V*F - W*f` is at most twice what the moments gain
  (`CentreGained`), the roundings of eight products, four arms and a quotient included.
  The invariant `CentreStands` adds that what the last two loops compared with `k` still
  holds of the footing.
* `BearingHoldsToeLoaded`: a footing on file that is `ToeLoaded` presses the soil nowhere
  harder than it bears. The run `weak_soil_bearing` shows what happens on the heel's side.
* `FirmSoilNeverSinks`: on a soil that bears twice `PressureFloor` and a pound per square
  foot (`Firm`), the settlement loop widens nothing.
* `TrueLoadUpToEleven`: up to 11 ft the `Int8` square is the square, so the footing on
  file resists the overturning moment of the real load by 1.5; `tall_load` shows a taller
  one that does not.
* `FloorNeverReached`: `Spec => []WeakSoilNeverSettles` while the footing is at most a
  thousand wall thicknesses wide. `PressureFloor` is what water and slab weigh over one
  square foot. The mean pressure falls short of it by the water the wall keeps off the
  base (`MeanFromBelow`), the pressure at the toe exceeds the mean by the tilt of the load
  (`TiltFromBelow`), and once the load is the thickness of the wall out of the middle
  (`wall_t <= k`) the tilt outweighs the water, all roundings counted
  (`PressesAboveFloor`); beyond a thousand thicknesses the roundings could outgrow the
  margin. The condition on `k` is part of the property because the property is false
  without it: on a site 6 ft high with a friction of 0.15, a `Kp` of 1 and concrete of
  100 lb/ft3 the load ends 0.024 ft out of the middle, a tenth of a wall of 0.248 ft, and
  soils of 331 to 333 lb/ft2 are accepted below the floor. In each of the 48 designs of
  `weak_soil` that end, `k` is far more than the wall's thickness.
* `FollowsFlowChart`: the refinement `ImplementsFlowChart` in every run that ends, if at
  all, `ToeLoaded` (`[]Favourable`). Each step but the last is a `Redimension`; the last
  is `Accept` by the theorems above, since all five of the chart's criteria hold of the
  same footing. Of the 178 documented designs of the run `footing` all but one end
  `ToeLoaded`, of the 48 of `weak_soil` that end, 28.

`BoltProofs` proves, for every `AnchorType` and every `MaxDepth`:

* `BoltTypeCorrect`: `Spec => []TypeOK`.
* `NoRetryReturns`, `FileBeforeError`, `OneBolt`: the three properties of the retries.
  They follow from one inductive invariant, `BoltInv`: a file exists exactly when the
  calls are being unwound (`Unwinding`: the program returns, has ended, or stands before
  the root of a negative distance, because every frame of a shortened flange remembers
  one), and a call that is not nested has the flange of the command line until there is
  a file (`FirstFlange`).
* `ShearHopeless`: the shear force does not depend on the flange and M20 is the
  strongest column, so no call gets past a check M20 fails.
* `OnFileHolds`: `Spec => []BoltOnFileHolds`. The checks accept different sizes and only
  the last is written, so the invariant (`FileInv`) adds to `BoltInv` what the checks
  already behind the program say of the size now under check (`Held`). It is kept
  because resistances grow with the size, which is the substance of the proof: of the
  cone it needs that the counted square root is monotone (`IsqrtGrows` in
  `FormulaProofs`), and that the resistance `ccres` kept from the cone's check is at
  most that of the size written.
* `SmallestBolt`: `Spec => []NoLargerThanNeeded`, without any hypothesis. The invariant
  adds to `FileInv` where the walk through the sizes came from (`Walk`): up to the edge
  check, every size left behind fails an earlier check for the flange in force; in the
  edge check, the size it started with is the first that passes those, and the distance
  has been converted once for each size since (`EdgeWalk`). The step that needs work is a
  size left because of a distance converted too often: it would have failed at the real
  distance too (`ConvertedHolds`, in four stretches of the distance, because the
  exponents of `concrete_edge` depend on it).
* `EdgeHopeless`: `Spec => []EdgeRetriesAreHopeless` if every anchor satisfies
  `EdgeWeakens`: at a longer flange, which brings the bolts closer to the edge, M20
  resists no more. That is what the retries take for granted and the code does not
  ensure: within a few thousandths of a foot of the edge the powers of `concrete_edge`
  outgrow `c1^1.5`, and at distance 0 they are NaN. TLC evaluates the hypothesis for
  every anchor of the run (`ShippedEdgesWeaken`).
* `EdgeHoldsUnlessWalked` and `ReconversionFlatters` delimit the finding of `edge_holds`.
  A bolt on file resists edge failure unless the size the check starts with does not, so
  the second conversion is the only way to one that breaks out; and the second conversion
  always makes the edge look stronger, never weaker.

`SupportProofs` proves, for every wall and bound, `SupportTypeCorrect` and
`SupportLeastSection`: `Spec => []LeastSection`, from the invariant `Deepened` (every
coefficient below the present one has failed, and the object's depth is the one
`ch_base` left), and because an `Int8` holds the squares up to 11 ft (`SquareHeld`). Two
more theorems give the extent of the finding of `plate_table`:

* `TableReaches`: the plate gets a thickness exactly if the wall is at least a twentieth
  of its span and less than 3.5 spans high (`BetweenColumns`), and exactly the flatter
  ones end in the MethodError. One direction is the search, which never compares the
  table's last ratio and compares the flat ones with a title; for the other the formulas
  must not round a thickness down to nothing, which they do not for a material that yields
  below 10^8 lb/in2 (`Strongest`; the shipped plates yield at tens of thousands).
* `OutsideTableNeverSupported`: a wall outside these ratios never gets a line in either
  file of the supports, whatever the bound.

`SealProofs` proves, for every seal and every strength of the screws, `SealTypeCorrect`
and `SealLeastScrew`: `Spec => []LeastScrew`. The invariant `Walked` says that every
column behind the walk fails one of the two checks at the strength of the command line;
the step that needs work is `TooThin`, whose strength may be multiplied already: a screw
too thin for the larger strength is too thin for the smaller one. The converse is false,
and `LeastScrew` says how far: the screw on file passes the shear check at the strength of
the command line unless a smaller one that seats was refused by it (`RefusedBefore`), as
no call but `TooThin` hands on a strength converted already. Such screws exist, of 1 or
2 MPa under a thin, long seal.

It also proves when the mixed units of `des_bolts` do no harm. `SealSeatsAlone`: no screw
of the table is too thin for its share at 100 MPa and more, because the squared height in
Int8 is at most eleven times the height; so the strength is converted once and the screw
on file is the first that seats. `ShearCarriedAnyway`: `Spec => []ShearCarried` for seals
that are broad for their span (`BroadSeals`, which TLC evaluates for every seal of the
run): the screw that seats is then thick enough for the shear as well, in the right unit.

`PipelineProofs` and `PipelineSafetyProofs` prove, for all scripts and any number of runs
and kills, `PipelineTypeCorrect` and

* `FilesAge`: `Spec => []FilesAgeInOrder`;
* `OneDesignDrawn`: `Spec => []DrawsOneDesign`;
* `NothingLeftHalf`: `Spec => []OnlyKillsLeaveHalves`;
* `FoldersApart`: `Spec => OtherFoldersUntouched`,

from one inductive invariant (`PipelineInvariant`): what julia has behind it is its own
and whole (`JuliaInv`), any two files age in the order of their writing (`AgeInv`), what
`barrier.py` has read and drawn is of the run at hand as far as that run got
(`DrawnInv`), a file that is not whole is in progress or of a killed run (`HalfInv`, which
needs that the run at hand is not killed while julia writes), and a folder lacks only the
solids the drawing has still to come to (`MadeInv`; `WholeInv` for all folders, without a
kill).

The constants' assumptions are those named in the modules (`JobsAssumption`,
`AnchorsAssumption`, `WallsAssumption`, `SealsAssumption`, `ScriptsAssumption`, the
bounds); they say no more than that the arguments have the types the program parses.
`OrdinarySites`, `ThinWalls` and `HighWalls` are no such assumptions but hypotheses of the
theorems that need them.

Only model-checked:

* `WeakSoilNeverSettles` for a footing wider than a thousand thicknesses of its wall, or
  a site outside the three hypotheses;
* `StaleEccentricityIsSafe` for a load on the heel's side of a footing the settlement loop
  has widened: nothing keeps such a load from coming nearer to the middle than `k` has it;
* the refinement of `FlowChart` in a run that is not `Favourable`;
* `EdgeRetriesAreHopeless` for anchors that do not satisfy `EdgeWeakens`;
* the comparisons with recorded files (`RecordedDesign`, `RecordedSupports`,
  `RecordedHoles`, `RecordedSeals`), each about one command line and its numbers;
* all liveness (`Terminates`, `SettlesAboveFloor`, `StandsWithinTable`, `Ended`,
  `DesignsAreDrawn`), which TLAPS does not prove.

## What is not modelled

* The earlier program `barrier.jl`: superseded, with types and formulas of its own; it
  only prints, and no script runs it.
* `main`'s errors on missing or malformed arguments, and `seal_selection` 1 and 7, which
  name no filler of the table.
* What is only printed: messages, the areas of `reinforcement`, pull-out resistance.
* FreeCAD's geometry, the vendored Julia, the scratch scripts.
* A second copy of the directory at the path `barrier.py` opens `barrier.csv` by: it would
  draw that copy's footing with the other files of this one.
* An edge distance of exactly zero: `EdgeFails` has the case (NaN passes), but no design
  of the runs comes to it.

What could follow: a composition in which the jobs of `Pipeline` are computed by the other
modules instead of named after their runs.
