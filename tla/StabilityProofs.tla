---------------------------- MODULE StabilityProofs ----------------------------
(***************************************************************************)
(* Proofs about Stability, for every set of command lines and every bound. *)
(* The formulas enter only through the facts that they return integers and *)
(* that the proportions of a footing are natural numbers.                  *)
(***************************************************************************)
EXTENDS Stability, FormulaProofs

----------------------------------------------------------------------------
\* The formulas return integers.

LEMMA Float16Int == ASSUME NEW x \in Int PROVE Float16(x) \in Int
BY DEF Float16, S

\* Passive earth pressure over a length, the term of every soil resistance.
LEMMA PressureInt ==
    ASSUME NEW c \in ConstantsType
    PROVE  Pressure(c.Kp, c.spec_soil, spec_water) \in Int
<1>1. c.Kp \in Int /\ c.spec_soil \in Int /\ spec_water \in Int
  BY DEF ConstantsType, spec_water
<1>2. Float16(c.Kp * (c.spec_soil - spec_water)) \in Int
  BY <1>1, Float16Int
<1>. QED BY <1>1, <1>2, Float16Int DEF Pressure, S

LEMMA FpInt ==
    ASSUME NEW c \in ConstantsType, NEW t \in Int, NEW len \in Int
    PROVE  Fp(c.Kp, c.spec_soil, spec_water, t, len) \in Int
<1>. DEFINE G == Pressure(c.Kp, c.spec_soil, spec_water)
<1>1. G \in Int /\ Mul(t, t) \in Int
  BY PressureInt, MulInt
<1>2. Mul(G, Mul(t, t)) \in Int
  BY <1>1, MulInt
<1>3. Mul(Mul(G, Mul(t, t)), len) \in Int
  BY <1>2, MulInt
<1>. QED BY <1>3 DEF Fp

LEMMA FwallInt ==
    ASSUME NEW c \in ConstantsType, NEW t \in Int, NEW span \in Int, NEW len \in Int
    PROVE  Fwall(c.Kp, c.spec_soil, spec_water, t, span, len) \in Int
<1>. DEFINE G == Pressure(c.Kp, c.spec_soil, spec_water)
<1>1. G \in Int /\ Mul(t, t) \in Int
  BY PressureInt, MulInt
<1>2. Mul(G, Mul(t, t)) \in Int /\ span * S - len \in Int
  BY <1>1, MulInt DEF S
<1>3. Mul(Mul(G, Mul(t, t)), span * S - len) \in Int
  BY <1>2, MulInt
<1>. QED BY <1>3 DEF Fwall

LEMMA FstInt == ASSUME NEW b \in BarrierType PROVE Fst(b) \in Int
BY PushInt DEF BarrierType

LEMMA fverticalInt ==
    ASSUME NEW c \in ConstantsType, NEW b \in BarrierType
    PROVE  fvertical(c, b) \in Int
<1>1. /\ c.spec_base \in Int /\ spec_water \in Int /\ b.height * S \in Int
      /\ b.wall_t \in Int /\ b.base_width \in Int /\ b.base_length \in Int
      /\ b.base_thickness \in Int
  BY DEF ConstantsType, BarrierType, spec_water, S
<1>2. heel(b.base_width, b.wall_t) \in Int
  BY <1>1, LeverInt
<1>3. /\ weight(c.spec_base, b.base_length, b.base_width, b.base_thickness) \in Int
      /\ weight(spec_water, heel(b.base_width, b.wall_t), b.base_length, b.height * S) \in Int
      /\ Fbuoy(spec_water, b.base_width, b.base_length, b.base_thickness) \in Int
  BY <1>1, <1>2, WeightInt DEF Fbuoy
<1>. QED BY <1>3 DEF fvertical, Fv

LEMMA MovInt == ASSUME NEW b \in BarrierType PROVE Mov(b) \in Int
BY OverturningMomentInt DEF BarrierType

LEMMA MresInt ==
    ASSUME NEW c \in ConstantsType, NEW b \in BarrierType
    PROVE  Mres(c, b) \in Int
<1>1. /\ c.spec_base \in Int /\ c.spec_mat \in Int /\ spec_water \in Int
      /\ b.height \in Int /\ b.span_length \in Int /\ b.wall_t \in Int
      /\ b.base_width \in Int /\ b.base_length \in Int /\ b.base_thickness \in Int
      /\ b.key_depth \in Int /\ b.height * S \in Int /\ b.span_length * S \in Int
  BY DEF ConstantsType, BarrierType, spec_water, S
<1>. DEFINE basew  == weight(c.spec_base, b.base_width, b.base_length, b.base_thickness)
            wallwt == weight(c.spec_mat, b.wall_t, b.span_length * S, b.height * S) \div 2
            hl     == heel(b.base_width, b.wall_t)
            tl     == toe(b.base_width, b.wall_t)
            wh     == weight(spec_water, hl, b.base_length, b.height * S)
            fp     == Fp(c.Kp, c.spec_soil, spec_water, b.base_thickness, b.base_length)
            fwall  == Fwall(c.Kp, c.spec_soil, spec_water, b.base_thickness, b.span_length, b.base_length)
            fkey   == Fkey(c.Kp, c.spec_soil, spec_water, b.key_depth, b.base_length)
<1>2. hl \in Int /\ tl \in Int
  BY <1>1, LeverInt
<1>. HIDE DEF hl, tl
<1>3. basew \in Int
  BY <1>1, WeightInt
<1>4. wallwt \in Int
  BY <1>1, WeightInt, HalfInt
<1>5. wh \in Int
  BY <1>1, <1>2, WeightInt
<1>6. fp \in Int /\ fwall \in Int
  BY <1>1, FpInt, FwallInt
<1>7. fkey \in Int
  BY <1>1, FpInt DEF Fkey
<1>. HIDE DEF basew, wallwt, wh, fp, fwall, fkey
<1>8. /\ M_fp(fp, b.base_thickness) \in Int
      /\ Mwallwt(wallwt, tl, b.wall_t) \in Int
      /\ Mbse(basew, b.base_width) \in Int
      /\ Mwh(wh, b.base_width, hl) \in Int
      /\ Mfwall(fwall, b.base_thickness) \in Int
      /\ Mfkey(fkey, b.key_depth) \in Int
  BY <1>1, <1>2, <1>3, <1>4, <1>5, <1>6, <1>7, MomentInt
<1>. QED BY <1>8 DEF Mres, basew, wallwt, hl, tl, wh, fp, fwall, fkey

LEMMA EcentricityInt ==
    ASSUME NEW c \in ConstantsType, NEW b \in BarrierType, Relengthened(b) \in BarrierType
    PROVE  Ecentricity(c, b) \in Int
<1>. DEFINE Mr == Mres(c, b)
            Mo == Mov(Relengthened(b))
            fv == fvertical(c, Relengthened(b))
<1>1. Mr \in Int /\ Mo \in Int /\ fv \in Int
  BY MresInt, MovInt, fverticalInt
<1>. HIDE DEF Mr, Mo, fv
<1>2. Quot(Mr - Mo, fv) \in Int
  BY <1>1, QuotInt
<1>3. b.base_width \in Int
  BY DEF BarrierType
<1>4. b.base_width \div 2 \in Int
  BY <1>3, HalfInt
<1>. QED BY <1>2, <1>4 DEF Ecentricity, ecentricity, Mr, Mo, fv

----------------------------------------------------------------------------
(***************************************************************************)
(* The assignments keep the footing's type, and each leaves the rest of    *)
(* the barrier alone.                                                      *)
(***************************************************************************)

LEMMA ProportionsNat ==
    ASSUME NEW x \in Nat
    PROVE  base_len(x) \in Nat /\ base_thick(x) \in Nat /\ (6 * x) \div 5 \in Nat
BY DEF base_len, base_thick

LEMMA WidthNat ==
    ASSUME NEW b \in BarrierType, NEW cf \in Nat
    PROVE  WidthAt(b, cf) \in Nat
<1>1. b.height \in Nat
  BY DEF BarrierType
<1>. QED BY <1>1 DEF WidthAt

LEMMA WidenedType ==
    ASSUME NEW b \in BarrierType, NEW cf \in Nat
    PROVE  Widened(b, cf) \in BarrierType
BY WidthNat DEF Widened, BarrierType

LEMMA RelengthenedType ==
    ASSUME NEW b \in BarrierType
    PROVE  Relengthened(b) \in BarrierType
<1>1. base_len(b.base_width) \in Nat
  BY ProportionsNat DEF BarrierType
<1>. QED BY <1>1 DEF Relengthened, BarrierType

LEMMA KeyedType == ASSUME NEW b \in BarrierType PROVE Keyed(b) \in BarrierType
<1>1. (6 * b.base_thickness) \div 5 \in Nat
  BY ProportionsNat DEF BarrierType
<1>. QED BY <1>1 DEF Keyed, BarrierType

LEMMA DesignedType == ASSUME NEW b \in BarrierType PROVE Designed(b) \in BarrierType
<1>. DEFINE p == [b EXCEPT !.base_length = base_len(b.base_width),
                           !.base_thickness = base_thick(b.base_width)]
<1>1. base_len(b.base_width) \in Nat /\ base_thick(b.base_width) \in Nat
  BY ProportionsNat DEF BarrierType
<1>2. p \in BarrierType
  BY <1>1 DEF BarrierType
<1>. QED BY <1>2, KeyedType DEF Designed

LEMMA UnfootedType == ASSUME NEW b \in BarrierType PROVE Unfooted(b) \in BarrierType
<1>. DEFINE w == Widened(b, 50)
<1>1. w \in BarrierType
  BY WidenedType
<1>. HIDE DEF w
<1>2. [w EXCEPT !.base_thickness = 0, !.base_length = 0, !.key_depth = 0] \in BarrierType
  BY <1>1 DEF BarrierType
<1>. QED BY <1>2 DEF Unfooted, w

(***************************************************************************)
(* Type correctness.                                                       *)
(***************************************************************************)
LEMMA TypeInit == Init => TypeOK
<1>. SUFFICES ASSUME Init PROVE TypeOK
  OBVIOUS
<1>1. PICK job \in Jobs : constants = job.constants /\ barrier = Unfooted(job.barrier)
  BY DEF Init
<1>2. job.constants \in ConstantsType /\ job.barrier \in BarrierType
  BY JobsAssumption DEF JobType
<1>3. constants \in ConstantsType /\ barrier \in BarrierType
  BY <1>1, <1>2, UnfootedType
<1>. QED BY <1>3, MaxCoeffAssumption DEF Init, TypeOK, Checks, NotYet

LEMMA TypeStep == TypeOK /\ [Next]_vars => TypeOK'
<1>. SUFFICES ASSUME TypeOK, [Next]_vars PROVE TypeOK'
  OBVIOUS
<1>. USE DEF TypeOK, Checks
<1>0. /\ \A step \in {2, 5, 10} : Widen(step) => coeff' \in 50 .. MaxCoeff /\ coeff' \in Nat
      /\ coeff \in 0 .. MaxCoeff
  BY MaxCoeffAssumption DEF Widen
<1>1. CASE Design
  BY <1>1, DesignedType DEF Design
<1>2. CASE WidenAgainstSliding
  BY <1>0, <1>2, DesignedType, WidenedType DEF WidenAgainstSliding, Widen
<1>3. CASE FinishSliding
  BY <1>0, <1>3, RelengthenedType DEF FinishSliding, Pass
<1>4. CASE WidenAgainstOverturning
  BY <1>0, <1>4, RelengthenedType, WidenedType DEF WidenAgainstOverturning, Widen
<1>5. CASE FinishOverturning
  BY <1>0, <1>5, RelengthenedType, EcentricityInt DEF FinishOverturning, Pass
<1>6. CASE WidenAgainstEccentricity
  <2>1. Widened(barrier, coeff') \in BarrierType
    BY <1>0, <1>6, WidenedType DEF WidenAgainstEccentricity
  <2>2. barrier' \in BarrierType /\ k' \in Int
    BY <1>6, <2>1, RelengthenedType, EcentricityInt DEF WidenAgainstEccentricity
  <2>. QED BY <1>0, <1>6, <2>2 DEF WidenAgainstEccentricity, Widen
<1>7. CASE FinishEccentricity
  BY <1>0, <1>7 DEF FinishEccentricity, Pass
<1>8. CASE WidenAgainstSettlement
  BY <1>0, <1>8, WidenedType DEF WidenAgainstSettlement, Widen
<1>9. CASE FinishSettlement
  BY <1>0, <1>9 DEF FinishSettlement, Pass
<1>10. CASE Written \/ UNCHANGED vars
  BY <1>10 DEF Written, vars
<1>. QED
  BY <1>1, <1>2, <1>3, <1>4, <1>5, <1>6, <1>7, <1>8, <1>9, <1>10 DEF Next

\* Whatever the command lines, no dimension of the footing or of what is written to
\* barrier.csv ever leaves its type.
THEOREM TypeCorrect == Spec => []TypeOK
<1>1. Init => TypeOK
  BY TypeInit
<1>2. TypeOK /\ [Next]_vars => TypeOK'
  BY TypeStep
<1>. QED BY <1>1, <1>2, PTL DEF Spec

----------------------------------------------------------------------------
(***************************************************************************)
(* The proportions of the footing.                                         *)
(***************************************************************************)

\* What each assignment to the barrier leaves in its fields.
Site(b) == <<b.height, b.span_length, b.wall_t, b.span_t>>

LEMMA WidenedFields ==
    ASSUME NEW b \in BarrierType, NEW cf \in Nat
    PROVE  LET d == Widened(b, cf) IN
           /\ Site(d) = Site(b)
           /\ d.base_width = WidthAt(b, cf)
           /\ d.base_length = b.base_length
           /\ d.base_thickness = b.base_thickness
           /\ d.key_depth = b.key_depth
BY DEF Widened, BarrierType, Site

LEMMA RelengthenedFields ==
    ASSUME NEW b \in BarrierType
    PROVE  LET d == Relengthened(b) IN
           /\ Site(d) = Site(b)
           /\ d.base_width = b.base_width
           /\ d.base_length = base_len(b.base_width)
           /\ d.base_thickness = b.base_thickness
           /\ d.key_depth = b.key_depth
BY DEF Relengthened, BarrierType, Site

LEMMA DesignedFields ==
    ASSUME NEW b \in BarrierType
    PROVE  LET d == Designed(b) IN
           /\ Site(d) = Site(b)
           /\ d.base_width = b.base_width
           /\ d.base_length = base_len(b.base_width)
           /\ d.base_thickness = base_thick(b.base_width)
           /\ d.key_depth = (6 * base_thick(b.base_width)) \div 5
BY DEF Designed, Keyed, BarrierType, Site

LEMMA UnfootedFields ==
    ASSUME NEW b \in BarrierType
    PROVE  LET d == Unfooted(b) IN
           /\ Site(d) = Site(b)
           /\ d.base_width = WidthAt(b, 50)
           /\ d.base_length = 0
           /\ d.base_thickness = 0
           /\ d.key_depth = 0
BY DEF Unfooted, Widened, BarrierType, Site

\* Widths depend on the site alone, and a barrier is its site and its footing.
LEMMA SameWidth ==
    ASSUME NEW b \in BarrierType, NEW d \in BarrierType, Site(d) = Site(b), NEW cf \in Nat
    PROVE  WidthAt(d, cf) = WidthAt(b, cf)
BY DEF Site, WidthAt

LEMMA SameBarrier ==
    ASSUME NEW b \in BarrierType, NEW d \in BarrierType, Site(d) = Site(b),
           d.base_width = b.base_width, d.base_length = b.base_length,
           d.base_thickness = b.base_thickness, d.key_depth = b.key_depth
    PROVE  d = b
BY DEF Site, BarrierType

LEMMA RelengthenedSame ==
    ASSUME NEW b \in BarrierType, b.base_length = base_len(b.base_width)
    PROVE  Relengthened(b) = b
BY RelengthenedFields, RelengthenedType, SameBarrier

LEMMA ProportionsInit == Init => Proportions
<1>. SUFFICES ASSUME Init PROVE Proportions
  OBVIOUS
<1>1. PICK job \in Jobs : constants = job.constants /\ barrier = Unfooted(job.barrier)
  BY DEF Init
<1>2. job.barrier \in BarrierType
  BY JobsAssumption DEF JobType
<1>3. Site(barrier) = Site(job.barrier) /\ barrier.base_width = WidthAt(job.barrier, 50)
  BY <1>1, <1>2, UnfootedFields
<1>4. WidthAt(barrier, 50) = WidthAt(job.barrier, 50)
  BY <1>1, <1>2, <1>3, UnfootedType, SameWidth
<1>. QED BY <1>3, <1>4 DEF Init, Proportions

\* The same proportions, of a footing that only a step's loop has widened.
LEMMA ProportionsStep == TypeOK /\ Proportions /\ [Next]_vars => Proportions'
<1>. SUFFICES ASSUME TypeOK, Proportions, [Next]_vars PROVE Proportions'
  OBVIOUS
<1>0. /\ barrier \in BarrierType /\ coeff \in Nat
      /\ passedAt \in [Checks -> Nat]
      /\ \A step \in {2, 5, 10} : Widen(step) => coeff' \in Nat
  BY MaxCoeffAssumption DEF TypeOK, Widen
<1>. DEFINE w == Widened(barrier, coeff')
<1>w. ASSUME coeff' \in Nat
      PROVE  /\ w \in BarrierType
             /\ Site(w) = Site(barrier)
             /\ w.base_width = WidthAt(barrier, coeff')
             /\ w.base_length = barrier.base_length
             /\ w.base_thickness = barrier.base_thickness
             /\ w.key_depth = barrier.key_depth
  BY <1>0, <1>w, WidenedFields, WidenedType
<1>. HIDE DEF w
<1>s. ASSUME barrier' \in BarrierType, Site(barrier') = Site(barrier)
      PROVE  \A cf \in Nat : WidthAt(barrier', cf) = WidthAt(barrier, cf)
  BY <1>0, <1>s, SameWidth
<1>1. CASE Design
  <2>1. /\ barrier' \in BarrierType
        /\ Site(barrier') = Site(barrier)
        /\ barrier'.base_width = barrier.base_width
        /\ barrier'.base_length = base_len(barrier.base_width)
        /\ barrier'.base_thickness = base_thick(barrier.base_width)
        /\ barrier'.key_depth = (6 * base_thick(barrier.base_width)) \div 5
    BY <1>0, <1>1, DesignedFields, DesignedType DEF Design
  <2>. QED BY <1>0, <1>1, <1>s, <2>1 DEF Design, Proportions
<1>2. CASE WidenAgainstSliding
  <2>1. coeff' \in Nat /\ barrier' = Designed(w)
    BY <1>0, <1>2 DEF WidenAgainstSliding, w
  <2>2. /\ barrier' \in BarrierType
        /\ Site(barrier') = Site(barrier)
        /\ barrier'.base_width = WidthAt(barrier, coeff')
        /\ barrier'.base_length = base_len(WidthAt(barrier, coeff'))
        /\ barrier'.base_thickness = base_thick(WidthAt(barrier, coeff'))
        /\ barrier'.key_depth = (6 * base_thick(WidthAt(barrier, coeff'))) \div 5
    BY <1>w, <2>1, DesignedFields, DesignedType
  <2>. QED BY <1>2, <1>s, <2>1, <2>2 DEF WidenAgainstSliding, Widen, Proportions
<1>3. CASE FinishSliding
  <2>1. barrier' = barrier
    BY <1>0, <1>3, RelengthenedSame DEF FinishSliding, Proportions
  <2>. QED BY <1>0, <1>3, <2>1 DEF FinishSliding, Pass, Proportions, Checks
<1>4. CASE WidenAgainstOverturning
  <2>1. coeff' \in Nat /\ barrier' = Relengthened(w)
    BY <1>0, <1>4 DEF WidenAgainstOverturning, w
  <2>2. /\ barrier' \in BarrierType
        /\ Site(barrier') = Site(barrier)
        /\ barrier'.base_width = WidthAt(barrier, coeff')
        /\ barrier'.base_length = base_len(WidthAt(barrier, coeff'))
        /\ barrier'.base_thickness = barrier.base_thickness
        /\ barrier'.key_depth = barrier.key_depth
    BY <1>w, <2>1, RelengthenedFields, RelengthenedType
  <2>. QED BY <1>0, <1>4, <1>s, <2>1, <2>2 DEF WidenAgainstOverturning, Widen, Proportions, Checks
<1>5. CASE FinishOverturning
  <2>1. barrier' = barrier
    BY <1>0, <1>5, RelengthenedSame DEF FinishOverturning, Proportions
  <2>. QED BY <1>0, <1>5, <2>1 DEF FinishOverturning, Pass, Proportions, Checks
<1>6. CASE WidenAgainstEccentricity
  <2>1. coeff' \in Nat /\ barrier' = Relengthened(w)
    BY <1>0, <1>6 DEF WidenAgainstEccentricity, w
  <2>2. /\ barrier' \in BarrierType
        /\ Site(barrier') = Site(barrier)
        /\ barrier'.base_width = WidthAt(barrier, coeff')
        /\ barrier'.base_length = base_len(WidthAt(barrier, coeff'))
        /\ barrier'.base_thickness = barrier.base_thickness
        /\ barrier'.key_depth = barrier.key_depth
    BY <1>w, <2>1, RelengthenedFields, RelengthenedType
  <2>. QED BY <1>0, <1>6, <1>s, <2>1, <2>2 DEF WidenAgainstEccentricity, Widen, Proportions, Checks
<1>7. CASE FinishEccentricity
  BY <1>0, <1>7 DEF FinishEccentricity, Pass, Proportions, Checks
<1>8. CASE WidenAgainstSettlement
  <2>1. coeff' \in Nat /\ barrier' = w
    BY <1>0, <1>8 DEF WidenAgainstSettlement, w
  <2>. QED BY <1>0, <1>8, <1>s, <1>w, <2>1 DEF WidenAgainstSettlement, Widen, Proportions, Checks
<1>9. CASE FinishSettlement
  BY <1>9 DEF FinishSettlement, Pass, Proportions, Checks
<1>10. CASE Written \/ UNCHANGED vars
  BY <1>10 DEF Written, vars, Proportions
<1>. QED
  BY <1>1, <1>2, <1>3, <1>4, <1>5, <1>6, <1>7, <1>8, <1>9, <1>10 DEF Next

\* Which dimensions follow the width and which are left behind, in every run.
THEOREM ProportionsCorrect == Spec => []Proportions
<1>1. Init => TypeOK /\ Proportions
  BY TypeInit, ProportionsInit
<1>2. TypeOK /\ Proportions /\ [Next]_vars => TypeOK' /\ Proportions'
  BY TypeStep, ProportionsStep
<1>. QED BY <1>1, <1>2, PTL DEF Spec

----------------------------------------------------------------------------
(***************************************************************************)
(* A step only widens the footing.                                         *)
(***************************************************************************)
LEMMA UnfootedSame ==
    ASSUME NEW b \in BarrierType, NEW d \in BarrierType, Site(d) = Site(b)
    PROVE  Unfooted(d) = Unfooted(b)
<1>1. Site(Unfooted(d)) = Site(Unfooted(b))
  BY UnfootedFields
<1>2. WidthAt(d, 50) = WidthAt(b, 50)
  BY SameWidth
<1>. QED BY <1>1, <1>2, UnfootedFields, UnfootedType, SameBarrier

LEMMA WidthMonotone ==
    ASSUME NEW b \in BarrierType, NEW cf \in Nat, NEW cg \in Nat, cf <= cg
    PROVE  WidthAt(b, cf) <= WidthAt(b, cg)
<1>1. PICK d \in Nat : cg = cf + d
  <2>1. cg - cf \in Nat /\ cg = cf + (cg - cf)
    OBVIOUS
  <2>. QED BY <2>1
<1>2. b.height \in Nat
  BY DEF BarrierType
<1>3. 10 * (cf + d) * b.height = 10 * cf * b.height + 10 * d * b.height
  BY <1>2
<1>4. 10 * d * b.height >= 0 /\ 10 * cf * b.height \in Int /\ 10 * d * b.height \in Int
  BY <1>2
<1>. QED BY <1>1, <1>3, <1>4 DEF WidthAt

\* Every step leaves the site alone and the coefficient no smaller.
LEMMA SiteStep ==
    TypeOK /\ [Next]_vars =>
        Site(barrier') = Site(barrier) /\ constants' = constants /\ coeff <= coeff'
<1>. SUFFICES ASSUME TypeOK, [Next]_vars
              PROVE  Site(barrier') = Site(barrier) /\ constants' = constants /\ coeff <= coeff'
  OBVIOUS
<1>0. /\ barrier \in BarrierType /\ coeff \in Nat
      /\ \A step \in {2, 5, 10} : Widen(step) => coeff' \in Nat /\ coeff <= coeff'
  BY MaxCoeffAssumption DEF TypeOK, Widen
<1>1. CASE Design
  BY <1>0, <1>1, DesignedFields DEF Design
<1>2. CASE WidenAgainstSliding
  BY <1>0, <1>2, DesignedFields, WidenedFields, WidenedType DEF WidenAgainstSliding, Widen
<1>3. CASE FinishSliding
  BY <1>0, <1>3, RelengthenedFields DEF FinishSliding
<1>4. CASE WidenAgainstOverturning
  BY <1>0, <1>4, RelengthenedFields, WidenedFields, WidenedType DEF WidenAgainstOverturning, Widen
<1>5. CASE FinishOverturning
  BY <1>0, <1>5, RelengthenedFields DEF FinishOverturning
<1>6. CASE WidenAgainstEccentricity
  BY <1>0, <1>6, RelengthenedFields, WidenedFields, WidenedType DEF WidenAgainstEccentricity, Widen
<1>7. CASE FinishEccentricity
  BY <1>0, <1>7 DEF FinishEccentricity
<1>8. CASE WidenAgainstSettlement
  BY <1>0, <1>8, WidenedFields DEF WidenAgainstSettlement, Widen
<1>9. CASE FinishSettlement
  BY <1>0, <1>9 DEF FinishSettlement
<1>10. CASE Written \/ UNCHANGED vars
  BY <1>0, <1>10 DEF Written, vars
<1>. QED
  BY <1>1, <1>2, <1>3, <1>4, <1>5, <1>6, <1>7, <1>8, <1>9, <1>10 DEF Next

LEMMA WideningStep ==
    ASSUME TypeOK, TypeOK', Proportions, Proportions', [Next]_vars
    PROVE  /\ barrier'.base_width >= barrier.base_width
           /\ Unfooted(barrier') = Unfooted(barrier)
           /\ constants' = constants
<1>1. /\ barrier \in BarrierType /\ barrier' \in BarrierType
      /\ coeff \in Nat /\ coeff' \in Nat
  BY MaxCoeffAssumption DEF TypeOK
<1>2. Site(barrier') = Site(barrier) /\ constants' = constants /\ coeff <= coeff'
  BY SiteStep
<1>3. /\ barrier.base_width = WidthAt(barrier, coeff)
      /\ barrier'.base_width = WidthAt(barrier', coeff')
  BY DEF Proportions
<1>4. WidthAt(barrier', coeff') = WidthAt(barrier, coeff')
  BY <1>1, <1>2, SameWidth
<1>5. WidthAt(barrier, coeff) <= WidthAt(barrier, coeff')
  BY <1>1, <1>2, WidthMonotone
<1>6. WidthAt(barrier, coeff) \in Int /\ WidthAt(barrier, coeff') \in Int
  BY <1>1, WidthNat
<1>. QED BY <1>1, <1>2, <1>3, <1>4, <1>5, <1>6, UnfootedSame

\* The design procedure never narrows a footing and never touches the wall, the
\* supports or the site it was given.
THEOREM WideningOnly == Spec => OnlyWidens
<1>1. Init => TypeOK /\ Proportions
  BY TypeInit, ProportionsInit
<1>2. TypeOK /\ Proportions /\ [Next]_vars => TypeOK' /\ Proportions'
  BY TypeStep, ProportionsStep
<1>3. TypeOK /\ Proportions /\ TypeOK' /\ Proportions' /\ [Next]_vars =>
        [/\ barrier'.base_width >= barrier.base_width
         /\ Unfooted(barrier') = Unfooted(barrier)
         /\ constants' = constants]_vars
  BY WideningStep
<1>. QED BY <1>1, <1>2, <1>3, PTL DEF Spec, OnlyWidens

----------------------------------------------------------------------------
(***************************************************************************)
(* The order of the checks, and what each of them is still worth.          *)
(***************************************************************************)
LEMMA HistoryInit == Init => History
BY DEF Init, History, Pending, Checks, NotYet

LEMMA WidenedHistory ==
    ASSUME TypeOK, History, pc \notin {"design", "written"}, NEW step \in {2, 5, 10}, Widen(step)
    PROVE  History'
<1>1. coeff \in Int /\ coeff' \in Int /\ coeff <= coeff'
  BY MaxCoeffAssumption DEF TypeOK, Widen
<1>2. 50 .. coeff \subseteq 50 .. coeff'
  BY <1>1
<1>. QED BY <1>2 DEF History, Widen

LEMMA HistoryStep == TypeOK /\ History /\ [Next]_vars => History'
<1>. SUFFICES ASSUME TypeOK, History, [Next]_vars PROVE History'
  OBVIOUS
<1>0. coeff \in Nat /\ coeff >= 50 /\ passedAt \in [Checks -> Nat]
  BY MaxCoeffAssumption DEF TypeOK
<1>2. CASE WidenAgainstSliding \/ WidenAgainstOverturning
           \/ WidenAgainstEccentricity \/ WidenAgainstSettlement
  BY <1>2, WidenedHistory DEF WidenAgainstSliding, WidenAgainstOverturning,
     WidenAgainstEccentricity, WidenAgainstSettlement
<1>. USE DEF Pending, Checks, NotYet
<1>1. CASE Design
  BY <1>0, <1>1 DEF Design, History
<1>3. CASE FinishSliding
  BY <1>0, <1>3 DEF FinishSliding, Pass, History
<1>5. CASE FinishOverturning
  BY <1>0, <1>5 DEF FinishOverturning, Pass, History
<1>7. CASE FinishEccentricity
  BY <1>0, <1>7 DEF FinishEccentricity, Pass, History
<1>9. CASE FinishSettlement
  BY <1>0, <1>9 DEF FinishSettlement, Pass, History
<1>10. CASE Written \/ UNCHANGED vars
  BY <1>10 DEF Written, vars, History
<1>. QED
  BY <1>1, <1>2, <1>3, <1>5, <1>7, <1>9, <1>10 DEF Next

\* A step that widens makes every earlier pass a pass at another width.
LEMMA WidenedSince ==
    ASSUME TypeOK, History, NEW step \in {2, 5, 10}, Widen(step)
    PROVE  UnwidenedChecksStand'
<1>1. \A check \in Checks : passedAt'[check] <= coeff /\ passedAt'[check] \in Nat
  BY MaxCoeffAssumption DEF History, TypeOK, Widen, NotYet
<1>2. coeff \in Nat /\ coeff' > coeff
  BY MaxCoeffAssumption DEF TypeOK, Widen
<1>3. \A check \in Checks : passedAt'[check] # coeff'
  BY <1>1, <1>2
<1>. QED BY <1>3 DEF UnwidenedChecksStand, Checks

\* With its length following its width, a footing's eccentricity is the one
\* Ecentricity computes.
LEMMA EccentricityFresh ==
    ASSUME NEW c, NEW b \in BarrierType, b.base_length = base_len(b.base_width)
    PROVE  Ecentricity(c, b) = FreshEccentricity(c, b)
BY RelengthenedSame DEF Ecentricity, FreshEccentricity

LEMMA ChecksStandStep ==
    ASSUME TypeOK, Proportions, History, UnwidenedChecksStand, [Next]_vars
    PROVE  UnwidenedChecksStand'
<1>. USE DEF Pending, Checks, NotYet
<1>0. barrier \in BarrierType /\ coeff \in Nat /\ coeff >= 50 /\ passedAt \in [Checks -> Nat]
  BY MaxCoeffAssumption DEF TypeOK
<1>1. CASE Design
  <2>1. \A check \in Checks : passedAt'[check] # coeff'
    BY <1>0, <1>1 DEF Design, History
  <2>. QED BY <2>1 DEF UnwidenedChecksStand
<1>2. CASE WidenAgainstSliding \/ WidenAgainstOverturning
           \/ WidenAgainstEccentricity \/ WidenAgainstSettlement
  BY <1>2, WidenedSince DEF WidenAgainstSliding, WidenAgainstOverturning,
     WidenAgainstEccentricity, WidenAgainstSettlement
<1>3. CASE FinishSliding
  <2>1. barrier' = barrier
    BY <1>0, <1>3, RelengthenedSame DEF FinishSliding, Proportions
  <2>2. \A check \in {"overturning", "eccentricity", "settlement"} : passedAt'[check] # coeff'
    BY <1>0, <1>3 DEF FinishSliding, Pass, History
  <2>. QED BY <1>3, <2>1, <2>2 DEF FinishSliding, UnwidenedChecksStand
<1>4. CASE FinishOverturning
  <2>1. barrier' = barrier
    BY <1>0, <1>4, RelengthenedSame DEF FinishOverturning, Proportions
  <2>2. \A check \in {"eccentricity", "settlement"} : passedAt'[check] # coeff'
    BY <1>0, <1>4 DEF FinishOverturning, Pass, History
  <2>3. k' = FreshEccentricity(constants, barrier)
    BY <1>0, <1>4, EccentricityFresh DEF FinishOverturning, Proportions
  <2>4. passedAt'["sliding"] = passedAt["sliding"]
    BY <1>0, <1>4 DEF FinishOverturning, Pass
  <2>. QED BY <1>4, <2>1, <2>2, <2>3, <2>4 DEF FinishOverturning, UnwidenedChecksStand
<1>5. CASE FinishEccentricity
  <2>1. \A check \in {"sliding", "overturning", "settlement"} :
          passedAt'[check] = passedAt[check]
    BY <1>0, <1>5 DEF FinishEccentricity, Pass
  <2>. QED BY <1>5, <2>1 DEF FinishEccentricity, UnwidenedChecksStand
<1>6. CASE FinishSettlement
  <2>1. \A check \in {"sliding", "overturning", "eccentricity"} :
          passedAt'[check] = passedAt[check]
    BY <1>0, <1>6 DEF FinishSettlement, Pass
  <2>. QED BY <1>6, <2>1 DEF FinishSettlement, UnwidenedChecksStand
<1>7. CASE Written \/ UNCHANGED vars
  BY <1>7 DEF Written, vars, UnwidenedChecksStand
<1>. QED
  BY <1>1, <1>2, <1>3, <1>4, <1>5, <1>6, <1>7 DEF Next

\* The strengthening: each conjunct needs the ones before it.
IInv == TypeOK /\ Proportions /\ History /\ UnwidenedChecksStand

LEMMA IInvInvariant == Spec => []IInv
<1>1. Init => IInv
  <2>1. Init => \A check \in Checks : passedAt[check] # coeff
    BY DEF Init, NotYet
  <2>2. Init => UnwidenedChecksStand
    BY <2>1 DEF UnwidenedChecksStand, Checks
  <2>. QED BY <2>2, TypeInit, ProportionsInit, HistoryInit DEF IInv
<1>2. IInv /\ [Next]_vars => IInv'
  BY TypeStep, ProportionsStep, HistoryStep, ChecksStandStep DEF IInv
<1>. QED BY <1>1, <1>2, PTL DEF Spec

\* No later line of main undoes a check without widening the footing: a check that
\* passed at the final width is satisfied by the final footing.
THEOREM ChecksStand == Spec => []UnwidenedChecksStand
<1>1. IInv => UnwidenedChecksStand
  BY DEF IInv
<1>. QED BY <1>1, IInvInvariant, PTL

\* The checks are made one after the other, the eccentricity and the settlement
\* check with a k computed earlier; when nothing had to be widened after the
\* overturning check, all three hold together, afresh, of what is written to
\* barrier.csv, and its length is the one its width asks for.
OverturningLast == csv # NoFile /\ passedAt["overturning"] = coeff

HoldTogether ==
    OverturningLast =>
        /\ ~OverturningFails(constants, csv)
        /\ ~Lifts(constants, csv)
        /\ ~OverPressed(constants, csv, FreshEccentricity(constants, csv))
        /\ LengthFollowsWidth

THEOREM OverturningLastSound == Spec => []HoldTogether
<1>1. IInv => HoldTogether
  <2>. SUFFICES ASSUME IInv, OverturningLast
                PROVE  HoldTogether
    BY DEF HoldTogether
  <2>1. pc = "written" /\ csv = barrier
    BY DEF IInv, History, OverturningLast
  <2>2. passedAt["eccentricity"] = coeff /\ passedAt["settlement"] = coeff
    <3>1. Pending[pc] = {}
      BY <2>1 DEF Pending
    <3>2. /\ passedAt["overturning"] <= passedAt["eccentricity"]
          /\ passedAt["overturning"] <= passedAt["settlement"]
          /\ passedAt["eccentricity"] \in 50 .. coeff /\ passedAt["settlement"] \in 50 .. coeff
      BY <3>1 DEF IInv, History, Checks, Pending
    <3>3. coeff \in Int /\ passedAt["overturning"] = coeff
      BY DEF IInv, TypeOK, OverturningLast
    <3>. QED BY <3>2, <3>3
  <2>3. barrier.base_length = base_len(barrier.base_width)
    BY <2>1, <2>2 DEF IInv, Proportions
  <2>4. /\ ~OverturningFails(constants, barrier) /\ k = FreshEccentricity(constants, barrier)
        /\ ~OffMiddleThird(k, barrier)
        /\ ~OverPressed(constants, barrier, k)
    BY <2>2 DEF IInv, UnwidenedChecksStand, OverturningLast
  <2>. QED BY <2>1, <2>3, <2>4 DEF HoldTogether, Lifts, LengthFollowsWidth
<1>. QED BY <1>1, IInvInvariant, PTL

----------------------------------------------------------------------------
(***************************************************************************)
(* The first two loops stop at the first width that passes.                *)
(***************************************************************************)

\* A footing re-dimensioned at a given width depends on the site, and for the
\* overturning loop also on the thickness and the key it inherits.
LEMMA SameDesigned ==
    ASSUME NEW b \in BarrierType, NEW d \in BarrierType, Site(d) = Site(b), NEW cf \in Nat
    PROVE  Designed(Widened(d, cf)) = Designed(Widened(b, cf))
<1>1. Widened(b, cf) \in BarrierType /\ Widened(d, cf) \in BarrierType
  BY WidenedType
<1>2. WidthAt(d, cf) = WidthAt(b, cf)
  BY SameWidth
<1>3. /\ Site(Widened(d, cf)) = Site(Widened(b, cf))
      /\ Widened(d, cf).base_width = Widened(b, cf).base_width
  BY <1>2, WidenedFields
<1>. QED BY <1>1, <1>3, DesignedFields, DesignedType, SameBarrier

LEMMA SameRelengthened ==
    ASSUME NEW b \in BarrierType, NEW d \in BarrierType, Site(d) = Site(b), NEW cf \in Nat,
           d.base_thickness = b.base_thickness, d.key_depth = b.key_depth
    PROVE  Relengthened(Widened(d, cf)) = Relengthened(Widened(b, cf))
<1>1. Widened(b, cf) \in BarrierType /\ Widened(d, cf) \in BarrierType
  BY WidenedType
<1>2. WidthAt(d, cf) = WidthAt(b, cf)
  BY SameWidth
<1>3. /\ Site(Widened(d, cf)) = Site(Widened(b, cf))
      /\ Widened(d, cf).base_width = Widened(b, cf).base_width
      /\ Widened(d, cf).base_thickness = Widened(b, cf).base_thickness
      /\ Widened(d, cf).key_depth = Widened(b, cf).key_depth
  BY <1>2, WidenedFields
<1>. QED BY <1>1, <1>3, RelengthenedFields, RelengthenedType, SameBarrier

\* The footing each loop has just left: re-dimensioned at its own width it is itself.
LEMMA RedesignSame ==
    ASSUME NEW b \in BarrierType, NEW cf \in Nat, b.base_width = WidthAt(b, cf),
           b.base_length = base_len(b.base_width)
    PROVE  /\ Relengthened(Widened(b, cf)) = b
           /\ b.base_thickness = base_thick(b.base_width)
                /\ b.key_depth = (6 * base_thick(b.base_width)) \div 5
              => Designed(Widened(b, cf)) = b
<1>1. Widened(b, cf) \in BarrierType
  BY WidenedType
<1>2. /\ Site(Widened(b, cf)) = Site(b)
      /\ Widened(b, cf).base_width = b.base_width
      /\ Widened(b, cf).base_thickness = b.base_thickness
      /\ Widened(b, cf).key_depth = b.key_depth
  BY WidenedFields
<1>3. Relengthened(Widened(b, cf)) = b
  BY <1>1, <1>2, RelengthenedFields, RelengthenedType, SameBarrier
<1>4. ASSUME b.base_thickness = base_thick(b.base_width),
             b.key_depth = (6 * base_thick(b.base_width)) \div 5
      PROVE  Designed(Widened(b, cf)) = b
  BY <1>1, <1>2, <1>4, DesignedFields, DesignedType, SameBarrier
<1>. QED BY <1>3, <1>4

\* One step of the loop that is running was needed, too.
StepNeeded ==
    /\ pc = "sliding" /\ coeff > 50 =>
          SlidingFails(constants, Designed(Widened(barrier, coeff - 5)))
    /\ pc = "overturning" /\ coeff > passedAt["sliding"] =>
          OverturningFails(constants, Relengthened(Widened(barrier, coeff - 2)))

Tight == StepNeeded /\ NoNeedlessWidening

LEMMA TightInit == Init => Tight
BY DEF Init, Tight, StepNeeded, NoNeedlessWidening, NotYet, Checks

LEMMA TightStep ==
    ASSUME TypeOK, TypeOK', Proportions, Proportions', History, Tight, [Next]_vars
    PROVE  Tight'
<1>0. /\ barrier \in BarrierType /\ barrier' \in BarrierType
      /\ coeff \in Nat /\ coeff' \in Nat /\ coeff >= 50
      /\ passedAt \in [Checks -> Nat]
      /\ Site(barrier') = Site(barrier) /\ constants' = constants
  BY SiteStep, MaxCoeffAssumption DEF TypeOK
<1>d. ASSUME NEW cf \in Nat
      PROVE  Designed(Widened(barrier', cf)) = Designed(Widened(barrier, cf))
  BY <1>0, SameDesigned
<1>r. ASSUME NEW cf \in Nat, barrier'.base_thickness = barrier.base_thickness,
             barrier'.key_depth = barrier.key_depth
      PROVE  Relengthened(Widened(barrier', cf)) = Relengthened(Widened(barrier, cf))
  BY <1>0, <1>r, SameRelengthened
\* A step of any other kind leaves the two conclusions as they are.
<1>k. ASSUME passedAt'["sliding"] = passedAt["sliding"],
             passedAt'["overturning"] = passedAt["overturning"],
             passedAt["overturning"] <= passedAt["sliding"]
               \/ (barrier'.base_thickness = barrier.base_thickness
                     /\ barrier'.key_depth = barrier.key_depth)
      PROVE  NoNeedlessWidening'
  <2>1. ASSUME passedAt["sliding"] > 50
        PROVE  SlidingFails(constants', Designed(Widened(barrier', passedAt["sliding"] - 5)))
    <3>1. passedAt["sliding"] - 5 \in Nat
      BY <1>0, <2>1 DEF Checks
    <3>. QED BY <1>0, <1>d, <2>1, <3>1 DEF Tight, NoNeedlessWidening
  <2>2. ASSUME passedAt["overturning"] > passedAt["sliding"]
        PROVE  OverturningFails(constants', Relengthened(Widened(barrier', passedAt["overturning"] - 2)))
    <3>1. /\ barrier'.base_thickness = barrier.base_thickness
          /\ barrier'.key_depth = barrier.key_depth
      BY <1>0, <1>k, <2>2 DEF Checks
    <3>2. passedAt["overturning"] - 2 \in Nat
      <4>1. passedAt["overturning"] # NotYet
        BY <1>0, <2>2 DEF NotYet, Checks
      <4>2. "overturning" \in Checks \ Pending[pc]
        BY <4>1 DEF History, Checks
      <4>. QED BY <4>2 DEF History
    <3>. QED BY <1>0, <1>r, <2>2, <3>1, <3>2 DEF Tight, NoNeedlessWidening
  <2>. QED BY <1>k, <2>1, <2>2 DEF NoNeedlessWidening
<1>. USE DEF Checks
<1>1. CASE Design
  <2>1. passedAt["overturning"] = NotYet /\ passedAt["sliding"] = NotYet /\ coeff = 50
    BY <1>1 DEF Design, History, Pending
  <2>2. StepNeeded'
    BY <1>1, <2>1 DEF Design, StepNeeded
  <2>3. NoNeedlessWidening'
    BY <1>1, <1>k, <2>1 DEF Design, NotYet
  <2>. QED BY <2>2, <2>3 DEF Tight
<1>2. CASE WidenAgainstSliding
  <2>1. passedAt["overturning"] = NotYet /\ passedAt["sliding"] = NotYet /\ coeff' = coeff + 5
    BY <1>2 DEF WidenAgainstSliding, Widen, History, Pending
  <2>2. Designed(Widened(barrier', coeff' - 5)) = barrier
    <3>1. Designed(Widened(barrier, coeff)) = barrier
      BY <1>0, <1>2, RedesignSame DEF WidenAgainstSliding, Proportions
    <3>2. coeff' - 5 = coeff
      BY <1>0, <2>1
    <3>. QED BY <1>0, <1>d, <3>1, <3>2
  <2>3. StepNeeded'
    BY <1>0, <1>2, <2>2 DEF WidenAgainstSliding, Widen, StepNeeded
  <2>4. NoNeedlessWidening'
    BY <1>2, <1>k, <2>1 DEF WidenAgainstSliding, Widen, NotYet
  <2>. QED BY <2>3, <2>4 DEF Tight
<1>3. CASE FinishSliding
  <2>1. barrier' = barrier
    BY <1>0, <1>3, RelengthenedSame DEF FinishSliding, Proportions
  <2>2. passedAt'["sliding"] = coeff /\ passedAt'["overturning"] = NotYet
    BY <1>0, <1>3 DEF FinishSliding, Pass, History, Pending
  <2>3. StepNeeded'
    BY <1>0, <1>3, <2>2 DEF FinishSliding, Pass, StepNeeded
  <2>4. NoNeedlessWidening'
    BY <1>0, <1>3, <2>1, <2>2 DEF FinishSliding, Tight, StepNeeded, NoNeedlessWidening, NotYet
  <2>. QED BY <2>3, <2>4 DEF Tight
<1>4. CASE WidenAgainstOverturning
  <2>1. /\ barrier'.base_thickness = barrier.base_thickness
        /\ barrier'.key_depth = barrier.key_depth
    <3>1. /\ coeff' \in Nat /\ Widened(barrier, coeff') \in BarrierType
          /\ barrier' = Relengthened(Widened(barrier, coeff'))
      BY <1>0, <1>4, WidenedType DEF WidenAgainstOverturning
    <3>. QED BY <1>0, <3>1, RelengthenedFields, WidenedFields
  <2>2. Relengthened(Widened(barrier', coeff' - 2)) = barrier
    <3>1. Relengthened(Widened(barrier, coeff)) = barrier
      BY <1>0, <1>4, RedesignSame DEF WidenAgainstOverturning, Proportions
    <3>2. coeff' - 2 = coeff
      BY <1>0, <1>4 DEF WidenAgainstOverturning, Widen
    <3>. QED BY <1>0, <1>r, <2>1, <3>1, <3>2
  <2>3. StepNeeded'
    BY <1>0, <1>4, <2>2 DEF WidenAgainstOverturning, Widen, StepNeeded
  <2>4. NoNeedlessWidening'
    BY <1>4, <1>k, <2>1 DEF WidenAgainstOverturning, Widen
  <2>. QED BY <2>3, <2>4 DEF Tight
<1>5. CASE FinishOverturning
  <2>1. barrier' = barrier
    BY <1>0, <1>5, RelengthenedSame DEF FinishOverturning, Proportions
  <2>2. passedAt'["overturning"] = coeff /\ passedAt'["sliding"] = passedAt["sliding"]
    BY <1>0, <1>5 DEF FinishOverturning, Pass
  <2>3. StepNeeded'
    BY <1>5 DEF FinishOverturning, Pass, StepNeeded
  <2>4. NoNeedlessWidening'
    BY <1>0, <1>5, <2>1, <2>2 DEF FinishOverturning, Tight, StepNeeded, NoNeedlessWidening
  <2>. QED BY <2>3, <2>4 DEF Tight
<1>6. CASE WidenAgainstEccentricity
  <2>1. /\ barrier'.base_thickness = barrier.base_thickness
        /\ barrier'.key_depth = barrier.key_depth
    <3>1. /\ coeff' \in Nat /\ Widened(barrier, coeff') \in BarrierType
          /\ barrier' = Relengthened(Widened(barrier, coeff'))
      BY <1>0, <1>6, WidenedType DEF WidenAgainstEccentricity
    <3>. QED BY <1>0, <3>1, RelengthenedFields, WidenedFields
  <2>. QED BY <1>6, <1>k, <2>1 DEF WidenAgainstEccentricity, Widen, Tight, StepNeeded
<1>7. CASE FinishEccentricity
  <2>1. /\ passedAt'["sliding"] = passedAt["sliding"]
        /\ passedAt'["overturning"] = passedAt["overturning"]
    BY <1>0, <1>7 DEF FinishEccentricity, Pass
  <2>. QED BY <1>7, <1>k, <2>1 DEF FinishEccentricity, Pass, Tight, StepNeeded
<1>8. CASE WidenAgainstSettlement
  <2>1. /\ barrier'.base_thickness = barrier.base_thickness
        /\ barrier'.key_depth = barrier.key_depth
    BY <1>0, <1>8, WidenedFields DEF WidenAgainstSettlement
  <2>. QED BY <1>8, <1>k, <2>1 DEF WidenAgainstSettlement, Widen, Tight, StepNeeded
<1>9. CASE FinishSettlement
  <2>1. /\ passedAt'["sliding"] = passedAt["sliding"]
        /\ passedAt'["overturning"] = passedAt["overturning"]
    BY <1>0, <1>9 DEF FinishSettlement, Pass
  <2>. QED BY <1>9, <1>k, <2>1 DEF FinishSettlement, Pass, Tight, StepNeeded
<1>10. CASE Written \/ UNCHANGED vars
  BY <1>10 DEF Written, vars, Tight, StepNeeded, NoNeedlessWidening
<1>. QED
  BY <1>1, <1>2, <1>3, <1>4, <1>5, <1>6, <1>7, <1>8, <1>9, <1>10 DEF Next

\* The sliding and the overturning loop never overshoot: had either stopped one step
\* earlier, its check would have failed.
THEOREM NeverOverdesigned == Spec => []NoNeedlessWidening
<1>1. Init => IInv /\ Tight
  <2>1. Init => \A check \in Checks : passedAt[check] # coeff
    BY DEF Init, NotYet
  <2>2. Init => UnwidenedChecksStand
    BY <2>1 DEF UnwidenedChecksStand, Checks
  <2>. QED BY <2>2, TypeInit, ProportionsInit, HistoryInit, TightInit DEF IInv
<1>2. IInv /\ Tight /\ [Next]_vars => IInv' /\ Tight'
  BY TypeStep, ProportionsStep, HistoryStep, ChecksStandStep, TightStep DEF IInv
<1>3. Tight => NoNeedlessWidening
  BY DEF Tight
<1>. QED BY <1>1, <1>2, <1>3, PTL DEF Spec

----------------------------------------------------------------------------
(***************************************************************************)
(* The loops in closed form: the footing on file is the one LeastFooting   *)
(* defines without them.                                                   *)
(***************************************************************************)

\* A loop starts at its first coefficient.
LEMMA StepsStart ==
    ASSUME NEW from \in Int, NEW step \in {2, 5, 10}
    PROVE  from \in Steps(from, step, from) /\ Steps(from, step, from - 1) = {}
BY DEF Steps

\* The footings of LeastFooting, dimension by dimension.
LEMMA TriedFields ==
    ASSUME NEW u \in BarrierType, NEW s \in Nat, NEW l \in Nat, NEW x \in Nat
    PROVE  /\ Slid(u, x) \in BarrierType /\ Site(Slid(u, x)) = Site(u)
           /\ Slid(u, x).base_width = WidthAt(u, x)
           /\ Slid(u, x).base_length = base_len(WidthAt(u, x))
           /\ Slid(u, x).base_thickness = base_thick(WidthAt(u, x))
           /\ Slid(u, x).key_depth = (6 * base_thick(WidthAt(u, x))) \div 5
           /\ Turned(u, s, x) \in BarrierType /\ Site(Turned(u, s, x)) = Site(u)
           /\ Turned(u, s, x).base_width = WidthAt(u, x)
           /\ Turned(u, s, x).base_length = base_len(WidthAt(u, x))
           /\ Turned(u, s, x).base_thickness = base_thick(WidthAt(u, s))
           /\ Turned(u, s, x).key_depth = (6 * base_thick(WidthAt(u, s))) \div 5
<1>1. ASSUME NEW y \in Nat
      PROVE  /\ Slid(u, y) \in BarrierType /\ Site(Slid(u, y)) = Site(u)
             /\ Slid(u, y).base_width = WidthAt(u, y)
             /\ Slid(u, y).base_length = base_len(WidthAt(u, y))
             /\ Slid(u, y).base_thickness = base_thick(WidthAt(u, y))
             /\ Slid(u, y).key_depth = (6 * base_thick(WidthAt(u, y))) \div 5
  <2>. DEFINE w == Widened(u, y)
  <2>1. w \in BarrierType /\ Site(w) = Site(u) /\ w.base_width = WidthAt(u, y)
    BY WidenedType, WidenedFields
  <2>. HIDE DEF w
  <2>2. Slid(u, y) = Designed(w)
    BY DEF Slid, w
  <2>. QED BY <2>1, <2>2, DesignedType, DesignedFields
<1>2. WidthAt(Slid(u, s), x) = WidthAt(u, x)
  BY <1>1, SameWidth
<1>. DEFINE w == Widened(Slid(u, s), x)
<1>3. /\ w \in BarrierType /\ Site(w) = Site(u) /\ w.base_width = WidthAt(u, x)
      /\ w.base_thickness = base_thick(WidthAt(u, s))
      /\ w.key_depth = (6 * base_thick(WidthAt(u, s))) \div 5
  BY <1>1, <1>2, WidenedType, WidenedFields
<1>. HIDE DEF w
<1>4. Turned(u, s, x) = Relengthened(w)
  BY DEF Turned, w
<1>. QED BY <1>1, <1>3, <1>4, RelengthenedType, RelengthenedFields

LEMMA SettledFields ==
    ASSUME NEW u \in BarrierType, NEW s \in Nat, NEW l \in Nat, NEW x \in Nat
    PROVE  /\ Settled(u, s, l, x) \in BarrierType /\ Site(Settled(u, s, l, x)) = Site(u)
           /\ Settled(u, s, l, x).base_width = WidthAt(u, x)
           /\ Settled(u, s, l, x).base_length = base_len(WidthAt(u, l))
           /\ Settled(u, s, l, x).base_thickness = base_thick(WidthAt(u, s))
           /\ Settled(u, s, l, x).key_depth = (6 * base_thick(WidthAt(u, s))) \div 5
<1>. DEFINE w == Turned(u, s, l)
<1>1. /\ w \in BarrierType /\ Site(w) = Site(u)
      /\ w.base_length = base_len(WidthAt(u, l))
      /\ w.base_thickness = base_thick(WidthAt(u, s))
      /\ w.key_depth = (6 * base_thick(WidthAt(u, s))) \div 5
  BY TriedFields
<1>. HIDE DEF w
<1>2. WidthAt(w, x) = WidthAt(u, x)
  BY <1>1, SameWidth
<1>3. Settled(u, s, l, x) = Widened(w, x)
  BY DEF Settled, w
<1>4. Widened(w, x) \in BarrierType
  BY <1>1, WidenedType
<1>5. /\ Site(Widened(w, x)) = Site(w)
      /\ Widened(w, x).base_width = WidthAt(w, x)
      /\ Widened(w, x).base_length = w.base_length
      /\ Widened(w, x).base_thickness = w.base_thickness
      /\ Widened(w, x).key_depth = w.key_depth
  BY <1>1, WidenedFields
<1>. QED BY <1>1, <1>2, <1>3, <1>4, <1>5

\* The footing in each loop is the one of LeastFooting at the present coefficient.
Blank == Unfooted(barrier)

LEMMA FootingTried ==
    ASSUME TypeOK, Proportions, History
    PROVE  /\ pc = "sliding" => barrier = Slid(Blank, coeff)
           /\ pc \in {"overturning", "eccentricity"} =>
                 barrier = Turned(Blank, passedAt["sliding"], coeff)
           /\ pc \in {"settlement", "written"} =>
                 barrier = Settled(Blank, passedAt["sliding"], passedAt["eccentricity"], coeff)
<1>0. /\ barrier \in BarrierType /\ coeff \in Nat
      /\ passedAt["sliding"] \in Nat /\ passedAt["eccentricity"] \in Nat
  BY MaxCoeffAssumption DEF TypeOK, Checks
<1>1. Blank \in BarrierType /\ Site(Blank) = Site(barrier)
  BY <1>0, UnfootedType, UnfootedFields DEF Blank
<1>. HIDE DEF Blank
<1>2. \A x \in Nat : WidthAt(Blank, x) = WidthAt(barrier, x)
  BY <1>0, <1>1, SameWidth
<1>3. ASSUME pc = "sliding" PROVE barrier = Slid(Blank, coeff)
  BY <1>0, <1>1, <1>2, <1>3, TriedFields, SameBarrier DEF Proportions
<1>4. ASSUME pc \in {"overturning", "eccentricity"}
      PROVE  barrier = Turned(Blank, passedAt["sliding"], coeff)
  <2>. DEFINE s == passedAt["sliding"]
              d == Turned(Blank, s, coeff)
  <2>1. /\ barrier.base_width = WidthAt(barrier, coeff)
        /\ barrier.base_length = base_len(WidthAt(barrier, coeff))
        /\ barrier.base_thickness = base_thick(WidthAt(barrier, s))
        /\ barrier.key_depth = (6 * base_thick(WidthAt(barrier, s))) \div 5
    BY <1>4 DEF Proportions
  <2>2. /\ d \in BarrierType /\ Site(d) = Site(Blank)
        /\ d.base_width = WidthAt(Blank, coeff)
        /\ d.base_length = base_len(WidthAt(Blank, coeff))
        /\ d.base_thickness = base_thick(WidthAt(Blank, s))
        /\ d.key_depth = (6 * base_thick(WidthAt(Blank, s))) \div 5
    <3>1. s \in Nat /\ coeff \in Nat /\ Blank \in BarrierType
      BY <1>0, <1>1
    <3>. HIDE DEF s
    <3>. QED BY <3>1, TriedFields
  <2>. HIDE DEF d
  <2>3. barrier = d
    BY <1>0, <1>1, <1>2, <2>1, <2>2, SameBarrier
  <2>. QED BY <2>3 DEF d
<1>5. ASSUME pc \in {"settlement", "written"}
      PROVE  barrier = Settled(Blank, passedAt["sliding"], passedAt["eccentricity"], coeff)
  <2>. DEFINE s == passedAt["sliding"]
              l == passedAt["eccentricity"]
              d == Settled(Blank, s, l, coeff)
  <2>1. /\ barrier.base_width = WidthAt(barrier, coeff)
        /\ barrier.base_length = base_len(WidthAt(barrier, l))
        /\ barrier.base_thickness = base_thick(WidthAt(barrier, s))
        /\ barrier.key_depth = (6 * base_thick(WidthAt(barrier, s))) \div 5
    BY <1>5 DEF Proportions
  <2>2. /\ d \in BarrierType /\ Site(d) = Site(Blank)
        /\ d.base_width = WidthAt(Blank, coeff)
        /\ d.base_length = base_len(WidthAt(Blank, l))
        /\ d.base_thickness = base_thick(WidthAt(Blank, s))
        /\ d.key_depth = (6 * base_thick(WidthAt(Blank, s))) \div 5
    <3>1. s \in Nat /\ l \in Nat /\ coeff \in Nat /\ Blank \in BarrierType
      BY <1>0, <1>1
    <3>. HIDE DEF s, l
    <3>. QED BY <3>1, SettledFields
  <2>. HIDE DEF d
  <2>3. barrier = d
    BY <1>0, <1>1, <1>2, <2>1, <2>2, SameBarrier
  <2>. QED BY <2>3 DEF d
<1>. QED BY <1>3, <1>4, <1>5

\* Where each loop is, or has ended: its coefficient is one of its steps, and every
\* step before it failed.
AtSliding(c, b, x) ==
    x \in Steps(50, 5, x) /\ \A y \in Steps(50, 5, x - 1) : Slides(c, b, y)
AtOverturning(c, b, s, x) ==
    x \in Steps(s, 2, x) /\ \A y \in Steps(s, 2, x - 1) : Turns(c, b, s, y)
AtEccentricity(c, b, s, t, x) ==
    x \in Steps(t, 10, x) /\ \A y \in Steps(t, 10, x - 1) : Tilts(c, b, s, t, y)
AtSettlement(c, b, s, t, l, x) ==
    x \in Steps(l, 5, x) /\ \A y \in Steps(l, 5, x - 1) : Sinks(c, b, s, t, l, y)

LEMMA SlidingGoes ==
    ASSUME NEW c, NEW b, NEW x \in Nat,
           AtSliding(c, b, x)
    PROVE  /\ Slides(c, b, x) => AtSliding(c, b, x + 5)
           /\ ~Slides(c, b, x) =>
                 \A max \in Int : x <= max => SlidingEnd(c, b, max) = x
<1>0. 50 \in Int /\ 5 \in {2, 5, 10} /\ x \in Steps(50, 5, x)
  BY DEF AtSliding
<1>1. \A y \in Steps(50, 5, x - 1) : Slides(c, b, y)
  BY DEF AtSliding
<1>2. ASSUME Slides(c, b, x)
      PROVE  AtSliding(c, b, x + 5)
  <2>1. /\ x + 5 \in Steps(50, 5, x + 5)
        /\ \A y \in Steps(50, 5, (x + 5) - 1) :
              y = x \/ y \in Steps(50, 5, x - 1)
    BY <1>0 DEF Steps
  <2>. QED BY <1>1, <1>2, <2>1, Zenon DEF AtSliding
<1>3. ASSUME ~Slides(c, b, x), NEW max \in Int, x <= max
      PROVE  SlidingEnd(c, b, max) = x
  <2>1. /\ x \in Steps(50, 5, max)
        /\ \A y \in Steps(50, 5, max) :
              x = y \/ x \in Steps(50, 5, y - 1) \/ y \in Steps(50, 5, x - 1)
    BY <1>0, <1>3 DEF Steps
  <2>. QED BY <1>1, <1>3, <2>1 DEF SlidingEnd, FirstOf
<1>. QED BY <1>2, <1>3

LEMMA OverturningGoes ==
    ASSUME NEW c, NEW b, NEW s \in Nat, NEW x \in Nat,
           AtOverturning(c, b, s, x)
    PROVE  /\ Turns(c, b, s, x) => AtOverturning(c, b, s, x + 2)
           /\ ~Turns(c, b, s, x) =>
                 \A max \in Int : x <= max => OverturningEnd(c, b, s, max) = x
<1>0. s \in Int /\ 2 \in {2, 5, 10} /\ x \in Steps(s, 2, x)
  BY DEF AtOverturning
<1>1. \A y \in Steps(s, 2, x - 1) : Turns(c, b, s, y)
  BY DEF AtOverturning
<1>2. ASSUME Turns(c, b, s, x)
      PROVE  AtOverturning(c, b, s, x + 2)
  <2>1. /\ x + 2 \in Steps(s, 2, x + 2)
        /\ \A y \in Steps(s, 2, (x + 2) - 1) :
              y = x \/ y \in Steps(s, 2, x - 1)
    BY <1>0 DEF Steps
  <2>. QED BY <1>1, <1>2, <2>1, Zenon DEF AtOverturning
<1>3. ASSUME ~Turns(c, b, s, x), NEW max \in Int, x <= max
      PROVE  OverturningEnd(c, b, s, max) = x
  <2>1. /\ x \in Steps(s, 2, max)
        /\ \A y \in Steps(s, 2, max) :
              x = y \/ x \in Steps(s, 2, y - 1) \/ y \in Steps(s, 2, x - 1)
    BY <1>0, <1>3 DEF Steps
  <2>. QED BY <1>1, <1>3, <2>1 DEF OverturningEnd, FirstOf
<1>. QED BY <1>2, <1>3

LEMMA EccentricityGoes ==
    ASSUME NEW c, NEW b, NEW s \in Nat, NEW t \in Nat, NEW x \in Nat,
           AtEccentricity(c, b, s, t, x)
    PROVE  /\ Tilts(c, b, s, t, x) => AtEccentricity(c, b, s, t, x + 10)
           /\ ~Tilts(c, b, s, t, x) =>
                 \A max \in Int : x <= max => EccentricityEnd(c, b, s, t, max) = x
<1>0. t \in Int /\ 10 \in {2, 5, 10} /\ x \in Steps(t, 10, x)
  BY DEF AtEccentricity
<1>1. \A y \in Steps(t, 10, x - 1) : Tilts(c, b, s, t, y)
  BY DEF AtEccentricity
<1>2. ASSUME Tilts(c, b, s, t, x)
      PROVE  AtEccentricity(c, b, s, t, x + 10)
  <2>1. /\ x + 10 \in Steps(t, 10, x + 10)
        /\ \A y \in Steps(t, 10, (x + 10) - 1) :
              y = x \/ y \in Steps(t, 10, x - 1)
    BY <1>0 DEF Steps
  <2>. QED BY <1>1, <1>2, <2>1, Zenon DEF AtEccentricity
<1>3. ASSUME ~Tilts(c, b, s, t, x), NEW max \in Int, x <= max
      PROVE  EccentricityEnd(c, b, s, t, max) = x
  <2>1. /\ x \in Steps(t, 10, max)
        /\ \A y \in Steps(t, 10, max) :
              x = y \/ x \in Steps(t, 10, y - 1) \/ y \in Steps(t, 10, x - 1)
    BY <1>0, <1>3 DEF Steps
  <2>. QED BY <1>1, <1>3, <2>1 DEF EccentricityEnd, FirstOf
<1>. QED BY <1>2, <1>3

LEMMA SettlementGoes ==
    ASSUME NEW c, NEW b, NEW s \in Nat, NEW t \in Nat, NEW l \in Nat, NEW x \in Nat,
           AtSettlement(c, b, s, t, l, x)
    PROVE  /\ Sinks(c, b, s, t, l, x) => AtSettlement(c, b, s, t, l, x + 5)
           /\ ~Sinks(c, b, s, t, l, x) =>
                 \A max \in Int : x <= max => SettlementEnd(c, b, s, t, l, max) = x
<1>0. l \in Int /\ 5 \in {2, 5, 10} /\ x \in Steps(l, 5, x)
  BY DEF AtSettlement
<1>1. \A y \in Steps(l, 5, x - 1) : Sinks(c, b, s, t, l, y)
  BY DEF AtSettlement
<1>2. ASSUME Sinks(c, b, s, t, l, x)
      PROVE  AtSettlement(c, b, s, t, l, x + 5)
  <2>1. /\ x + 5 \in Steps(l, 5, x + 5)
        /\ \A y \in Steps(l, 5, (x + 5) - 1) :
              y = x \/ y \in Steps(l, 5, x - 1)
    BY <1>0 DEF Steps
  <2>. QED BY <1>1, <1>2, <2>1, Zenon DEF AtSettlement
<1>3. ASSUME ~Sinks(c, b, s, t, l, x), NEW max \in Int, x <= max
      PROVE  SettlementEnd(c, b, s, t, l, max) = x
  <2>1. /\ x \in Steps(l, 5, max)
        /\ \A y \in Steps(l, 5, max) :
              x = y \/ x \in Steps(l, 5, y - 1) \/ y \in Steps(l, 5, x - 1)
    BY <1>0, <1>3 DEF Steps
  <2>. QED BY <1>1, <1>3, <2>1 DEF SettlementEnd, FirstOf
<1>. QED BY <1>2, <1>3

SlidingSearch ==
    /\ pc = "sliding" => AtSliding(constants, Blank, coeff)
    /\ pc \notin {"design", "sliding"} =>
          /\ AtSliding(constants, Blank, passedAt["sliding"])
          /\ ~Slides(constants, Blank, passedAt["sliding"])

OverturningSearch ==
    LET s == passedAt["sliding"]
        t == passedAt["overturning"]
    IN  /\ pc = "overturning" => AtOverturning(constants, Blank, s, coeff)
        /\ pc \in {"eccentricity", "settlement", "written"} =>
              AtOverturning(constants, Blank, s, t) /\ ~Turns(constants, Blank, s, t)

EccentricitySearch ==
    LET s == passedAt["sliding"]
        t == passedAt["overturning"]
        l == passedAt["eccentricity"]
    IN  /\ pc = "eccentricity" =>
              /\ AtEccentricity(constants, Blank, s, t, coeff)
              /\ k = Ecentricity(constants, Lifted(Blank, s, t, coeff))
        /\ pc \in {"settlement", "written"} =>
              /\ AtEccentricity(constants, Blank, s, t, l)
              /\ ~Tilts(constants, Blank, s, t, l)
              /\ k = Ecentricity(constants, Lifted(Blank, s, t, l))

SettlementSearch ==
    LET s == passedAt["sliding"]
        t == passedAt["overturning"]
        l == passedAt["eccentricity"]
    IN  /\ pc \in {"settlement", "written"} => AtSettlement(constants, Blank, s, t, l, coeff)
        /\ pc = "written" => ~Sinks(constants, Blank, s, t, l, coeff)

Search == SlidingSearch /\ OverturningSearch /\ EccentricitySearch /\ SettlementSearch

\* One more try of each loop, and what a loop that ends hands to the next one.
LEMMA SearchStep ==
    ASSUME TypeOK, TypeOK', Proportions, History, Search, [Next]_vars
    PROVE  Search'
<1>0. /\ barrier \in BarrierType /\ barrier' \in BarrierType
      /\ coeff \in Nat /\ passedAt \in [Checks -> Nat]
      /\ Blank' = Blank /\ constants' = constants
  BY SiteStep, UnfootedSame, MaxCoeffAssumption DEF TypeOK, Blank
<1>. DEFINE c == constants
            u == Blank
            s == passedAt["sliding"]
            t == passedAt["overturning"]
            l == passedAt["eccentricity"]
<1>t. s \in Nat /\ t \in Nat /\ l \in Nat
  BY <1>0 DEF Checks
<1>b. /\ pc = "sliding" => barrier = Slid(u, coeff)
      /\ pc \in {"overturning", "eccentricity"} => barrier = Turned(u, s, coeff)
      /\ pc \in {"settlement", "written"} => barrier = Settled(u, s, l, coeff)
  BY FootingTried
<1>i. SlidingSearch /\ OverturningSearch /\ EccentricitySearch /\ SettlementSearch
  BY DEF Search
<1>1. CASE Design
  <2>1. coeff' = 50 /\ pc' = "sliding"
    BY <1>1 DEF Design, History
  <2>2. AtSliding(c, u, 50)
    BY StepsStart DEF AtSliding
  <2>. QED BY <1>0, <2>1, <2>2
         DEF Search, SlidingSearch, OverturningSearch, EccentricitySearch, SettlementSearch
<1>2. CASE WidenAgainstSliding
  <2>1. pc = "sliding" /\ pc' = "sliding" /\ coeff' = coeff + 5 /\ Slides(c, u, coeff)
    BY <1>2, <1>b DEF WidenAgainstSliding, Widen, Slides
  <2>2. AtSliding(c, u, coeff)
    BY <1>i, <2>1 DEF SlidingSearch
  <2>3. AtSliding(c, u, coeff + 5)
    BY <1>0, <1>t, <2>1, <2>2, SlidingGoes
  <2>. QED BY <1>0, <2>1, <2>3
         DEF Search, SlidingSearch, OverturningSearch, EccentricitySearch, SettlementSearch
<1>3. CASE FinishSliding
  <2>1. pc = "sliding" /\ pc' = "overturning" /\ coeff' = coeff /\ ~Slides(c, u, coeff)
    BY <1>3, <1>b DEF FinishSliding, Pass, Slides
  <2>2. passedAt'["sliding"] = coeff
    BY <1>0, <1>3 DEF FinishSliding, Pass, Checks
  <2>3. AtSliding(c, u, coeff)
    BY <1>i, <2>1 DEF SlidingSearch
  <2>4. AtOverturning(c, u, coeff, coeff)
    BY <1>0, StepsStart DEF AtOverturning
  <2>. QED BY <1>0, <2>1, <2>2, <2>3, <2>4
         DEF Search, SlidingSearch, OverturningSearch, EccentricitySearch, SettlementSearch
<1>4. CASE WidenAgainstOverturning
  <2>1. /\ pc = "overturning" /\ pc' = "overturning" /\ coeff' = coeff + 2
        /\ passedAt' = passedAt /\ Turns(c, u, s, coeff)
    BY <1>4, <1>b DEF WidenAgainstOverturning, Widen, Turns
  <2>2. AtOverturning(c, u, s, coeff)
    BY <1>i, <2>1 DEF OverturningSearch
  <2>3. AtOverturning(c, u, s, coeff + 2)
    BY <1>0, <1>t, <2>1, <2>2, OverturningGoes
  <2>. QED BY <1>0, <1>i, <2>1, <2>3
         DEF Search, SlidingSearch, OverturningSearch, EccentricitySearch, SettlementSearch
<1>5. CASE FinishOverturning
  <2>1. /\ pc = "overturning" /\ pc' = "eccentricity" /\ coeff' = coeff
        /\ ~Turns(c, u, s, coeff) /\ k' = Ecentricity(c, Turned(u, s, coeff))
    BY <1>5, <1>b DEF FinishOverturning, Pass, Turns
  <2>2. passedAt'["sliding"] = s /\ passedAt'["overturning"] = coeff
    BY <1>0, <1>5 DEF FinishOverturning, Pass, Checks
  <2>3. AtOverturning(c, u, s, coeff)
    BY <1>i, <2>1 DEF OverturningSearch
  <2>4. AtEccentricity(c, u, s, coeff, coeff)
    BY <1>0, StepsStart DEF AtEccentricity
  <2>5. Lifted(u, s, coeff, coeff) = Turned(u, s, coeff)
    BY DEF Lifted
  <2>. QED BY <1>0, <1>i, <2>1, <2>2, <2>3, <2>4, <2>5
         DEF Search, SlidingSearch, OverturningSearch, EccentricitySearch, SettlementSearch
<1>6. CASE WidenAgainstEccentricity
  <2>1. /\ pc = "eccentricity" /\ pc' = "eccentricity" /\ coeff' = coeff + 10
        /\ passedAt' = passedAt /\ k' = Ecentricity(c, Widened(Turned(u, s, coeff), coeff + 10))
        /\ OffMiddleThird(k, Turned(u, s, coeff))
    BY <1>6, <1>b DEF WidenAgainstEccentricity, Widen
  <2>2. AtEccentricity(c, u, s, t, coeff) /\ Tilts(c, u, s, t, coeff)
    BY <1>i, <2>1 DEF EccentricitySearch, Tilts
  <2>3. AtEccentricity(c, u, s, t, coeff + 10)
    BY <1>0, <1>t, <2>1, <2>2, EccentricityGoes
  <2>4. k' = Ecentricity(c, Lifted(u, s, t, coeff + 10))
    <3>1. coeff + 10 # t /\ (coeff + 10) - 10 = coeff
      BY <1>0, <1>t, <2>2 DEF AtEccentricity, Steps
    <3>. QED BY <2>1, <3>1 DEF Lifted
  <2>. QED BY <1>0, <1>i, <2>1, <2>3, <2>4
         DEF Search, SlidingSearch, OverturningSearch, EccentricitySearch, SettlementSearch
<1>7. CASE FinishEccentricity
  <2>1. /\ pc = "eccentricity" /\ pc' = "settlement" /\ coeff' = coeff /\ k' = k
        /\ ~OffMiddleThird(k, Turned(u, s, coeff))
    BY <1>7, <1>b DEF FinishEccentricity, Pass
  <2>2. /\ passedAt'["sliding"] = s /\ passedAt'["overturning"] = t
        /\ passedAt'["eccentricity"] = coeff
    BY <1>0, <1>7 DEF FinishEccentricity, Pass, Checks
  <2>3. /\ AtEccentricity(c, u, s, t, coeff)
        /\ k = Ecentricity(c, Lifted(u, s, t, coeff)) /\ ~Tilts(c, u, s, t, coeff)
    BY <1>i, <2>1 DEF EccentricitySearch, Tilts
  <2>4. AtSettlement(c, u, s, t, coeff, coeff)
    BY <1>0, StepsStart DEF AtSettlement
  <2>. QED BY <1>0, <1>i, <2>1, <2>2, <2>3, <2>4
         DEF Search, SlidingSearch, OverturningSearch, EccentricitySearch, SettlementSearch
<1>8. CASE WidenAgainstSettlement
  <2>1. /\ pc = "settlement" /\ pc' = "settlement" /\ coeff' = coeff + 5
        /\ passedAt' = passedAt /\ k' = k
        /\ OverPressed(c, Settled(u, s, l, coeff), k)
    BY <1>8, <1>b DEF WidenAgainstSettlement, Widen
  <2>2. AtSettlement(c, u, s, t, l, coeff) /\ Sinks(c, u, s, t, l, coeff)
    BY <1>i, <2>1 DEF EccentricitySearch, SettlementSearch, Sinks
  <2>3. AtSettlement(c, u, s, t, l, coeff + 5)
    BY <1>0, <1>t, <2>1, <2>2, SettlementGoes
  <2>. QED BY <1>0, <1>i, <2>1, <2>3
         DEF Search, SlidingSearch, OverturningSearch, EccentricitySearch, SettlementSearch
<1>9. CASE FinishSettlement
  <2>1. /\ pc = "settlement" /\ pc' = "written" /\ coeff' = coeff /\ k' = k
        /\ ~OverPressed(c, Settled(u, s, l, coeff), k)
    BY <1>9, <1>b DEF FinishSettlement, Pass
  <2>2. passedAt'["sliding"] = s /\ passedAt'["overturning"] = t /\ passedAt'["eccentricity"] = l
    BY <1>0, <1>9 DEF FinishSettlement, Pass, Checks
  <2>3. AtSettlement(c, u, s, t, l, coeff) /\ ~Sinks(c, u, s, t, l, coeff)
    BY <1>i, <2>1 DEF EccentricitySearch, SettlementSearch, Sinks
  <2>. QED BY <1>0, <1>i, <2>1, <2>2, <2>3
         DEF Search, SlidingSearch, OverturningSearch, EccentricitySearch, SettlementSearch
<1>10. CASE Written \/ UNCHANGED vars
  BY <1>10 DEF Written, vars, Blank, Search, SlidingSearch, OverturningSearch,
     EccentricitySearch, SettlementSearch
<1>. QED
  BY <1>1, <1>2, <1>3, <1>4, <1>5, <1>6, <1>7, <1>8, <1>9, <1>10 DEF Next

\* Over all sites and bounds, weak soils included, main's four loops compute what
\* FootingOf defines: check after check the least width, in the loop's own steps, that
\* passes, with the lengths, thickness and eccentricity left over from earlier widths.
THEOREM LoopsInClosedForm == Spec => []WritesLeastFooting
<1>1. Init => IInv /\ Search
  <2>1. Init => \A check \in Checks : passedAt[check] # coeff
    BY DEF Init, NotYet
  <2>2. Init => UnwidenedChecksStand
    BY <2>1 DEF UnwidenedChecksStand, Checks
  <2>3. Init => Search
    BY DEF Init, Search, SlidingSearch, OverturningSearch, EccentricitySearch, SettlementSearch
  <2>. QED BY <2>2, <2>3, TypeInit, ProportionsInit, HistoryInit DEF IInv
<1>2. IInv /\ Search /\ [Next]_vars => IInv' /\ Search'
  BY TypeStep, ProportionsStep, HistoryStep, ChecksStandStep, SearchStep DEF IInv
<1>3. IInv /\ Search => WritesLeastFooting
  <2>. SUFFICES ASSUME IInv, Search, csv # NoFile
                PROVE  csv = FootingOf(constants, Unfooted(barrier), coeff)
    BY DEF WritesLeastFooting
  <2>. DEFINE c == constants
              u == Blank
              s == passedAt["sliding"]
              t == passedAt["overturning"]
              l == passedAt["eccentricity"]
  <2>1. pc = "written" /\ csv = barrier
    BY DEF IInv, History
  <2>2. /\ coeff \in Nat /\ s \in Nat /\ t \in Nat /\ l \in Nat
        /\ s <= coeff /\ t <= coeff /\ l <= coeff
    BY <2>1, MaxCoeffAssumption DEF IInv, TypeOK, History, Pending, Checks
  <2>3. /\ AtSliding(c, u, s) /\ ~Slides(c, u, s)
        /\ AtOverturning(c, u, s, t) /\ ~Turns(c, u, s, t)
        /\ AtEccentricity(c, u, s, t, l) /\ ~Tilts(c, u, s, t, l)
        /\ AtSettlement(c, u, s, t, l, coeff) /\ ~Sinks(c, u, s, t, l, coeff)
    BY <2>1 DEF Search, SlidingSearch, OverturningSearch, EccentricitySearch, SettlementSearch
  <2>4. barrier = Settled(u, s, l, coeff)
    BY <2>1, FootingTried DEF IInv
  <2>. HIDE DEF c, u, s, t, l
  <2>5. SlidingEnd(c, u, coeff) = s
    BY <2>2, <2>3, SlidingGoes
  <2>6. OverturningEnd(c, u, s, coeff) = t
    BY <2>2, <2>3, OverturningGoes
  <2>7. EccentricityEnd(c, u, s, t, coeff) = l
    BY <2>2, <2>3, EccentricityGoes
  <2>8. SettlementEnd(c, u, s, t, l, coeff) = coeff
    BY <2>2, <2>3, SettlementGoes
  <2>9. FootingOf(c, u, coeff) = Settled(u, s, l, coeff)
    BY <2>5, <2>6, <2>7, <2>8 DEF FootingOf
  <2>. QED BY <2>1, <2>4, <2>9 DEF c, u, Blank
<1>. QED BY <1>1, <1>2, <1>3, PTL DEF Spec
=============================================================================
