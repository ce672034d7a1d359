-------------------------- MODULE PipelineSafetyProofs --------------------------
(***************************************************************************)
(* What Pipeline promises of its files and folders, proved for every set   *)
(* of scripts, every number of runs and of killed programs, and whatever   *)
(* was on disk before the first.  No property is inductive: a run that     *)
(* starts must be known to have nothing open, what julia has written and   *)
(* barrier.py has read so far must be known to be of this run.             *)
(***************************************************************************)
EXTENDS PipelineProofs

\* What is open is the file, or the solid, that step is at.
OpenInv ==
    open =>
        \/ pc = "julia" /\ step <= job.reach /\ \E f \in Files : Rank[f] = step
        \/ pc = "freecad" /\ \E s \in Solids : Export[s] = step

\* What julia has behind it is its own and all there.
JuliaInv ==
    pc = "julia" =>
        /\ step <= job.reach + 1
        /\ \A f \in Files : Rank[f] < step => disk[f] = [by |-> cur, whole |-> TRUE]
        /\ \A l \in Logs : Rank[l] < step => cur \in logs[l]

\* Any two files age in the order they are written in, the logs with them.
AgeInv ==
    /\ \A f, g \in Files : Rank[f] < Rank[g] => disk[f].by >= disk[g].by
    /\ \A l \in Logs : \A g \in logs[l] : \A f \in Files : Rank[f] < Rank[l] => disk[f].by >= g
    /\ \A l, m \in Logs : Rank[l] < Rank[m] => logs[m] \subseteq logs[l]

\* A file whose function has been called.
Read(f) == \E s \in Solids : f \in ReadFor[s] /\ (Export[s] < step \/ (Export[s] = step /\ open))

\* What barrier.py has read and drawn, if its run was not killed, is of this run, as far
\* as the run got its files written.
DrawnInv ==
    pc = "freecad" /\ cur \notin killed =>
        /\ \A f \in Files : Rank[f] <= job.reach => disk[f] = [by |-> cur, whole |-> TRUE]
        /\ step > 1 /\ job.reach >= 3 => locals["barrier"] = cur
        /\ step > 1 /\ job.reach >= 4 =>
               /\ job.height \in DOMAIN folder
               /\ \A f \in Inputs : Read(f) => locals[f] = cur
               /\ \A s \in Solids : Export[s] < step => folder[job.height][s] = {cur}

\* A file that is not whole is the one julia has open, or its run was killed; no run
\* leaves two of them.  The run of julia at hand was not killed yet.
HalfInv ==
    /\ pc = "julia" => cur \notin killed
    /\ \A f \in Files : ~disk[f].whole =>
           \/ pc = "julia" /\ open /\ Rank[f] = step /\ disk[f].by = cur
           \/ disk[f].by \in killed
    /\ \A f, g \in Files :
           ~disk[f].whole /\ ~disk[g].whole /\ disk[f].by = disk[g].by => f = g

\* What barrier.py has behind it is drawn.
MadeInv ==
    pc = "freecad" /\ step > 1 =>
        /\ Here \in DOMAIN folder
        /\ \A s \in Solids : Export[s] < step => folder[Here][s] # {}

\* Without a kill only the drawing that is going on has solids missing.
WholeInv ==
    killed = {} =>
        \A h \in DOMAIN folder : \A s \in Solids :
            folder[h][s] = {} => pc = "freecad" /\ step > 1 /\ h = Here /\ Export[s] >= step

IInv == TypeOK /\ OpenInv /\ JuliaInv /\ AgeInv /\ DrawnInv /\ HalfInv /\ MadeInv /\ WholeInv

----------------------------------------------------------------------------
(***************************************************************************)
(* What the steps do.                                                      *)
(***************************************************************************)

\* The numbers, and what the types say of the files and folders.
LEMMA Known ==
    ASSUME TypeOK
    PROVE  /\ cur \in Nat /\ step \in 1 .. 9
           /\ disk \in [Files -> [by : 0 .. cur, whole : BOOLEAN]]
           /\ logs \in [Logs -> SUBSET (0 .. cur)]
           /\ locals \in [Inputs -> 0 .. cur]
           /\ DOMAIN folder \subseteq 1 .. 127
           /\ \A h \in DOMAIN folder : folder[h] \in [Solids -> SUBSET (0 .. cur)]
           /\ killed \subseteq 0 .. cur
           /\ pc # "idle" => job \in JobType /\ job.reach \in 0 .. 8 /\ cur > 0
BY Heights, Jobs DEF TypeOK, Runs

\* A file is opened or closed: it is of this run now, the others are as they were.
LEMMA FileWritten ==
    ASSUME TypeOK, NEW f \in Files, OpenFile(f) \/ CloseFile(f)
    PROVE  /\ pc = "julia" /\ pc' = "julia" /\ Rank[f] = step
           /\ disk'[f].by = cur
           /\ \A g \in Files : g # f => disk'[g] = disk[g]
           /\ cur' = cur /\ job' = job /\ UNCHANGED <<runs, logs, locals, folder, killed>>
<1>1. PICK w \in BOOLEAN : disk' = [disk EXCEPT ![f] = [by |-> cur, whole |-> w]]
  BY DEF OpenFile, CloseFile
<1>2. /\ pc = "julia" /\ pc' = "julia" /\ Rank[f] = step
      /\ UNCHANGED <<runs, logs, locals, folder, killed>>
  BY DEF OpenFile, CloseFile
<1>3. disk'[f].by = cur /\ \A g \in Files : g # f => disk'[g] = disk[g]
  BY <1>1, Known
<1>. QED BY <1>2, <1>3, SameRuns

\* A line is appended.
LEMMA LineAppended ==
    ASSUME TypeOK, NEW l \in Logs, AppendLine(l)
    PROVE  /\ pc = "julia" /\ pc' = "julia" /\ Rank[l] = step /\ step <= job.reach
           /\ step' = step + 1 /\ open' = open
           /\ logs'[l] = logs[l] \cup {cur}
           /\ \A m \in Logs : m # l => logs'[m] = logs[m]
           /\ cur' = cur /\ job' = job /\ UNCHANGED <<runs, disk, locals, folder, killed>>
<1>1. logs' = [logs EXCEPT ![l] = @ \cup {cur}]
  BY DEF AppendLine
<1>2. logs'[l] = logs[l] \cup {cur} /\ \A m \in Logs : m # l => logs'[m] = logs[m]
  BY <1>1, Known
<1>. QED BY <1>2, SameRuns DEF AppendLine

\* A solid is begun or ended: only this one, in the folder of this drawing, changes.
LEMMA SolidWritten ==
    ASSUME TypeOK, NEW s \in Solids, BeginSolid(s) \/ FinishSolid(s)
    PROVE  /\ pc = "freecad" /\ pc' = "freecad" /\ Export[s] = step
           /\ DOMAIN folder' = DOMAIN folder
           /\ \A h \in DOMAIN folder : \A t \in Solids :
                  h # Here \/ t # s => folder'[h][t] = folder[h][t]
           /\ \A h \in DOMAIN folder : h # Here => folder'[h] = folder[h]
           /\ FinishSolid(s) /\ Here \in DOMAIN folder =>
                  folder'[Here][s] = {locals[f] : f \in MadeFrom[s]}
           /\ cur' = cur /\ job' = job /\ Here' = Here /\ UNCHANGED <<runs, disk, logs, killed>>
<1>1. PICK x : /\ folder' = [folder EXCEPT ![Here][s] = x]
               /\ FinishSolid(s) => x = {locals[f] : f \in MadeFrom[s]}
  <2>1. CASE BeginSolid(s)
    <3>1. folder' = [folder EXCEPT ![Here][s] = {}] /\ ~FinishSolid(s)
      BY <2>1 DEF BeginSolid, FinishSolid
    <3>. QED BY <3>1
  <2>2. CASE FinishSolid(s)
    BY <2>2 DEF FinishSolid
  <2>. QED BY <2>1, <2>2
<1>2. /\ pc = "freecad" /\ pc' = "freecad" /\ Export[s] = step
      /\ UNCHANGED <<runs, disk, logs, killed>>
  BY DEF BeginSolid, FinishSolid
<1>3. locals'["barrier"] = locals["barrier"]
  BY Known DEF BeginSolid, FinishSolid, Inputs, ReadFor, Solids
<1>4. Here' = Here
  BY <1>2, <1>3 DEF Here, HeightOf
<1>5. DOMAIN folder' = DOMAIN folder
  BY <1>1
<1>6. \A h \in DOMAIN folder : h # Here => folder'[h] = folder[h]
  BY <1>1
<1>7. Here \in DOMAIN folder => folder'[Here] = [folder[Here] EXCEPT ![s] = x]
  BY <1>1
<1>8. Here \in DOMAIN folder => folder[Here] \in [Solids -> SUBSET (0 .. cur)]
  BY Known
<1>. QED BY <1>1, <1>2, <1>4, <1>5, <1>6, <1>7, <1>8, SameRuns

\* barrier.py starts: it has read the footing, and its folder is there.
LEMMA BarrierRead ==
    ASSUME TypeOK, ReadBarrier
    PROVE  /\ pc = "freecad" /\ pc' = "freecad" /\ step = 1 /\ step' = 2
           /\ locals' = [locals EXCEPT !["barrier"] = disk["barrier"].by]
           /\ locals'["barrier"] = disk["barrier"].by
           /\ Here' = HeightOf(disk["barrier"].by)
           /\ DOMAIN folder' = DOMAIN folder \cup {Here'}
           /\ \A h \in DOMAIN folder : folder'[h] = folder[h]
           /\ cur' = cur /\ job' = job /\ UNCHANGED <<runs, open, disk, logs, killed>>
<1>1. /\ pc = "freecad" /\ pc' = "freecad" /\ step = 1 /\ step' = 2
      /\ locals' = [locals EXCEPT !["barrier"] = disk["barrier"].by]
      /\ UNCHANGED <<runs, open, disk, logs, killed>>
      /\ folder' = [x \in DOMAIN folder \cup {HeightOf(disk["barrier"].by)} |->
                       IF x \in DOMAIN folder THEN folder[x] ELSE Undrawn]
  BY DEF ReadBarrier
<1>2. locals'["barrier"] = disk["barrier"].by
  BY <1>1, Known DEF Inputs
<1>3. Here' = HeightOf(disk["barrier"].by)
  BY <1>1, <1>2 DEF Here, HeightOf
<1>. QED BY <1>1, <1>2, <1>3, SameRuns

\* The last two steps of a drawing, and a program that goes.
LEMMA ProgramGoes ==
    ASSUME TypeOK, EndFreecad \/ EmptyFile \/ NoBarrier \/ Kill
    PROVE  /\ pc # "idle" /\ pc' \in {"idle", "freecad"} /\ open' = FALSE /\ step' = 1
           /\ pc' = "freecad" => killed' = killed \cup {cur}
           /\ killed' # killed => killed' = killed \cup {cur}
           /\ Kill => killed' # {}
           /\ cur' = cur /\ job' = job /\ UNCHANGED <<runs, disk, logs, folder>>
<1>1. Gone
  BY DEF EndFreecad, EmptyFile, NoBarrier, Kill
<1>2. UNCHANGED <<runs, disk, logs, folder>> /\ open' = FALSE /\ step' = 1
  BY <1>1 DEF Gone
<1>3. cur' = cur /\ job' = job
  BY <1>2, SameRuns
<1>4. CASE EndFreecad \/ EmptyFile \/ NoBarrier
  <2>1. pc = "freecad" /\ pc' = "idle" /\ killed' = killed
    BY <1>4 DEF EndFreecad, EmptyFile, NoBarrier
  <2>2. Kill => killed' # {}
    BY DEF Kill
  <2>. QED BY <1>2, <1>3, <2>1, <2>2
<1>5. CASE Kill
  <2>1. pc # "idle" /\ killed' = killed \cup {cur} /\ pc' \in {"idle", "freecad"}
    BY <1>5 DEF Kill
  <2>. QED BY <1>2, <1>3, <2>1
<1>. QED BY <1>4, <1>5

----------------------------------------------------------------------------
(***************************************************************************)
(* Each part of the invariant holds at first and survives every step.      *)
(***************************************************************************)

LEMMA InitInv == Init => IInv
<1>. SUFFICES ASSUME Init PROVE IInv
  OBVIOUS
<1>1. TypeOK
  BY InitTypes
<1>2. OpenInv
  BY DEF Init, OpenInv
<1>3. JuliaInv /\ DrawnInv
  BY DEF Init, JuliaInv, DrawnInv
<1>4. AgeInv
  <2>1. \A f \in Files : disk[f].by = 0
    BY DEF Init
  <2>2. \A l \in Logs : logs[l] = {}
    BY DEF Init
  <2>. QED BY <2>1, <2>2 DEF AgeInv
<1>5. HalfInv
  BY DEF Init, HalfInv
<1>6. MadeInv
  BY DEF Init, MadeInv
<1>7. WholeInv
  <2>1. \A h \in DOMAIN folder : \A s \in Solids : folder[h][s] = {0}
    BY DEF Init
  <2>. QED BY <2>1 DEF WholeInv
<1>. QED BY <1>1, <1>2, <1>3, <1>4, <1>5, <1>6, <1>7 DEF IInv

LEMMA OpenKept ==
    ASSUME IInv, Next
    PROVE  OpenInv'
<1>. USE DEF IInv
<1>1. ASSUME NEW script \in Scripts, StartScript(script)
      PROVE  OpenInv'
  BY <1>1 DEF StartScript, OpenInv
<1>2. CASE StartJulia
  BY <1>2 DEF StartJulia, OpenInv
<1>3. ASSUME NEW f \in Files, OpenFile(f)
      PROVE  OpenInv'
  BY <1>3, FileWritten DEF OpenFile, OpenInv
<1>4. ASSUME NEW f \in Files, CloseFile(f)
      PROVE  OpenInv'
  BY <1>4 DEF CloseFile, OpenInv
<1>5. ASSUME NEW l \in Logs, AppendLine(l)
      PROVE  OpenInv'
  <2>1. pc = "julia" /\ Rank[l] = step
    BY <1>5, LineAppended
  <2>2. ~open
    BY <2>1, RanksDiffer DEF OpenInv
  <2>3. open' = open
    BY <1>5, LineAppended
  <2>. QED BY <2>2, <2>3, Zenon DEF OpenInv
<1>6. CASE EndJulia
  <2>1. pc = "julia" /\ step > job.reach /\ open' = open
    BY <1>6 DEF EndJulia
  <2>2. job.reach \in 0 .. 8 /\ step \in 1 .. 9
    BY <2>1, Known
  <2>. QED BY <2>1, <2>2 DEF OpenInv
<1>7. CASE ReadBarrier
  <2>1. pc = "freecad" /\ step = 1 /\ open' = open
    BY <1>7, BarrierRead
  <2>. QED BY <2>1, Ranks DEF OpenInv
<1>8. ASSUME NEW s \in Solids, BeginSolid(s) \/ FinishSolid(s)
      PROVE  OpenInv'
  BY <1>8 DEF BeginSolid, FinishSolid, OpenInv
<1>9. CASE ReadScrews
  <2>1. pc = "freecad" /\ step = 7 /\ open' = open
    BY <1>9 DEF ReadScrews, ReadingScrews
  <2>. QED BY <2>1, Ranks DEF OpenInv
<1>10. CASE EndFreecad \/ EmptyFile \/ NoBarrier \/ Kill
  BY <1>10, ProgramGoes DEF OpenInv
<1>. QED BY <1>1, <1>2, <1>3, <1>4, <1>5, <1>6, <1>7, <1>8, <1>9, <1>10
     DEF Next, ProgramSteps, JuliaSteps, FreecadSteps

LEMMA JuliaKept ==
    ASSUME IInv, Next
    PROVE  JuliaInv'
<1>. USE DEF IInv
<1>1. CASE pc' # "julia"
  BY <1>1 DEF JuliaInv
<1>2. ASSUME NEW script \in Scripts, StartScript(script)
      PROVE  JuliaInv'
  BY <1>2 DEF StartScript, JuliaInv
<1>3. CASE StartJulia
  <2>1. pc' = "julia" /\ step' = 1
    BY <1>3 DEF StartJulia
  <2>2. runs' \in Seq(JobType) /\ runs' # <<>>
    BY <2>1, NextTypes DEF TypeOK
  <2>3. job' \in JobType
    BY <2>2 DEF job, cur
  <2>. QED BY <2>1, <2>3, Jobs, Ranks DEF JuliaInv
<1>4. ASSUME NEW f \in Files, OpenFile(f)
      PROVE  JuliaInv'
  <2>1. step' = step /\ step <= job.reach
    BY <1>4 DEF OpenFile
  <2>2. \A g \in Files : Rank[g] < step => g # f
    BY <1>4, FileWritten, Known
  <2>. QED BY <1>4, <2>1, <2>2, FileWritten DEF JuliaInv
<1>5. ASSUME NEW f \in Files, CloseFile(f)
      PROVE  JuliaInv'
  <2>1. step' = step + 1 /\ open /\ disk' = [disk EXCEPT ![f] = [by |-> cur, whole |-> TRUE]]
    BY <1>5 DEF CloseFile
  <2>2. step <= job.reach /\ step \in 1 .. 9 /\ job.reach \in 0 .. 8 /\ Rank[f] = step
    BY <1>5, <2>1, FileWritten, Known DEF OpenInv
  <2>3. disk'[f] = [by |-> cur, whole |-> TRUE]
    BY <2>1, Known
  <2>4. \A g \in Files : Rank[g] < step + 1 => g = f \/ Rank[g] < step
    BY <2>2, Ranks, RanksDiffer
  <2>5. \A l \in Logs : Rank[l] < step + 1 => Rank[l] < step
    BY <2>2, Ranks, RanksDiffer
  <2>6. UNCHANGED logs /\ cur' = cur /\ job' = job /\ \A g \in Files : g # f => disk'[g] = disk[g]
    BY <1>5, FileWritten
  <2>7. pc = "julia"
    BY <1>5 DEF CloseFile
  <2>8. \A g \in Files : Rank[g] < step + 1 => disk'[g] = [by |-> cur, whole |-> TRUE]
    BY <2>3, <2>4, <2>6, <2>7 DEF JuliaInv
  <2>9. \A l \in Logs : Rank[l] < step + 1 => cur \in logs[l]
    BY <2>5, <2>7 DEF JuliaInv
  <2>10. step' <= job'.reach + 1
    BY <2>1, <2>2, <2>6
  <2>11. \A g \in Files : Rank[g] < step' => disk'[g] = [by |-> cur', whole |-> TRUE]
    BY <2>1, <2>6, <2>8
  <2>12. \A l \in Logs : Rank[l] < step' => cur' \in logs'[l]
    BY <2>1, <2>6, <2>9
  <2>. QED BY <2>10, <2>11, <2>12, Zenon DEF JuliaInv
<1>6. ASSUME NEW l \in Logs, AppendLine(l)
      PROVE  JuliaInv'
  <2>1. step \in 1 .. 9 /\ job.reach \in 0 .. 8
    BY <1>6, LineAppended, Known
  <2>2. \A g \in Files : Rank[g] < step + 1 => Rank[g] < step
    BY <1>6, <2>1, LineAppended, Ranks, RanksDiffer
  <2>3. \A m \in Logs : Rank[m] < step + 1 => m = l \/ Rank[m] < step
    BY <1>6, <2>1, LineAppended, Ranks, RanksDiffer
  <2>4. \A m \in Logs : Rank[m] < step + 1 => cur \in logs'[m]
    BY <1>6, <2>3, LineAppended DEF JuliaInv
  <2>5. UNCHANGED disk /\ cur' = cur /\ job' = job /\ pc = "julia" /\ step' = step + 1 /\ step <= job.reach
    BY <1>6, LineAppended
  <2>6. \A g \in Files : Rank[g] < step + 1 => disk[g] = [by |-> cur, whole |-> TRUE]
    BY <2>2, <2>5 DEF JuliaInv
  <2>7. step' <= job'.reach + 1
    BY <2>1, <2>5
  <2>8. \A g \in Files : Rank[g] < step' => disk'[g] = [by |-> cur', whole |-> TRUE]
    BY <2>5, <2>6
  <2>9. \A m \in Logs : Rank[m] < step' => cur' \in logs'[m]
    BY <2>4, <2>5
  <2>. QED BY <2>7, <2>8, <2>9, Zenon DEF JuliaInv
<1>7. CASE EndJulia
  BY <1>7 DEF EndJulia, JuliaInv
<1>8. CASE FreecadSteps
  BY <1>8 DEF FreecadSteps, ReadBarrier, NoBarrier, BeginSolid, FinishSolid, ReadScrews,
         EndFreecad, EmptyFile, JuliaInv
<1>9. CASE Kill
  BY <1>9, ProgramGoes DEF JuliaInv
<1>. QED BY <1>2, <1>3, <1>4, <1>5, <1>6, <1>7, <1>8, <1>9
     DEF Next, ProgramSteps, JuliaSteps

LEMMA AgeKept ==
    ASSUME IInv, Next
    PROVE  AgeInv'
<1>. USE DEF IInv
<1>1. CASE UNCHANGED <<disk, logs>>
  BY <1>1 DEF AgeInv
<1>2. ASSUME NEW f \in Files, OpenFile(f) \/ CloseFile(f)
      PROVE  AgeInv'
  <2>1. /\ pc = "julia" /\ disk'[f].by = cur /\ logs' = logs /\ Rank[f] = step
        /\ \A g \in Files : g # f => disk'[g] = disk[g]
    BY <1>2, FileWritten
  <2>2. \A g \in Files : Rank[g] < step => disk[g].by = cur
    BY <2>1 DEF JuliaInv
  <2>3. \A g \in Files : disk[g].by \in 0 .. cur
    BY Known
  <2>4. \A l \in Logs : logs[l] \subseteq 0 .. cur
    BY Known
  <2>5. \A g, h \in Files : Rank[g] < Rank[h] => disk'[g].by >= disk'[h].by
    BY <2>1, <2>2, <2>3, Ranks, Known DEF AgeInv
  <2>6. \A l \in Logs : \A d \in logs[l] : \A g \in Files : Rank[g] < Rank[l] => disk'[g].by >= d
    BY <2>1, <2>4, Known DEF AgeInv
  <2>. QED BY <2>1, <2>5, <2>6 DEF AgeInv
<1>3. ASSUME NEW l \in Logs, AppendLine(l)
      PROVE  AgeInv'
  <2>1. /\ pc = "julia" /\ disk' = disk /\ Rank[l] = step
        /\ logs'[l] = logs[l] \cup {cur}
        /\ \A m \in Logs : m # l => logs'[m] = logs[m]
    BY <1>3, LineAppended
  <2>2. /\ \A g \in Files : Rank[g] < step => disk[g].by = cur
        /\ \A m \in Logs : Rank[m] < step => cur \in logs[m]
    BY <2>1 DEF JuliaInv
  <2>3. \A m \in Logs : \A d \in logs'[m] : \A g \in Files : Rank[g] < Rank[m] => disk[g].by >= d
    BY <2>1, <2>2, Known DEF AgeInv
  <2>4. \A m, n \in Logs : Rank[m] < Rank[n] => logs'[n] \subseteq logs'[m]
    BY <2>1, <2>2, Ranks DEF AgeInv
  <2>. QED BY <2>1, <2>3, <2>4 DEF AgeInv
<1>4. StartJulia \/ EndJulia \/ FreecadSteps \/ Kill \/ (\E script \in Scripts : StartScript(script))
          => UNCHANGED <<disk, logs>>
  BY DEF StartJulia, EndJulia, FreecadSteps, ReadBarrier, NoBarrier, BeginSolid, FinishSolid,
         ReadScrews, EndFreecad, EmptyFile, Gone, Kill, StartScript
<1>. QED BY <1>1, <1>2, <1>3, <1>4 DEF Next, ProgramSteps, JuliaSteps

\* What a run has drawn so far survives as long as julia does not write.
LEMMA DrawnKept ==
    ASSUME IInv, Next
    PROVE  DrawnInv'
<1>. USE DEF IInv
<1>1. CASE pc' # "freecad"
  BY <1>1 DEF DrawnInv
<1>2. CASE EndJulia
  <2>1. pc = "julia" /\ step > job.reach /\ step' = 1 /\ UNCHANGED <<runs, disk, locals, folder, killed>>
    BY <1>2 DEF EndJulia
  <2>2. cur' = cur /\ job' = job /\ job.reach \in 0 .. 8 /\ step \in 1 .. 9
    BY <2>1, SameRuns, Known
  <2>3. \A f \in Files : Rank[f] <= job.reach => Rank[f] < step
    BY <2>1, <2>2, Ranks
  <2>4. \A f \in Files : Rank[f] <= job.reach => disk[f] = [by |-> cur, whole |-> TRUE]
    BY <2>1, <2>3 DEF JuliaInv
  <2>5. ~(step' > 1)
    BY <2>1
  <2>. QED BY <2>1, <2>2, <2>4, <2>5, Zenon DEF DrawnInv
<1>3. CASE EndFreecad \/ EmptyFile \/ NoBarrier \/ Kill
  BY <1>3, ProgramGoes DEF DrawnInv
<1>4. CASE pc = "freecad" /\ cur \in killed /\ FreecadSteps
  <2>1. UNCHANGED <<runs, killed>>
    BY <1>4 DEF FreecadSteps, ReadBarrier, NoBarrier, BeginSolid, FinishSolid,
           ReadScrews, EndFreecad, EmptyFile, Gone
  <2>. QED BY <1>4, <2>1, SameRuns DEF DrawnInv
<1>5. CASE pc = "freecad" /\ cur \notin killed /\ ReadBarrier
  <2>1. /\ \A f \in Files : Rank[f] <= job.reach => disk[f] = [by |-> cur, whole |-> TRUE]
        /\ cur' = cur /\ job' = job /\ disk' = disk /\ step' = 2
    BY <1>5, BarrierRead DEF DrawnInv
  <2>2. job.reach >= 3 => locals'["barrier"] = cur
    BY <2>1, <1>5, BarrierRead DEF Files, Rank
  <2>3. job.reach >= 4 => job.height \in DOMAIN folder'
    <3>1. SUFFICES ASSUME job.reach >= 4 PROVE job.height \in DOMAIN folder'
      OBVIOUS
    <3>2. job.reach \in 0 .. 8 /\ HeightOf(cur) = job.height
      BY <1>5, Known, Heights
    <3>3. disk["barrier"].by = cur
      BY <2>1, <3>1, <3>2 DEF Files, Rank
    <3>. QED BY <1>5, <3>2, <3>3, BarrierRead
  <2>4. ~open'
    <3>1. ~open
      BY <1>5, BarrierRead, Ranks DEF OpenInv
    <3>2. open' = open
      BY <1>5, BarrierRead
    <3>. QED BY <3>1, <3>2, Zenon
  <2>5. \A f \in Inputs : ~Read(f)'
    BY <2>1, <2>4, Ranks DEF Read
  <2>6. \A s \in Solids : ~(Export[s] < step')
    BY <2>1, Ranks
  <2>. QED BY <2>1, <2>2, <2>3, <2>5, <2>6 DEF DrawnInv
<1>6. ASSUME pc = "freecad", cur \notin killed, NEW s \in Solids, BeginSolid(s)
      PROVE  DrawnInv'
  <2>1. /\ UNCHANGED <<disk, killed>> /\ cur' = cur /\ job' = job /\ Export[s] = step
        /\ step' = step /\ ~open /\ open'
        /\ locals' = [f \in Inputs |-> IF f \in ReadFor[s] THEN disk[f].by ELSE locals[f]]
        /\ DOMAIN folder' = DOMAIN folder
    BY <1>6, SolidWritten DEF BeginSolid
  <2>2. \A f \in Files : Rank[f] <= job.reach => disk[f] = [by |-> cur, whole |-> TRUE]
    BY <1>6 DEF DrawnInv
  <2>3. locals'["barrier"] = locals["barrier"]
    BY <2>1, Known DEF Inputs, Solids, ReadFor
  <2>4. ASSUME job.reach >= 4, NEW f \in Inputs, Read(f)'
        PROVE  locals'[f] = cur
    <3>1. job.reach \in 0 .. 8 /\ step > 1
      BY <1>6, <2>1, Known, Ranks
    <3>2. CASE f \in ReadFor[s]
      <4>1. f \in Files /\ Rank[f] <= 4
        BY <3>2 DEF Solids, ReadFor, Files, Rank
      <4>2. disk[f] = [by |-> cur, whole |-> TRUE]
        <5>1. Rank[f] \in 1 .. 8 /\ job.reach >= 4
          BY <2>4, <4>1, Ranks
        <5>2. Rank[f] <= job.reach
          BY <3>1, <4>1, <5>1
        <5>. QED BY <2>2, <4>1, <5>2
      <4>3. locals'[f] = disk[f].by
        BY <2>1, <3>2
      <4>. QED BY <4>2, <4>3
    <3>3. CASE f \notin ReadFor[s]
      <4>1. PICK t \in Solids : f \in ReadFor[t] /\ (Export[t] < step \/ Export[t] = step)
        BY <2>1, <2>4 DEF Read
      <4>2. t # s
        BY <3>3, <4>1
      <4>3. Export[t] < step
        BY <2>1, <4>1, <4>2, RanksDiffer
      <4>4. Read(f)
        BY <4>1, <4>3 DEF Read
      <4>. QED BY <1>6, <2>1, <2>4, <3>1, <3>3, <4>4 DEF DrawnInv
    <3>. QED BY <3>2, <3>3
  <2>5. ASSUME job.reach >= 4, step > 1, NEW t \in Solids, Export[t] < step
        PROVE  folder'[job.height][t] = {cur}
    <3>1. t # s
      BY <2>1, <2>5, Ranks
    <3>. QED BY <1>6, <2>5, <3>1, SolidWritten DEF DrawnInv
  <2>6. step > 1 /\ job.reach >= 3 => locals["barrier"] = cur
    BY <1>6 DEF DrawnInv
  <2>7. step > 1 /\ job.reach >= 4 => job.height \in DOMAIN folder
    BY <1>6 DEF DrawnInv
  <2>. QED BY <2>1, <2>2, <2>3, <2>4, <2>5, <2>6, <2>7, Zenon DEF DrawnInv
<1>7. ASSUME pc = "freecad", cur \notin killed, NEW s \in Solids, FinishSolid(s)
      PROVE  DrawnInv'
  <2>1. /\ UNCHANGED <<disk, killed, locals>> /\ cur' = cur /\ job' = job /\ Export[s] = step
        /\ step' = step + 1 /\ open /\ ~open'
        /\ DOMAIN folder' = DOMAIN folder
    BY <1>7, SolidWritten DEF FinishSolid
  <2>2. /\ \A f \in Files : Rank[f] <= job.reach => disk[f] = [by |-> cur, whole |-> TRUE]
        /\ job.reach \in 0 .. 8 /\ step \in 2 .. 6
    BY <1>7, <2>1, Known, Ranks DEF DrawnInv
  <2>3. ASSUME job.reach >= 4, NEW f \in Inputs, Read(f)'
        PROVE  locals[f] = cur
    <3>1. PICK t \in Solids : f \in ReadFor[t] /\ Export[t] < step + 1
      BY <2>1, <2>3 DEF Read
    <3>2. Export[t] < step \/ (Export[t] = step /\ open)
      BY <2>1, <2>2, <3>1, Ranks
    <3>3. Read(f)
      BY <3>1, <3>2 DEF Read
    <3>. QED BY <1>7, <2>2, <2>3, <3>3 DEF DrawnInv
  <2>4. ASSUME job.reach >= 4, NEW t \in Solids, Export[t] < step + 1
        PROVE  folder'[job.height][t] = {cur}
    <3>1. locals["barrier"] = cur /\ job.height \in DOMAIN folder /\ Here = job.height
      BY <1>7, <2>2, <2>4, Heights DEF DrawnInv, Here
    <3>2. CASE t = s
      <4>1. \A f \in MadeFrom[s] : f = "barrier" \/ Read(f)
        <5>1. Export["barrier_base"] = 2 /\ Export["frames"] = 5
          BY DEF Export
        <5>2. "hole_params" \in MadeFrom[s] => Read("hole_params")
          <6>1. "hole_params" \in ReadFor["barrier_base"] /\ "barrier_base" \in Solids
            BY DEF ReadFor, Solids
          <6>. QED BY <2>1, <2>2, <5>1, <6>1 DEF Read
        <5>3. "supports" \in MadeFrom[s] => Read("supports")
          <6>1. "supports" \in ReadFor["frames"] /\ "frames" \in Solids
            BY DEF ReadFor, Solids
          <6>2. "supports" \in MadeFrom[s] => step \in 5 .. 6
            BY <2>1 DEF MadeFrom, Export, Solids
          <6>. QED BY <2>1, <5>1, <6>1, <6>2 DEF Read
        <5>. QED BY <5>2, <5>3, Ranks DEF Inputs
      <4>2. \A f \in MadeFrom[s] : locals[f] = cur
        BY <1>7, <2>2, <2>4, <3>1, <4>1, Ranks DEF DrawnInv
      <4>3. "barrier" \in MadeFrom[s]
        BY DEF MadeFrom, Solids
      <4>4. {locals[f] : f \in MadeFrom[s]} = {cur}
        BY <4>2, <4>3
      <4>. QED BY <1>7, <3>1, <3>2, <4>4, SolidWritten
    <3>3. CASE t # s
      <4>1. Export[t] < step
        BY <2>1, <2>2, <2>4, <3>3, Ranks, RanksDiffer
      <4>2. folder[job.height][t] = {cur}
        BY <1>7, <2>2, <2>4, <4>1 DEF DrawnInv
      <4>. QED BY <1>7, <3>1, <3>3, <4>2, SolidWritten
    <3>. QED BY <3>2, <3>3
  <2>5. job.reach >= 3 => locals["barrier"] = cur
    BY <1>7, <2>2 DEF DrawnInv
  <2>6. job.reach >= 4 => job.height \in DOMAIN folder
    BY <1>7, <2>2 DEF DrawnInv
  <2>. QED BY <2>1, <2>2, <2>3, <2>4, <2>5, <2>6, Zenon DEF DrawnInv
<1>8. CASE pc = "freecad" /\ cur \notin killed /\ ReadScrews
  <2>1. /\ step = 7 /\ step' = 8 /\ UNCHANGED <<disk, runs, open, locals, folder, killed>>
    BY <1>8 DEF ReadScrews, ReadingScrews, Drawn
  <2>2. cur' = cur /\ job' = job
    BY <2>1, SameRuns
  <2>3. \A s \in Solids : Export[s] < step
    BY <2>1, Ranks
  <2>4. ASSUME job.reach >= 4
        PROVE  /\ job.height \in DOMAIN folder
               /\ \A f \in Inputs : Read(f)' => locals[f] = cur
               /\ \A s \in Solids : folder[job.height][s] = {cur}
    <3>1. \A f : Read(f)' => Read(f)
      BY <2>3, Zenon DEF Read
    <3>. QED BY <1>8, <2>1, <2>3, <2>4, <3>1 DEF DrawnInv
  <2>5. \A f \in Files : Rank[f] <= job.reach => disk[f] = [by |-> cur, whole |-> TRUE]
    BY <1>8 DEF DrawnInv
  <2>6. job.reach >= 3 => locals["barrier"] = cur
    <3>1. step > 1
      BY <2>1
    <3>. QED BY <1>8, <3>1, Zenon DEF DrawnInv
  <2>. QED BY <2>1, <2>2, <2>4, <2>5, <2>6, Zenon DEF DrawnInv
<1>9. FreecadSteps => pc = "freecad"
  BY DEF FreecadSteps, ReadBarrier, NoBarrier, BeginSolid, FinishSolid, ReadScrews,
         EndFreecad, EmptyFile
<1>10. CASE FreecadSteps
  BY <1>3, <1>4, <1>5, <1>6, <1>7, <1>8, <1>9, <1>10 DEF FreecadSteps
<1>11. CASE JuliaSteps
  <2>1. EndJulia \/ pc' = "julia"
    BY <1>11 DEF JuliaSteps, OpenFile, CloseFile, AppendLine
  <2>. QED BY <1>1, <1>2, <2>1
<1>12. (\E script \in Scripts : StartScript(script)) \/ StartJulia => pc' # "freecad"
  BY DEF StartScript, StartJulia
<1>. QED BY <1>1, <1>3, <1>10, <1>11, <1>12 DEF Next, ProgramSteps

LEMMA HalfKept ==
    ASSUME IInv, Next
    PROVE  HalfInv'
<1>. USE DEF IInv
<1>1. /\ pc = "julia" => cur \notin killed
      /\ \A f \in Files : ~disk[f].whole =>
             \/ pc = "julia" /\ open /\ Rank[f] = step /\ disk[f].by = cur
             \/ disk[f].by \in killed
      /\ \A f, g \in Files :
             ~disk[f].whole /\ ~disk[g].whole /\ disk[f].by = disk[g].by => f = g
  BY DEF HalfInv
\* Steps that leave the files alone: what is not whole then belongs to a killed run.
<1>2. ASSUME disk' = disk, pc' # "julia",
             \A f \in Files : ~disk[f].whole => disk[f].by \in killed'
      PROVE  HalfInv'
  BY <1>1, <1>2 DEF HalfInv
<1>3. CASE StartJulia \/ (\E script \in Scripts : StartScript(script))
  <2>1. pc = "idle" /\ disk' = disk /\ killed' = killed
    BY <1>3 DEF StartJulia, StartScript
  <2>2. \A f \in Files : ~disk[f].whole => disk[f].by \in killed
    BY <1>1, <2>1
  <2>3. pc' = "julia" => cur' \notin killed
    <3>1. CASE StartJulia
      <4>1. cur' = cur + 1 /\ cur \in Nat /\ killed \subseteq 0 .. cur
        <5>1. runs' = Append(runs, Head(todo)) /\ todo # <<>>
          BY <3>1 DEF StartJulia
        <5>2. runs \in Seq(JobType) /\ todo \in Seq(JobType)
          BY DEF TypeOK
        <5>. QED BY <5>1, <5>2, Known DEF cur
      <4>. QED BY <4>1
    <3>2. CASE \E script \in Scripts : StartScript(script)
      BY <3>2 DEF StartScript
    <3>. QED BY <1>3, <3>1, <3>2
  <2>. QED BY <1>1, <2>1, <2>2, <2>3 DEF HalfInv
<1>4. ASSUME NEW f \in Files, OpenFile(f)
      PROVE  HalfInv'
  <2>1. /\ pc' = "julia" /\ open' /\ ~open /\ step' = step /\ Rank[f] = step
        /\ cur \notin killed
    BY <1>1, <1>4 DEF OpenFile
  <2>2. /\ disk'[f].by = cur /\ cur' = cur /\ killed' = killed
        /\ \A g \in Files : g # f => disk'[g] = disk[g]
    BY <1>4, FileWritten
  <2>3. \A g \in Files : g # f /\ ~disk[g].whole => disk[g].by \in killed /\ disk[g].by # cur
    BY <1>1, <2>1
  <2>. QED BY <1>1, <2>1, <2>2, <2>3 DEF HalfInv
<1>5. ASSUME NEW f \in Files, CloseFile(f)
      PROVE  HalfInv'
  <2>1. /\ pc = "julia" /\ pc' = "julia" /\ Rank[f] = step /\ killed' = killed /\ cur' = cur
        /\ \A g \in Files : g # f => disk'[g] = disk[g]
    BY <1>5, FileWritten
  <2>2. disk'[f].whole
    BY <1>5, Known DEF CloseFile
  <2>3. \A g \in Files : g # f => Rank[g] # step
    BY <2>1, RanksDiffer
  <2>4. \A g \in Files : ~disk'[g].whole => disk'[g] = disk[g] /\ disk[g].by \in killed
    BY <1>1, <2>1, <2>2, <2>3
  <2>. QED BY <1>1, <2>1, <2>4 DEF HalfInv
<1>6. ASSUME NEW l \in Logs, AppendLine(l)
      PROVE  HalfInv'
  <2>1. /\ pc = "julia" /\ pc' = "julia" /\ Rank[l] = step /\ disk' = disk
        /\ killed' = killed /\ cur' = cur
    BY <1>6, LineAppended
  <2>2. \A f \in Files : ~disk[f].whole => disk[f].by \in killed
    BY <1>1, <2>1, RanksDiffer
  <2>. QED BY <1>1, <2>1, <2>2 DEF HalfInv
<1>7. CASE EndJulia
  <2>1. /\ pc = "julia" /\ pc' = "freecad" /\ disk' = disk /\ killed' = killed
        /\ step > job.reach
    BY <1>7 DEF EndJulia
  <2>2. ~open
    <3>1. job.reach \in 0 .. 8 /\ step \in 1 .. 9
      BY <2>1, Known
    <3>. QED BY <2>1, <3>1 DEF OpenInv
  <2>. QED BY <1>1, <1>2, <2>1, <2>2
<1>8. CASE FreecadSteps
  <2>1. pc = "freecad" /\ pc' # "julia" /\ disk' = disk /\ killed' = killed
    BY <1>8 DEF FreecadSteps, ReadBarrier, NoBarrier, BeginSolid, FinishSolid, ReadScrews,
           EndFreecad, EmptyFile, Gone
  <2>. QED BY <1>1, <1>2, <2>1
<1>9. CASE Kill
  <2>1. pc' # "julia" /\ disk' = disk /\ killed' = killed \cup {cur}
    BY <1>9, ProgramGoes DEF Kill
  <2>. QED BY <1>1, <1>2, <2>1
<1>. QED BY <1>3, <1>4, <1>5, <1>6, <1>7, <1>8, <1>9 DEF Next, ProgramSteps, JuliaSteps

LEMMA MadeKept ==
    ASSUME IInv, Next
    PROVE  MadeInv'
<1>. USE DEF IInv
<1>1. CASE pc' # "freecad" \/ ~(step' > 1)
  BY <1>1 DEF MadeInv
<1>2. CASE ReadBarrier
  <2>1. step' = 2 /\ Here' \in DOMAIN folder'
    BY <1>2, BarrierRead
  <2>2. \A s \in Solids : ~(Export[s] < step')
    BY <2>1, Ranks
  <2>. QED BY <2>1, <2>2 DEF MadeInv
<1>3. ASSUME NEW s \in Solids, BeginSolid(s) \/ FinishSolid(s)
      PROVE  MadeInv'
  <2>1. /\ pc = "freecad" /\ Export[s] = step /\ step \in 2 .. 6 /\ Here' = Here
        /\ DOMAIN folder' = DOMAIN folder
        /\ \A h \in DOMAIN folder : \A t \in Solids :
               h # Here \/ t # s => folder'[h][t] = folder[h][t]
    BY <1>3, SolidWritten, Ranks
  <2>2. Here \in DOMAIN folder /\ \A t \in Solids : Export[t] < step => folder[Here][t] # {}
    BY <2>1 DEF MadeInv
  <2>3. \A t \in Solids : Export[t] < step => folder'[Here][t] # {}
    <3>1. \A t \in Solids : Export[t] < step => t # s
      BY <2>1
    <3>. QED BY <2>1, <2>2, <3>1
  <2>4. CASE BeginSolid(s)
    <3>1. step' = step
      BY <2>4 DEF BeginSolid
    <3>. QED BY <2>1, <2>2, <2>3, <3>1 DEF MadeInv
  <2>5. CASE FinishSolid(s)
    <3>1. step' = step + 1
      BY <2>5 DEF FinishSolid
    <3>2. folder'[Here][s] # {}
      <4>1. folder'[Here][s] = {locals[f] : f \in MadeFrom[s]}
        BY <2>2, <2>5, SolidWritten
      <4>2. "barrier" \in MadeFrom[s]
        BY DEF MadeFrom, Solids
      <4>. QED BY <4>1, <4>2
    <3>3. \A t \in Solids : Export[t] < step + 1 => t = s \/ Export[t] < step
      BY <2>1, Ranks, RanksDiffer
    <3>4. \A t \in Solids : Export[t] < step + 1 => folder'[Here][t] # {}
      BY <2>3, <3>2, <3>3
    <3>. QED BY <2>1, <2>2, <3>1, <3>4 DEF MadeInv
  <2>. QED BY <1>3, <2>4, <2>5
<1>4. CASE ReadScrews
  <2>1. pc = "freecad" /\ step = 7 /\ step' = 8 /\ UNCHANGED <<runs, locals, folder>>
    BY <1>4 DEF ReadScrews, ReadingScrews, Drawn
  <2>2. Here' = Here
    BY <2>1 DEF Here, HeightOf
  <2>3. \A s \in Solids : Export[s] < step
    BY <2>1, Ranks
  <2>4. Here \in DOMAIN folder /\ \A s \in Solids : folder[Here][s] # {}
    BY <2>1, <2>3 DEF MadeInv
  <2>. QED BY <2>1, <2>2, <2>4 DEF MadeInv
<1>5. CASE EndFreecad \/ EmptyFile \/ NoBarrier \/ Kill
  <2>1. step' = 1
    BY <1>5, ProgramGoes
  <2>. QED BY <1>1, <2>1
<1>6. CASE JuliaSteps
  <2>1. pc' = "julia" \/ step' = 1
    BY <1>6 DEF JuliaSteps, OpenFile, CloseFile, AppendLine, EndJulia
  <2>. QED BY <1>1, <2>1
<1>7. (\E script \in Scripts : StartScript(script)) \/ StartJulia => pc' # "freecad"
  BY DEF StartScript, StartJulia
<1>. QED BY <1>1, <1>2, <1>3, <1>4, <1>5, <1>6, <1>7 DEF Next, ProgramSteps, FreecadSteps

LEMMA WholeKept ==
    ASSUME IInv, Next
    PROVE  WholeInv'
<1>. USE DEF IInv
<1>1. killed' = {} => killed = {}
  BY DEF Next, ProgramSteps, JuliaSteps, FreecadSteps, StartScript, StartJulia, OpenFile, CloseFile,
         AppendLine, EndJulia, ReadBarrier, NoBarrier, BeginSolid, FinishSolid, ReadScrews,
         EndFreecad, EmptyFile, Gone, Kill
<1>2. SUFFICES ASSUME killed' = {}, killed = {} PROVE WholeInv'
  BY <1>1, Zenon DEF WholeInv
<1>3. \A h \in DOMAIN folder : \A s \in Solids :
          folder[h][s] = {} => pc = "freecad" /\ step > 1 /\ h = Here /\ Export[s] >= step
  BY <1>2 DEF WholeInv
<1>4. ASSUME folder' = folder, pc # "freecad" \/ ~(step > 1)
      PROVE  WholeInv'
  BY <1>3, <1>4 DEF WholeInv
<1>5. CASE (\E script \in Scripts : StartScript(script)) \/ StartJulia
  BY <1>4, <1>5 DEF StartScript, StartJulia
<1>6. CASE JuliaSteps
  <2>1. pc = "julia" /\ folder' = folder
    BY <1>6 DEF JuliaSteps, OpenFile, CloseFile, AppendLine, EndJulia
  <2>. QED BY <1>4, <2>1
<1>7. CASE NoBarrier
  BY <1>4, <1>7 DEF NoBarrier, Gone
<1>8. CASE ReadBarrier
  <2>1. \A h \in DOMAIN folder : \A s \in Solids : folder'[h][s] # {}
    BY <1>3, <1>8, BarrierRead
  <2>2. pc' = "freecad" /\ step' > 1 /\ DOMAIN folder' = DOMAIN folder \cup {Here'}
    BY <1>8, BarrierRead
  <2>3. \A s \in Solids : Export[s] >= step'
    BY <1>8, BarrierRead, Ranks
  <2>. QED BY <2>1, <2>2, <2>3 DEF WholeInv
<1>9. ASSUME NEW s \in Solids, BeginSolid(s) \/ FinishSolid(s)
      PROVE  WholeInv'
  <2>1. /\ pc = "freecad" /\ pc' = "freecad" /\ Here' = Here
        /\ DOMAIN folder' = DOMAIN folder /\ Export[s] = step /\ step > 1
    BY <1>9, SolidWritten, Ranks
  <2>2. \A h \in DOMAIN folder : \A t \in Solids :
            folder[h][t] = {} => h = Here /\ Export[t] >= step
    BY <1>3
  <2>3. CASE BeginSolid(s)
    <3>1. step' = step
      BY <2>3 DEF BeginSolid
    <3>2. \A h \in DOMAIN folder : \A t \in Solids :
              folder'[h][t] = {} => h = Here /\ Export[t] >= step
      <4>1. Export[s] >= step
        BY <2>1, Ranks
      <4>. QED BY <1>9, <2>2, <4>1, SolidWritten
    <3>. QED BY <2>1, <3>1, <3>2 DEF WholeInv
  <2>4. CASE FinishSolid(s)
    <3>1. step' = step + 1
      BY <2>4 DEF FinishSolid
    <3>2. {locals[f] : f \in MadeFrom[s]} # {}
      <4>1. "barrier" \in MadeFrom[s] \/ "hole_params" \in MadeFrom[s]
        BY DEF MadeFrom, Solids
      <4>. QED BY <4>1
    <3>3. ASSUME NEW h \in DOMAIN folder, NEW t \in Solids, folder'[h][t] = {}
          PROVE  h = Here /\ Export[t] >= step + 1
      <4>1. ~(h = Here /\ t = s)
        BY <2>4, <3>2, <3>3, SolidWritten
      <4>2. folder[h][t] = {}
        BY <1>9, <3>3, <4>1, SolidWritten
      <4>3. h = Here /\ Export[t] >= step /\ t # s
        BY <2>2, <4>1, <4>2
      <4>4. Export[t] # step
        BY <2>1, <4>3, RanksDiffer
      <4>. QED BY <2>1, <4>3, <4>4, Ranks
    <3>4. step' > 1
      BY <2>1, <3>1, Ranks
    <3>. QED BY <2>1, <3>1, <3>3, <3>4 DEF WholeInv
  <2>. QED BY <1>9, <2>3, <2>4
<1>10. CASE ReadScrews \/ EndFreecad
  <2>1. pc = "freecad" /\ step >= 7 /\ folder' = folder
    BY <1>10 DEF ReadScrews, ReadingScrews, EndFreecad, Drawn, Gone
  <2>2. step \in 1 .. 9
    BY Known
  <2>3. \A h \in DOMAIN folder : \A s \in Solids : folder[h][s] # {}
    BY <1>3, <2>1, <2>2, Ranks
  <2>. QED BY <2>1, <2>3 DEF WholeInv
<1>11. CASE EmptyFile
  <2>1. pc = "freecad" /\ \E f \in Needs : ~disk[f].whole
    BY <1>11 DEF EmptyFile
  <2>2. Needs \subseteq Files
    BY Ranks DEF Needs, Files
  <2>. QED BY <1>2, <2>1, <2>2 DEF HalfInv
<1>12. CASE Kill
  BY <1>2, <1>12, ProgramGoes
<1>. QED BY <1>5, <1>6, <1>7, <1>8, <1>9, <1>10, <1>11, <1>12 DEF Next, ProgramSteps, FreecadSteps

LEMMA NextInv == IInv /\ [Next]_vars => IInv'
<1>. SUFFICES ASSUME IInv, [Next]_vars PROVE IInv'
  OBVIOUS
<1>1. TypeOK'
  BY NextTypes DEF IInv
<1>2. CASE Next
  BY <1>1, <1>2, OpenKept, JuliaKept, AgeKept, DrawnKept, HalfKept, MadeKept, WholeKept DEF IInv
<1>3. CASE UNCHANGED vars
  <2>1. UNCHANGED <<pc, step, open, disk, logs, locals, folder, killed, cur, job, Here>>
    BY <1>3 DEF vars, cur, job, Here, HeightOf
  <2>2. OpenInv' /\ JuliaInv' /\ AgeInv' /\ HalfInv' /\ MadeInv' /\ WholeInv'
    BY <2>1 DEF IInv, OpenInv, JuliaInv, AgeInv, HalfInv, MadeInv, WholeInv
  <2>3. DrawnInv'
    BY <2>1 DEF IInv, DrawnInv, Read
  <2>. QED BY <1>1, <2>2, <2>3 DEF IInv
<1>. QED BY <1>2, <1>3

----------------------------------------------------------------------------
(***************************************************************************)
(* The theorems.                                                           *)
(***************************************************************************)

\* What julia has written, what barrier.py has read and drawn, and how old the files
\* are, is as the invariant says, after any number of runs and kills.
THEOREM PipelineInvariant == Spec => []IInv
BY InitInv, NextInv, PTL DEF Spec

\* No file is older than one that main's functions write after it, whatever runs of
\* barrier.sh fail or are killed between two writes.
THEOREM FilesAge == Spec => []FilesAgeInOrder
<1>1. IInv => FilesAgeInOrder
  <2>. SUFFICES ASSUME IInv PROVE FilesAgeInOrder
    OBVIOUS
  <2>1. /\ disk["supports"].by >= disk["barrier"].by
        /\ disk["barrier"].by >= disk["hole_params"].by
        /\ disk["hole_params"].by >= disk["screw_data"].by
        /\ disk["screw_data"].by >= disk["_seal_data"].by
    BY DEF IInv, AgeInv, Files, Rank
  <2>. QED BY <2>1 DEF IInv, AgeInv, FilesAgeInOrder
<1>. QED BY <1>1, PipelineInvariant, PTL

\* barrier.py draws all five solids of the design that has just been made, however its
\* run ended after the bolts, and whatever older runs left in the files.
THEOREM OneDesignDrawn == Spec => []DrawsOneDesign
<1>1. IInv => DrawsOneDesign
  <2>. SUFFICES ASSUME IInv, pc = "freecad", step = Drawn, job.reach >= Rank["hole_params"],
                       cur \notin killed
                PROVE  \A s \in Solids : folder[job.height][s] = {cur}
    BY DEF DrawsOneDesign
  <2>1. job.reach >= 4 /\ step = 8
    BY DEF Rank, Drawn
  <2>2. \A s \in Solids : Export[s] < step
    BY <2>1, Ranks
  <2>. QED BY <2>1, <2>2 DEF IInv, DrawnInv
<1>. QED BY <1>1, PipelineInvariant, PTL

\* However many runs fail, hang or are killed, an empty file is the one julia has open or
\* what a killed run left, one such file for each; a drawing that comes to its end has all
\* five solids; and before the first kill no folder lacks one between two drawings.
THEOREM NothingLeftHalf == Spec => []OnlyKillsLeaveHalves
<1>1. IInv => OnlyKillsLeaveHalves
  <2>. SUFFICES ASSUME IInv PROVE OnlyKillsLeaveHalves
    OBVIOUS
  <2>. USE DEF IInv
  <2>1. /\ \A f \in Files : ~disk[f].whole =>
               (pc = "julia" /\ open /\ Rank[f] = step) \/ disk[f].by \in killed
        /\ \A f, g \in Files :
               ~disk[f].whole /\ ~disk[g].whole /\ disk[f].by = disk[g].by => f = g
    BY DEF HalfInv
  <2>2. pc = "freecad" /\ step = Drawn => \A s \in Solids : folder[Here][s] # {}
    <3>1. \A s \in Solids : Export[s] < 8
      BY Ranks
    <3>. QED BY <3>1 DEF MadeInv, Drawn
  <2>3. killed = {} /\ pc # "freecad" =>
            \A h \in DOMAIN folder : \A s \in Solids : folder[h][s] # {}
    BY DEF WholeInv
  <2>. QED BY <2>1, <2>2, <2>3 DEF OnlyKillsLeaveHalves
<1>. QED BY <1>1, PipelineInvariant, PTL

\* A run that has written its footing draws into the folder of its own height only.
THEOREM FoldersApart == Spec => OtherFoldersUntouched
<1>. DEFINE Apart ==
         \A h \in DOMAIN folder' :
             (h \in DOMAIN folder => folder'[h] # folder[h]) =>
                 h = job.height \/ cur \in killed \/ job.reach < Rank["barrier"]
<1>1. IInv /\ [Next]_vars => [Apart]_vars
  <2>. SUFFICES ASSUME IInv, [Next]_vars,
                       NEW h \in DOMAIN folder', h \in DOMAIN folder => folder'[h] # folder[h],
                       cur \notin killed, ~(job.reach < Rank["barrier"])
                PROVE  h = job.height \/ UNCHANGED vars
    OBVIOUS
  <2>. USE DEF IInv
  <2>1. CASE ReadBarrier
    <3>1. pc = "freecad" /\ h = HeightOf(disk["barrier"].by)
      BY <2>1, BarrierRead
    <3>2. job.reach \in 0 .. 8 /\ HeightOf(cur) = job.height
      BY <3>1, Known, Heights
    <3>3. disk["barrier"].by = cur
      BY <3>1, <3>2 DEF DrawnInv, Files, Rank
    <3>. QED BY <3>1, <3>2, <3>3
  <2>2. ASSUME NEW s \in Solids, BeginSolid(s) \/ FinishSolid(s)
        PROVE  h = job.height
    <3>1. pc = "freecad" /\ step > 1 /\ h = Here
      BY <2>2, SolidWritten, Ranks
    <3>2. job.reach \in 0 .. 8 /\ HeightOf(cur) = job.height
      BY <3>1, Known, Heights
    <3>3. locals["barrier"] = cur
      BY <3>1, <3>2 DEF DrawnInv, Rank
    <3>. QED BY <3>1, <3>2, <3>3 DEF Here
  <2>3. CASE folder' = folder
    BY <2>3
  <2>4. Next => \/ folder' = folder \/ ReadBarrier
                \/ \E s \in Solids : BeginSolid(s) \/ FinishSolid(s)
    BY DEF Next, ProgramSteps, JuliaSteps, FreecadSteps, StartScript, StartJulia, OpenFile, CloseFile,
           AppendLine, EndJulia, NoBarrier, ReadScrews, EndFreecad, EmptyFile, Gone, Kill
  <2>. QED BY <2>1, <2>2, <2>3, <2>4
<1>2. Spec => [][Apart]_vars
  BY <1>1, PipelineInvariant, PTL DEF Spec
<1>. QED BY <1>2 DEF OtherFoldersUntouched
=============================================================================
