----------------------------- MODULE PipelineProofs -----------------------------
(***************************************************************************)
(* Proofs about Pipeline, for every set of scripts, every number of runs   *)
(* and of killed programs, whatever was on disk before the first.          *)
(***************************************************************************)
EXTENDS Pipeline, TLAPS

----------------------------------------------------------------------------
(***************************************************************************)
(* Types.                                                                  *)
(***************************************************************************)

\* What a job is, and the numbers of the writes and exports.
LEMMA Jobs ==
    ASSUME NEW j \in JobType
    PROVE  /\ j.height \in 1 .. 127
           /\ j.reach \in 0 .. 8
           /\ j.ends \in {"returns", "raises", "loops"}
BY DEF JobType

LEMMA Ranks ==
    /\ \A f \in Files \cup Logs : Rank[f] \in 1 .. 8
    /\ \A s \in Solids : Export[s] \in 2 .. 6
    /\ \A s \in Solids : ReadFor[s] \subseteq Files /\ ReadFor[s] \subseteq Inputs
    /\ \A s \in Solids : MadeFrom[s] \subseteq Inputs
BY DEF Files, Logs, Rank, Solids, Export, ReadFor, MadeFrom, Inputs

\* Two files written at the same moment are the same file, and no file is a log.
LEMMA RanksDiffer ==
    /\ \A f, g \in Files : Rank[f] = Rank[g] => f = g
    /\ \A f \in Files : \A l \in Logs : Rank[f] # Rank[l]
    /\ \A l, m \in Logs : Rank[l] = Rank[m] => l = m
    /\ \A s, t \in Solids : Export[s] = Export[t] => s = t
BY DEF Files, Logs, Rank, Solids, Export

\* The heights and the latest run are what they should be.
LEMMA Heights ==
    ASSUME TypeOK
    PROVE  /\ cur \in Nat
           /\ \A g \in Runs : HeightOf(g) \in 1 .. 127
           /\ pc # "idle" => cur \in Runs /\ cur > 0 /\ job \in JobType
           /\ pc # "idle" => HeightOf(cur) = job.height
<1>1. cur \in Nat
  BY DEF TypeOK, cur
<1>2. ASSUME NEW g \in Runs
      PROVE  HeightOf(g) \in 1 .. 127
  <2>1. CASE g = 0
    BY <2>1, FirstAssumption DEF HeightOf
  <2>2. CASE g # 0
    <3>1. runs[g] \in JobType
      BY <1>1, <1>2, <2>2 DEF TypeOK, cur, Runs
    <3>. QED BY <2>2, <3>1, Jobs DEF HeightOf
  <2>. QED BY <2>1, <2>2
<1>3. ASSUME pc # "idle"
      PROVE  cur \in Runs /\ cur > 0 /\ job \in JobType
  <2>1. runs \in Seq(JobType) /\ runs # <<>>
    BY <1>3 DEF TypeOK
  <2>2. Len(runs) > 0 /\ Len(runs) \in Nat
    BY <2>1
  <2>. QED BY <2>1, <2>2 DEF cur, job, Runs
<1>4. ASSUME pc # "idle"
      PROVE  HeightOf(cur) = job.height
  BY <1>3, <1>4 DEF HeightOf, job
<1>. QED BY <1>1, <1>2, <1>3, <1>4

LEMMA InitTypes == Init => TypeOK
<1>. SUFFICES ASSUME Init PROVE TypeOK
  OBVIOUS
<1>1. cur = 0
  BY DEF Init, cur
<1>2. Runs = {0}
  BY <1>1 DEF Runs
<1>3. disk \in [Files -> [by : Runs, whole : BOOLEAN]]
  BY <1>2 DEF Init
<1>4. logs \in [Logs -> SUBSET Runs] /\ locals \in [Inputs -> Runs]
  BY <1>2 DEF Init, Unread
<1>5. DOMAIN folder \subseteq 1 .. 127 /\ \A h \in DOMAIN folder : folder[h] \in [Solids -> SUBSET Runs]
  BY <1>2, FirstAssumption DEF Init
<1>6. todo \in Seq(JobType) /\ runs \in Seq(JobType)
  BY DEF Init
<1>7. pc \in {"idle", "julia", "freecad"} /\ (pc # "idle" => runs # <<>>) /\ step \in 1 .. 9
  BY DEF Init
<1>8. open \in BOOLEAN
  BY Zenon DEF Init
<1>9. killed \subseteq Runs
  BY DEF Init
<1>. QED BY <1>3, <1>4, <1>5, <1>6, <1>7, <1>8, <1>9 DEF TypeOK

\* A step that starts no run keeps the numbers of the runs.
LEMMA SameRuns == UNCHANGED runs => cur' = cur /\ Runs' = Runs /\ job' = job
BY DEF cur, Runs, job

\* The parts of the type invariant: what a program leaves alone stays typed.
ScriptOK ==
    /\ pc \in {"idle", "julia", "freecad"}
    /\ todo \in Seq(JobType)
    /\ runs \in Seq(JobType)
    /\ pc # "idle" => runs # <<>>
    /\ step \in 1 .. 9
    /\ open \in BOOLEAN
    /\ killed \subseteq Runs

FilesOK ==
    /\ disk \in [Files -> [by : Runs, whole : BOOLEAN]]
    /\ logs \in [Logs -> SUBSET Runs]

DrawingOK ==
    /\ locals \in [Inputs -> Runs]
    /\ DOMAIN folder \subseteq 1 .. 127
    /\ \A h \in DOMAIN folder : folder[h] \in [Solids -> SUBSET Runs]

LEMMA Parts == TypeOK <=> ScriptOK /\ FilesOK /\ DrawingOK
BY DEF TypeOK, ScriptOK, FilesOK, DrawingOK

LEMMA PartsNext == ScriptOK' /\ FilesOK' /\ DrawingOK' => TypeOK'
BY DEF TypeOK, ScriptOK, FilesOK, DrawingOK

LEMMA FilesStay == FilesOK /\ UNCHANGED <<runs, disk, logs>> => FilesOK'
<1>. SUFFICES ASSUME FilesOK, UNCHANGED <<runs, disk, logs>> PROVE FilesOK'
  OBVIOUS
<1>1. Runs' = Runs
  BY SameRuns
<1>. QED BY <1>1 DEF FilesOK

LEMMA DrawingStays == DrawingOK /\ UNCHANGED <<runs, locals, folder>> => DrawingOK'
<1>. SUFFICES ASSUME DrawingOK, UNCHANGED <<runs, locals, folder>> PROVE DrawingOK'
  OBVIOUS
<1>1. Runs' = Runs
  BY SameRuns
<1>. QED BY <1>1 DEF DrawingOK

\* A program that goes loses its locals.
LEMMA GoneTypes ==
    ASSUME TypeOK, Gone
    PROVE  FilesOK' /\ DrawingOK' /\ runs' = runs /\ step' = 1 /\ open' = FALSE
<1>1. UNCHANGED <<runs, disk, logs, folder>> /\ locals' = Unread /\ step' = 1 /\ open' = FALSE
  BY DEF Gone
<1>2. FilesOK'
  BY <1>1, Parts, FilesStay
<1>3. Runs' = Runs /\ 0 \in Runs
  BY <1>1, SameRuns, Heights DEF Runs
<1>4. locals' \in [Inputs -> Runs']
  BY <1>1, <1>3 DEF Unread
<1>5. DrawingOK'
  BY <1>1, <1>3, <1>4, Parts DEF DrawingOK
<1>. QED BY <1>1, <1>2, <1>5

LEMMA StartTypes ==
    ASSUME TypeOK, (\E script \in Scripts : StartScript(script)) \/ StartJulia
    PROVE  TypeOK'
<1>1. CASE \E script \in Scripts : StartScript(script)
  <2>1. PICK script \in Scripts : StartScript(script)
    BY <1>1
  <2>2. /\ todo' = script /\ script \in Seq(JobType)
        /\ UNCHANGED <<pc, runs, step, open, disk, logs, locals, folder, killed>>
    BY <2>1, ScriptsAssumption DEF StartScript
  <2>3. Runs' = Runs
    BY <2>2, SameRuns
  <2>4. ScriptOK'
    BY <2>2, <2>3, Parts DEF ScriptOK
  <2>. QED BY <2>2, <2>4, Parts, PartsNext, FilesStay, DrawingStays
<1>2. CASE StartJulia
  <2>1. /\ todo # <<>> /\ runs' = Append(runs, Head(todo)) /\ todo' = Tail(todo)
        /\ pc' = "julia" /\ step' = 1
        /\ UNCHANGED <<open, disk, logs, locals, folder, killed>>
    BY <1>2 DEF StartJulia
  <2>2. todo \in Seq(JobType) /\ runs \in Seq(JobType)
    BY DEF TypeOK
  <2>3. Head(todo) \in JobType /\ Tail(todo) \in Seq(JobType)
    BY <2>1, <2>2
  <2>4. runs' \in Seq(JobType) /\ runs' # <<>> /\ Len(runs') = Len(runs) + 1
    BY <2>1, <2>2, <2>3
  <2>5. Runs \subseteq Runs'
    BY <2>2, <2>4 DEF Runs, cur
  <2>6. ScriptOK'
    BY <2>1, <2>3, <2>4, <2>5, Parts DEF ScriptOK
  <2>7. FilesOK'
    <3>1. disk' \in [Files -> [by : Runs', whole : BOOLEAN]]
      BY <2>1, <2>5 DEF TypeOK
    <3>2. logs' \in [Logs -> SUBSET Runs']
      BY <2>1, <2>5 DEF TypeOK
    <3>. QED BY <3>1, <3>2 DEF FilesOK
  <2>8. DrawingOK'
    <3>1. locals' \in [Inputs -> Runs']
      BY <2>1, <2>5 DEF TypeOK
    <3>2. \A h \in DOMAIN folder' : folder'[h] \in [Solids -> SUBSET Runs']
      BY <2>1, <2>5 DEF TypeOK
    <3>. QED BY <2>1, <3>1, <3>2 DEF TypeOK, DrawingOK
  <2>. QED BY <2>6, <2>7, <2>8, PartsNext
<1>. QED BY <1>1, <1>2

LEMMA JuliaTypes ==
    ASSUME TypeOK, JuliaSteps
    PROVE  TypeOK'
<1>. USE Heights, Ranks
<1>1. pc = "julia" /\ UNCHANGED <<todo, runs, locals, folder, killed>>
  BY DEF JuliaSteps, OpenFile, CloseFile, AppendLine, EndJulia
<1>2. /\ cur \in Runs /\ cur' = cur /\ Runs' = Runs /\ job \in JobType /\ job.reach \in 0 .. 8
      /\ DrawingOK'
  BY <1>1, SameRuns, Parts, DrawingStays, Jobs
<1>3. ASSUME pc' \in {"julia", "freecad"}, step' \in 1 .. 9, open' \in BOOLEAN
      PROVE  ScriptOK'
  BY <1>1, <1>2, <1>3, Parts DEF ScriptOK
<1>4. ASSUME NEW f \in Files, OpenFile(f) \/ CloseFile(f)
      PROVE  TypeOK'
  <2>1. /\ pc' = pc /\ logs' = logs /\ Rank[f] = step /\ step' \in {step, step + 1}
        /\ \E w \in BOOLEAN : disk' = [disk EXCEPT ![f] = [by |-> cur, whole |-> w]]
    BY <1>4 DEF OpenFile, CloseFile
  <2>2. open' \in BOOLEAN
    BY <1>4, Zenon DEF OpenFile, CloseFile
  <2>3. PICK w \in BOOLEAN : disk' = [disk EXCEPT ![f] = [by |-> cur, whole |-> w]]
    BY <2>1
  <2>4. disk' \in [Files -> [by : Runs', whole : BOOLEAN]]
    BY <1>2, <2>3 DEF TypeOK
  <2>5. FilesOK'
    BY <1>2, <2>1, <2>4 DEF TypeOK, FilesOK
  <2>6. Rank[f] \in 1 .. 8 /\ step' \in 1 .. 9
    BY <2>1
  <2>. QED BY <1>1, <1>2, <1>3, <2>1, <2>2, <2>5, <2>6, PartsNext
<1>5. ASSUME NEW l \in Logs, AppendLine(l)
      PROVE  TypeOK'
  <2>1. /\ pc' = pc /\ disk' = disk /\ open' = open /\ Rank[l] = step /\ step' = step + 1
        /\ logs' = [logs EXCEPT ![l] = @ \cup {cur}]
    BY <1>5 DEF AppendLine
  <2>2. logs' \in [Logs -> SUBSET Runs']
    BY <1>2, <2>1 DEF TypeOK
  <2>3. FilesOK'
    BY <1>2, <2>1, <2>2 DEF TypeOK, FilesOK
  <2>4. Rank[l] \in 1 .. 8 /\ step' \in 1 .. 9
    BY <2>1
  <2>5. open' \in BOOLEAN
    BY <2>1, Zenon DEF TypeOK
  <2>. QED BY <1>1, <1>2, <1>3, <2>1, <2>3, <2>4, <2>5, PartsNext
<1>6. ASSUME EndJulia
      PROVE  TypeOK'
  <2>1. pc' = "freecad" /\ step' = 1 /\ UNCHANGED <<open, disk, logs>>
    BY <1>6 DEF EndJulia
  <2>2. FilesOK'
    BY <1>1, <2>1, Parts, FilesStay
  <2>3. step' \in 1 .. 9
    BY <2>1
  <2>4. open' \in BOOLEAN
    BY <2>1, Zenon DEF TypeOK
  <2>. QED BY <1>2, <1>3, <2>1, <2>2, <2>3, <2>4, PartsNext
<1>. QED BY <1>4, <1>5, <1>6 DEF JuliaSteps

LEMMA FreecadTypes ==
    ASSUME TypeOK, FreecadSteps
    PROVE  TypeOK'
<1>. USE Heights, Ranks
<1>1. pc = "freecad" /\ UNCHANGED <<runs, disk, logs, todo, killed>>
  BY DEF FreecadSteps, ReadBarrier, NoBarrier, BeginSolid, FinishSolid, ReadScrews, EndFreecad,
         EmptyFile, Gone
<1>2. cur' = cur /\ Runs' = Runs /\ FilesOK'
  BY <1>1, SameRuns, Parts, FilesStay
<1>3. ASSUME pc' \in {"idle", "freecad"}, step' \in 1 .. 9, open' \in BOOLEAN
      PROVE  ScriptOK'
  BY <1>1, <1>2, <1>3, Parts DEF ScriptOK
<1>4. /\ locals \in [Inputs -> Runs] /\ DOMAIN folder \subseteq 1 .. 127
      /\ \A h \in DOMAIN folder : folder[h] \in [Solids -> SUBSET Runs]
      /\ disk \in [Files -> [by : Runs, whole : BOOLEAN]]
  BY DEF TypeOK
<1>5. CASE ReadBarrier
  <2>1. /\ pc' = pc /\ step' = 2 /\ open' = open
        /\ locals' = [locals EXCEPT !["barrier"] = disk["barrier"].by]
    BY <1>5 DEF ReadBarrier
  <2>2. PICK h \in 1 .. 127 :
            folder' = [x \in DOMAIN folder \cup {h} |->
                           IF x \in DOMAIN folder THEN folder[x] ELSE Undrawn]
    <3>1. disk["barrier"].by \in Runs
      BY <1>4 DEF Files
    <3>. QED BY <1>5, <3>1 DEF ReadBarrier
  <2>3. locals' \in [Inputs -> Runs']
    BY <1>2, <1>4, <2>1 DEF Files, Inputs
  <2>4. Undrawn \in [Solids -> SUBSET Runs]
    BY DEF Undrawn
  <2>5. DrawingOK'
    BY <1>2, <1>4, <2>2, <2>3, <2>4 DEF DrawingOK
  <2>6. open' \in BOOLEAN
    BY <2>1, Zenon DEF TypeOK
  <2>. QED BY <1>1, <1>2, <1>3, <2>1, <2>5, <2>6, PartsNext
<1>6. ASSUME NEW s \in Solids, BeginSolid(s)
      PROVE  TypeOK'
  <2>1. /\ pc' = pc /\ step' = step
        /\ locals' = [f \in Inputs |-> IF f \in ReadFor[s] THEN disk[f].by ELSE locals[f]]
        /\ folder' = [folder EXCEPT ![Here][s] = {}]
    BY <1>6 DEF BeginSolid
  <2>2. open' \in BOOLEAN
    BY <1>6, Zenon DEF BeginSolid
  <2>3. locals' \in [Inputs -> Runs']
    BY <1>2, <1>4, <2>1
  <2>4. DrawingOK'
    BY <1>2, <1>4, <2>1, <2>3 DEF DrawingOK
  <2>5. step' \in 1 .. 9
    BY <2>1 DEF TypeOK
  <2>. QED BY <1>1, <1>2, <1>3, <2>1, <2>2, <2>4, <2>5, PartsNext
<1>7. ASSUME NEW s \in Solids, FinishSolid(s)
      PROVE  TypeOK'
  <2>1. /\ pc' = pc /\ step' = step + 1 /\ Export[s] = step /\ locals' = locals
        /\ folder' = [folder EXCEPT ![Here][s] = {locals[f] : f \in MadeFrom[s]}]
    BY <1>7 DEF FinishSolid
  <2>2. open' \in BOOLEAN
    BY <1>7, Zenon DEF FinishSolid
  <2>3. {locals[f] : f \in MadeFrom[s]} \subseteq Runs
    BY <1>4
  <2>4. DrawingOK'
    BY <1>2, <1>4, <2>1, <2>3 DEF DrawingOK
  <2>5. step' \in 1 .. 9
    BY <2>1
  <2>. QED BY <1>1, <1>2, <1>3, <2>1, <2>2, <2>4, <2>5, PartsNext
<1>8. CASE ReadScrews
  <2>1. pc' = pc /\ step' = 8 /\ open' = open /\ UNCHANGED <<locals, folder>>
    BY <1>8 DEF ReadScrews, Drawn
  <2>2. open' \in BOOLEAN
    BY <2>1, Zenon DEF TypeOK
  <2>3. DrawingOK'
    BY <1>1, <2>1, Parts, DrawingStays
  <2>. QED BY <1>1, <1>2, <1>3, <2>1, <2>2, <2>3, PartsNext
<1>9. CASE EndFreecad \/ EmptyFile \/ NoBarrier
  <2>1. pc' = "idle" /\ Gone
    BY <1>9 DEF EndFreecad, EmptyFile, NoBarrier
  <2>. QED BY <1>3, <2>1, GoneTypes, PartsNext
<1>. QED BY <1>5, <1>6, <1>7, <1>8, <1>9 DEF FreecadSteps

LEMMA KillTypes ==
    ASSUME TypeOK, Kill
    PROVE  TypeOK'
<1>1. pc \in {"julia", "freecad"} /\ Gone /\ killed' = killed \cup {cur}
  BY DEF Kill
<1>2. pc' \in {"idle", "freecad"} /\ (todo' = todo \/ todo' = <<>>)
  BY <1>1 DEF Kill
<1>3. /\ runs' = runs /\ step' = 1 /\ open' = FALSE
      /\ FilesOK' /\ DrawingOK'
  BY <1>1, GoneTypes
<1>4. killed' \subseteq Runs'
  BY <1>1, <1>3, Heights, SameRuns DEF TypeOK
<1>5. todo' \in Seq(JobType)
  <2>1. todo \in Seq(JobType) /\ <<>> \in Seq(JobType)
    BY DEF TypeOK
  <2>. QED BY <1>2, <2>1, Zenon
<1>6. runs' \in Seq(JobType) /\ runs' # <<>>
  BY <1>1, <1>3 DEF TypeOK
<1>7. open' \in BOOLEAN
  BY <1>3, Zenon
<1>8. ScriptOK'
  BY <1>2, <1>3, <1>4, <1>5, <1>6, <1>7 DEF ScriptOK
<1>. QED BY <1>3, <1>8, PartsNext

LEMMA NextTypes == TypeOK /\ [Next]_vars => TypeOK'
<1>. SUFFICES ASSUME TypeOK, [Next]_vars PROVE TypeOK'
  OBVIOUS
<1>1. CASE UNCHANGED vars
  BY <1>1 DEF vars, TypeOK, Runs, cur
<1>2. CASE (\E script \in Scripts : StartScript(script)) \/ StartJulia
  BY <1>2, StartTypes
<1>3. CASE JuliaSteps
  BY <1>3, JuliaTypes
<1>4. CASE FreecadSteps
  BY <1>4, FreecadTypes
<1>5. CASE Kill
  BY <1>5, KillTypes
<1>. QED BY <1>1, <1>2, <1>3, <1>4, <1>5 DEF Next, ProgramSteps

\* Every variable of the scripts, the files and the folders keeps its type, however many
\* runs there are and however many are killed.
THEOREM PipelineTypeCorrect == Spec => []TypeOK
BY InitTypes, NextTypes, PTL DEF Spec
=============================================================================
