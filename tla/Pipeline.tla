------------------------------- MODULE Pipeline -------------------------------
(***************************************************************************)
(* barrier.sh and barrier.bat over the files they work on: julia designs a *)
(* barrier and leaves it in files, one after the other; freecadcmd then    *)
(* runs barrier.py, which reads them and exports five solids to the folder *)
(* of the height it read, whatever julia returned.  Designs are numbered   *)
(* in the order their runs start; 0 stands for everything that was on disk *)
(* before.  A run of julia is what the other modules say of its arguments: *)
(* how many files it gets written, and how it ends.                        *)
(***************************************************************************)
EXTENDS Integers, Sequences, FiniteSets

CONSTANTS
    Scripts,      \* the scripts a user starts: sequences of jobs
    FirstHeight,  \* the height in barrier/barrier.csv before the first run
    FirstFolders, \* the heights that have a folder in simulations/ by then
    MaxRuns,      \* bound on the runs of julia
    MaxKills      \* bound on the runs that are killed

\* A job returns after all eight writes; otherwise it raises an error or never ends,
\* after the first "reach" of them.  julia writes to the directory it is started in,
\* "home" if that is /home/nsambataufeeq/usb, where barrier.py looks for barrier.csv.
JobType ==
    [height : 1 .. 127, reach : {8}, ends : {"returns"}, home : BOOLEAN]
    \cup [height : 1 .. 127, reach : 0 .. 7, ends : {"raises", "loops"}, home : BOOLEAN]

ASSUME ScriptsAssumption == Scripts \subseteq Seq(JobType)
ASSUME FirstAssumption == FirstHeight \in 1 .. 127 /\ FirstFolders \subseteq 1 .. 127
ASSUME BoundsAssumption == MaxRuns \in Nat /\ MaxKills \in Nat

VARIABLES
    pc,      \* "idle" between two programs of a script, "julia" or "freecad"
    todo,    \* the jobs the script has left
    runs,    \* the jobs of all runs so far
    step,    \* the next write of julia, the next export of barrier.py
    open,    \* whether that file is open: truncated, its new contents not on disk yet
    disk,    \* whose design each file is, and whether it is all there
    logs,    \* the designs that appended a line
    locals,  \* the designs of what barrier.py has read
    folder,  \* simulations/: the designs each solid was drawn from; {} if it is unusable
    killed   \* the runs that were killed (history)

vars == <<pc, todo, runs, step, open, disk, logs, locals, folder, killed>>

cur == Len(runs)
job == runs[cur]
HeightOf(g) == IF g = 0 THEN FirstHeight ELSE runs[g].height

----------------------------------------------------------------------------
Files == {"supports", "barrier", "hole_params", "screw_data", "_seal_data"}
Logs == {"support_data", "test_screw_data", "test_seal_data"}

\* A slip: the footing written after the bolts.
RankLate ==
    [supports |-> 1, support_data |-> 2, barrier |-> 4, hole_params |-> 3, screw_data |-> 5,
     test_screw_data |-> 6, _seal_data |-> 7, test_seal_data |-> 8]

\* The order in which main's functions write them.
Rank ==
    [supports |-> 1, support_data |-> 2, barrier |-> 3, hole_params |-> 4, screw_data |-> 5,
     test_screw_data |-> 6, _seal_data |-> 7, test_seal_data |-> 8]

Solids == {"barrier_base", "barrier_foundation", "flange", "frames", "wall_span"}

\* The order in which main of barrier.py exports them, after it has read barrier.csv.
Export == [barrier_base |-> 2, barrier_foundation |-> 3, flange |-> 4, frames |-> 5,
           wall_span |-> 6]

\* The last thing barrier.py does is to read screw_data.csv, for nothing yet.
ReadingScrews == 7
Drawn == 8

\* The file a function of barrier.py reads for a solid, if any: what the others use is
\* handed to them.
ReadFor == [barrier_base |-> {"hole_params"}, barrier_foundation |-> {},
            flange |-> {"hole_params"}, frames |-> {"supports"}, wall_span |-> {}]

\* The files whose numbers end in a solid: the frames stand on the plate, the span
\* between the frames.
MadeFrom ==
    [barrier_base |-> {"barrier", "hole_params"}, barrier_foundation |-> {"barrier", "hole_params"},
     flange |-> {"barrier", "hole_params"}, frames |-> {"barrier", "hole_params", "supports"},
     wall_span |-> {"barrier", "supports"}]

Inputs == {"barrier", "hole_params", "supports"}

Unread == [f \in Inputs |-> 0]
Undrawn == [s \in Solids |-> {}]

Init ==
    /\ pc = "idle"
    /\ todo = <<>>
    /\ runs = <<>>
    /\ step = 1
    /\ open = FALSE
    /\ disk = [f \in Files |-> [by |-> 0, whole |-> TRUE]]
    /\ logs = [l \in Logs |-> {}]
    /\ locals = Unread
    /\ folder = [h \in FirstFolders |-> [s \in Solids |-> {0}]]
    /\ killed = {}

----------------------------------------------------------------------------
\* A user starts a script.
StartScript(script) ==
    /\ pc = "idle" /\ todo = <<>>
    /\ cur + Len(script) <= MaxRuns
    /\ todo' = script
    /\ UNCHANGED <<pc, runs, step, open, disk, logs, locals, folder, killed>>

StartJulia ==
    /\ pc = "idle" /\ todo # <<>>
    /\ runs' = Append(runs, Head(todo))
    /\ todo' = Tail(todo)
    /\ pc' = "julia"
    /\ step' = 1
    /\ UNCHANGED <<open, disk, logs, locals, folder, killed>>

\* open(filepath, "w") empties the file; writecsv and close fill it.
OpenFile(f) ==
    /\ pc = "julia" /\ step <= job.reach /\ Rank[f] = step
    /\ ~open
    /\ open' = TRUE
    /\ disk' = [disk EXCEPT ![f] = [by |-> cur, whole |-> FALSE]]
    /\ UNCHANGED <<pc, todo, runs, step, logs, locals, folder, killed>>

\* A slip: the file is not closed.
CloseNothing(f) ==
    /\ pc = "julia" /\ Rank[f] = step
    /\ open
    /\ open' = FALSE
    /\ step' = step + 1
    /\ UNCHANGED <<pc, todo, runs, disk, logs, locals, folder, killed>>

CloseFile(f) ==
    /\ pc = "julia" /\ Rank[f] = step
    /\ open
    /\ open' = FALSE
    /\ disk' = [disk EXCEPT ![f] = [by |-> cur, whole |-> TRUE]]
    /\ step' = step + 1
    /\ UNCHANGED <<pc, todo, runs, logs, locals, folder, killed>>

\* A slip: the height for the design.
AppendHeight(l) ==
    /\ pc = "julia" /\ step <= job.reach /\ Rank[l] = step
    /\ logs' = [logs EXCEPT ![l] = @ \cup {job.height}]
    /\ step' = step + 1
    /\ UNCHANGED <<pc, todo, runs, open, disk, locals, folder, killed>>

\* open(filepath, "a") leaves what is there; the line arrives with close.
AppendLine(l) ==
    /\ pc = "julia" /\ step <= job.reach /\ Rank[l] = step
    /\ logs' = [logs EXCEPT ![l] = @ \cup {cur}]
    /\ step' = step + 1
    /\ UNCHANGED <<pc, todo, runs, open, disk, locals, folder, killed>>

\* Slips: the script takes julia for finished at any moment; it stops at an error.
EndJuliaAtOnce ==
    /\ pc = "julia"
    /\ job.ends # "loops"
    /\ pc' = "freecad"
    /\ step' = 1
    /\ open' = FALSE
    /\ UNCHANGED <<todo, runs, disk, logs, locals, folder, killed>>

EndJuliaReturned ==
    /\ pc = "julia" /\ step > job.reach
    /\ job.ends = "returns"
    /\ pc' = "freecad"
    /\ step' = 1
    /\ UNCHANGED <<todo, runs, open, disk, logs, locals, folder, killed>>

\* julia returns or dies of an error; the script does not look which, and goes on.
EndJulia ==
    /\ pc = "julia" /\ step > job.reach
    /\ job.ends # "loops"
    /\ pc' = "freecad"
    /\ step' = 1
    /\ UNCHANGED <<todo, runs, open, disk, logs, locals, folder, killed>>

----------------------------------------------------------------------------
\* The process is gone: its locals with it, what it had opened stays as it is.
Gone ==
    /\ open' = FALSE
    /\ locals' = Unread
    /\ step' = 1
    /\ UNCHANGED <<runs, disk, logs, folder>>

\* A slip: nothing drawn when there is a folder.
ReadBarrierNew ==
    /\ pc = "freecad" /\ step = 1
    /\ job.home /\ disk["barrier"].whole
    /\ locals' = [locals EXCEPT !["barrier"] = disk["barrier"].by]
    /\ LET h == HeightOf(disk["barrier"].by)
       IN  /\ folder' = [x \in DOMAIN folder \cup {h} |->
                             IF x \in DOMAIN folder THEN folder[x] ELSE Undrawn]
           /\ step' = IF h \in DOMAIN folder THEN Drawn ELSE 2
    /\ UNCHANGED <<pc, todo, runs, open, disk, logs, killed>>

\* barrier.py reads the line of barrier.csv and makes the folder of its height.
ReadBarrier ==
    /\ pc = "freecad" /\ step = 1
    /\ job.home /\ disk["barrier"].whole
    /\ locals' = [locals EXCEPT !["barrier"] = disk["barrier"].by]
    /\ LET h == HeightOf(disk["barrier"].by)
       IN  folder' = [x \in DOMAIN folder \cup {h} |->
                          IF x \in DOMAIN folder THEN folder[x] ELSE Undrawn]
    /\ step' = 2
    /\ UNCHANGED <<pc, todo, runs, open, disk, logs, killed>>

\* Started anywhere else, barrier.py does not find the file: an IOError, before a folder
\* is made.
NoBarrier ==
    /\ pc = "freecad" /\ step = 1
    /\ ~job.home
    /\ pc' = "idle"
    /\ Gone
    /\ UNCHANGED <<todo, killed>>

\* The folder this drawing goes to.
Here == HeightOf(locals["barrier"])

\* The function of a solid reads its file; exportStep begins the STEP file anew ...
BeginSolid(s) ==
    /\ pc = "freecad" /\ Export[s] = step
    /\ ~open
    /\ \A f \in ReadFor[s] : disk[f].whole
    /\ locals' = [f \in Inputs |-> IF f \in ReadFor[s] THEN disk[f].by ELSE locals[f]]
    /\ folder' = [folder EXCEPT ![Here][s] = {}]
    /\ open' = TRUE
    /\ UNCHANGED <<pc, todo, runs, step, disk, logs, killed>>

\* ... and ends it.
FinishSolid(s) ==
    /\ pc = "freecad" /\ Export[s] = step
    /\ open
    /\ folder' = [folder EXCEPT ![Here][s] = {locals[f] : f \in MadeFrom[s]}]
    /\ open' = FALSE
    /\ step' = step + 1
    /\ UNCHANGED <<pc, todo, runs, disk, logs, locals, killed>>

ReadScrews ==
    /\ pc = "freecad" /\ step = ReadingScrews
    /\ step' = Drawn
    /\ UNCHANGED <<pc, todo, runs, open, disk, logs, locals, folder, killed>>

EndFreecad ==
    /\ pc = "freecad" /\ step = Drawn
    /\ pc' = "idle"
    /\ Gone
    /\ UNCHANGED <<todo, killed>>

\* An empty file has no row that would assign the variables the next lines use.
Needs == IF step = 1 THEN {"barrier"} ELSE UNION {ReadFor[s] : s \in {x \in Solids : Export[x] = step}}

EmptyFile ==
    /\ pc = "freecad"
    /\ ~open
    /\ step = 1 => job.home
    /\ \E f \in Needs : ~disk[f].whole
    /\ pc' = "idle"
    /\ Gone
    /\ UNCHANGED <<todo, killed>>

----------------------------------------------------------------------------
\* Someone stops a program, an endless one if no other; the script goes on with the
\* next program or is stopped with it.
Kill ==
    /\ pc \in {"julia", "freecad"}
    /\ killed' = killed \cup {cur}
    /\ Cardinality(killed') <= MaxKills
    /\ Gone
    /\ \/ pc' = (IF pc = "julia" THEN "freecad" ELSE "idle") /\ UNCHANGED todo
       \/ pc' = "idle" /\ todo' = <<>>

JuliaSteps ==
    \/ \E f \in Files : OpenFile(f) \/ CloseFile(f)
    \/ \E l \in Logs : AppendLine(l)
    \/ EndJulia

FreecadSteps ==
    \/ ReadBarrier
    \/ NoBarrier
    \/ \E s \in Solids : BeginSolid(s) \/ FinishSolid(s)
    \/ ReadScrews
    \/ EndFreecad
    \/ EmptyFile

ProgramSteps == StartJulia \/ JuliaSteps \/ FreecadSteps

Next ==
    \/ ProgramSteps
    \/ \E script \in Scripts : StartScript(script)
    \/ Kill

\* What is running goes on; nobody has to start a script or to kill one.
Spec == Init /\ [][Next]_vars /\ WF_vars(ProgramSteps)

----------------------------------------------------------------------------
\* Every variable keeps its type.
Runs == 0 .. cur

TypeOK ==
    /\ pc \in {"idle", "julia", "freecad"}
    /\ todo \in Seq(JobType)
    /\ runs \in Seq(JobType)
    /\ pc # "idle" => runs # <<>>
    /\ step \in 1 .. 9
    /\ open \in BOOLEAN
    /\ disk \in [Files -> [by : Runs, whole : BOOLEAN]]
    /\ logs \in [Logs -> SUBSET Runs]
    /\ locals \in [Inputs -> Runs]
    /\ DOMAIN folder \subseteq 1 .. 127
    /\ \A h \in DOMAIN folder : folder[h] \in [Solids -> SUBSET Runs]
    /\ killed \subseteq Runs

\* Whatever runs fail or are killed, and however the files mix designs then, no file
\* is older than one that is written after it; and a line in a log means that all
\* that is written before it is of that design or a later one.
FilesAgeInOrder ==
    /\ disk["supports"].by >= disk["barrier"].by
    /\ disk["barrier"].by >= disk["hole_params"].by
    /\ disk["hole_params"].by >= disk["screw_data"].by
    /\ disk["screw_data"].by >= disk["_seal_data"].by
    /\ \A l \in Logs : \A g \in logs[l] : \A f \in Files : Rank[f] < Rank[l] => disk[f].by >= g
    /\ \A l, m \in Logs : Rank[l] < Rank[m] => logs[m] \subseteq logs[l]

\* A run that got as far as the bolts, and was not killed, draws all five solids from
\* its own design: an error in the rest of the bolts or in the seal, or whatever the
\* runs before it have left in the files and in the folder, does not show in them.
DrawsOneDesign ==
    pc = "freecad" /\ step = Drawn /\ job.reach >= Rank["hole_params"] /\ cur \notin killed =>
        \A s \in Solids : folder[job.height][s] = {cur}

\* Only a kill leaves anything half done, however many errors, hangs and kills there are:
\* an empty file is being written or its run was killed, and no run leaves two of them;
\* a drawing that comes to its end has all five solids, whatever a killed one left of
\* them; and before the first kill no folder lacks one between two drawings.
OnlyKillsLeaveHalves ==
    /\ \A f \in Files : ~disk[f].whole =>
           (pc = "julia" /\ open /\ Rank[f] = step) \/ disk[f].by \in killed
    /\ \A f, g \in Files :
           ~disk[f].whole /\ ~disk[g].whole /\ disk[f].by = disk[g].by => f = g
    /\ pc = "freecad" /\ step = Drawn => \A s \in Solids : folder[Here][s] # {}
    /\ killed = {} /\ pc # "freecad" =>
           \A h \in DOMAIN folder : \A s \in Solids : folder[h][s] # {}

\* A run leaves the folders of other heights alone, unless it is killed or fails before
\* it has written barrier.csv: barrier.py takes the folder from that file.
OtherFoldersUntouched ==
    [][\A h \in DOMAIN folder' :
          (h \in DOMAIN folder => folder'[h] # folder[h]) =>
              h = job.height \/ cur \in killed \/ job.reach < Rank["barrier"]]_vars

\* A design that gets as far as the bolts and ends is drawn, unless its run is killed or
\* barrier.py looks for it elsewhere.
DesignsAreDrawn ==
    \A g \in 1 .. MaxRuns :
        (/\ cur = g /\ pc = "julia" /\ job.home
         /\ job.reach >= Rank["hole_params"] /\ job.ends # "loops")
            ~> (g \in killed \/ (/\ g <= cur
                                /\ runs[g].height \in DOMAIN folder
                                /\ \A s \in Solids : folder[runs[g].height][s] = {g}))

\* "The julia program calculates the design dimensions which are then passed to a
\* python script" (README.md:8): the files barrier.py has read are of one design.
PassedDimensionsAgree ==
    pc = "freecad" /\ step = Drawn =>
        \A f \in Inputs \cup {"screw_data"} : disk[f].by = cur
=============================================================================
