----------------------------- MODULE Challenge -----------------------------
(***************************************************************************)
(* run_challenge.py: compile, then for every instance run the solver with  *)
(* its standard output on the result file, and judge the file; and the     *)
(* tables that are made from the files at any time (table.py, graphs.py).  *)
(* The solver may fail at any line, and the result files outlive a run: a  *)
(* later one finds those of the runs before.  Ctrl-C ends the runner, but  *)
(* not while a file is read or judged: there a bare except swallows it.    *)
(*                                                                         *)
(* The instances share one problem; what the solver prints is any feasible *)
(* wave, or the empty one (SearchPool).                                    *)
(***************************************************************************)
EXTENDS Verdicts

CONSTANTS
  Instances,    \* the input files, numbered in the order of their names
  Unreadable,   \* those that read_input raises on
  MaxRuns,      \* bound: how often the runner is started
  None          \* no file, no instance, no verdict

\* A result file: the wave printed, its lines written, the run that did.
File == [wave : Wave, written : Nat, by : Nat]

Verdict == {"input error", "unexpected", "error", "success", "invalid"}

ASSUME ChallengeAssumption ==
  /\ Instances \subseteq Nat /\ Unreadable \subseteq Instances
  /\ MaxRuns \in Nat \ {0}
  /\ None \notin Instances \cup File \cup Verdict

VARIABLES
  rpc,       \* the runner: "compile", "next", "running", "reading", "judging", "ended"
  run,       \* which start of the runner this is
  todo,      \* instances not yet run
  current,   \* the instance being run
  solver,    \* its solver: "none", "searching", "printing", "exited", "failed"
  files,     \* the result file of every instance, or None
  read,      \* what read_output made of the current one, or None
  verdict,   \* what this run has reported of an instance
  cut        \* history: instances whose file this run was interrupted reading

vars == <<rpc, run, todo, current, solver, files, read, verdict, cut>>

Outputs == {w \in Wave : checkFeasibility(w.orders, w.aisles)} \cup {NoWave}

-----------------------------------------------------------------------------
(* The runner *)

Compile ==
  /\ rpc = "compile"
  /\ rpc' \in {"next", "ended"}
  /\ UNCHANGED <<run, todo, current, solver, files, read, verdict, cut>>

nextInstance(i) == rpc = "next" /\ i \in todo /\ \A j \in todo : i <= j

\* The instance i is done with, and v is what has been reported of it.
finish(i, v) ==
  /\ todo' = todo \ {i}
  /\ verdict' = [verdict EXCEPT ![i] = v]
  /\ current' = None /\ solver' = "none" /\ read' = None /\ rpc' = "next"

SkipUnreadable(i) ==
  /\ nextInstance(i) /\ i \in Unreadable
  /\ finish(i, "input error")
  /\ UNCHANGED <<run, files, cut>>

\* Mutant of emptyFile: the file is not truncated when it is opened.
keptFile(i) == IF files[i] = None THEN [wave |-> NoWave, written |-> 0, by |-> run]
               ELSE files[i]

\* open(output_file, 'w')
emptyFile(i) == [wave |-> NoWave, written |-> 0, by |-> run]

StartSolver(i) ==
  /\ nextInstance(i) /\ i \notin Unreadable
  /\ files' = [files EXCEPT ![i] = emptyFile(i)]
  /\ current' = i /\ solver' = "searching" /\ rpc' = "running"
  /\ UNCHANGED <<run, todo, read, verdict, cut>>

\* A file cannot be opened, or the solver not be started on an emptied one.
StartFails(i) ==
  /\ nextInstance(i) /\ i \notin Unreadable
  /\ files' \in {files, [files EXCEPT ![i] = emptyFile(i)]}
  /\ finish(i, "unexpected")
  /\ UNCHANGED <<run, cut>>

\* Mutant of SolverReturned: the exit code is not looked at.
SolverReturnedSomehow ==
  /\ rpc = "running" /\ solver \in {"failed", "exited"}
  /\ solver' = "none" /\ rpc' = "reading"
  /\ UNCHANGED <<run, todo, current, files, read, verdict, cut>>

SolverReturned ==
  /\ rpc = "running"
  /\ \/ /\ solver = "failed"
        /\ finish(current, "error")
     \/ /\ solver = "exited"
        /\ solver' = "none" /\ rpc' = "reading"
        /\ UNCHANGED <<todo, current, read, verdict>>
  /\ UNCHANGED <<run, files, cut>>

ReadFile ==
  /\ rpc = "reading"
  /\ read' = read_output(files[current])
  /\ rpc' = "judging"
  /\ UNCHANGED <<run, todo, current, solver, files, verdict, cut>>

\* Ctrl-C while the lines are parsed: nothing seems to have been selected.
ReadInterrupted ==
  /\ rpc = "reading"
  /\ read' = NoWave
  /\ cut' = cut \cup {current}
  /\ rpc' = "judging"
  /\ UNCHANGED <<run, todo, current, solver, files, verdict>>

Judge ==
  /\ rpc = "judging"
  /\ finish(current, IF is_solution_feasible(read.orders, read.aisles)
                     THEN "success" ELSE "invalid")
  /\ UNCHANGED <<run, files, cut>>

\* Ctrl-C anywhere else from the opening of the file to the report: nothing is
\* reported, and the loop goes on.
JudgeInterrupted ==
  /\ rpc \in {"reading", "judging"}
  /\ finish(current, None)
  /\ UNCHANGED <<run, files, cut>>

AllRun ==
  /\ rpc = "next" /\ todo = {}
  /\ rpc' = "ended"
  /\ UNCHANGED <<run, todo, current, solver, files, read, verdict, cut>>

\* Ctrl-C anywhere else: subprocess.run kills the process it waits for, and
\* except Exception does not catch KeyboardInterrupt.
Interrupt ==
  /\ rpc \in {"compile", "next", "running"}
  /\ rpc' = "ended"
  /\ current' = None /\ solver' = "none"
  /\ UNCHANGED <<run, todo, files, read, verdict, cut>>

StartAgain ==
  /\ rpc = "ended" /\ run < MaxRuns
  /\ rpc' = "compile" /\ run' = run + 1
  /\ todo' = Instances
  /\ verdict' = [i \in Instances |-> None]
  /\ cut' = {}
  /\ UNCHANGED <<current, solver, files, read>>

-----------------------------------------------------------------------------
(* The solver *)

FindWave ==
  /\ solver = "searching"
  /\ \E w \in Outputs : files' = [files EXCEPT ![current].wave = w]
  /\ solver' = "printing"
  /\ UNCHANGED <<rpc, run, todo, current, read, verdict, cut>>

PrintLine ==
  /\ solver = "printing" /\ ~complete(files[current])
  /\ files' = [files EXCEPT ![current].written = @ + 1]
  /\ UNCHANGED <<rpc, run, todo, current, solver, read, verdict, cut>>

Exit ==
  /\ solver = "printing" /\ complete(files[current])
  /\ solver' = "exited"
  /\ UNCHANGED <<rpc, run, todo, current, files, read, verdict, cut>>

\* Out of memory, a signal, an uncaught exception.
Fail ==
  /\ solver \in {"searching", "printing"}
  /\ solver' = "failed"
  /\ UNCHANGED <<rpc, run, todo, current, files, read, verdict, cut>>

-----------------------------------------------------------------------------
(* Specification *)

Init ==
  /\ rpc = "compile" /\ run = 1
  /\ todo = Instances
  /\ current = None /\ solver = "none"
  /\ files = [i \in Instances |-> None]
  /\ read = None
  /\ verdict = [i \in Instances |-> None]
  /\ cut = {}

Solver == FindWave \/ PrintLine \/ Exit \/ Fail

Runner ==
  \/ Compile
  \/ \E i \in Instances : SkipUnreadable(i) \/ StartSolver(i) \/ StartFails(i)
  \/ SolverReturned \/ ReadFile \/ Judge \/ AllRun

User == ReadInterrupted \/ JudgeInterrupted \/ Interrupt \/ StartAgain

Next == Solver \/ Runner \/ User

\* No fairness: nothing bounds the time a solver takes.
Spec == Init /\ [][Next]_vars

-----------------------------------------------------------------------------
(* Properties *)

\* Every variable holds what its type in run_challenge.py allows.
TypeOK ==
  /\ rpc \in {"compile", "next", "running", "reading", "judging", "ended"}
  /\ run \in 1 .. MaxRuns
  /\ todo \subseteq Instances
  /\ current \in Instances \cup {None}
  /\ solver \in {"none", "searching", "printing", "exited", "failed"}
  /\ files \in [Instances -> File \cup {None}]
  /\ \A i \in Instances : files[i] # None =>
       /\ files[i].wave \in Outputs
       /\ files[i].written <= lineCount(files[i].wave)
       /\ files[i].by <= run
  /\ read \in Wave \cup {None}
  /\ verdict \in [Instances -> Verdict \cup {None}]
  /\ cut \subseteq Instances

written(i) == files[i] # None

\* "Sucesso" is reported only of a whole, feasible wave of this run, also if the
\* reading was interrupted; "SOLUCAO INVALIDA" only of a whole wave of this run,
\* which is not feasible unless Ctrl-C cut its reading short: the except of
\* run_challenge.py:45 then makes a feasible file read as empty
\* (run_challenge.py:116-125).
VerdictIsRight ==
  \A i \in Instances :
    /\ verdict[i] \in {"success", "invalid"} =>
         written(i) /\ complete(files[i]) /\ files[i].by = run
    /\ verdict[i] = "success" =>
         checkFeasibility(files[i].wave.orders, files[i].wave.aisles)
    /\ verdict[i] = "invalid" /\ i \notin cut =>
         ~ checkFeasibility(files[i].wave.orders, files[i].wave.aisles)

\* A table made at any time, also while a solver prints or after one failed,
\* shows a positive score only of a whole feasible wave, and its own score
\* (table.py:44-69, 104-117).
TableScoreIsReal ==
  \A i \in Instances : written(i) /\ calculate_score(files[i])[1] > 0 =>
    LET w == files[i].wave
    IN  /\ complete(files[i])
        /\ checkFeasibility(w.orders, w.aisles)
        /\ calculate_score(files[i]) = calculateScore(w.orders, w.aisles)

\* After a run over all instances the table shows a score of an earlier run only
\* of an instance that "Erro inesperado" was reported of, whose file may not
\* have been opened; of those that could not be read the table cannot read the
\* problem either (run_challenge.py:105-126).  A run that Ctrl-C ended gives no
\* such promise; one that swallowed it does.
NoStaleScoreAfterRun ==
  rpc = "ended" /\ todo = {} =>
    \A i \in Instances \ Unreadable :
      written(i) /\ calculate_score(files[i])[1] > 0 =>
        files[i].by = run \/ verdict[i] = "unexpected"

\* Whatever wave is written in full (an exception can leave any wave in a file
\* of the baseline), checker.py and the tables agree on it, unless nothing at
\* all was selected: then checker.py divides by zero (checker.py:83, 95-100).
CheckersAgree ==
  \A f \in {[wave |-> w, written |-> lineCount(w)] : w \in Wave \ {NoWave}}
             \cup {files[i] : i \in {j \in Instances : written(j)}} :
    complete(f) /\ f.wave # NoWave =>
      (checker(f) = "feasible" <=> is_solution_feasible(f.wave.orders, f.wave.aisles))

=============================================================================
