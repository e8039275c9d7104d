----------------------------- MODULE SearchPool -----------------------------
(***************************************************************************)
(* main (main.cpp): threadCount workers run the chosen heuristic again and *)
(* again, keep the best feasible solution under one mutex, and stop when   *)
(* nothing has improved for `patience'.  main joins them and prints.       *)
(*                                                                         *)
(* A heuristic run is one step that returns any of Solutions; that a run   *)
(* returns at all is the fairness of Run.  The loop condition reads        *)
(* lastImprovement without the mutex while another worker may write it: a  *)
(* data race on one aligned word, which reads the value before or after.   *)
(***************************************************************************)
EXTENDS Integers, Sequences

CONSTANTS
  Threads,    \* one per hardware thread
  Solutions,  \* what the heuristic can return
  Score,      \* Solution::calculateScore
  Feasible,   \* Solution::checkFeasibility
  Patience,   \* chrono::seconds(3)
  Empty,      \* the default Solution, no orders and no aisles
  NoThread    \* the mutex is free

ASSUME PoolAssumption ==
  /\ Score \in [Solutions -> Nat]
  /\ Feasible \in [Solutions -> BOOLEAN]
  /\ Patience \in Nat \ {0}
  /\ Empty \in Solutions /\ Score[Empty] = 0
  /\ NoThread \notin Threads

VARIABLES
  clock,            \* the wall clock, 0 at startTime
  tpc,              \* tpc[t]: where worker t is
  now,              \* now[t]: its last reading of the clock
  solution,         \* solution[t]: what its last heuristic run returned
  solutionMutex,    \* the worker that holds the mutex, or NoThread
  bestScore, bestSolution, lastImprovement,
  log,              \* the lines of the log file, <<elapsed, score>>
  mpc, printed      \* main: joining or exited, and what it printed

shared == <<bestScore, bestSolution, lastImprovement, log>>
vars == <<clock, tpc, now, solution, solutionMutex, shared, mpc, printed>>

Init ==
  /\ clock = 0
  /\ tpc = [t \in Threads |-> "start"]
  /\ now = [t \in Threads |-> 0]
  /\ solution = [t \in Threads |-> Empty]
  /\ solutionMutex = NoThread
  /\ bestScore = 0 /\ bestSolution = Empty /\ lastImprovement = 0
  /\ log = <<>>
  /\ mpc = "join" /\ printed = Empty

-----------------------------------------------------------------------------
(* A worker *)

Goto(t, from, to) == tpc[t] = from /\ tpc' = [tpc EXCEPT ![t] = to]

\* Mutant of ReadClock: the time of the deadline passed, not the time.
ReadPast(t) == now' = [now EXCEPT ![t] = clock - Patience]

ReadClock(t) == now' = [now EXCEPT ![t] = clock]

Start(t) ==
  /\ Goto(t, "start", "loop")
  /\ ReadClock(t)
  /\ UNCHANGED <<clock, solution, solutionMutex, shared, mpc, printed>>

\* The loop condition, with the reading of the clock the thread last made.
patient(t) == now[t] < lastImprovement + Patience

Enter(t) ==
  /\ patient(t)
  /\ Goto(t, "loop", "run")
  /\ UNCHANGED <<clock, now, solution, solutionMutex, shared, mpc, printed>>

Leave(t) ==
  /\ ~ patient(t)
  /\ Goto(t, "loop", "stopped")
  /\ UNCHANGED <<clock, now, solution, solutionMutex, shared, mpc, printed>>

Run(t) ==
  /\ Goto(t, "run", "judge")
  /\ \E s \in Solutions : solution' = [solution EXCEPT ![t] = s]
  /\ UNCHANGED <<clock, now, solutionMutex, shared, mpc, printed>>

\* continue: back to the loop condition, the clock not read again.
Discard(t) ==
  /\ ~ Feasible[solution[t]]
  /\ Goto(t, "judge", "loop")
  /\ UNCHANGED <<clock, now, solution, solutionMutex, shared, mpc, printed>>

\* Mutant of Lock: an infeasible solution is compared too.
LockAny(t) ==
  /\ solutionMutex = NoThread
  /\ Goto(t, "judge", "locked")
  /\ solutionMutex' = t
  /\ UNCHANGED <<clock, now, solution, shared, mpc, printed>>

\* Mutant of Lock: no mutex.
LockNothing(t) ==
  /\ Feasible[solution[t]]
  /\ Goto(t, "judge", "locked")
  /\ solutionMutex' = t
  /\ UNCHANGED <<clock, now, solution, shared, mpc, printed>>

Lock(t) ==
  /\ Feasible[solution[t]]
  /\ solutionMutex = NoThread
  /\ Goto(t, "judge", "locked")
  /\ solutionMutex' = t
  /\ UNCHANGED <<clock, now, solution, shared, mpc, printed>>

\* Mutant of Compare: the clock is not read again under the mutex.
CompareStale(t) ==
  /\ Goto(t, "locked", IF Score[solution[t]] > bestScore THEN "setScore"
                       ELSE "unlock")
  /\ UNCHANGED <<clock, now, solution, solutionMutex, shared, mpc, printed>>

\* Mutant of Compare: an equal score counts as an improvement.
CompareOrEqual(t) ==
  /\ Goto(t, "locked", IF Score[solution[t]] >= bestScore THEN "setScore"
                       ELSE "unlock")
  /\ ReadClock(t)
  /\ UNCHANGED <<clock, solution, solutionMutex, shared, mpc, printed>>

Compare(t) ==
  /\ Goto(t, "locked", IF Score[solution[t]] > bestScore THEN "setScore"
                       ELSE "unlock")
  /\ ReadClock(t)
  /\ UNCHANGED <<clock, solution, solutionMutex, shared, mpc, printed>>

SetScore(t) ==
  /\ Goto(t, "setScore", "setSolution")
  /\ bestScore' = Score[solution[t]]
  /\ UNCHANGED <<clock, now, solution, solutionMutex, bestSolution,
                 lastImprovement, log, mpc, printed>>

SetSolution(t) ==
  /\ Goto(t, "setSolution", "setTime")
  /\ bestSolution' = solution[t]
  /\ UNCHANGED <<clock, now, solution, solutionMutex, bestScore,
                 lastImprovement, log, mpc, printed>>

SetTime(t) ==
  /\ Goto(t, "setTime", "log")
  /\ lastImprovement' = now[t]
  /\ UNCHANGED <<clock, now, solution, solutionMutex, bestScore, bestSolution,
                 log, mpc, printed>>

\* The log is appended to while the mutex is held.
Log(t) ==
  /\ Goto(t, "log", "unlock")
  /\ log' = Append(log, <<now[t], Score[solution[t]]>>)
  /\ UNCHANGED <<clock, now, solution, solutionMutex, bestScore, bestSolution,
                 lastImprovement, mpc, printed>>

Unlock(t) ==
  /\ Goto(t, "unlock", "loop")
  /\ solutionMutex' = NoThread
  /\ UNCHANGED <<clock, now, solution, shared, mpc, printed>>

Worker(t) ==
  \/ Start(t) \/ Enter(t) \/ Leave(t) \/ Run(t) \/ Discard(t) \/ Lock(t)
  \/ Compare(t) \/ SetScore(t) \/ SetSolution(t) \/ SetTime(t) \/ Log(t)
  \/ Unlock(t)

-----------------------------------------------------------------------------
(* main, and time *)

\* Mutant of JoinAndPrint: main waits for one worker only.
JoinOne ==
  /\ mpc = "join"
  /\ \E t \in Threads : tpc[t] = "stopped"
  /\ mpc' = "exited"
  /\ printed' = bestSolution
  /\ UNCHANGED <<clock, tpc, now, solution, solutionMutex, shared>>

JoinAndPrint ==
  /\ mpc = "join"
  /\ \A t \in Threads : tpc[t] = "stopped"
  /\ mpc' = "exited"
  /\ printed' = bestSolution
  /\ UNCHANGED <<clock, tpc, now, solution, solutionMutex, shared>>

\* Bound: the clock stands still once patience has run out.  Every later
\* instant compares with lastImprovement + Patience as this one does.
Tick ==
  /\ clock < lastImprovement + Patience
  /\ clock' = clock + 1
  /\ UNCHANGED <<tpc, now, solution, solutionMutex, shared, mpc, printed>>

Exited == mpc = "exited" /\ UNCHANGED vars

Next == (\E t \in Threads : Worker(t)) \/ JoinAndPrint \/ Tick \/ Exited

\* The operating system schedules every thread and time passes.  Nothing is
\* assumed of which worker gets the mutex, nor of what a heuristic returns.
Fairness ==
  /\ \A t \in Threads : WF_vars(Worker(t))
  /\ WF_vars(JoinAndPrint)
  /\ WF_vars(Tick)

Spec == Init /\ [][Next]_vars /\ Fairness

-----------------------------------------------------------------------------
(* Properties *)

WorkerPCs == {"start", "loop", "run", "judge", "locked", "setScore",
              "setSolution", "setTime", "log", "unlock", "stopped"}

\* Every variable holds what its type allows.
TypeOK ==
  /\ clock \in Nat
  /\ tpc \in [Threads -> WorkerPCs]
  /\ now \in [Threads -> Nat]
  /\ solution \in [Threads -> Solutions]
  /\ solutionMutex \in Threads \cup {NoThread}
  /\ bestScore \in Nat /\ bestSolution \in Solutions
  /\ lastImprovement \in Nat
  /\ log \in Seq(Nat \X Nat)
  /\ mpc \in {"join", "exited"} /\ printed \in Solutions

\* bestScore is the score of bestSolution, the solution is feasible unless
\* nothing was found yet, and the last line of the log is this improvement.
Consistent ==
  /\ bestScore = Score[bestSolution]
  /\ IF log = <<>> THEN bestSolution = Empty /\ lastImprovement = 0
     ELSE /\ Feasible[bestSolution]
          /\ log[Len(log)] = <<lastImprovement, bestScore>>

\* While the mutex is free, what is kept is consistent (main.cpp:83-101).
BestIsConsistent == solutionMutex = NoThread => Consistent

\* No update is lost: what a worker found last, if feasible, is no better than
\* what is kept whenever the worker is at the head of its loop, in its next run
\* or stopped, whatever the others did meanwhile.  One still on its way to the
\* mutex may hold something better (main.cpp:77-105).
NoFindingIsLost ==
  \A t \in Threads :
    tpc[t] \in {"loop", "run", "stopped"} /\ Feasible[solution[t]] =>
      Score[solution[t]] <= bestScore

\* main prints a solution at least as good as every feasible one a worker
\* last saw, and a feasible one if any had a positive score.
PrintsTheBest ==
  mpc = "exited" =>
    /\ \A t \in Threads : Feasible[solution[t]] =>
                            Score[solution[t]] <= Score[printed]
    /\ Score[printed] > 0 => Feasible[printed]

\* The log tells one story: scores strictly rise, and no line is older than
\* the one before, although the workers read the clock on their own.
LogRises ==
  \A k \in 2 .. Len(log) :
    log[k - 1][1] <= log[k][1] /\ log[k - 1][2] < log[k][2]

\* An improvement never moves the deadline back, and never replaces the
\* solution by a worse one.
ImprovementsOnly ==
  [][lastImprovement' >= lastImprovement
      /\ (bestSolution' # bestSolution =>
            Score[bestSolution'] > Score[bestSolution])]_vars

\* A worker that runs for ever finds feasible solutions again and again.
KeepsFinding(t) == []<>(tpc[t] = "run") => []<>(tpc[t] = "locked")

\* If no worker fails for ever, the program stops: the workers run out of
\* patience and main prints, however the mutex is contended.
StopsIfFeasible ==
  (\A t \in Threads : KeepsFinding(t)) => <>(mpc = "exited")

\* The program stops (a property that fails).
ProgramStops == <>(mpc = "exited")

=============================================================================
