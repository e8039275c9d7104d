------------------------------ MODULE Baseline ------------------------------
(***************************************************************************)
(* The CPLEX baseline (baseline/src/main.cpp): brute builds the integer    *)
(* program, first minimises the aisles, then for every count of aisles     *)
(* from that minimum on maximises the units, and writes the output file at *)
(* each improvement.  The time left is computed before every solve.        *)
(*                                                                         *)
(* The solver is external.  A solve takes any time up to its limit.  If it *)
(* ends before the limit its answer is proven: an optimal wave, or none    *)
(* because none exists.  At the limit it is any wave of the model, or none *)
(* found.  A call may also raise IloException.  "Optimal" is exact here: *)
(* the program leaves the relative gap of CPLEX at its default of 0.0001,  *)
(* which can hide a unit when a wave has some ten thousand of them.        *)
(*                                                                         *)
(* Time passes while the model is built and in solves.                     *)
(***************************************************************************)
EXTENDS WaveProblem

CONSTANTS
  MaxRuntime,   \* MAX_RUNTIME
  Margin,       \* the 15 s kept for writing
  MinLimit,     \* the 1 s a solve gets when less than the margin is left
  MaxBuild,     \* bound: time the model takes to build
  MaxSolve,     \* bound: time a solve without limit takes
  None          \* no wave, no row for the count, no limit

Wave == [orders : SUBSET Orders, aisles : SUBSET Aisles]

ASSUME BaselineAssumption ==
  /\ MaxRuntime \in Nat /\ Margin \in Nat /\ MinLimit \in Nat \ {0}
  /\ MaxBuild \in Nat /\ MaxSolve \in Nat
  /\ None \notin Nat \cup Wave

VARIABLES
  pc,             \* "build", "minimize", "nextCount", "maximize", "done"
  now,            \* time since solve() was called
  timeLimit,      \* CPLEX parameter TimeLimit, or None
  rows,           \* rows of the model added: LB, UB, then one per item
  constraint,     \* the count the handle "constraint" stands for, or None
  aisleCounts,    \* the counts that rows of the model fix sumY to
  K, best,
  writable,       \* the output file can be opened
  file,           \* the wave in the output file, or None
  inTime,         \* history: no solve reached its limit, no count was left out
  noFault         \* history: no call raised an exception

vars == <<pc, now, timeLimit, rows, constraint, aisleCounts, K, best, writable,
          file, inTime, noFault>>

AllRows == 2 + ItemCount

-----------------------------------------------------------------------------
(* Time *)

\* Mutant of limitAt: a solve late in the run gets the whole budget.
limitOfWholeRun(t) == MaxRuntime

\* setTimeLimit, with t < MaxRuntime elapsed.
limitAt(t) ==
  IF MaxRuntime - t < Margin THEN MinLimit ELSE MaxRuntime - t - Margin

-----------------------------------------------------------------------------
(* The model and the solver *)

\* The constructor sums the units of every order once; a sum over orders is
\* again counted in units.
sumOrders(O) == Cardinality(UNION {{o} \X (1 .. orderTotalUnits[o]) : o \in O})

\* Mutant of satisfiesRows: the row of an item counts every aisle.
satisfiesRowsAllAisles(w) ==
  /\ rows > 0 => LB <= sumOrders(w.orders)
  /\ rows > 1 => sumOrders(w.orders) <= UB
  /\ \A i \in Items :
       rows > 2 + i => Required(w.orders, i) <= Available(Aisles, i)

\* create_brute_model
satisfiesRows(w) ==
  /\ rows > 0 => LB <= sumOrders(w.orders)
  /\ rows > 1 => sumOrders(w.orders) <= UB
  /\ \A i \in Items :
       rows > 2 + i => Required(w.orders, i) <= Available(w.aisles, i)

modelWaves ==
  {w \in Wave : satisfiesRows(w) /\ \A c \in aisleCounts : Cardinality(w.aisles) = c}

fewestAisles(S) ==
  {w \in S : \A v \in S : Cardinality(w.aisles) <= Cardinality(v.aisles)}
mostUnits(S) == {w \in S : \A v \in S : sumOrders(w.orders) >= sumOrders(v.orders)}

solveTimes == IF timeLimit = None THEN 0 .. MaxSolve ELSE 0 .. timeLimit

stopped(d) == timeLimit # None /\ d = timeLimit

\* What a solve that took d may answer, the proven answers being optimal.
answers(d, optimal) ==
  IF stopped(d) THEN modelWaves \cup {None}
  ELSE IF modelWaves = {} THEN {None} ELSE optimal

\* get_solution reads the orders, then the aisles; an exception ends the
\* reading and leaves what was read so far.
readings(w) ==
  {[orders |-> {o \in w.orders : o < n}, aisles |-> {}] : n \in 0 .. OrderCount}
    \cup {[w EXCEPT !.aisles = {a \in w.aisles : a < n}] : n \in 0 .. AisleCount}

\* The wave w is read from the solver and written.
get_solution(w) ==
  \/ /\ file' = IF writable THEN w ELSE file
     /\ UNCHANGED noFault
  \/ \E part \in readings(w) :
       /\ file' = IF writable THEN part ELSE file
       /\ noFault' = FALSE

-----------------------------------------------------------------------------
(* brute *)

\* An exception while the model is built is caught there: brute goes on with
\* the rows added so far.  The result of setTimeLimit is not looked at.
BuildModel(d, n) ==
  /\ pc = "build"
  /\ now' = now + d
  /\ rows' = n
  /\ noFault' = (n = AllRows)
  /\ timeLimit' = IF now' < MaxRuntime THEN limitAt(now') ELSE timeLimit
  /\ pc' = "minimize"
  /\ UNCHANGED <<constraint, aisleCounts, K, best, writable, file, inTime>>

\* A solve that took d.
spend(d) ==
  /\ now' = now + d
  /\ inTime' = (inTime /\ ~stopped(d))

MinimizeAisles(d) ==
  /\ pc = "minimize"
  /\ spend(d)
  /\ \E w \in answers(d, fewestAisles(modelWaves)) :
       IF w = None
       THEN K' = AisleCount /\ UNCHANGED <<file, noFault>>
       ELSE K' = Cardinality(w.aisles) /\ get_solution(w)
  /\ pc' = "nextCount"
  /\ UNCHANGED <<timeLimit, rows, constraint, aisleCounts, best, writable>>

\* Mutant of fixCount: the row of the last count stays in the model.
fixCountToo == aisleCounts' = aisleCounts \cup {K}

\* The row of the last count is removed from the model, the next is added.
fixCount == aisleCounts' = (aisleCounts \ {constraint}) \cup {K}

\* Mutant of NextCount: one count too many.
NextCountPast ==
  /\ pc = "nextCount"
  /\ K <= AisleCount + 1
  /\ now < MaxRuntime
  /\ timeLimit' = limitAt(now)
  /\ fixCount
  /\ constraint' = K
  /\ pc' = "maximize"
  /\ UNCHANGED <<now, rows, K, best, writable, file, inTime, noFault>>

NextCount ==
  /\ pc = "nextCount"
  /\ K <= AisleCount
  /\ now < MaxRuntime
  /\ timeLimit' = limitAt(now)
  /\ fixCount
  /\ constraint' = K
  /\ pc' = "maximize"
  /\ UNCHANGED <<now, rows, K, best, writable, file, inTime, noFault>>

\* Mutant of answerScore: the score for the next count.
answerScoreNext(w) == <<sumOrders(w.orders), K + 1>>

\* The score of the answer w for the count K.
answerScore(w) == IF K > 0 THEN <<sumOrders(w.orders), K>> ELSE <<0, 1>>

\* Mutant of isBetter: a wave with more units is better.
hasMoreUnits(w) == answerScore(w)[1] > best[1]

isBetter(w) == Exceeds(answerScore(w), best)

\* Mutant of MaximizeUnits: a count without answer is tried again.
MaximizeUnitsAgain(d) ==
  /\ pc = "maximize"
  /\ spend(d)
  /\ \E w \in answers(d, mostUnits(modelWaves)) :
       /\ IF w # None /\ isBetter(w)
          THEN best' = answerScore(w) /\ get_solution(w)
          ELSE UNCHANGED <<best, file, noFault>>
       /\ K' = IF w = None THEN K ELSE K + 1
  /\ pc' = "nextCount"
  /\ UNCHANGED <<timeLimit, rows, constraint, aisleCounts, writable>>

MaximizeUnits(d) ==
  /\ pc = "maximize"
  /\ spend(d)
  /\ \E w \in answers(d, mostUnits(modelWaves)) :
       IF w # None /\ isBetter(w)
       THEN best' = answerScore(w) /\ get_solution(w)
       ELSE UNCHANGED <<best, file, noFault>>
  /\ K' = K + 1
  /\ pc' = "nextCount"
  /\ UNCHANGED <<timeLimit, rows, constraint, aisleCounts, writable>>

\* Every count has been tried, or no time is left.
CountsEnd ==
  /\ pc = "nextCount"
  /\ K > AisleCount \/ now >= MaxRuntime
  /\ inTime' = (inTime /\ K > AisleCount)
  /\ pc' = "done"
  /\ UNCHANGED <<now, timeLimit, rows, constraint, aisleCounts, K, best, writable,
                 file, noFault>>

\* A call of the solver raises: brute catches the exception and returns.
Raise(d) ==
  /\ pc \in {"minimize", "maximize"}
  /\ now' = now + d
  /\ noFault' = FALSE
  /\ pc' = "done"
  /\ UNCHANGED <<timeLimit, rows, constraint, aisleCounts, K, best, writable, file,
                 inTime>>

-----------------------------------------------------------------------------
(* Specification *)

Init ==
  /\ pc = "build" /\ now = 0
  /\ timeLimit = None
  /\ rows = 0 /\ constraint = None /\ aisleCounts = {}
  /\ K = AisleCount /\ best = <<0, 1>>
  /\ writable \in BOOLEAN /\ file = None
  /\ inTime = TRUE /\ noFault = TRUE

Next ==
  \/ \E d \in 0 .. MaxBuild, n \in 0 .. AllRows : BuildModel(d, n)
  \/ \E d \in solveTimes : MinimizeAisles(d) \/ MaximizeUnits(d) \/ Raise(d)
  \/ NextCount \/ CountsEnd

\* Sequential code, and every solve returns.
Spec == Init /\ [][Next]_vars /\ WF_vars(Next)

-----------------------------------------------------------------------------
(* Properties *)

\* Every variable holds what its type in main.cpp allows.
TypeOK ==
  /\ pc \in {"build", "minimize", "nextCount", "maximize", "done"}
  /\ now \in Nat
  /\ timeLimit \in Nat \cup {None}
  /\ rows \in 0 .. AllRows
  /\ constraint \in 0 .. AisleCount \cup {None}
  /\ aisleCounts \subseteq 0 .. AisleCount
  /\ K \in 0 .. AisleCount + 1
  /\ best \in Nat \X Nat
  /\ writable \in BOOLEAN /\ inTime \in BOOLEAN /\ noFault \in BOOLEAN
  /\ file \in Wave \cup {None}

waveScore(w) == calculateScore(w.orders, w.aisles)

feasibleWaves == {w \in Wave : checkFeasibility(w.orders, w.aisles)}

\* Unless an exception was raised, the file holds a feasible wave, however
\* early the solver was stopped (main.cpp:148-166 and 196-239).
FileIsFeasible == noFault /\ file # None => file \in feasibleWaves

\* From the first improvement on, best is the score of the wave in the file
\* (main.cpp:236-239).
BestIsInFile ==
  noFault /\ writable /\ best[1] > 0 =>
    /\ file # None
    /\ ~ Exceeds(waveScore(file), best) /\ ~ Exceeds(best, waveScore(file))

\* If no solve was stopped by its limit and nothing was raised, the wave in
\* the file at the end is optimal among all feasible waves; no file means that
\* there is none.  This is what makes the baseline a reference: fixing the
\* count of aisles turns the ratio into a linear objective, and no count below
\* the minimum has a wave (main.cpp:219-241).
OptimalIfInTime ==
  pc = "done" /\ inTime /\ noFault /\ writable =>
    IF file = None THEN feasibleWaves = {}
    ELSE \A w \in feasibleWaves : ~ Exceeds(waveScore(w), waveScore(file))

\* As long as no exception was raised, a wave in the file is replaced by one
\* that is not worse, provided that no solve so far was stopped by its limit or
\* that best is already above 0.  The first improvement may be worse than the
\* wave of the minimisation if either solve was stopped: best starts at 0, not
\* at the score of that wave (main.cpp:214, 236).
FileNeverGetsWorse ==
  [][noFault' /\ file # None /\ (inTime' \/ best[1] > 0) =>
       ~ Exceeds(waveScore(file), waveScore(file'))]_vars

\* The run ends less than MinLimit after MAX_RUNTIME if the model was built
\* before MAX_RUNTIME.  Otherwise the first solve has no limit, and it is the
\* only one: no count is tried after it (main.cpp:116-128, 192, 219).
EndsInBudget ==
  /\ timeLimit # None => now < MaxRuntime + MinLimit
  /\ timeLimit = None => constraint = None

\* The baseline ends, whatever the solver answers.
BaselineEnds == <>(pc = "done")

=============================================================================
