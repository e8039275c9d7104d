# Wave order picking: models, checks and proofs

A TLA+ development beside the C++ solver of the wave order picking problem
(SBPO 2025 challenge). The program reads a warehouse (orders, aisles, a lower
bound LB and an upper bound UB on the units of a wave) and looks for a set of
orders and a set of aisles that serves them, with as many units per visited
aisle as possible. Paths below are relative to the repository.

    tlc -workers 2 -config MCHeuristics.cfg MCHeuristics
    tlapm HeuristicsProofs.tla

## 1. Inventory

| Component | Source | State | Operations | What makes it correct |
|---|---|---|---|---|
| Problem, Solution | `src/include/common.hpp` | item, order and aisle lines, `lb`, `ub`; `mOrders`, `mAisles` | `readFrom`, `getTotalUnits`, `calculateScore`, `checkFeasibility`, `print` | the verdict and the score are those of the problem statement |
| Caches | `src/include/caches.hpp:12-63` | inverse indices, units per order, availability per item; constant after construction, shared by all threads | constructor | the tables agree with the instance |
| State | `caches.hpp:65-364` | `itemBalance`, `deficitItems`, `currentTotalUnits`, two bit vectors, the Solution by reference; one per heuristic run | `addAisle`, `removeAisle`, `addOrder`, `removeOrder`, `isFeasible`, `canFitOrder`; repair, prune, estimate, greedy fill | the incremental state equals a full recomputation; its fast tests are exact; a helper leaves no deficit and no redundant aisle |
| Constructions | `heuristic2.cpp:5-83`, `heuristic3.cpp`, `heuristic4.cpp` | candidate pool, RCL | sample, score, pick, try, keep or roll back | every tried order is served or taken back; the loop ends |
| Refinement | `heuristic2.cpp:85-176` | `currentScore`, the aisles a move has removed | ADD, DROP & REPAIR, add an aisle | a move not kept changes nothing; a feasible wave stays feasible; the loop ends |
| Heur1 | `heuristic1.cpp` | its own remaining stock over a plain Solution | construction, `recomputeSolution`, refinement by add, remove, swap | no unit is promised twice; a chosen order is served to its last unit; every accepted neighbour is feasible and better; the refinement ends in a local optimum |
| Worker pool | `main.cpp` | best solution, best score, last improvement, log, one mutex; per worker its last clock reading | run a heuristic, compare and replace, stop on patience, join, print | no update lost or torn; the best is what is printed; the program stops |
| CPLEX baseline | `baseline/src/main.cpp` | the integer program, time limit, count of aisles, best ratio, output file | build the program, minimise the aisles, maximise the units for every count from there on, write each improvement | the budget holds; the file is feasible and belongs to the best ratio; it is optimal if every solve was proven |
| Checker, runner | `checker.py`, `run_challenge.py` | the result files, which outlive a run; exit codes | compile, run every instance, read its file, judge it | same verdict as `checkFeasibility`, on whole files of this run only, unless Ctrl-C cut the reading |
| Reports | `table.py`, `graphs.py`, `converge.py` | none | score the result files, parse the log, draw | no score for a file that is not a whole feasible wave |

How they interact. `main` builds one Problem and one Caches and starts a worker
per hardware thread. A worker calls the construction and the refinement of the
heuristic chosen on the command line; each call owns one State, so inside a
heuristic everything is sequential and nothing is shared. The threads meet only
in `main.cpp:71-101`: the mutex around the best solution, and the loop
condition, which reads `lastImprovement` without it.

What is hard. (1) The State is edited line by line by four functions called in
any order, with an edge at balance 0. (2) Repair, prune and the moves of the
refinement edit it in place and take edits back by hand; a repair that fails
leaves its aisles behind. (3) Two loops end only if every round makes progress.
(4) The pool compares and replaces a record of four parts under a mutex, with a
clock reading per worker and a racy read in the loop condition. (5) Heur1 checks
the stock of an order in total and serves its lines later; its refinement throws
the aisles away and rebuilds them for every neighbour. (6) The baseline's solver
may be stopped by its limit, raise, or fail while its answer is read, and the
optimum of the ratio comes from a chain of programs none of which optimises it.
(7) Result files are read while solvers print, after they failed and after the
run was interrupted; while a file is read or judged the runner swallows Ctrl-C.
`PROJECT.json` lists each hazard at its line with the properties that watch it,
or says in a note what part of it no property covers.

## 2. Plan

Modules in the order in which they were or will be written:

1. `WaveProblem`: instance, tables, Solution. *done*
2. `WaveState`: the incremental State, and `WaveProblemProofs`,
   `WaveStateProofs`: it agrees with the recomputation. *done, proved*
3. `WaveRefinement`: repair, prune, estimate, greedy fill, refinement. *done*
4. `GraspConstruction`, `HeurCached`, `Heur3`, `Heur4`: constructions. *done*
5. `CommittedWave` and `Heuristics`: what a heuristic promises, and the
   composition shown to implement it, and `HeuristicsProofs`: it does so, and
   settles, prunes, repairs and fills completely. *done, proved*
6. `SearchPool`: threads, mutex, patience, log, and `SearchPoolProofs`: its
   safety for any number of threads. *done, proved*
7. `ImprovedWave` and `Heur1`: construction and refinement over the plain
   Solution, against what they promise, and `Heur1Proofs`. *done, proved*
8. `Baseline`: time budget and phases, CPLEX as an external oracle that may
   answer, time out or raise, and `BaselineProofs`. *done, proved*
9. `Verdicts` and `Challenge`: verdicts of the scripts against
   `checkFeasibility`, the runner with failing solvers and interruptions, and
   `ChallengeProofs`. *done, proved*

Theorems, in order: `StateInv` and the three exactness results; every safety
property of `SearchPool`; the safety of `Heur1`, `Challenge` and `Baseline`; the
safety of `Heuristics` and its refinement of `CommittedWave`; the local optimum
of `Heur1` (*all proved*: every invariant, refinement and safety property of a
passing run is a theorem). Left: what links the modules, such as that the
solutions of `SearchPool` and the outputs of `Challenge` may be those of
`Heuristics` and `Heur1`.

## 3. Modules and the code

`A <- B` below reads A EXTENDS B:
`WaveState <- WaveProblem`, `WaveRefinement <- WaveState`,
`GraspConstruction <- WaveRefinement`, `HeurCached`, `Heur3`, `Heur4` extend
`GraspConstruction`, and `Heuristics` extends the three. `Heur1`, `Baseline`,
`Verdicts <- WaveProblem`, `Challenge <- Verdicts`, `ImprovedWave <-
CommittedWave`. `SearchPool` stands alone: a heuristic is one of its steps.

- **WaveProblem.** An order or an aisle is its quantity per item, 0 where it
  has no line; items are distinct within a line list, as in every data set.
  `Problem::lb`, `ub` and the counts are CONSTANTS. A sum is the cardinality of a
  set of unit tokens, which gives its laws from those of `Cardinality` without
  induction. `calculateScore` is a ratio, compared by cross multiplication in
  `Exceeds`; the code's `double` quotients are not rounded in the model.
- **WaveState.** `addAisle` and its three siblings are actions with the early
  return for a repeated call. `Gain` and `Lose` are the line loops; lines are of
  distinct items, so the loop is one simultaneous update. `stateScore` divides by the
  number of all aisles, as `State::calculateScore` does.
- **WaveRefinement.** A program counter `pc` names the place in the code; each
  action makes at most one call on the State. Iteration over `unordered_set`
  and random draws are choices. `ScoredProviders` keeps the off-by-one of the
  provider limit, `EstimateOrders` keeps `line.ff` where a quantity is meant.
  `queue` is what the two loops of the greedy fill have left: triples of the
  aisle, an item of it and an order that demands the item, taken in the order of
  the lines (`nextFill`).
- **GraspConstruction, HeurCached, Heur3, Heur4.** A logarithmic score is the
  ratio it is the logarithm of: with alpha = 0.5 the RCL threshold is
  `r * r >= max * min`, the cutoff -0.5 is a ratio of 0.6065. A sample drawn with
  replacement is any non-empty set of at most `SampleSize` candidates, and
  any of its members may have come first.
- **Heuristics.** `dispatch` is the `switch` of `main.cpp:36-51`, its default
  included; the three State based heuristics, then the refinement. `committedOrders` and `committedAisles` map
  a state to the wave decided on: without an order on trial, with what a drop has
  taken out. `CommittedWave` is the abstract specification.
- **SearchPool.** A worker is a `tpc` of eleven places, the critical section
  split into its five writes. A heuristic run is one step that returns any
  member of `Solutions`. The unsynchronised read of `lastImprovement` reads the
  value before or after a concurrent write. The log is always written (in the
  code only if a path was given).

- **Heur1.** The remaining stock per aisle is the variable `remainingStock`; a
  step of the construction is one aisle's contribution to one line (`Take`). The
  unordered choices of the code (which aisle of a set first) are choices.
  `recomputeSolution` is the operator `recomputedAisles`: first fit visits an
  aisle exactly while the aisles of lower index do not suffice. A refinement step
  tries one neighbour; `due` keeps the order in which the code tries them, and
  an accepted move starts a new pass.
- **ImprovedWave.** What the heuristics over a plain Solution promise:
  `CommittedWave` while the wave grows, then only feasible waves of a better
  score. `Heur1` implements it with `committedOrders`, `mAisles`, `constructing`.
- **Baseline.** CPLEX is external: a solve takes any time up to its limit,
  answers optimally before it, and with anything feasible or nothing at it
  (`answers`). `rows` counts the rows added before an exception ended the building
  of the model; `aisleCounts` is the set of counts that rows still fix, so that
  a row left behind would show. `readings` is what an exception in
  `get_solution` leaves. A limit of `None` is the parameter never set.
- **Verdicts.** A result file is the wave being printed and the number of lines
  printed so far; `read_output` is what the scripts make of it. `checker` is
  `checker.py`, with the exception it ends with on the empty wave.
- **Challenge.** `run_challenge.py` and the solver process it waits for. A
  solver prints line by line and may fail at each; the runner may be interrupted
  and started again on the files that are there. What a solver prints is what
  `PrintsTheBest` of `SearchPool` allows: a feasible wave, or the empty one.
  Reading the file and judging it are two places of `rpc` (`ReadFile`, `Judge`),
  since Ctrl-C means something else at each. Before them it ends the runner
  (`Interrupt`: `except Exception` does not catch it). While the lines are parsed
  the bare `except` of `run_challenge.py:45` catches it and the file reads as
  empty (`ReadInterrupted`); elsewhere in the inner `try` the one at line 125 does,
  and nothing is reported (`JudgeInterrupted`). After both the loop goes on. `cut`
  remembers the instances whose reading was cut, for the properties only.
  `StartFails` is the outer `except Exception` (line 126): the file of an earlier
  run stays, or it is emptied.

MC modules give the constants values: `MCWaveState`, `MCHeuristics`, `MCHeur1`,
`MCSearchPool`, `MCBaseline`, `MCChallenge`, and `MCFindings` for the
disagreements.

## 4. Runs

| Run | Question | Size |
|---|---|---|
| `state_ops` | Does any sequence of calls keep State equal to a recomputation, and are its fast tests exact? | 256 states |
| `heuristics` | Do the three heuristics implement `CommittedWave`, settle deficits, prune fully, keep feasibility, end their construction? | 6,948 states |
| `pool` | Do two workers share the best solution without losing or tearing an update, and does the program stop? | 193,983 states |
| `heur1` | Does heuristic 0 promise no unit twice, serve what it chose, implement `ImprovedWave`, end in a local optimum? | 2,993 states |
| `baseline` | Whatever the solver answers: is the file feasible, of the best score, optimal if nothing was stopped, and is the budget kept? | 14,559 states |
| `challenge` | Are verdicts and table scores given only to whole feasible waves of the right run? Is a feasible file called invalid only if its reading was cut? Do the two checkers agree? | 54,848 states |
| `refinement_loops`, `drop_never_kept`, `never_feasible`, `top_providers`, `low_score_discard`, `baseline_ten` | The findings of section 7; TLC finds the violation | small |

Bounds. `MaxQty` bounds a line. In `MCHeuristics` the provider limit 5 is
scaled to 1 and the sample size 80 to 2, so that both bite with five aisles and
six orders; the finding runs use the code's own 5 and 80. The warehouse has an
item in more aisles than the limit, an order that needs more of them than the
limit, an order nobody can serve whose repair
adds aisles before it fails, an order above UB, aisles that become redundant,
and ties. In `SearchPool`, `Tick` stops the clock at
`lastImprovement + Patience`: every later instant compares alike. Four scores
(one infeasible and best, two equal) and two workers give every race
between two updates; a third worker only repeats one of them. The warehouse of
`MCHeur1` was chosen so that adding, removing and swapping are each accepted in
some run, lines take from several aisles, and the first fit differs from what the
construction visited. In `MCBaseline` time is in units in which the margin and the
smallest limit are 2 and the budget 5: a solve can end before, at and past the
margin, and building the model can use up the whole budget. The best wave is
neither that of the fewest aisles nor that of the most units. `MCBaselineTen` has
the real budget in units of 15 seconds. `MCChallenge` has two runs over three
instances, one unreadable, so that a file of the first run can be met in the
second; `MaxRuns` is the only bound on the process.

Fairness. A heuristic is sequential code: `WF_vars(Step)`. In the pool the operating
system schedules each worker and main (`WF` of each), and time passes
(`WF` of `Tick`). Nothing is assumed about who gets the mutex or what
a heuristic returns. The baseline is sequential (`WF_vars(Next)`) and every
solve returns, since it has a limit or an optimum to find. `Challenge` assumes no
fairness: `subprocess.run` has no timeout (`run_challenge.py:114`), and the
solver may never return (`refinement_loops`, `never_feasible`), so nothing can be
promised about the end of a run. That a heuristic run returns is assumed in the pool, and
`refinement_loops` shows that it is an assumption. `StopsIfFeasible` is
conditional on workers not failing for ever; `never_feasible` shows why.

Every property of a passing run has a mutant in `PROJECT.json`: a plausible
bug in one definition under which TLC finds the property violated.

## 5. Proofs

`WaveProblemProofs` holds the lemmas on sums (disjoint union, singleton, one
element more or less, the units of one order); `WaveStateProofs` the theorems,
for every instance that satisfies `ProblemAssumption`:

- `StateCorrect`: `StateSpec => []StateTypeOK` and `[]StateInv`. The conjunction is
  inductive: the balance of an item moves by the line of what entered or left
  only if the bit vectors mirror the solution (a repeated call would count
  twice), and the deficit set follows only because it was exact before.
- `FastFeasibility`: `isFeasible <=> checkFeasibility`. From the invariant: a
  balance is negative exactly where the orders demand more than the aisles hold.
- `CanFit` and `CanRemove`: the two greedy tests are exact when nothing is
  in deficit, from the same invariant and the lemma for one element more or less.

The only assumption is `ProblemAssumption`: counts and bounds are naturals,
lines are within `0 .. MaxQty` for some natural `MaxQty`.

`SearchPoolProofs` proves every safety property of the pool, for any set of
threads, any solutions, scores and verdicts, and any patience
(`PoolAssumption`: scores are naturals, the empty solution scores 0, no thread is
`NoThread`). `BestIsConsistent` is not inductive: it says nothing while the
mutex is held. `IInv` adds what it takes:

- `MutexInv`: the owner of the mutex is the only worker in the critical section,
  so what it has read under the mutex cannot change;
- `HolderInv`: at each of its places, which of the four writes are done and
  that the new score beats the old one (`PoolCorrect`);
- `ClockInv`: its clock reading was made under the mutex, so it is not behind
  the last improvement (`OnlyImprovements`);
- `NextLineInv`: the line about to be logged comes after the last
  (`LogIsOrdered`);
- `StartInv`, `ExitInv`: a worker not started has found nothing; main has
  printed after every worker stopped, when the mutex is free (`PrintedIsBest`).

Before it was proved, `IInv` was checked with TLC as an invariant of the instance
of `MCSearchPool`; so were those below, of the instances of their MC modules.

`HeuristicsProofs` is about the three State based heuristics: any instance, any
provider limit, any sample size from 1 on (`ProblemAssumption`,
`RefinementAssumption`, `SampleAssumption`). Its invariant speaks of two waves,
the one in State, which the helpers edit, and the committed one, which the
heuristic falls back to; `SettledWithoutDeficit` and `NoFreeFillLeft` are not
inductive without both. `IInv` is the types, `StateInv`, `PruneLeavesNoRedundantAisle`, and:

- `PickInv`, `PoolInv`, `LoopInv`: where the order on trial is, that no candidate is
  in the wave yet, and what each loop may still visit (a fit test says nothing
  about an order that is in already);
- `ServedInv`: the committed wave is served within UB, and so is the one in
  State unless a repair or a restore is at work on it;
- `UnitsAtHead`: a move is judged against the units of the committed wave;
- `NoFillPassed`: no order the ADD loop has passed is a free fill of the
  committed wave, and DROP moves do not change that wave.

The argument has one lemma per action, in which the committed wave stays, takes
one order, visits one aisle or leaves one (`NextInv`). From it:

- `HeuristicsTyped`, `NoDeficitUnseen`, `PruningIsComplete`: the parts of `IInv`.
  Pruning is complete because an aisle that is needed stays needed when others
  leave (`CoveredMonotone`);
- `RepairIsComplete`: the limit on providers never hides the last one, since the
  first free provider of an item is always scored (`FirstProvider`);
- `AddingIsComplete`: an ADD that fits but is undone either misses LB or adds no
  units (`MoreUnitsExceed`). An order without units is tried and undone, so
  `NoFreeFillLeft` speaks of orders with units only;
- `HeuristicsKeepWave`: the four kinds of step are those of `CommittedWave`;
- `FeasibilityIsKept`: no order leaves the committed wave, so its units stay
  above LB, and at the loop's head it is the wave in State;
- `DropIsNeverKept`: a drop leaves fewer units over the same denominator, on
  every instance. The run `drop_never_kept` shows what that costs on one; the
  proof needs it too, since a kept drop would be no step of `CommittedWave`;
- `HeuristicsUseState`, `TestsAreExact`: each step is one call of `StateNext` or
  none, so the theorems of `WaveStateProofs` hold of the heuristics.

`Heur1Proofs` (assumptions: `ProblemAssumption`, and that `None` is no integer):

- `RecomputeIsExact`: first fit serves every set of orders all aisles together
  can serve. By the least index at which the aisles suffice: what first fit
  leaves out before it holds nothing of the item.
- `Heur1Correct`: stock, served units and promised units add up to what the
  aisles hold, and a line never runs short. `IInv` adds which order and lines
  are being served (`ServingInv`), the total of the orders served (`TotalInv`), that
  no aisle gets fuller (`StockInv`, which makes "touched" mean "gave something") and
  that moves are judged against the score of the wave (`ScoreInv`).
- `Heur1Improves`: every step is a step of `ImprovedWave` or a stutter. An order is
  committed by `EndOrder`: then the visited aisles gave all it needs, because
  the stock is accounted for and only visited aisles gave any.
- `Heur1LocallyOptimal`: the moves judged on the present wave are rejected
  (`JudgedInv`). It is kept because a move is judged against `currentObj`, the
  score of the wave (`ScoreInv`), and an accepted one starts over with
  nothing judged.

`BaselineProofs` (`BaselineAssumption`: times are naturals, the smallest limit is
positive, `None` is no wave and no number). `IInv` is five parts besides the types:

- `TimeInv`: the time spent and the limit of the pending solve fit in the budget,
  or the budget was spent before the first solve and no count will be tried
  (`BudgetKept`);
- `RowsInv`: without a fault the model has all its rows and at most the row of
  the present count, so its waves are the feasible ones with that count;
- `FileIsFeasible`, and `BestInv`: best is the exact score of the file
  (`FileIsRight`);
- `OptInv`: if every solve was proven, no feasible wave with fewer than `K` aisles
  exceeds best, and a file there is has at most `K` (`BaselineIsOptimal`,
  `FileImproves`). This is the argument for the whole method: waves with
  fewer aisles than the minimum do not exist, and for a fixed count most units
  is the best ratio. It needs `RatioTransitive`, and `SumOfOrders`: the sum
  of the sums per order that the solver maximises is what `getTotalUnits` counts.

`ChallengeProofs` (`ChallengeAssumption`: instances are numbered, `None` is none of
the values): `ScriptsAgreeWithSolver` for every wave, and from `IInv`, which adds
what a running solver has printed, that a file being read or judged is whole and
of this run, and that what was read is the file or, if the reading was cut, nothing
(`RunningInv`), and that an instance already run has a file of this run that its
verdict fits (`JudgedInv`): `VerdictsAreRight`, `TablesAreRight`,
`CheckersNeverDisagree`. That a cut reading is never reported as a success of an
infeasible file needs an argument: it is judged feasible only where the empty wave
is, and then every output of the solver is.

## 6. What is only model-checked, and what is not modelled

Only model-checked: all liveness (`ConstructionEnds`, `RefinementEnds`,
`StopsIfFeasible`, `BaselineEnds`), since the prover does neither
fairness nor `ENABLED`. Neither proved nor the subject of a property is the
value of `estimateNewItemsForAisle`: it recurs over the lines, which needs
induction over data; the proofs hold whatever it returns, because it only
decides whether an aisle is visited.

Not modelled: integer width (`int` in `Solution::getTotalUnits`, `long long` in
State; the totals of the data sets are far below 2^31), rounding of `double`
(where it decides, as on the threshold of Heur1's RCL, the model takes the exact
comparison), the clock being set back, file errors other than an output file that
cannot be opened, `hardware_concurrency()` of 0 (main then prints the empty
solution at once, an output `Challenge` includes). Reading the input and the
command line, drawing, LaTeX and the parsing of logs are formatting; their
components are listed as partly or not modelled. Of the baseline, an exception
before the `IloCplex` object exists is left out: nothing is written then. A
"proven" answer of CPLEX is exactly optimal in the model; the program leaves the
relative gap at its default of 0.0001, which can hide a unit on the largest
instances, so `OptimalIfInTime` reads there as "optimal up to the gap".

Two branches of the code are dead on every instance. The first repair of
the refinement never has a deficit to repair, whichever construction came before
(`NoDeficitUnseen`), and a drop is never kept (`DropIsNeverKept`, section 7).

## 7. Where the code disagrees with its documents

1. `refinement_loops`: the add-an-aisle move reports an improvement it may not
   have made, so the refinement may loop for ever and the program not stop.
2. `drop_never_kept`: the moves compare units over *all* aisles, so no drop can
   ever win, even one that raises the objective.
3. `never_feasible`: `continue` on an infeasible solution skips the clock, so
   with no feasible wave the patience never runs out.
4. `top_providers`: six providers are scored where the comment says five.
5. `low_score_discard`: the cutoff for UB violations also discards orders with
   few units per aisle.

6. `baseline_ten`: `MAX_RUNTIME` is 20 minutes where its comment and the rules of
   the challenge say 10; the limits of the solves follow the constant.

The first three were also observed with the compiled program on the same small
instances.

The model of the runner shows one more, without a run of its own: a Ctrl-C that
falls into the parsing of a result file is swallowed, the whole feasible file is
reported as "SOLUÇÃO INVÁLIDA", and the run goes on (`run_challenge.py:45` and
`:124`). `VerdictIsRight` therefore has to except the instances in `cut`.
