-------------------------- MODULE ChallengeProofs --------------------------
(***************************************************************************)
(* The verdicts of the scripts are those of Solution::checkFeasibility, on *)
(* every instance; and what the runner and the tables say of a result file *)
(* is right at every moment, for any instances, failures, interruptions    *)
(* and any number of runs: but for a reading that Ctrl-C cut short.        *)
(***************************************************************************)
EXTENDS Challenge, WaveProblemProofs

\* An item on no line of the orders is not required.
LEMMA NotRequired ==
  ASSUME NEW O \in SUBSET Orders, NEW i \in Items \ requiredItems(O)
  PROVE  Required(O, i) = 0
<1> DEFINE f == [o \in Orders |-> OrderQty[o][i]]
<1>1. \A o \in O : f[o] = 0
  BY QuantityTypes DEF requiredItems, OrderItems
<1> HIDE DEF f
<1>2. SumOver(f, O) = 0
  BY <1>1, SumZero
<1> QED BY <1>2 DEF Required, f

\* Looking at the items on the lines of the orders is enough.
LEMMA RequiredItemsSuffice ==
  ASSUME NEW O \in SUBSET Orders, NEW A \in SUBSET Aisles
  PROVE  Covered(O, A)
           <=> \A i \in requiredItems(O) : Required(O, i) <= Available(A, i)
<1>1. requiredItems(O) \subseteq Items
  BY DEF requiredItems, OrderItems
<1>2. \A i \in Items \ requiredItems(O) : Required(O, i) <= Available(A, i)
  BY NotRequired, QuantityTypes
<1> QED BY <1>1, <1>2 DEF Covered

\* The scripts' verdict on a wave is the solver's own: the case of no units
\* they add to the bounds is one the bounds allow (run_challenge.py:52-54).
THEOREM ScriptsAgreeWithSolver ==
  ASSUME NEW O \in SUBSET Orders, NEW A \in SUBSET Aisles
  PROVE  is_solution_feasible(O, A) <=> checkFeasibility(O, A)
<1>1. getTotalUnits(O) \in Nat /\ LB \in Nat /\ UB \in Nat
  BY QuantityTypes, ProblemAssumption
<1>2. getTotalUnits(O) = 0 /\ LB <= 0 =>
        LB <= getTotalUnits(O) /\ getTotalUnits(O) <= UB
  BY <1>1
<1> QED BY <1>2, RequiredItemsSuffice DEF is_solution_feasible, checkFeasibility

\* What is printed has a positive number of lines, known in advance.
LEMMA LineCountType ==
  ASSUME NEW w \in Wave
  PROVE  lineCount(w) \in Nat /\ w.orders \in SUBSET Orders /\ w.aisles \in SUBSET Aisles
<1>1. w.orders \in SUBSET Orders /\ w.aisles \in SUBSET Aisles
  BY DEF Wave
<1>2. Cardinality(w.orders) \in Nat /\ Cardinality(w.aisles) \in Nat
  BY <1>1, FiniteIndices, FS_CardinalityType
<1> QED BY <1>1, <1>2 DEF lineCount

\* A file that is not whole reads as a wave without aisles: its score is 0.
LEMMA ShortFileHasNoScore ==
  ASSUME NEW f \in File, ~complete(f)
  PROVE  calculate_score(f) = <<0, 1>>
<1>1. f.wave \in Wave
  BY DEF File
<1>2. read_output(f).aisles = {}
  BY <1>1 DEF read_output, NoWave, Wave
<1> QED BY <1>2 DEF calculate_score, compute_objective_function, calculateScore

\* A whole file with a positive score holds a feasible wave of that score.
LEMMA WholeFileScore ==
  ASSUME NEW f \in File, complete(f), calculate_score(f)[1] > 0
  PROVE  /\ checkFeasibility(f.wave.orders, f.wave.aisles)
         /\ calculate_score(f) = calculateScore(f.wave.orders, f.wave.aisles)
<1>1. f.wave \in Wave /\ read_output(f) = f.wave
  BY DEF File, read_output
<1>2. f.wave.orders \in SUBSET Orders /\ f.wave.aisles \in SUBSET Aisles
  BY <1>1, LineCountType
<1>3. CASE is_solution_feasible(f.wave.orders, f.wave.aisles)
  BY <1>1, <1>2, <1>3, ScriptsAgreeWithSolver
     DEF calculate_score, compute_objective_function
<1>4. CASE ~ is_solution_feasible(f.wave.orders, f.wave.aisles)
  <2>1. calculate_score(f) = <<0, 1>>
    BY <1>1, <1>4 DEF calculate_score
  <2> QED BY <2>1
<1> QED BY <1>3, <1>4

\* checker.py and the tables agree on a whole file, if anything was selected.
LEMMA CheckerVerdict ==
  ASSUME NEW f, f.wave \in Wave, complete(f), f.wave # NoWave
  PROVE  checker(f) = "feasible" <=> is_solution_feasible(f.wave.orders, f.wave.aisles)
<1>1. f.wave.orders \in SUBSET Orders /\ f.wave.aisles \in SUBSET Aisles
  BY LineCountType
<1>2. checkFeasibility(f.wave.orders, f.wave.aisles) <=>
        /\ LB <= getTotalUnits(f.wave.orders) /\ getTotalUnits(f.wave.orders) <= UB
        /\ \A i \in requiredItems(f.wave.orders) :
             Required(f.wave.orders, i) <= Available(f.wave.aisles, i)
  BY <1>1, RequiredItemsSuffice DEF checkFeasibility
<1> QED BY <1>1, <1>2, ScriptsAgreeWithSolver DEF checker

-----------------------------------------------------------------------------
(* The inductive invariant *)

\* A verdict on a file: the file is whole, and the verdict is its own, unless
\* the reading of it was cut.
VerdictFits(v, f, wasCut) ==
  v \in {"success", "invalid"} =>
    /\ complete(f)
    /\ v = "success" => checkFeasibility(f.wave.orders, f.wave.aisles)
    /\ v = "invalid" /\ ~wasCut => ~ checkFeasibility(f.wave.orders, f.wave.aisles)

\* While an instance is run, its file is the one this run has opened; a solver
\* that has exited has printed all of it, and the runner reads only then.
RunningInv ==
  /\ rpc = "running" <=> solver # "none"
  /\ rpc \in {"running", "reading", "judging"} =>
       /\ current \in todo \ Unreadable
       /\ files[current] # None
       /\ files[current].by = run
       /\ solver = "searching" => files[current].written = 0
       /\ solver = "exited" \/ rpc # "running" => complete(files[current])
  /\ rpc = "judging" =>
       read = files[current].wave \/ (current \in cut /\ read = NoWave)

\* Only instances already run have a verdict; the verdict fits the file, which
\* is of this run unless it may not have been opened.
JudgedInv ==
  \A i \in Instances :
    /\ i \in todo => verdict[i] = None
    /\ i \notin todo /\ i \notin Unreadable /\ verdict[i] # "unexpected" =>
         files[i] # None /\ files[i].by = run
    /\ i \in Unreadable => verdict[i] \notin {"success", "invalid"}
    /\ VerdictFits(verdict[i], files[i], i \in cut)

IInv == TypeOK /\ RunningInv /\ JudgedInv

\* Whatever a solver prints is a wave, feasible or empty.
LEMMA OutputsAreWaves ==
  /\ Outputs \subseteq Wave /\ NoWave \in Outputs /\ NoWave \in Wave
  /\ \A w \in Outputs : w = NoWave \/ checkFeasibility(w.orders, w.aisles)
BY DEF Outputs, Wave, NoWave

\* None is not a verdict, and a file is not None.
LEMMA NoneIsNothing ==
  /\ None \notin {"success", "invalid", "unexpected"}
  /\ None \notin File /\ None \notin Instances
BY ChallengeAssumption DEF Verdict

\* What TypeOK says of a result file.
FileOK(f) ==
  /\ f \in File /\ f.wave \in Outputs
  /\ f.written <= lineCount(f.wave) /\ f.by <= run

\* Writing one file leaves the others as they are.
LEMMA OneFile ==
  ASSUME TypeOK, NEW i \in Instances, NEW f, f # None => FileOK(f),
         files' = [files EXCEPT ![i] = f]
  PROVE  /\ files' \in [Instances -> File \cup {None}] /\ files'[i] = f
         /\ \A j \in Instances \ {i} : files'[j] = files[j]
         /\ \A j \in Instances : files'[j] # None =>
              /\ files'[j].wave \in Outputs
              /\ files'[j].written <= lineCount(files'[j].wave)
              /\ files'[j].by <= run
<1>1. files \in [Instances -> File \cup {None}] /\ f \in File \cup {None}
  BY DEF TypeOK, FileOK
<1>2. /\ files' \in [Instances -> File \cup {None}] /\ files'[i] = f
      /\ \A j \in Instances \ {i} : files'[j] = files[j]
  BY <1>1
<1>3. ASSUME NEW j \in Instances, files'[j] # None
      PROVE  /\ files'[j].wave \in Outputs
             /\ files'[j].written <= lineCount(files'[j].wave)
             /\ files'[j].by <= run
  <2>1. CASE j = i
    BY <1>2, <1>3, <2>1 DEF FileOK
  <2>2. CASE j # i
    BY <1>2, <1>3, <2>2 DEF TypeOK
  <2> QED BY <2>1, <2>2
<1> QED BY <1>2, <1>3

\* A step that changes at most the file being written keeps every other file;
\* the file is still this run's.
LEMMA WriteInv ==
  ASSUME IInv, solver # "none", NEW f, FileOK(f), f.by = run,
         files' = [files EXCEPT ![current] = f],
         solver' \in {"searching", "printing", "exited", "failed"},
         solver' = "exited" => complete(f),
         solver' = "searching" => f.written = 0,
         UNCHANGED <<rpc, run, todo, current, read, verdict, cut>>
  PROVE  IInv'
<1>1. /\ current \in todo \ Unreadable /\ current \in Instances
      /\ rpc = "running" /\ verdict[current] = None /\ f # None
  BY NoneIsNothing DEF IInv, TypeOK, RunningInv, JudgedInv, FileOK
<1>2. /\ files' \in [Instances -> File \cup {None}] /\ files'[current] = f
      /\ \A j \in Instances \ {current} : files'[j] = files[j]
      /\ \A j \in Instances : files'[j] # None =>
           /\ files'[j].wave \in Outputs
           /\ files'[j].written <= lineCount(files'[j].wave)
           /\ files'[j].by <= run
  BY <1>1, OneFile DEF IInv
<1>3. TypeOK'
  BY <1>2 DEF IInv, TypeOK
<1>4. RunningInv'
  BY <1>1, <1>2 DEF RunningInv
<1>5. JudgedInv'
  <2> SUFFICES ASSUME NEW i \in Instances
               PROVE  /\ i \in todo => verdict[i] = None
                      /\ i \notin todo /\ i \notin Unreadable
                           /\ verdict[i] # "unexpected" =>
                           files'[i] # None /\ files'[i].by = run
                      /\ i \in Unreadable => verdict[i] \notin {"success", "invalid"}
                      /\ VerdictFits(verdict[i], files'[i], i \in cut)
    BY DEF JudgedInv, VerdictFits, complete
  <2>1. CASE i = current
    BY <1>1, <2>1, NoneIsNothing DEF VerdictFits
  <2>2. CASE i # current
    BY <1>2, <2>2 DEF IInv, JudgedInv
  <2> QED BY <2>1, <2>2
<1> QED BY <1>3, <1>4, <1>5 DEF IInv

\* The steps of the solver.
LEMMA SolverInv ==
  ASSUME IInv, Solver
  PROVE  IInv'
<1>1. solver # "none" /\ rpc = "running"
  BY DEF Solver, FindWave, PrintLine, Exit, Fail, IInv, RunningInv
<1> DEFINE f == files[current]
<1>2. /\ f \in File /\ f.by = run /\ f.wave \in Outputs /\ f.wave \in Wave
      /\ f.written \in Nat /\ f.written <= lineCount(f.wave)
      /\ lineCount(f.wave) \in Nat /\ run <= run
      /\ files = [files EXCEPT ![current] = f]
      /\ files \in [Instances -> File \cup {None}] /\ current \in Instances
  <2>1. /\ current \in Instances /\ f # None /\ f.by = run
        /\ files \in [Instances -> File \cup {None}]
    BY <1>1 DEF IInv, RunningInv, TypeOK
  <2>2. f \in File /\ f.wave \in Outputs /\ f.written <= lineCount(f.wave)
    BY <2>1 DEF IInv, TypeOK
  <2>3. f.wave \in Wave /\ f.written \in Nat
    BY <2>2 DEF File
  <2>4. files = [files EXCEPT ![current] = f]
    BY <2>1
  <2>5. run <= run
    BY DEF IInv, TypeOK
  <2> QED BY <2>1, <2>2, <2>3, <2>4, <2>5, LineCountType
<1>3. CASE FindWave
  <2>1. PICK w \in Outputs : files' = [files EXCEPT ![current].wave = w]
    BY <1>3 DEF FindWave
  <2> DEFINE g == [f EXCEPT !.wave = w]
  <2>2. /\ g \in File /\ g.wave = w /\ g.by = run /\ g.written = 0
    BY <1>2, <1>3, OutputsAreWaves DEF File, FindWave, IInv, RunningInv
  <2>3. files' = [files EXCEPT ![current] = g]
    BY <1>2, <2>1
  <2>4. 0 <= lineCount(w)
    BY OutputsAreWaves, LineCountType
  <2> HIDE DEF f, g
  <2> QED BY <1>1, <1>2, <1>3, <2>2, <2>3, <2>4, WriteInv DEF FindWave, FileOK
<1>4. CASE PrintLine
  <2> DEFINE g == [f EXCEPT !.written = @ + 1]
  <2>1. /\ g \in File /\ g.wave = f.wave /\ g.by = run /\ g.written = f.written + 1
    BY <1>2 DEF File
  <2>2. files' = [files EXCEPT ![current] = g]
    BY <1>2, <1>4 DEF PrintLine
  <2>3. f.written + 1 <= lineCount(f.wave)
    BY <1>2, <1>4 DEF PrintLine, complete
  <2> HIDE DEF f, g
  <2> QED BY <1>1, <1>2, <1>4, <2>1, <2>2, <2>3, WriteInv DEF PrintLine, FileOK
<1>5. CASE Exit
  <2>1. complete(f) /\ files' = [files EXCEPT ![current] = f]
    BY <1>2, <1>5 DEF Exit
  <2> HIDE DEF f
  <2> QED BY <1>1, <1>2, <1>5, <2>1, WriteInv DEF Exit, FileOK
<1>6. CASE Fail
  <2>1. files' = [files EXCEPT ![current] = f]
    BY <1>2, <1>6 DEF Fail
  <2> HIDE DEF f
  <2> QED BY <1>1, <1>2, <1>6, <2>1, WriteInv DEF Fail, FileOK
<1> QED BY <1>3, <1>4, <1>5, <1>6 DEF Solver

\* A file just opened is an empty one of this run.
LEMMA EmptyFileOK ==
  ASSUME TypeOK, NEW i
  PROVE  /\ FileOK(emptyFile(i)) /\ emptyFile(i) # None
         /\ emptyFile(i).by = run /\ emptyFile(i).written = 0
<1> DEFINE f == emptyFile(i)
<1>1. run \in Nat
  BY DEF TypeOK
<1>2. f \in File /\ f.by = run /\ f.written = 0 /\ f.wave = NoWave
  BY <1>1, OutputsAreWaves DEF emptyFile, File
<1> HIDE DEF f
<1>3. 0 <= lineCount(NoWave)
  BY OutputsAreWaves, LineCountType
<1>4. FileOK(f) /\ f # None
  BY <1>1, <1>2, <1>3, OutputsAreWaves, NoneIsNothing DEF FileOK
<1> QED BY <1>2, <1>4 DEF f

\* Opening the result file of the next instance.
LEMMA StartSolverInv ==
  ASSUME IInv, NEW i \in Instances, StartSolver(i)
  PROVE  IInv'
<1> DEFINE f == emptyFile(i)
<1>1. /\ i \in todo \ Unreadable /\ current' = i /\ solver' = "searching"
      /\ rpc' = "running" /\ verdict[i] = None
      /\ files' = [files EXCEPT ![i] = f]
      /\ UNCHANGED <<run, todo, read, verdict, cut>>
  BY DEF StartSolver, nextInstance, IInv, JudgedInv
<1>2. FileOK(f) /\ f # None /\ f.by = run /\ f.written = 0
  BY EmptyFileOK DEF IInv
<1> HIDE DEF f
<1>3. /\ files' \in [Instances -> File \cup {None}] /\ files'[i] = f
      /\ \A j \in Instances \ {i} : files'[j] = files[j]
      /\ \A j \in Instances : files'[j] # None =>
           /\ files'[j].wave \in Outputs
           /\ files'[j].written <= lineCount(files'[j].wave)
           /\ files'[j].by <= run
  BY <1>1, <1>2, OneFile DEF IInv
<1>4. TypeOK'
  BY <1>1, <1>3 DEF IInv, TypeOK
<1>5. RunningInv'
  BY <1>1, <1>2, <1>3 DEF RunningInv
<1>6. JudgedInv'
  <2> SUFFICES ASSUME NEW j \in Instances
               PROVE  /\ j \in todo => verdict[j] = None
                      /\ j \notin todo /\ j \notin Unreadable
                           /\ verdict[j] # "unexpected" =>
                           files'[j] # None /\ files'[j].by = run
                      /\ j \in Unreadable => verdict[j] \notin {"success", "invalid"}
                      /\ VerdictFits(verdict[j], files'[j], j \in cut)
    BY <1>1 DEF JudgedInv, VerdictFits, complete
  <2>1. CASE j = i
    BY <1>1, <2>1, NoneIsNothing DEF VerdictFits
  <2>2. CASE j # i
    BY <1>3, <2>2 DEF IInv, JudgedInv
  <2> QED BY <2>1, <2>2
<1> QED BY <1>4, <1>5, <1>6 DEF IInv

\* Going on to the next instance after a report that fits the file.
LEMMA FinishInv ==
  ASSUME IInv, NEW i \in todo, NEW v \in Verdict \cup {None}, finish(i, v),
         NEW f, f # None => FileOK(f), files' = [files EXCEPT ![i] = f],
         i \notin Unreadable /\ v # "unexpected" => f # None /\ f.by = run,
         i \in Unreadable => v \notin {"success", "invalid"},
         VerdictFits(v, f, i \in cut),
         UNCHANGED <<run, cut>>
  PROVE  IInv'
<1>1. /\ i \in Instances /\ todo \subseteq Instances
      /\ verdict \in [Instances -> Verdict \cup {None}]
  BY DEF IInv, TypeOK
<1>2. /\ todo' = todo \ {i} /\ verdict' = [verdict EXCEPT ![i] = v]
      /\ current' = None /\ solver' = "none" /\ read' = None /\ rpc' = "next"
  BY DEF finish
<1>3. /\ verdict' \in [Instances -> Verdict \cup {None}] /\ verdict'[i] = v
      /\ \A j \in Instances \ {i} : verdict'[j] = verdict[j]
  BY <1>1, <1>2
<1>4. /\ files' \in [Instances -> File \cup {None}] /\ files'[i] = f
      /\ \A j \in Instances \ {i} : files'[j] = files[j]
      /\ \A j \in Instances : files'[j] # None =>
           /\ files'[j].wave \in Outputs
           /\ files'[j].written <= lineCount(files'[j].wave)
           /\ files'[j].by <= run
  BY <1>1, OneFile DEF IInv
<1>5. TypeOK'
  BY <1>1, <1>2, <1>3, <1>4 DEF IInv, TypeOK
<1>6. RunningInv'
  BY <1>2 DEF RunningInv
<1>7. JudgedInv'
  <2> SUFFICES ASSUME NEW j \in Instances
               PROVE  /\ j \in todo' => verdict'[j] = None
                      /\ j \notin todo' /\ j \notin Unreadable
                           /\ verdict'[j] # "unexpected" =>
                           files'[j] # None /\ files'[j].by = run
                      /\ j \in Unreadable => verdict'[j] \notin {"success", "invalid"}
                      /\ VerdictFits(verdict'[j], files'[j], j \in cut)
    BY DEF JudgedInv, VerdictFits, complete
  <2>1. CASE j = i
    BY <1>2, <1>3, <1>4, <2>1
  <2>2. CASE j # i
    BY <1>2, <1>3, <1>4, <2>2 DEF IInv, JudgedInv
  <2> QED BY <2>1, <2>2
<1> QED BY <1>5, <1>6, <1>7 DEF IInv

\* Going on with the file as it is.
LEMMA ReportInv ==
  ASSUME IInv, NEW i \in todo, NEW v \in Verdict \cup {None}, finish(i, v),
         i \notin Unreadable /\ v # "unexpected" =>
           files[i] # None /\ files[i].by = run,
         i \in Unreadable => v \notin {"success", "invalid"},
         VerdictFits(v, files[i], i \in cut),
         UNCHANGED <<run, files, cut>>
  PROVE  IInv'
<1> DEFINE f == files[i]
<1>1. /\ f # None => FileOK(f)
      /\ files' = [files EXCEPT ![i] = f]
  BY DEF IInv, TypeOK, FileOK
<1> HIDE DEF f
<1>2. /\ i \notin Unreadable /\ v # "unexpected" => f # None /\ f.by = run
      /\ VerdictFits(v, f, i \in cut)
  BY DEF f
<1> QED BY <1>1, <1>2, FinishInv

\* A file could not be opened, or the solver not be started.
LEMMA StartFailsInv ==
  ASSUME IInv, NEW i \in Instances, StartFails(i)
  PROVE  IInv'
<1>1. /\ i \in todo /\ i \notin Unreadable /\ finish(i, "unexpected")
      /\ UNCHANGED <<run, cut>> /\ "unexpected" \in Verdict
      /\ \A f : VerdictFits("unexpected", f, i \in cut)
  BY DEF StartFails, nextInstance, Verdict, VerdictFits
<1>2. CASE UNCHANGED files
  BY <1>1, <1>2, ReportInv
<1>3. CASE files' = [files EXCEPT ![i] = emptyFile(i)]
  <2> DEFINE f == emptyFile(i)
  <2>1. FileOK(f) /\ files' = [files EXCEPT ![i] = f]
    BY <1>3, EmptyFileOK DEF IInv
  <2> HIDE DEF f
  <2> QED BY <1>1, <2>1, FinishInv
<1> QED BY <1>2, <1>3 DEF StartFails

\* The verdict on what was read of a file of which the solver has printed
\* everything; what a cut reading leaves is judged feasible only if every file
\* would be.
LEMMA JudgeInv ==
  ASSUME IInv, Judge
  PROVE  IInv'
<1> DEFINE f == files[current]
           v == IF is_solution_feasible(read.orders, read.aisles)
                THEN "success" ELSE "invalid"
<1>1. /\ current \in todo \ Unreadable /\ current \in Instances
      /\ f # None /\ f.by = run /\ complete(f)
      /\ f \in File /\ f.wave \in Outputs
      /\ read = f.wave \/ (current \in cut /\ read = NoWave)
      /\ finish(current, v) /\ UNCHANGED <<run, files, cut>>
  BY DEF Judge, IInv, RunningInv, TypeOK
<1>2. read \in Wave /\ read.orders \in SUBSET Orders /\ read.aisles \in SUBSET Aisles
  BY <1>1, OutputsAreWaves, LineCountType
<1>3. v = "success" <=> checkFeasibility(read.orders, read.aisles)
  BY <1>2, ScriptsAgreeWithSolver
<1>4. v \in {"success", "invalid"} /\ v \in Verdict
  BY DEF Verdict
<1> HIDE DEF f, v
<1>5. VerdictFits(v, f, current \in cut)
  <2>1. ASSUME v = "success"
        PROVE  checkFeasibility(f.wave.orders, f.wave.aisles)
    BY <1>1, <1>3, <2>1, OutputsAreWaves
  <2>2. ASSUME v = "invalid", current \notin cut
        PROVE  ~ checkFeasibility(f.wave.orders, f.wave.aisles)
    BY <1>1, <1>3, <2>2
  <2> QED BY <1>1, <2>1, <2>2 DEF VerdictFits
<1> QED BY <1>1, <1>4, <1>5, ReportInv DEF f

\* The other steps from the solver's return to the report, interrupted or not.
LEMMA ReturnedInv ==
  ASSUME IInv,
         SolverReturned \/ ReadFile \/ ReadInterrupted \/ JudgeInterrupted
  PROVE  IInv'
<1>1. rpc \in {"running", "reading", "judging"}
  BY DEF SolverReturned, ReadFile, ReadInterrupted, JudgeInterrupted
<1>2. /\ current \in todo \ Unreadable /\ current \in Instances
      /\ files[current] # None /\ files[current].by = run
      /\ files[current] \in File /\ files[current].wave \in Wave
  BY <1>1, OutputsAreWaves DEF IInv, RunningInv, TypeOK
<1>3. ASSUME NEW v \in {"error", None}, finish(current, v), UNCHANGED <<run, files, cut>>
      PROVE  IInv'
  <2>1. v \in Verdict \cup {None} /\ v \notin {"success", "invalid"}
    BY <1>3, NoneIsNothing DEF Verdict
  <2>2. VerdictFits(v, files[current], current \in cut)
    BY <2>1 DEF VerdictFits
  <2> QED BY <1>2, <1>3, <2>1, <2>2, ReportInv
<1>4. CASE SolverReturned
  <2>1. CASE solver = "failed"
    <3>1. finish(current, "error") /\ UNCHANGED <<run, files, cut>>
      BY <1>4, <2>1 DEF SolverReturned
    <3> QED BY <1>3, <3>1
  <2>2. CASE solver = "exited"
    BY <1>2, <1>4, <2>2
       DEF SolverReturned, IInv, TypeOK, RunningInv, JudgedInv, VerdictFits, complete
  <2> QED BY <1>4, <2>1, <2>2 DEF SolverReturned
<1>5. CASE ReadFile
  <2>1. read' = files[current].wave
    BY <1>5 DEF ReadFile, IInv, RunningInv, read_output
  <2> QED BY <1>2, <1>5, <2>1
          DEF ReadFile, IInv, TypeOK, RunningInv, JudgedInv, VerdictFits, complete
<1>6. CASE ReadInterrupted
  BY <1>2, <1>6, OutputsAreWaves
     DEF ReadInterrupted, IInv, TypeOK, RunningInv, JudgedInv, VerdictFits, complete
<1>7. CASE JudgeInterrupted
  BY <1>3, <1>7 DEF JudgeInterrupted
<1> QED BY <1>4, <1>5, <1>6, <1>7

\* Every step of the runner, of a solver or of the user keeps the invariant.
LEMMA NextInv ==
  ASSUME IInv, [Next]_vars
  PROVE  IInv'
<1>1. CASE Solver
  BY <1>1, SolverInv
<1>2. CASE Compile \/ AllRun \/ Interrupt \/ UNCHANGED vars
  BY <1>2 DEF Compile, AllRun, Interrupt, vars,
              IInv, TypeOK, RunningInv, JudgedInv, VerdictFits, complete
<1>3. ASSUME NEW i \in Instances, SkipUnreadable(i)
      PROVE  IInv'
  <2>1. /\ i \in todo /\ i \in Unreadable /\ finish(i, "input error")
        /\ UNCHANGED <<run, files, cut>> /\ "input error" \in Verdict
        /\ VerdictFits("input error", files[i], i \in cut)
    BY <1>3 DEF SkipUnreadable, nextInstance, Verdict, VerdictFits
  <2> QED BY <2>1, ReportInv
<1>4. ASSUME NEW i \in Instances, StartSolver(i) \/ StartFails(i)
      PROVE  IInv'
  BY <1>4, StartSolverInv, StartFailsInv
<1>5. CASE SolverReturned \/ ReadFile \/ ReadInterrupted \/ JudgeInterrupted
  BY <1>5, ReturnedInv
<1>6. CASE Judge
  BY <1>6, JudgeInv
<1>7. CASE StartAgain
  <2>1. /\ rpc = "ended" /\ rpc' = "compile" /\ run' = run + 1 /\ run < MaxRuns
        /\ run \in Nat /\ todo' = Instances /\ verdict' = [i \in Instances |-> None]
        /\ cut' = {} /\ UNCHANGED <<current, solver, files, read>>
    BY <1>7 DEF StartAgain, IInv, TypeOK
  <2>2. solver = "none"
    BY <2>1 DEF IInv, RunningInv
  <2>3. TypeOK'
    <3>1. ASSUME NEW i \in Instances, files[i] # None
          PROVE  files[i].by <= run + 1
      <4>1. files[i] \in File /\ files[i].by <= run
        BY <3>1 DEF IInv, TypeOK
      <4>2. files[i].by \in Nat
        BY <4>1 DEF File
      <4> QED BY <2>1, <4>1, <4>2
    <3>2. run + 1 \in 1 .. MaxRuns
      BY <2>1, ChallengeAssumption
    <3> QED BY <2>1, <3>1, <3>2 DEF IInv, TypeOK
  <2>4. RunningInv'
    BY <2>1, <2>2 DEF RunningInv
  <2>5. JudgedInv'
    BY <2>1, NoneIsNothing DEF JudgedInv, VerdictFits
  <2> QED BY <2>3, <2>4, <2>5 DEF IInv
<1> QED BY <1>1, <1>2, <1>3, <1>4, <1>5, <1>6, <1>7 DEF Next, Runner, User

\* At first nothing is written and nothing is judged.
LEMMA InitInv ==
  ASSUME Init
  PROVE  IInv
<1>1. TypeOK
  BY ChallengeAssumption DEF Init, TypeOK
<1>2. RunningInv
  BY DEF Init, RunningInv
<1>3. JudgedInv
  BY NoneIsNothing DEF Init, JudgedInv, VerdictFits
<1> QED BY <1>1, <1>2, <1>3 DEF IInv

\* What the invariant says of every file and verdict.
LEMMA WhatIsSaidIsRight ==
  ASSUME IInv
  PROVE  TypeOK /\ VerdictIsRight /\ TableScoreIsReal /\ NoStaleScoreAfterRun
         /\ CheckersAgree
<1>1. \A i \in Instances : written(i) => files[i] \in File
  BY DEF IInv, TypeOK, written
<1>2. VerdictIsRight
  <2> SUFFICES ASSUME NEW i \in Instances, verdict[i] \in {"success", "invalid"}
               PROVE  /\ written(i) /\ complete(files[i]) /\ files[i].by = run
                      /\ verdict[i] = "success" =>
                           checkFeasibility(files[i].wave.orders, files[i].wave.aisles)
                      /\ verdict[i] = "invalid" /\ i \notin cut =>
                           ~ checkFeasibility(files[i].wave.orders, files[i].wave.aisles)
    BY DEF VerdictIsRight
  <2>1. i \notin todo /\ i \notin Unreadable /\ verdict[i] # "unexpected"
    BY NoneIsNothing DEF IInv, JudgedInv
  <2> QED BY <2>1 DEF IInv, JudgedInv, VerdictFits, written
<1>3. TableScoreIsReal
  <2> SUFFICES ASSUME NEW i \in Instances, written(i),
                      calculate_score(files[i])[1] > 0
               PROVE  /\ complete(files[i])
                      /\ checkFeasibility(files[i].wave.orders, files[i].wave.aisles)
                      /\ calculate_score(files[i])
                           = calculateScore(files[i].wave.orders, files[i].wave.aisles)
    BY DEF TableScoreIsReal
  <2>1. files[i] \in File
    BY <1>1
  <2>2. complete(files[i])
    <3>1. CASE ~complete(files[i])
      <4>1. calculate_score(files[i]) = <<0, 1>>
        BY <2>1, <3>1, ShortFileHasNoScore
      <4> QED BY <4>1
    <3> QED BY <3>1
  <2> QED BY <2>1, <2>2, WholeFileScore
<1>4. NoStaleScoreAfterRun
  BY DEF NoStaleScoreAfterRun, IInv, JudgedInv
<1>5. CheckersAgree
  <2> SUFFICES
        ASSUME NEW f \in {[wave |-> w, written |-> lineCount(w)] : w \in Wave \ {NoWave}}
                           \cup {files[i] : i \in {j \in Instances : written(j)}},
               complete(f), f.wave # NoWave
        PROVE  checker(f) = "feasible"
                 <=> is_solution_feasible(f.wave.orders, f.wave.aisles)
    BY DEF CheckersAgree
  <2>1. f.wave \in Wave
    BY <1>1 DEF File
  <2> QED BY <2>1, CheckerVerdict
<1> QED BY <1>2, <1>3, <1>4, <1>5 DEF IInv

\* Every verdict of the runner is about a whole file of its own run; success is
\* reported only of a feasible one, and a feasible one is called invalid only if
\* Ctrl-C cut its reading short: for any instances, failures, interruptions and
\* number of runs.
THEOREM VerdictsAreRight == Spec => [](TypeOK /\ VerdictIsRight)
<1>1. Init => IInv
  BY InitInv
<1>2. IInv /\ [Next]_vars => IInv'
  BY NextInv
<1>3. IInv => TypeOK /\ VerdictIsRight
  BY WhatIsSaidIsRight
<1> QED BY <1>1, <1>2, <1>3, PTL DEF Spec

\* A table made at any time shows no score of a wave that is not whole and
\* feasible, and after a run over all instances none of an earlier run, except of
\* an instance that could not be started.
THEOREM TablesAreRight == Spec => [](TableScoreIsReal /\ NoStaleScoreAfterRun)
<1>1. Init => IInv
  BY InitInv
<1>2. IInv /\ [Next]_vars => IInv'
  BY NextInv
<1>3. IInv => TableScoreIsReal /\ NoStaleScoreAfterRun
  BY WhatIsSaidIsRight
<1> QED BY <1>1, <1>2, <1>3, PTL DEF Spec

\* The two checkers never disagree about a wave printed in full, unless it is
\* the empty one.
THEOREM CheckersNeverDisagree == Spec => []CheckersAgree
<1>1. Init => IInv
  BY InitInv
<1>2. IInv /\ [Next]_vars => IInv'
  BY NextInv
<1>3. IInv => CheckersAgree
  BY WhatIsSaidIsRight
<1> QED BY <1>1, <1>2, <1>3, PTL DEF Spec

=============================================================================
