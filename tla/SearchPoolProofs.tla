-------------------------- MODULE SearchPoolProofs --------------------------
(***************************************************************************)
(* The safety of the worker pool, for any set of threads, any solutions    *)
(* and any patience.                                                       *)
(***************************************************************************)
EXTENDS SearchPool, TLAPS

\* Where a worker holds the mutex; where it is replacing the best solution.
Critical  == {"locked", "setScore", "setSolution", "setTime", "log", "unlock"}
Replacing == {"setScore", "setSolution", "setTime", "log"}

\* The mutex excludes: its owner is the one worker in the critical section.
MutexInv ==
  \A t \in Threads : tpc[t] \in Critical <=> solutionMutex = t

\* No reading of the clock is ahead of it, and under the mutex the reading is
\* not behind the last improvement.
ClockInv ==
  /\ lastImprovement <= clock
  /\ \A t \in Threads : now[t] <= clock
  /\ \A t \in Threads : tpc[t] \in Replacing => lastImprovement <= now[t]

\* What a worker in the critical section has written so far, and what the
\* shared record still is.
HolderInv ==
  \A t \in Threads :
    /\ tpc[t] \in Critical => Feasible[solution[t]]
    /\ tpc[t] \in {"locked", "setScore", "unlock"} => Consistent
    /\ tpc[t] = "setScore" => bestScore < Score[solution[t]]
    /\ tpc[t] \in {"setSolution", "setTime", "log"} =>
         bestScore = Score[solution[t]]
    /\ tpc[t] = "setSolution" => Score[bestSolution] < Score[solution[t]]
    /\ tpc[t] \in {"setTime", "log"} => bestSolution = solution[t]
    /\ tpc[t] = "log" => lastImprovement = now[t]
    /\ tpc[t] = "unlock" => Score[solution[t]] <= bestScore

\* The line a worker is about to log comes after the last one.
NextLineInv ==
  \A t \in Threads :
    tpc[t] \in Replacing /\ log # <<>> =>
      /\ log[Len(log)][1] <= now[t]
      /\ log[Len(log)][2] < Score[solution[t]]

\* A worker that has not started has found nothing.
StartInv == \A t \in Threads : tpc[t] = "start" => solution[t] = Empty

\* main has printed the best solution, after every worker stopped.
ExitInv ==
  mpc = "exited" => /\ printed = bestSolution
                    /\ \A t \in Threads : tpc[t] = "stopped"

IInv ==
  /\ TypeOK
  /\ MutexInv
  /\ ClockInv
  /\ HolderInv
  /\ NextLineInv
  /\ StartInv
  /\ ExitInv
  /\ BestIsConsistent
  /\ NoFindingIsLost
  /\ LogRises

-----------------------------------------------------------------------------
(* Types *)

\* Every step keeps every variable in its type.
LEMMA TypeStep ==
  ASSUME TypeOK, [Next]_vars
  PROVE  TypeOK'
<1> USE PoolAssumption DEF TypeOK, WorkerPCs, shared
<1>1. ASSUME NEW t \in Threads, Worker(t)
      PROVE  TypeOK'
  <2> USE <1>1 DEF Goto
  <2>1. CASE Start(t)
    BY <2>1 DEF Start, ReadClock
  <2>2. CASE Enter(t) \/ Leave(t) \/ Discard(t)
    BY <2>2 DEF Enter, Leave, Discard
  <2>3. CASE Run(t)
    BY <2>3 DEF Run
  <2>4. CASE Lock(t)
    BY <2>4 DEF Lock
  <2>5. CASE Compare(t)
    BY <2>5 DEF Compare, ReadClock
  <2>6. CASE SetScore(t)
    BY <2>6 DEF SetScore
  <2>7. CASE SetSolution(t)
    BY <2>7 DEF SetSolution
  <2>8. CASE SetTime(t)
    BY <2>8 DEF SetTime
  <2>9. CASE Log(t)
    <3>1. <<now[t], Score[solution[t]]>> \in Nat \X Nat
      OBVIOUS
    <3>2. log' \in Seq(Nat \X Nat)
      BY <2>9, <3>1 DEF Log
    <3> QED
      BY <2>9, <3>2 DEF Log
  <2>10. CASE Unlock(t)
    BY <2>10 DEF Unlock
  <2> QED
    BY <2>1, <2>2, <2>3, <2>4, <2>5, <2>6, <2>7, <2>8, <2>9, <2>10 DEF Worker
<1>2. CASE JoinAndPrint
  BY <1>2 DEF JoinAndPrint
<1>3. CASE Tick
  BY <1>3 DEF Tick
<1>4. CASE Exited \/ UNCHANGED vars
  BY <1>4 DEF Exited, vars
<1> QED
  BY <1>1, <1>2, <1>3, <1>4 DEF Next

-----------------------------------------------------------------------------
(* The invariant *)

LEMMA InitInv == Init => IInv
<1> SUFFICES ASSUME Init
             PROVE  IInv
  OBVIOUS
<1> USE PoolAssumption DEF Init
<1>1. TypeOK
  BY DEF TypeOK, WorkerPCs
<1>2. MutexInv /\ ClockInv /\ HolderInv /\ NextLineInv /\ StartInv /\ ExitInv
  BY DEF MutexInv, ClockInv, HolderInv, NextLineInv, StartInv, ExitInv,
         Critical, Replacing
<1>3. BestIsConsistent /\ NoFindingIsLost /\ LogRises
  BY DEF BestIsConsistent, Consistent, NoFindingIsLost, LogRises
<1> QED
  BY <1>1, <1>2, <1>3 DEF IInv

\* A worker's step outside the critical section that neither takes nor
\* releases the mutex.
LEMMA OutsideStep ==
  ASSUME IInv, NEW t \in Threads,
         Start(t) \/ Enter(t) \/ Leave(t) \/ Run(t) \/ Discard(t)
  PROVE  IInv'
<1> USE PoolAssumption DEF Start, ReadClock, Enter, Leave, Run, Discard, Goto, shared
<1>1. TypeOK'
  BY TypeStep DEF IInv, Next, Worker
<1>2. /\ \A s \in Threads \ {t} : /\ tpc'[s] = tpc[s]
                                  /\ now'[s] = now[s]
                                  /\ solution'[s] = solution[s]
      /\ tpc[t] \in {"start", "loop", "run", "judge"}
      /\ tpc'[t] \in {"loop", "run", "judge", "stopped"}
      /\ tpc'[t] \in {"loop", "run", "stopped"} =>
           /\ solution'[t] = solution[t]
           /\ tpc[t] = "judge" => ~ Feasible[solution[t]]
      /\ now'[t] \in {now[t], clock}
      /\ UNCHANGED <<clock, solutionMutex, bestScore, bestSolution,
                     lastImprovement, log, mpc, printed>>
  BY DEF IInv, TypeOK
<1> HIDE DEF Start, ReadClock, Enter, Leave, Run, Discard, Goto, shared
<1>3. MutexInv'
  BY <1>2 DEF IInv, MutexInv, Critical
<1>4. ClockInv'
  <2> SUFFICES ASSUME NEW s \in Threads
               PROVE  /\ now'[s] <= clock'
                      /\ tpc'[s] \in Replacing => lastImprovement' <= now'[s]
    BY <1>2 DEF IInv, ClockInv
  <2>1. CASE s = t
    BY <1>2, <2>1 DEF IInv, ClockInv, Replacing, TypeOK
  <2>2. CASE s # t
    BY <1>2, <2>2 DEF IInv, ClockInv
  <2> QED
    BY <2>1, <2>2
<1>5. HolderInv' /\ NextLineInv' /\ StartInv'
  <2>1. Consistent' <=> Consistent
    BY <1>2 DEF Consistent
  <2>2. tpc'[t] \notin Critical /\ tpc'[t] \notin Replacing /\ tpc'[t] # "start"
    BY <1>2 DEF Critical, Replacing
  <2>3. HolderInv'
    BY <1>2, <2>1, <2>2 DEF IInv, HolderInv, Critical
  <2>4. NextLineInv'
    BY <1>2, <2>2 DEF IInv, NextLineInv
  <2>5. StartInv'
    BY <1>2, <2>2 DEF IInv, StartInv
  <2> QED
    BY <2>3, <2>4, <2>5
<1>6. ExitInv'
  BY <1>2 DEF IInv, ExitInv
<1>7. BestIsConsistent' /\ LogRises'
  BY <1>2 DEF IInv, BestIsConsistent, Consistent, LogRises
<1>8. NoFindingIsLost'
  <2> SUFFICES ASSUME NEW s \in Threads,
                      tpc'[s] \in {"loop", "run", "stopped"},
                      Feasible[solution'[s]]
               PROVE  Score[solution'[s]] <= bestScore
    BY <1>2 DEF NoFindingIsLost
  <2>1. CASE tpc[s] \in {"loop", "run", "stopped"}
    BY <1>2, <2>1 DEF IInv, NoFindingIsLost
  <2>2. CASE tpc[s] \notin {"loop", "run", "stopped"}
    <3>1. s = t /\ tpc[s] = "start" /\ solution'[s] = Empty
      BY <1>2, <2>2 DEF IInv, StartInv
    <3> QED
      BY <3>1 DEF IInv, TypeOK
  <2> QED
    BY <2>1, <2>2
<1> QED
  BY <1>1, <1>3, <1>4, <1>5, <1>6, <1>7, <1>8 DEF IInv

\* The steps of the worker that holds the mutex, and the one that takes it.
Inside(t) == \/ Lock(t) \/ Compare(t) \/ SetScore(t) \/ SetSolution(t)
             \/ SetTime(t) \/ Log(t) \/ Unlock(t)

\* During such a step nobody else is in the critical section, and nothing
\* but t's place, t's clock reading and the shared record changes.
LEMMA InsideFrame ==
  ASSUME IInv, NEW t \in Threads, Inside(t)
  PROVE  /\ \A s \in Threads \ {t} : /\ tpc'[s] = tpc[s]
                                     /\ now'[s] = now[s]
                                     /\ tpc[s] \notin Critical
         /\ tpc[t] \in Critical \cup {"judge"}
         /\ now'[t] \in {now[t], clock}
         /\ mpc = "join"
         /\ bestScore <= bestScore'
         /\ UNCHANGED <<clock, solution, mpc, printed>>
<1> USE PoolAssumption
<1> USE DEF Inside, Goto, shared, IInv, TypeOK
<1>1. /\ \A s \in Threads \ {t} : tpc'[s] = tpc[s] /\ now'[s] = now[s]
      /\ now'[t] \in {now[t], clock}
      /\ UNCHANGED <<clock, solution, mpc, printed>>
  BY DEF Lock, Compare, SetScore, SetSolution, SetTime, Log, Unlock, ReadClock
<1>2. tpc[t] \in Critical \cup {"judge"}
  BY DEF Lock, Compare, SetScore, SetSolution, SetTime, Log, Unlock, Critical
<1>3. solutionMutex \in {t, NoThread}
  BY <1>2 DEF Lock, Compare, SetScore, SetSolution, SetTime, Log, Unlock,
              Critical, MutexInv
<1>4. \A s \in Threads \ {t} : tpc[s] \notin Critical
  BY <1>3 DEF MutexInv
<1>5. mpc = "join"
  BY <1>2 DEF ExitInv, Critical
<1>6. bestScore <= bestScore'
  BY DEF Lock, Compare, SetScore, SetSolution, SetTime, Log, Unlock, HolderInv
<1> QED
  BY <1>1, <1>2, <1>4, <1>5, <1>6

\* The mutex still excludes after such a step.
LEMMA InsideMutex ==
  ASSUME IInv, NEW t \in Threads, Inside(t)
  PROVE  MutexInv'
<1> USE PoolAssumption
<1>1. \A s \in Threads \ {t} : tpc'[s] \notin Critical
  BY InsideFrame
<1>2. CASE Unlock(t)
  <2>1. tpc'[t] \notin Critical /\ solutionMutex' = NoThread
    BY <1>2 DEF Unlock, Goto, Critical, IInv, TypeOK
  <2> QED
    BY <1>1, <2>1 DEF MutexInv
<1>3. CASE ~ Unlock(t)
  <2>1. tpc[t] \in Critical => solutionMutex = t
    BY DEF IInv, MutexInv
  <2>2. tpc'[t] \in Critical /\ solutionMutex' = t
    BY <1>3, <2>1 DEF Inside, Lock, Compare, SetScore, SetSolution, SetTime,
       Log, Goto, Critical, IInv, TypeOK
  <2> QED
    BY <1>1, <2>2 DEF MutexInv
<1> QED
  BY <1>2, <1>3

\* What the holder has written so far, action by action.
LEMMA InsideHolder ==
  ASSUME IInv, NEW t \in Threads, Inside(t)
  PROVE  HolderInv' /\ NextLineInv' /\ BestIsConsistent'
<1> USE PoolAssumption
<1> DEFINE Holder ==
      /\ tpc[t] \in Critical => Feasible[solution[t]]
      /\ tpc[t] \in {"locked", "setScore", "unlock"} => Consistent
      /\ tpc[t] = "setScore" => bestScore < Score[solution[t]]
      /\ tpc[t] \in {"setSolution", "setTime", "log"} =>
           bestScore = Score[solution[t]]
      /\ tpc[t] = "setSolution" => Score[bestSolution] < Score[solution[t]]
      /\ tpc[t] \in {"setTime", "log"} => bestSolution = solution[t]
      /\ tpc[t] = "log" => lastImprovement = now[t]
      /\ tpc[t] = "unlock" => Score[solution[t]] <= bestScore
<1> DEFINE NextLine ==
      tpc[t] \in Replacing /\ log # <<>> =>
        /\ log[Len(log)][1] <= now[t]
        /\ log[Len(log)][2] < Score[solution[t]]
<1>1. TypeOK /\ Holder /\ NextLine /\ MutexInv /\ ClockInv
  BY DEF IInv, HolderInv, NextLineInv
<1>2. TypeOK'
  BY TypeStep DEF IInv, Inside, Next, Worker
<1>suff. SUFFICES Holder' /\ NextLine' /\ BestIsConsistent'
  <2>1. \A s \in Threads \ {t} : tpc'[s] \notin Critical
    BY InsideFrame
  <2>2. Replacing \subseteq Critical
    BY DEF Replacing, Critical
  <2>3. ASSUME Holder'
        PROVE  HolderInv'
    BY <2>1, <2>3 DEF HolderInv, Critical
  <2>4. ASSUME NextLine'
        PROVE  NextLineInv'
    BY <2>1, <2>2, <2>4 DEF NextLineInv
  <2> QED
    BY <2>3, <2>4
<1> USE DEF Goto, shared, Critical, Replacing, TypeOK, Consistent
<1>3. CASE Lock(t)
  <2>1. Consistent
    BY <1>3 DEF Lock, IInv, BestIsConsistent
  <2>2. tpc'[t] = "locked" /\ solutionMutex' = t /\ t # NoThread
    BY <1>1, <1>3 DEF Lock
  <2> QED
    BY <1>3, <2>1, <2>2 DEF Lock, BestIsConsistent
<1>4. ASSUME ~ Lock(t), ~ Unlock(t)
      PROVE  BestIsConsistent'
  <2>1. tpc'[t] \in Critical /\ t # NoThread
    BY <1>1, <1>4 DEF Inside, Compare, SetScore, SetSolution, SetTime, Log
  <2>2. solutionMutex' = t
    BY <2>1, InsideMutex DEF MutexInv
  <2> QED
    BY <2>1, <2>2 DEF BestIsConsistent
<1>5. CASE Compare(t)
  <2>1. now'[t] = clock /\ lastImprovement <= clock
    BY <1>1, <1>5 DEF Compare, ReadClock, ClockInv
  <2>2. tpc[t] = "locked"
    BY <1>5 DEF Compare
  <2>3. UNCHANGED <<bestScore, bestSolution, lastImprovement, log, solution>>
    BY <1>5 DEF Compare
  <2>4. tpc'[t] = IF Score[solution[t]] > bestScore THEN "setScore" ELSE "unlock"
    BY <1>1, <1>5 DEF Compare
  <2>5. Holder'
    BY <1>1, <2>2, <2>3, <2>4
  <2>6. NextLine'
    BY <1>1, <2>1, <2>2, <2>3, <2>4
  <2>7. ~ Lock(t) /\ ~ Unlock(t)
    BY <2>2 DEF Lock, Unlock
  <2> QED
    BY <1>4, <2>5, <2>6, <2>7
<1>6. CASE SetScore(t)
  <2>1. ~ Lock(t) /\ ~ Unlock(t)
    BY <1>6 DEF SetScore, Lock, Unlock
  <2>2. Holder' /\ NextLine'
    BY <1>1, <1>6 DEF SetScore
  <2> QED
    BY <1>4, <2>1, <2>2
<1>7. CASE SetSolution(t)
  <2>1. ~ Lock(t) /\ ~ Unlock(t)
    BY <1>7 DEF SetSolution, Lock, Unlock
  <2>2. Holder' /\ NextLine'
    BY <1>1, <1>7 DEF SetSolution
  <2> QED
    BY <1>4, <2>1, <2>2
<1>8. CASE SetTime(t)
  <2>1. ~ Lock(t) /\ ~ Unlock(t)
    BY <1>8 DEF SetTime, Lock, Unlock
  <2>2. Holder' /\ NextLine'
    BY <1>1, <1>8 DEF SetTime
  <2> QED
    BY <1>4, <2>1, <2>2
<1>9. CASE Log(t)
  <2>1. ~ Lock(t) /\ ~ Unlock(t)
    BY <1>9 DEF Log, Lock, Unlock
  <2>2. /\ Len(log') = Len(log) + 1
        /\ log'[Len(log')] = <<now[t], Score[solution[t]]>>
        /\ log' # <<>>
    BY <1>1, <1>9 DEF Log
  <2>3. /\ UNCHANGED <<bestScore, bestSolution, lastImprovement, solution, now>>
        /\ tpc[t] = "log" /\ tpc'[t] = "unlock"
    BY <1>1, <1>9 DEF Log
  <2>4. Holder' /\ NextLine'
    BY <1>1, <2>2, <2>3
  <2> QED
    BY <1>4, <2>1, <2>4
<1>10. CASE Unlock(t)
  <2>1. tpc[t] = "unlock" /\ tpc'[t] = "loop"
    BY <1>1, <1>10 DEF Unlock
  <2>2. UNCHANGED <<bestScore, bestSolution, lastImprovement, log>>
    BY <1>10 DEF Unlock
  <2> QED
    BY <1>1, <2>1, <2>2 DEF BestIsConsistent
<1> QED
  BY <1>3, <1>5, <1>6, <1>7, <1>8, <1>9, <1>10 DEF Inside

\* A step inside or into the critical section preserves the invariant.
LEMMA InsideStep ==
  ASSUME IInv, NEW t \in Threads, Inside(t)
  PROVE  IInv'
<1> USE PoolAssumption
<1>1. TypeOK /\ TypeOK'
  BY TypeStep DEF IInv, Inside, Next, Worker
<1>2. MutexInv'
  BY InsideMutex
<1>3. HolderInv' /\ NextLineInv' /\ BestIsConsistent'
  BY InsideHolder
<1>4. ClockInv'
  <2>1. lastImprovement' \in {lastImprovement, now[t]}
    BY DEF Inside, Lock, Compare, SetScore, SetSolution, SetTime, Log, Unlock,
           shared
  <2>2. lastImprovement' <= clock' /\ \A s \in Threads : now'[s] <= clock'
    <3>1. /\ clock' = clock /\ now'[t] \in {now[t], clock}
          /\ \A s \in Threads \ {t} : now'[s] = now[s]
      BY InsideFrame
    <3>2. clock \in Nat /\ lastImprovement <= clock
          /\ \A s \in Threads : now[s] <= clock
      BY <1>1 DEF IInv, ClockInv, TypeOK
    <3>3. ASSUME NEW s \in Threads
          PROVE  now'[s] <= clock'
      <4>1. CASE s = t
        BY <3>1, <3>2, <4>1
      <4>2. CASE s # t
        BY <3>1, <3>2, <4>2
      <4> QED
        BY <4>1, <4>2
    <3>4. lastImprovement' <= clock'
      BY <2>1, <3>1, <3>2
    <3> QED
      BY <3>3, <3>4
  <2>3. tpc'[t] \in Replacing => lastImprovement' <= now'[t]
    BY <1>1 DEF Inside, Lock, Compare, SetScore, SetSolution, SetTime, Log,
       Unlock, ReadClock, Goto, shared, IInv, ClockInv, Replacing, TypeOK
  <2>4. ASSUME NEW s \in Threads \ {t}
        PROVE  tpc'[s] \notin Replacing
    BY InsideFrame DEF Critical, Replacing
  <2> QED
    BY <2>2, <2>3, <2>4 DEF ClockInv
<1>5. StartInv'
  <2>1. tpc'[t] # "start"
    BY <1>1 DEF Inside, Lock, Compare, SetScore, SetSolution, SetTime, Log,
       Unlock, Goto, TypeOK
  <2> QED
    BY <2>1, InsideFrame DEF IInv, StartInv
<1>6. ExitInv'
  BY InsideFrame DEF ExitInv
<1>7. NoFindingIsLost'
  <2> SUFFICES ASSUME NEW s \in Threads,
                      tpc'[s] \in {"loop", "run", "stopped"},
                      Feasible[solution'[s]]
               PROVE  Score[solution'[s]] <= bestScore'
    BY DEF NoFindingIsLost
  <2>1. solution' = solution /\ bestScore <= bestScore'
    BY InsideFrame
  <2>2. CASE s = t
    <3>1. Unlock(t)
      BY <1>1, <2>2 DEF Inside, Lock, Compare, SetScore, SetSolution, SetTime,
         Log, Goto, TypeOK
    <3>2. Score[solution[t]] <= bestScore
      BY <3>1 DEF Unlock, Goto, IInv, HolderInv
    <3> QED
      BY <1>1, <2>1, <2>2, <3>2 DEF TypeOK
  <2>3. CASE s # t
    <3>1. tpc[s] = tpc'[s]
      BY <2>3, InsideFrame
    <3>2. Score[solution[s]] <= bestScore
      BY <2>1, <3>1 DEF IInv, NoFindingIsLost
    <3> QED
      BY <1>1, <2>1, <3>2 DEF TypeOK
  <2> QED
    BY <2>2, <2>3
<1>8. LogRises'
  <2>1. CASE UNCHANGED log
    BY <2>1 DEF IInv, LogRises
  <2>2. CASE Log(t)
    <3> DEFINE line == <<now[t], Score[solution[t]]>>
    <3>1. log' = Append(log, line) /\ log \in Seq(Nat \X Nat)
      BY <1>1, <2>2 DEF Log, TypeOK
    <3>2. line \in Nat \X Nat
      BY <1>1 DEF TypeOK
    <3>3. /\ Len(log') = Len(log) + 1
          /\ \A k \in 1 .. Len(log) : log'[k] = log[k]
          /\ log'[Len(log) + 1] = line
      BY <3>1, <3>2
    <3>4. log # <<>> => /\ log[Len(log)][1] <= line[1]
                        /\ log[Len(log)][2] < line[2]
      BY <2>2 DEF Log, Goto, IInv, NextLineInv, Replacing
    <3> HIDE DEF line
    <3>5. ASSUME NEW k \in 2 .. Len(log')
          PROVE  log'[k - 1][1] <= log'[k][1] /\ log'[k - 1][2] < log'[k][2]
      <4>1. CASE k <= Len(log)
        <5>1. k \in 2 .. Len(log)
          BY <3>1, <3>3, <4>1
        <5>2. log[k - 1][1] <= log[k][1] /\ log[k - 1][2] < log[k][2]
          BY <5>1 DEF IInv, LogRises
        <5>3. log'[k] = log[k] /\ log'[k - 1] = log[k - 1]
          BY <3>1, <3>3, <5>1
        <5> QED
          BY <5>2, <5>3
      <4>2. CASE k = Len(log) + 1
        BY <3>1, <3>3, <3>4, <4>2
      <4> QED
        BY <3>1, <3>3, <4>1, <4>2
    <3> QED
      BY <3>5 DEF LogRises
  <2> QED
    BY <2>1, <2>2 DEF Inside, Lock, Compare, SetScore, SetSolution, SetTime,
       Unlock, shared
<1> QED
  BY <1>1, <1>2, <1>3, <1>4, <1>5, <1>6, <1>7, <1>8 DEF IInv

\* The invariant is inductive.
LEMMA NextInv ==
  ASSUME IInv, [Next]_vars
  PROVE  IInv'
<1> USE PoolAssumption
<1>1. TypeOK'
  BY TypeStep DEF IInv
<1>2. ASSUME NEW t \in Threads, Worker(t)
      PROVE  IInv'
  BY <1>2, OutsideStep, InsideStep DEF Worker, Inside
<1>3. CASE JoinAndPrint \/ Tick \/ Exited \/ UNCHANGED vars
  <2>1. UNCHANGED <<tpc, now, solution, solutionMutex, bestScore,
                    bestSolution, lastImprovement, log>>
    BY <1>3 DEF JoinAndPrint, Tick, Exited, vars, shared
  <2>2. ClockInv'
    <3>1. clock' \in {clock, clock + 1}
      BY <1>3 DEF JoinAndPrint, Tick, Exited, vars
    <3> QED
      BY <2>1, <3>1 DEF IInv, ClockInv, TypeOK
  <2>3. ExitInv'
    BY <1>3 DEF JoinAndPrint, Tick, Exited, vars, shared, IInv, ExitInv
  <2>4. MutexInv' /\ HolderInv' /\ NextLineInv' /\ StartInv'
    BY <2>1 DEF IInv, MutexInv, HolderInv, NextLineInv, StartInv, Consistent
  <2>5. BestIsConsistent' /\ NoFindingIsLost' /\ LogRises'
    BY <2>1 DEF IInv, BestIsConsistent, Consistent, NoFindingIsLost, LogRises
  <2> QED
    BY <1>1, <2>2, <2>3, <2>4, <2>5 DEF IInv
<1> QED
  BY <1>2, <1>3 DEF Next

-----------------------------------------------------------------------------
(* The results *)

\* The strengthened invariant holds in every reachable state of the pool
\* (main.cpp:53-118).
THEOREM InvHolds == Spec => []IInv
<1>1. Init => IInv
  BY InitInv
<1>2. IInv /\ [Next]_vars => IInv'
  BY NextInv
<1> QED
  BY <1>1, <1>2, PTL DEF Spec

\* The best score, the best solution, its feasibility and the last line of the
\* log belong together whenever the mutex is free; and a worker at the head of
\* its loop, in its next run or stopped has no feasible solution better than the
\* best kept (main.cpp:77-105).
THEOREM PoolCorrect ==
  Spec => /\ []TypeOK
          /\ []BestIsConsistent
          /\ []NoFindingIsLost
<1>1. IInv => TypeOK /\ BestIsConsistent /\ NoFindingIsLost
  BY DEF IInv
<1> QED
  BY <1>1, InvHolds, PTL

\* Scores and times in the log rise, whichever worker wrote a line
\* (main.cpp:82-101).
THEOREM LogIsOrdered == Spec => []LogRises
<1>1. IInv => LogRises
  BY DEF IInv
<1> QED
  BY <1>1, InvHolds, PTL

\* main prints nothing worse than what any worker found (main.cpp:108-118).
THEOREM PrintedIsBest == Spec => []PrintsTheBest
<1>1. ASSUME IInv
      PROVE  PrintsTheBest
  <2> USE PoolAssumption
  <2> SUFFICES ASSUME mpc = "exited"
               PROVE  /\ \A t \in Threads : Feasible[solution[t]] =>
                                  Score[solution[t]] <= Score[bestSolution]
                      /\ Score[bestSolution] > 0 => Feasible[bestSolution]
    BY <1>1 DEF PrintsTheBest, IInv, ExitInv
  <2>1. \A t \in Threads : tpc[t] = "stopped"
    BY <1>1 DEF IInv, ExitInv
  <2>2. solutionMutex = NoThread
    BY <1>1, <2>1 DEF IInv, TypeOK, MutexInv, Critical
  <2>3. Consistent
    BY <1>1, <2>2 DEF IInv, BestIsConsistent
  <2>4. \A t \in Threads : Feasible[solution[t]] =>
                             Score[solution[t]] <= bestScore
    BY <1>1, <2>1 DEF IInv, NoFindingIsLost
  <2>5. Score[bestSolution] > 0 => Feasible[bestSolution]
    BY <2>3 DEF Consistent
  <2> QED
    BY <2>3, <2>4, <2>5 DEF Consistent
<1> QED
  BY <1>1, InvHolds, PTL

\* No step replaces the best solution by a worse one or moves the deadline
\* back (main.cpp:83-88).
THEOREM OnlyImprovements == Spec => ImprovementsOnly
<1>1. ASSUME IInv, [Next]_vars
      PROVE  /\ lastImprovement' >= lastImprovement
             /\ bestSolution' # bestSolution =>
                  Score[bestSolution'] > Score[bestSolution]
  <2>1. ASSUME NEW t \in Threads, SetSolution(t)
        PROVE  /\ lastImprovement' = lastImprovement
               /\ Score[bestSolution'] > Score[bestSolution]
    BY <1>1, <2>1 DEF SetSolution, Goto, IInv, HolderInv, TypeOK,
                      PoolAssumption
  <2>2. ASSUME NEW t \in Threads, SetTime(t)
        PROVE  lastImprovement' >= lastImprovement /\ UNCHANGED bestSolution
    BY <1>1, <2>2 DEF SetTime, Goto, IInv, ClockInv, Replacing, TypeOK
  <2>3. ASSUME NEW t \in Threads, Worker(t), ~ SetSolution(t), ~ SetTime(t)
        PROVE  UNCHANGED <<lastImprovement, bestSolution>>
    BY <2>3 DEF Worker, Start, Enter, Leave, Run, Discard, Lock, Compare,
                SetScore, Log, Unlock, shared
  <2>4. ASSUME JoinAndPrint \/ Tick \/ Exited \/ UNCHANGED vars
        PROVE  UNCHANGED <<lastImprovement, bestSolution>>
    BY <2>4 DEF JoinAndPrint, Tick, Exited, vars, shared
  <2>5. lastImprovement \in Nat
    BY <1>1 DEF IInv, TypeOK
  <2>6. CASE UNCHANGED <<lastImprovement, bestSolution>>
    BY <2>5, <2>6
  <2>7. ASSUME NEW t \in Threads, Worker(t)
        PROVE  \/ SetSolution(t) \/ SetTime(t)
               \/ UNCHANGED <<lastImprovement, bestSolution>>
    BY <2>3, <2>7
  <2>8. ASSUME NEW t \in Threads, SetSolution(t)
        PROVE  lastImprovement' >= lastImprovement
    BY <2>1, <2>5, <2>8
  <2> QED
    BY <1>1, <2>1, <2>2, <2>4, <2>6, <2>7, <2>8 DEF Next
<1>2. IInv /\ [Next]_vars =>
        [/\ lastImprovement' >= lastImprovement
         /\ bestSolution' # bestSolution =>
              Score[bestSolution'] > Score[bestSolution]]_vars
  BY <1>1
<1> QED
  BY <1>2, InvHolds, PTL DEF Spec, ImprovementsOnly

=============================================================================
