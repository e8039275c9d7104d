--------------------------- MODULE BaselineProofs ---------------------------
(***************************************************************************)
(* For every instance, every budget and every answer the solver may give:  *)
(* the baseline keeps its budget once a limit is set, writes only feasible *)
(* waves, keeps the score of the wave it has written, and if no solve was  *)
(* stopped the last wave written is optimal.                               *)
(***************************************************************************)
EXTENDS Baseline, WaveProblemProofs

-----------------------------------------------------------------------------
(* Sums and ratios *)

Tokens(O) == UNION {{o} \X (1 .. orderTotalUnits[o]) : o \in O}

\* The sums of the orders taken one by one are the sum of all their lines: the
\* objective of the second phase is what getTotalUnits counts.
LEMMA SumOfOrders ==
  ASSUME NEW O \in SUBSET Orders
  PROVE  sumOrders(O) = getTotalUnits(O)
<1> DEFINE U(o) == UnitsOf(OrderQty[o], Items)
           f == [p \in Orders \X Items |-> OrderQty[p[1]][p[2]]]
           T == UnitsOf(f, O \X Items)
           S == Tokens(O)
           b == [o \in O |-> CHOOSE h : h \in Bijection(1 .. orderTotalUnits[o], U(o))]
           F == [t \in S |-> <<<<t[1], b[t[1]][t[2]][1]>>, b[t[1]][t[2]][2]>>]
<1>1. ASSUME NEW o \in O
      PROVE  b[o] \in Bijection(1 .. orderTotalUnits[o], U(o))
  <2>1. IsFiniteSet(U(o)) /\ Cardinality(U(o)) = orderTotalUnits[o]
    BY FiniteIndices, SumType DEF orderTotalUnits, SumOver
  <2>2. ExistsBijection(1 .. orderTotalUnits[o], U(o))
    BY <2>1, FS_CardinalityType
  <2> QED BY <2>2 DEF ExistsBijection
<1>2. ASSUME NEW t \in S
      PROVE  /\ t[1] \in O /\ t[2] \in 1 .. orderTotalUnits[t[1]]
             /\ t = <<t[1], t[2]>>
  BY DEF Tokens
<1>3. ASSUME NEW o \in O, NEW k \in 1 .. orderTotalUnits[o]
      PROVE  <<o, k>> \in S
  BY DEF Tokens
<1>4. ASSUME NEW u \in T
      PROVE  \E o \in O, i \in Items, k \in 1 .. MaxQty :
               u = <<<<o, i>>, k>> /\ <<i, k>> \in U(o)
  <2>1. u \in (O \X Items) \X (1 .. MaxQty) /\ u[2] <= f[u[1]]
    BY <1>4 DEF UnitsOf
  <2>2. PICK o \in O, i \in Items, k \in 1 .. MaxQty : u = <<<<o, i>>, k>>
    BY <2>1
  <2>3. f[<<o, i>>] = OrderQty[o][i]
    OBVIOUS
  <2>4. <<i, k>> \in U(o)
    BY <2>1, <2>2, <2>3 DEF UnitsOf
  <2> QED BY <2>2, <2>4
<1>5. ASSUME NEW o \in O, NEW i, NEW k, <<i, k>> \in U(o)
      PROVE  <<<<o, i>>, k>> \in T
  <2>1. i \in Items /\ k \in 1 .. MaxQty /\ k <= OrderQty[o][i]
    BY <1>5 DEF UnitsOf
  <2>2. f[<<o, i>>] = OrderQty[o][i]
    BY <2>1
  <2> QED BY <2>1, <2>2 DEF UnitsOf
<1>6. ASSUME NEW o \in O, NEW v \in U(o)
      PROVE  v = <<v[1], v[2]>>
  BY DEF UnitsOf
<1> HIDE DEF U, T, S, b, f
<1>7. ASSUME NEW t \in S
      PROVE  F[t] \in T /\ b[t[1]][t[2]] \in U(t[1])
  <2>1. b[t[1]][t[2]] \in U(t[1])
    BY <1>1, <1>2 DEF Bijection, Injection
  <2>2. b[t[1]][t[2]] = <<b[t[1]][t[2]][1], b[t[1]][t[2]][2]>>
    BY <1>2, <1>6, <2>1
  <2> QED BY <1>2, <1>5, <2>1, <2>2
<1>8. ASSUME NEW s \in S, NEW t \in S, F[s] = F[t]
      PROVE  s = t
  <2>1. /\ s[1] = t[1] /\ b[s[1]][s[2]][1] = b[t[1]][t[2]][1]
        /\ b[s[1]][s[2]][2] = b[t[1]][t[2]][2]
    BY <1>8
  <2>2. b[s[1]][s[2]] = b[t[1]][t[2]]
    BY <1>2, <1>6, <1>7, <2>1
  <2>3. IsInjective(b[s[1]]) /\ DOMAIN b[s[1]] = 1 .. orderTotalUnits[s[1]]
    BY <1>1, <1>2 DEF Bijection, Injection
  <2>4. s[2] = t[2]
    BY <1>2, <2>1, <2>2, <2>3 DEF IsInjective
  <2> QED BY <1>2, <2>1, <2>4
<1>9. ASSUME NEW u \in T
      PROVE  \E t \in S : F[t] = u
  <2>1. PICK o \in O, i \in Items, k \in 1 .. MaxQty :
          u = <<<<o, i>>, k>> /\ <<i, k>> \in U(o)
    BY <1>4
  <2>2. PICK n \in 1 .. orderTotalUnits[o] : b[o][n] = <<i, k>>
    BY <1>1, <2>1 DEF Bijection, Surjection
  <2>3. <<o, n>> \in S
    BY <1>3
  <2>4. F[<<o, n>>] = u
    BY <2>1, <2>2, <2>3
  <2> QED BY <2>3, <2>4
<1>10. F \in [S -> T]
  BY <1>7
<1> HIDE DEF F
<1>11. F \in Bijection(S, T)
  BY <1>8, <1>9, <1>10, Fun_IsBij
<1>12. IsFiniteSet(T)
  BY FiniteIndices, FS_Product, SumType DEF T
<1>13. ExistsBijection(T, S)
  BY <1>11, Fun_BijInverse DEF ExistsBijection
<1>14. Cardinality(T) = Cardinality(S)
  BY <1>12, <1>13, FS_Bijection
<1> QED BY <1>14 DEF S, T, f, Tokens, sumOrders, getTotalUnits, SumOver

\* A product grows with its factor, and a positive factor can be cancelled.
LEMMA Products ==
  \A a, b, c \in Nat : /\ a <= b => a * c <= b * c
                       /\ c > 0 /\ a * c <= b * c => a <= b
<1> SUFFICES ASSUME NEW a \in Nat, NEW b \in Nat, NEW c \in Nat
             PROVE  /\ a <= b => a * c <= b * c
                    /\ c > 0 /\ a * c <= b * c => a <= b
  OBVIOUS
<1>1. ASSUME a <= b
      PROVE  a * c <= b * c
  <2>1. PICK n \in Nat : b = a + n
    <3>1. b - a \in Nat /\ b = a + (b - a)
      BY <1>1
    <3> QED BY <3>1
  <2>2. b * c = a * c + n * c /\ n * c \in Nat /\ a * c \in Nat
    BY <2>1
  <2> QED BY <2>2
<1>2. ASSUME c > 0, a * c <= b * c, ~(a <= b)
      PROVE  FALSE
  <2>1. PICK n \in Nat : a = b + n /\ n > 0
    <3>1. a - b \in Nat /\ a = b + (a - b) /\ a - b > 0
      BY <1>2
    <3> QED BY <3>1
  <2>2. a * c = b * c + n * c /\ b * c \in Nat
    BY <2>1
  <2>3. n * c > 0 /\ n * c \in Nat
    BY <1>2, <2>1
  <2> QED BY <1>2, <2>2, <2>3
<1> QED BY <1>1, <1>2

\* What does not exceed a ratio does not exceed a larger one: comparing by
\* products orders the scores.
LEMMA RatioTransitive ==
  ASSUME NEW p \in Nat \X (Nat \ {0}), NEW q \in Nat \X (Nat \ {0}),
         NEW r \in Nat \X (Nat \ {0}),
         ~ Exceeds(p, q), ~ Exceeds(q, r)
  PROVE  ~ Exceeds(p, r)
<1> DEFINE a == p[1]  b == p[2]  c == q[1]  d == q[2]  e == r[1]  f == r[2]
<1>1. /\ a \in Nat /\ b \in Nat /\ c \in Nat /\ d \in Nat /\ e \in Nat /\ f \in Nat
      /\ b > 0 /\ d > 0 /\ f > 0
  OBVIOUS
<1>2. a * d \in Nat /\ c * b \in Nat /\ c * f \in Nat /\ e * d \in Nat
        /\ a * f \in Nat /\ e * b \in Nat
  BY <1>1
<1>3. a * d <= c * b /\ c * f <= e * d
  BY <1>1, <1>2 DEF Exceeds
<1> HIDE DEF a, b, c, d, e, f
<1>4. (a * d) * f <= (c * b) * f
  BY <1>1, <1>2, <1>3, Products
<1>5. (c * f) * b <= (e * d) * b
  BY <1>1, <1>2, <1>3, Products
<1>6. /\ (a * d) * f = (a * f) * d /\ (c * b) * f = (c * f) * b
      /\ (e * d) * b = (e * b) * d
  BY <1>1
<1>7. /\ (a * f) * d \in Nat /\ (c * f) * b \in Nat /\ (e * b) * d \in Nat
  BY <1>1, <1>2
<1>8. (a * f) * d <= (e * b) * d
  BY <1>4, <1>5, <1>6, <1>7
<1>9. a * f <= e * b
  BY <1>1, <1>2, <1>8, Products
<1> QED BY <1>2, <1>9 DEF Exceeds, a, b, e, f

\* A score of 0 exceeds no score.
LEMMA ZeroExceedsNothing ==
  ASSUME NEW p \in Nat \X (Nat \ {0}), NEW r \in Nat \X (Nat \ {0}), p[1] = 0
  PROVE  ~ Exceeds(p, r)
<1>1. p[1] * r[2] = 0 /\ r[1] * p[2] \in Nat
  OBVIOUS
<1> QED BY <1>1 DEF Exceeds

-----------------------------------------------------------------------------
(* Waves and the model *)

\* The score of a wave is a ratio with a positive denominator, and no wave
\* visits more aisles than there are.
LEMMA WaveScoreType ==
  ASSUME NEW w \in Wave
  PROVE  /\ waveScore(w) \in Nat \X (Nat \ {0})
         /\ Cardinality(w.aisles) \in 0 .. AisleCount
         /\ w.aisles = {} <=> Cardinality(w.aisles) = 0
         /\ Cardinality(w.aisles) > 0 =>
              waveScore(w) = <<getTotalUnits(w.orders), Cardinality(w.aisles)>>
         /\ Cardinality(w.aisles) = 0 => waveScore(w) = <<0, 1>>
<1>1. w.orders \in SUBSET Orders /\ w.aisles \in SUBSET Aisles
  BY DEF Wave
<1>2. IsFiniteSet(w.aisles) /\ IsFiniteSet(Aisles)
  BY <1>1, FiniteIndices
<1>3. Cardinality(Aisles) = AisleCount
  BY FS_Interval, ProblemAssumption DEF Aisles
<1>4. Cardinality(w.aisles) \in Nat /\ Cardinality(w.aisles) <= AisleCount
  BY <1>1, <1>2, <1>3, FS_Subset, FS_CardinalityType
<1>5. w.aisles = {} <=> Cardinality(w.aisles) = 0
  BY <1>2, FS_EmptySet
<1>6. getTotalUnits(w.orders) \in Nat
  BY <1>1, QuantityTypes
<1> QED BY <1>4, <1>5, <1>6, ProblemAssumption DEF waveScore, calculateScore

\* With all its rows the program has exactly the feasible waves with the fixed
\* count of aisles (main.cpp:143-172).
LEMMA RowsAreFeasibility ==
  ASSUME rows = AllRows
  PROVE  modelWaves
           = {w \in feasibleWaves : \A c \in aisleCounts : Cardinality(w.aisles) = c}
<1>1. rows > 0 /\ rows > 1 /\ \A i \in Items : rows > 2 + i
  BY ProblemAssumption DEF AllRows, Items
<1>2. ASSUME NEW w \in Wave
      PROVE  satisfiesRows(w) <=> checkFeasibility(w.orders, w.aisles)
  <2>1. sumOrders(w.orders) = getTotalUnits(w.orders)
    BY SumOfOrders DEF Wave
  <2> QED BY <1>1, <2>1 DEF satisfiesRows, checkFeasibility, Covered
<1> QED BY <1>2 DEF modelWaves, feasibleWaves

\* The solver answers with a wave of the model or with none, and none before
\* its limit only if the model has no wave.
LEMMA AnswerTypes ==
  ASSUME NEW d, NEW optimal \in SUBSET modelWaves, NEW w \in answers(d, optimal)
  PROVE  /\ w \in modelWaves \cup {None}
         /\ modelWaves \subseteq Wave /\ None \notin modelWaves
         /\ ~stopped(d) /\ w = None => modelWaves = {}
         /\ ~stopped(d) /\ w # None => w \in optimal
<1>1. modelWaves \subseteq Wave /\ None \notin modelWaves
  BY BaselineAssumption DEF modelWaves
<1> QED BY <1>1 DEF answers

-----------------------------------------------------------------------------
(* The inductive invariant *)

NoCountTried == pc \in {"build", "minimize"}

\* What is left of a limit fits in the budget.
TimeInv ==
  /\ pc = "build" => timeLimit = None
  /\ timeLimit # None =>
       IF pc \in {"minimize", "maximize"} THEN now + timeLimit < MaxRuntime + MinLimit
       ELSE now < MaxRuntime + MinLimit
  /\ timeLimit = None => constraint = None /\ (pc # "build" => now >= MaxRuntime)

\* Without a fault the model has all its rows, and at most one fixes a count:
\* that of the handle.
RowsInv ==
  /\ noFault /\ pc # "build" => rows = AllRows
  /\ aisleCounts = (IF constraint = None THEN {} ELSE {constraint})
  /\ NoCountTried => constraint = None
  /\ pc = "maximize" => constraint = K /\ K <= AisleCount

\* The file belongs to best, and nothing is written before the first solve.
BestInv ==
  /\ best \in Nat \X (Nat \ {0})
  /\ NoCountTried => best = <<0, 1>> /\ file = None
  /\ noFault /\ writable /\ best[1] > 0 => file \in Wave /\ waveScore(file) = best

\* If every solve was proven no wave with fewer than K aisles exceeds best,
\* the file has a wave if there is any, and not more than K aisles.
OptInv ==
  inTime /\ noFault /\ ~NoCountTried =>
    /\ \A w \in feasibleWaves :
         Cardinality(w.aisles) < K => ~ Exceeds(waveScore(w), best)
    /\ writable /\ file = None => feasibleWaves = {}
    /\ file # None => Cardinality(file.aisles) <= K
    /\ pc = "done" => K > AisleCount

IInv == TypeOK /\ TimeInv /\ RowsInv /\ BestInv /\ FileIsFeasible /\ OptInv

-----------------------------------------------------------------------------
(* What an answer means in a state of the invariant *)

\* The bounds and times are natural numbers; a limit fits in the budget.
LEMMA LimitFits ==
  /\ MaxRuntime \in Nat /\ Margin \in Nat /\ MinLimit \in Nat /\ MinLimit > 0
  /\ None \notin Nat
  /\ \A t \in Nat : t < MaxRuntime =>
       limitAt(t) \in Nat /\ t + limitAt(t) < MaxRuntime + MinLimit
BY BaselineAssumption DEF limitAt

\* A solve spends no more than its limit; without one the budget stays spent.
LEMMA TimeSpent ==
  ASSUME NEW d \in solveTimes, TypeOK, TimeInv, pc \in {"minimize", "maximize"}
  PROVE  /\ d \in Nat /\ now + d \in Nat
         /\ timeLimit # None => now + d < MaxRuntime + MinLimit
         /\ timeLimit = None => constraint = None /\ now + d >= MaxRuntime
<1>1. d \in Nat /\ (timeLimit # None => d <= timeLimit)
  BY BaselineAssumption DEF solveTimes, TypeOK
<1> QED BY <1>1, LimitFits DEF TypeOK, TimeInv

\* The file after a wave was read: that wave unless an exception was raised.
LEMMA SolutionRead ==
  ASSUME NEW w \in Wave, get_solution(w), TypeOK
  PROVE  /\ file' \in Wave \cup {None} /\ noFault' \in BOOLEAN
         /\ noFault' => noFault /\ file' = IF writable THEN w ELSE file
<1>1. readings(w) \subseteq Wave
  BY DEF readings, Wave
<1>2. CASE file' = (IF writable THEN w ELSE file) /\ UNCHANGED noFault
  BY <1>2 DEF TypeOK
<1>3. CASE \E part \in readings(w) :
             /\ file' = IF writable THEN part ELSE file
             /\ noFault' = FALSE
  BY <1>1, <1>3 DEF TypeOK
<1> QED BY <1>2, <1>3 DEF get_solution

\* The score of an answer is a ratio, and that of the wave itself when the
\* model is whole.
LEMMA AnswerScore ==
  ASSUME IInv, pc = "maximize", NEW w \in modelWaves
  PROVE  /\ answerScore(w) \in Nat \X (Nat \ {0})
         /\ isBetter(w) => K > 0
         /\ noFault => /\ w \in feasibleWaves /\ Cardinality(w.aisles) = K
                       /\ answerScore(w) = waveScore(w)
<1>1. w \in Wave /\ K \in Nat /\ best \in Nat \X (Nat \ {0})
  BY ProblemAssumption DEF modelWaves, IInv, TypeOK, BestInv
<1>2. w.orders \in SUBSET Orders
  BY <1>1 DEF Wave
<1>3. sumOrders(w.orders) = getTotalUnits(w.orders) /\ getTotalUnits(w.orders) \in Nat
  BY <1>2, SumOfOrders, QuantityTypes
<1>4. answerScore(w) \in Nat \X (Nat \ {0})
  BY <1>1, <1>3 DEF answerScore
<1>5. isBetter(w) => K > 0
  <2>1. SUFFICES ASSUME K = 0
                 PROVE  ~ isBetter(w)
    BY <1>1
  <2>2. answerScore(w) = <<0, 1>>
    BY <2>1 DEF answerScore
  <2> QED BY <1>1, <2>2 DEF isBetter, Exceeds
<1>6. ASSUME noFault
      PROVE  /\ w \in feasibleWaves /\ Cardinality(w.aisles) = K
             /\ answerScore(w) = waveScore(w)
  <2>1. rows = AllRows /\ aisleCounts = {K}
    BY <1>1, <1>6, BaselineAssumption DEF IInv, RowsInv
  <2>2. w \in feasibleWaves /\ Cardinality(w.aisles) = K
    BY <2>1, RowsAreFeasibility
  <2>3. answerScore(w) = waveScore(w)
    BY <1>1, <1>3, <2>2, WaveScoreType DEF answerScore
  <2> QED BY <2>2, <2>3
<1> QED BY <1>4, <1>5, <1>6

\* A proven answer for the count K is not exceeded by any feasible wave with
\* that count, and there is an answer if there is such a wave.
LEMMA ProvenAnswer ==
  ASSUME IInv, pc = "maximize", noFault, NEW d, ~ stopped(d),
         NEW w \in answers(d, mostUnits(modelWaves)),
         NEW v \in feasibleWaves, Cardinality(v.aisles) = K
  PROVE  w # None /\ w \in modelWaves /\ ~ Exceeds(waveScore(v), waveScore(w))
<1>1. K \in Nat /\ v \in Wave
  BY ProblemAssumption DEF IInv, TypeOK, feasibleWaves
<1>2. rows = AllRows /\ aisleCounts = {K}
  BY <1>1, BaselineAssumption DEF IInv, RowsInv
<1>3. v \in modelWaves
  BY <1>2, RowsAreFeasibility
<1>4. mostUnits(modelWaves) \in SUBSET modelWaves
  BY DEF mostUnits
<1>5. w # None /\ w \in mostUnits(modelWaves)
  BY <1>3, <1>4, AnswerTypes
<1>6. w \in modelWaves /\ sumOrders(w.orders) >= sumOrders(v.orders)
  BY <1>3, <1>5 DEF mostUnits
<1>7. w \in Wave /\ Cardinality(w.aisles) = K
  BY <1>6, AnswerScore DEF modelWaves
<1>8. v.orders \in SUBSET Orders /\ w.orders \in SUBSET Orders
  BY <1>1, <1>7 DEF Wave
<1>9. /\ getTotalUnits(v.orders) \in Nat /\ getTotalUnits(w.orders) \in Nat
      /\ getTotalUnits(v.orders) <= getTotalUnits(w.orders)
  BY <1>6, <1>8, SumOfOrders, QuantityTypes
<1>10. ~ Exceeds(waveScore(v), waveScore(w))
  <2>1. CASE K = 0
    <3>1. waveScore(v) = <<0, 1>> /\ waveScore(w) = <<0, 1>>
      BY <1>1, <1>7, <2>1, WaveScoreType
    <3> QED BY <3>1 DEF Exceeds
  <2>2. CASE K > 0
    <3>1. /\ waveScore(v) = <<getTotalUnits(v.orders), K>>
          /\ waveScore(w) = <<getTotalUnits(w.orders), K>>
      BY <1>1, <1>7, <2>2, WaveScoreType
    <3>2. getTotalUnits(v.orders) * K <= getTotalUnits(w.orders) * K
      BY <1>1, <1>9, Products
    <3>3. getTotalUnits(v.orders) * K \in Nat /\ getTotalUnits(w.orders) * K \in Nat
      BY <1>1, <1>9
    <3> QED BY <3>1, <3>2, <3>3 DEF Exceeds
  <2> QED BY <1>1, <2>1, <2>2
<1> QED BY <1>5, <1>6, <1>10

-----------------------------------------------------------------------------
(* The invariant holds initially and in every step *)

LEMMA InitInv == Init => IInv
<1> SUFFICES ASSUME Init
             PROVE  IInv
  OBVIOUS
<1>1. TypeOK
  BY ProblemAssumption DEF Init, TypeOK, AllRows
<1>2. TimeInv /\ RowsInv /\ BestInv /\ FileIsFeasible /\ OptInv
  BY DEF Init, TimeInv, RowsInv, BestInv, FileIsFeasible, OptInv, NoCountTried
<1> QED BY <1>1, <1>2 DEF IInv

LEMMA BuildModelInv ==
  ASSUME IInv, NEW d \in 0 .. MaxBuild, NEW n \in 0 .. AllRows, BuildModel(d, n)
  PROVE  IInv'
<1> USE DEF BuildModel
<1>1. d \in Nat /\ now \in Nat /\ now + d \in Nat
  BY BaselineAssumption DEF IInv, TypeOK
<1>2. timeLimit' \in Nat \cup {None} /\ TimeInv'
  <2>1. CASE now' < MaxRuntime
    BY <1>1, <2>1, LimitFits DEF TimeInv
  <2>2. CASE ~ (now' < MaxRuntime)
    BY <1>1, <2>2, LimitFits DEF TimeInv, IInv
  <2> QED BY <2>1, <2>2
<1>3. TypeOK'
  BY <1>1, <1>2 DEF IInv, TypeOK
<1>4. pc = "build" /\ pc' = "minimize" /\ file' = None /\ best' = <<0, 1>>
  BY DEF IInv, BestInv, NoCountTried
<1>5. RowsInv'
  <2>1. constraint' = None /\ aisleCounts' = {} /\ (noFault' => rows' = AllRows)
    BY <1>4 DEF IInv, RowsInv, NoCountTried
  <2> QED BY <1>4, <2>1 DEF RowsInv
<1>6. BestInv' /\ FileIsFeasible' /\ OptInv'
  BY <1>4 DEF BestInv, FileIsFeasible, OptInv, NoCountTried
<1> QED BY <1>2, <1>3, <1>5, <1>6 DEF IInv

LEMMA MinimizeAislesInv ==
  ASSUME IInv, NEW d \in solveTimes, MinimizeAisles(d)
  PROVE  IInv'
<1> DEFINE optimal == fewestAisles(modelWaves)
<1>1. PICK w \in answers(d, optimal) :
        IF w = None
        THEN K' = AisleCount /\ UNCHANGED <<file, noFault>>
        ELSE K' = Cardinality(w.aisles) /\ get_solution(w)
  BY DEF MinimizeAisles
<1>2. optimal \in SUBSET modelWaves
  BY DEF fewestAisles
<1>3. /\ w \in modelWaves \cup {None}
      /\ modelWaves \subseteq Wave /\ None \notin modelWaves
      /\ ~stopped(d) /\ w = None => modelWaves = {}
      /\ ~stopped(d) /\ w # None => w \in optimal
  BY <1>2, AnswerTypes
<1>4. /\ pc = "minimize" /\ pc' = "nextCount" /\ now' = now + d
      /\ inTime' = (inTime /\ ~stopped(d))
      /\ timeLimit' = timeLimit /\ rows' = rows /\ constraint' = constraint
      /\ aisleCounts' = aisleCounts /\ best' = best /\ writable' = writable
  BY DEF MinimizeAisles, spend
<1>5. TypeOK /\ NoCountTried /\ file = None /\ best = <<0, 1>>
  BY <1>4 DEF IInv, BestInv, NoCountTried
<1>6. K' \in 0 .. AisleCount
  BY <1>1, <1>3, WaveScoreType, ProblemAssumption
<1>7. /\ file' \in Wave \cup {None} /\ noFault' \in BOOLEAN
      /\ noFault' => /\ noFault
                     /\ file' = IF w # None /\ writable THEN w ELSE file
  <2>1. CASE w = None
    BY <1>1, <1>5, <2>1 DEF TypeOK
  <2>2. CASE w # None
    BY <1>1, <1>3, <1>5, <2>2, SolutionRead
  <2> QED BY <2>1, <2>2
<1>8. TypeOK'
  <2>1. now' \in Nat
    BY <1>4, TimeSpent DEF IInv
  <2>2. inTime' \in BOOLEAN
    BY <1>4
  <2> QED BY <1>4, <1>5, <1>6, <1>7, <2>1, <2>2, ProblemAssumption DEF TypeOK
<1>9. TimeInv'
  BY <1>4, TimeSpent DEF TimeInv, IInv
<1>10. RowsInv' /\ BestInv'
  BY <1>4, <1>5, <1>7 DEF RowsInv, BestInv, IInv, NoCountTried
<1>11. ASSUME noFault'
       PROVE  /\ modelWaves = feasibleWaves
              /\ file' = IF w # None /\ writable THEN w ELSE None
  <2>1. rows = AllRows /\ aisleCounts = {}
    BY <1>4, <1>7, <1>11 DEF IInv, RowsInv, NoCountTried
  <2> QED BY <1>5, <1>7, <1>11, <2>1, RowsAreFeasibility
<1>12. FileIsFeasible'
  BY <1>3, <1>11 DEF FileIsFeasible
<1>13. OptInv'
  <2> SUFFICES ASSUME inTime', noFault'
               PROVE  /\ \A v \in feasibleWaves : ~ (Cardinality(v.aisles) < K')
                      /\ writable /\ file' = None => feasibleWaves = {}
                      /\ file' # None => Cardinality(file'.aisles) <= K'
    BY <1>4 DEF OptInv
  <2>1. ~ stopped(d)
    BY <1>4
  <2>2. \A v \in Wave : Cardinality(v.aisles) \in 0 .. AisleCount
    BY WaveScoreType
  <2>3. CASE w = None
    BY <1>3, <1>11, <2>1, <2>3
  <2>4. CASE w # None
    <3>1. w \in optimal /\ K' = Cardinality(w.aisles)
      BY <1>1, <1>3, <2>1, <2>4
    <3>2. \A v \in feasibleWaves : Cardinality(w.aisles) <= Cardinality(v.aisles)
      BY <1>11, <3>1 DEF fewestAisles
    <3>3. \A v \in feasibleWaves : ~ (Cardinality(v.aisles) < K')
      BY <1>3, <1>6, <1>11, <2>2, <3>1, <3>2
    <3>4. file' # None => Cardinality(file'.aisles) <= K'
      BY <1>6, <1>11, <3>1
    <3> QED BY <1>3, <1>11, <2>4, <3>3, <3>4
  <2> QED BY <2>3, <2>4
<1> QED BY <1>8, <1>9, <1>10, <1>12, <1>13 DEF IInv

LEMMA NextCountInv ==
  ASSUME IInv, NextCount
  PROVE  IInv'
<1> USE DEF NextCount
<1>1. now \in Nat /\ K \in 0 .. AisleCount
  BY ProblemAssumption DEF IInv, TypeOK
<1>2. timeLimit' \in Nat /\ TimeInv'
  BY <1>1, LimitFits DEF TimeInv
<1>3. aisleCounts' = {K}
  BY DEF fixCount, IInv, RowsInv
<1>4. TypeOK'
  BY <1>1, <1>2, <1>3 DEF IInv, TypeOK
<1>5. RowsInv'
  BY <1>1, <1>3, BaselineAssumption DEF IInv, RowsInv, NoCountTried
<1>6. BestInv' /\ FileIsFeasible' /\ OptInv'
  BY DEF IInv, BestInv, FileIsFeasible, OptInv, NoCountTried
<1> QED BY <1>2, <1>4, <1>5, <1>6 DEF IInv

\* What a solve for the count K does.
LEMMA MaximizeUnitsStep ==
  ASSUME IInv, NEW d \in solveTimes, MaximizeUnits(d)
  PROVE  \E w \in answers(d, mostUnits(modelWaves)) :
           /\ w \in modelWaves \cup {None}
           /\ modelWaves \subseteq Wave /\ None \notin modelWaves
           /\ file' \in Wave \cup {None} /\ noFault' \in BOOLEAN
           /\ noFault' => noFault
           /\ w # None /\ isBetter(w) =>
                /\ best' = answerScore(w)
                /\ noFault' => file' = IF writable THEN w ELSE file
           /\ ~(w # None /\ isBetter(w)) => best' = best /\ file' = file
<1>1. PICK w \in answers(d, mostUnits(modelWaves)) :
        IF w # None /\ isBetter(w)
        THEN best' = answerScore(w) /\ get_solution(w)
        ELSE UNCHANGED <<best, file, noFault>>
  BY DEF MaximizeUnits
<1>2. mostUnits(modelWaves) \in SUBSET modelWaves
  BY DEF mostUnits
<1>3. /\ w \in modelWaves \cup {None}
      /\ modelWaves \subseteq Wave /\ None \notin modelWaves
  BY <1>2, AnswerTypes
<1>4. CASE w # None /\ isBetter(w)
  <2>1. best' = answerScore(w) /\ get_solution(w)
    BY <1>1, <1>4
  <2>2. /\ file' \in Wave \cup {None} /\ noFault' \in BOOLEAN
        /\ noFault' => noFault /\ file' = IF writable THEN w ELSE file
    BY <1>3, <1>4, <2>1, SolutionRead DEF IInv
  <2> QED BY <1>3, <1>4, <2>1, <2>2
<1>5. CASE ~(w # None /\ isBetter(w))
  <2>1. best' = best /\ file' = file /\ noFault' = noFault
    BY <1>1, <1>5
  <2> QED BY <1>3, <1>5, <2>1 DEF IInv, TypeOK
<1> QED BY <1>4, <1>5

LEMMA MaximizeUnitsInv ==
  ASSUME IInv, NEW d \in solveTimes, MaximizeUnits(d)
  PROVE  IInv'
<1>1. PICK w \in answers(d, mostUnits(modelWaves)) :
        /\ w \in modelWaves \cup {None}
        /\ modelWaves \subseteq Wave /\ None \notin modelWaves
        /\ file' \in Wave \cup {None} /\ noFault' \in BOOLEAN
        /\ noFault' => noFault
        /\ w # None /\ isBetter(w) =>
             /\ best' = answerScore(w)
             /\ noFault' => file' = IF writable THEN w ELSE file
        /\ ~(w # None /\ isBetter(w)) => best' = best /\ file' = file
  BY MaximizeUnitsStep
<1>2. /\ pc = "maximize" /\ pc' = "nextCount" /\ now' = now + d /\ K' = K + 1
      /\ inTime' = (inTime /\ ~stopped(d))
      /\ timeLimit' = timeLimit /\ rows' = rows /\ constraint' = constraint
      /\ aisleCounts' = aisleCounts /\ writable' = writable
  BY DEF MaximizeUnits, spend
<1>3. /\ K \in 0 .. AisleCount /\ K \in Nat /\ TypeOK
      /\ best \in Nat \X (Nat \ {0})
  BY <1>2, ProblemAssumption DEF IInv, TypeOK, RowsInv, BestInv
<1>4. best' \in Nat \X (Nat \ {0})
  <2>1. CASE w # None /\ isBetter(w)
    BY <1>1, <1>2, <2>1, AnswerScore
  <2>2. CASE ~(w # None /\ isBetter(w))
    BY <1>1, <1>3, <2>2
  <2> QED BY <2>1, <2>2
<1>5. TypeOK'
  <2>1. now' \in Nat /\ inTime' \in BOOLEAN
    BY <1>2, <1>3, TimeSpent DEF IInv
  <2>2. K' \in 0 .. AisleCount + 1 /\ best' \in Nat \X Nat
    BY <1>2, <1>3, <1>4, ProblemAssumption
  <2> QED BY <1>1, <1>2, <1>3, <2>1, <2>2 DEF TypeOK
<1>6. TimeInv'
  BY <1>2, TimeSpent DEF TimeInv, IInv
<1>7. RowsInv'
  BY <1>1, <1>2 DEF RowsInv, IInv, NoCountTried
<1>8. ASSUME noFault', w # None, isBetter(w)
      PROVE  /\ w \in feasibleWaves /\ w \in Wave /\ Cardinality(w.aisles) = K
             /\ best' = waveScore(w) /\ Exceeds(waveScore(w), best)
  BY <1>1, <1>2, <1>8, AnswerScore DEF isBetter
<1>9. BestInv'
  <2>1. ASSUME noFault', writable', best'[1] > 0
        PROVE  file' \in Wave /\ waveScore(file') = best'
    <3>1. CASE w # None /\ isBetter(w)
      <4>1. file' = w
        BY <1>1, <1>2, <2>1, <3>1
      <4> QED BY <1>8, <2>1, <3>1, <4>1
    <3>2. CASE ~(w # None /\ isBetter(w))
      <4>1. best' = best /\ file' = file /\ noFault
        BY <1>1, <2>1, <3>2
      <4>2. writable /\ best[1] > 0
        BY <1>2, <2>1, <4>1
      <4> QED BY <4>1, <4>2 DEF IInv, BestInv
    <3> QED BY <3>1, <3>2
  <2> QED BY <1>2, <1>4, <2>1 DEF BestInv, NoCountTried
<1>10. FileIsFeasible'
  <2> SUFFICES ASSUME noFault', file' # None
               PROVE  file' \in feasibleWaves
    BY DEF FileIsFeasible
  <2>1. file \in feasibleWaves \/ file = None
    BY <1>1 DEF IInv, FileIsFeasible
  <2>2. CASE w # None /\ isBetter(w)
    BY <1>1, <1>8, <2>1, <2>2
  <2>3. CASE ~(w # None /\ isBetter(w))
    BY <1>1, <2>1, <2>3
  <2> QED BY <2>2, <2>3
<1>11. OptInv'
  <2> SUFFICES
        ASSUME inTime', noFault'
        PROVE  /\ \A v \in feasibleWaves :
                    Cardinality(v.aisles) < K + 1 => ~ Exceeds(waveScore(v), best')
               /\ writable /\ file' = None => feasibleWaves = {}
               /\ file' # None => Cardinality(file'.aisles) <= K + 1
    BY <1>2 DEF OptInv
  <2>1. inTime /\ noFault /\ ~ stopped(d)
    BY <1>1, <1>2
  <2>2. /\ \A v \in feasibleWaves :
             Cardinality(v.aisles) < K => ~ Exceeds(waveScore(v), best)
        /\ writable /\ file = None => feasibleWaves = {}
        /\ file # None => Cardinality(file.aisles) <= K
    BY <1>2, <2>1 DEF IInv, OptInv, NoCountTried
  <2>3. ASSUME NEW v \in feasibleWaves, Cardinality(v.aisles) < K + 1
        PROVE  ~ Exceeds(waveScore(v), best')
    <3>1. v \in Wave /\ Cardinality(v.aisles) \in Nat
           /\ waveScore(v) \in Nat \X (Nat \ {0})
      BY WaveScoreType DEF feasibleWaves
    <3>2. CASE w # None /\ isBetter(w)
      <4>1. /\ w \in Wave /\ best' = waveScore(w) /\ Exceeds(waveScore(w), best)
            /\ waveScore(w) \in Nat \X (Nat \ {0})
        BY <1>8, <3>2, WaveScoreType
      <4>2. CASE Cardinality(v.aisles) = K
        <5>1. ~ Exceeds(waveScore(v), waveScore(w))
          BY <1>2, <2>1, <4>2, ProvenAnswer
        <5> QED BY <4>1, <5>1
      <4>3. CASE Cardinality(v.aisles) < K
        <5>1. ~ Exceeds(waveScore(v), best)
          BY <2>2, <4>3
        <5>2. ~ Exceeds(best, waveScore(w))
          BY <1>3, <4>1 DEF Exceeds
        <5>3. ~ Exceeds(waveScore(v), waveScore(w))
          BY <1>3, <3>1, <4>1, <5>1, <5>2, RatioTransitive
        <5> QED BY <4>1, <5>3
      <4> QED BY <1>3, <2>3, <3>1, <4>2, <4>3
    <3>3. CASE ~(w # None /\ isBetter(w))
      <4>1. best' = best
        BY <1>1, <3>3
      <4>2. CASE Cardinality(v.aisles) = K
        <5>1. /\ w \in modelWaves /\ ~ Exceeds(waveScore(v), waveScore(w))
              /\ w # None
          BY <1>2, <2>1, <4>2, ProvenAnswer
        <5>2. /\ waveScore(w) \in Nat \X (Nat \ {0})
              /\ ~ Exceeds(waveScore(w), best)
          BY <1>1, <1>2, <2>1, <3>3, <5>1, AnswerScore, WaveScoreType DEF isBetter
        <5>3. ~ Exceeds(waveScore(v), best)
          BY <1>3, <3>1, <5>1, <5>2, RatioTransitive
        <5> QED BY <4>1, <5>3
      <4>3. CASE Cardinality(v.aisles) < K
        BY <2>2, <4>1, <4>3
      <4> QED BY <1>3, <2>3, <3>1, <4>2, <4>3
    <3> QED BY <3>2, <3>3
  <2>4. writable /\ file' = None => feasibleWaves = {}
    <3>1. CASE w # None /\ isBetter(w)
      BY <1>1, <3>1
    <3>2. CASE ~(w # None /\ isBetter(w))
      BY <1>1, <2>2, <3>2
    <3> QED BY <3>1, <3>2
  <2>5. file' # None => Cardinality(file'.aisles) <= K + 1
    <3>1. file # None => Cardinality(file.aisles) <= K + 1
      <4>1. file # None => Cardinality(file.aisles) \in Nat
        BY <1>3, WaveScoreType DEF TypeOK
      <4> QED BY <1>3, <2>2, <4>1
    <3>2. CASE w # None /\ isBetter(w)
      BY <1>1, <1>3, <1>8, <3>1, <3>2
    <3>3. CASE ~(w # None /\ isBetter(w))
      BY <1>1, <3>1, <3>3
    <3> QED BY <3>2, <3>3
  <2> QED BY <2>3, <2>4, <2>5
<1> QED BY <1>5, <1>6, <1>7, <1>9, <1>10, <1>11 DEF IInv

LEMMA CountsEndInv ==
  ASSUME IInv, CountsEnd
  PROVE  IInv'
<1> USE DEF CountsEnd
<1>1. TypeOK'
  BY DEF IInv, TypeOK
<1>2. TimeInv' /\ RowsInv' /\ BestInv' /\ FileIsFeasible'
  BY DEF IInv, TimeInv, RowsInv, BestInv, FileIsFeasible, NoCountTried
<1>3. OptInv'
  BY DEF IInv, OptInv, NoCountTried
<1> QED BY <1>1, <1>2, <1>3 DEF IInv

LEMMA RaiseInv ==
  ASSUME IInv, NEW d \in solveTimes, Raise(d)
  PROVE  IInv'
<1> USE DEF Raise
<1>1. TypeOK'
  BY TimeSpent DEF IInv, TypeOK
<1>2. TimeInv'
  BY TimeSpent DEF IInv, TimeInv
<1>3. RowsInv' /\ BestInv' /\ FileIsFeasible' /\ OptInv'
  BY DEF IInv, RowsInv, BestInv, FileIsFeasible, OptInv, NoCountTried
<1> QED BY <1>1, <1>2, <1>3 DEF IInv

LEMMA NextInv == IInv /\ [Next]_vars => IInv'
<1> SUFFICES ASSUME IInv, [Next]_vars
             PROVE  IInv'
  OBVIOUS
<1>1. ASSUME NEW d \in 0 .. MaxBuild, NEW n \in 0 .. AllRows, BuildModel(d, n)
      PROVE  IInv'
  BY <1>1, BuildModelInv
<1>2. ASSUME NEW d \in solveTimes, MinimizeAisles(d)
      PROVE  IInv'
  BY <1>2, MinimizeAislesInv
<1>3. ASSUME NEW d \in solveTimes, MaximizeUnits(d)
      PROVE  IInv'
  BY <1>3, MaximizeUnitsInv
<1>4. ASSUME NEW d \in solveTimes, Raise(d)
      PROVE  IInv'
  BY <1>4, RaiseInv
<1>5. CASE NextCount
  BY <1>5, NextCountInv
<1>6. CASE CountsEnd
  BY <1>6, CountsEndInv
<1>7. CASE UNCHANGED vars
  BY <1>7 DEF vars, IInv, TypeOK, TimeInv, RowsInv, BestInv, FileIsFeasible,
     OptInv, NoCountTried
<1> QED BY <1>1, <1>2, <1>3, <1>4, <1>5, <1>6, <1>7 DEF Next

-----------------------------------------------------------------------------
(* What follows from the invariant *)

LEMMA BudgetHolds ==
  ASSUME IInv
  PROVE  EndsInBudget
<1>1. now \in Nat /\ (timeLimit # None => timeLimit \in Nat)
  BY DEF IInv, TypeOK
<1> QED BY <1>1, LimitFits DEF IInv, TimeInv, EndsInBudget

LEMMA FileHasBest ==
  ASSUME IInv
  PROVE  BestIsInFile
<1> SUFFICES ASSUME noFault, writable, best[1] > 0
             PROVE  /\ file # None
                    /\ ~ Exceeds(waveScore(file), best)
                    /\ ~ Exceeds(best, waveScore(file))
  BY DEF BestIsInFile
<1>1. file \in Wave /\ waveScore(file) = best /\ best \in Nat \X (Nat \ {0})
  BY DEF IInv, BestInv
<1>2. ~ Exceeds(best, best)
  BY <1>1 DEF Exceeds
<1> QED BY <1>1, <1>2, BaselineAssumption

LEMMA OptimumFound ==
  ASSUME IInv
  PROVE  OptimalIfInTime
<1> SUFFICES ASSUME pc = "done", inTime, noFault, writable
             PROVE  IF file = None THEN feasibleWaves = {}
                    ELSE \A w \in feasibleWaves :
                           ~ Exceeds(waveScore(w), waveScore(file))
  BY DEF OptimalIfInTime
<1>1. /\ \A w \in feasibleWaves :
           Cardinality(w.aisles) < K => ~ Exceeds(waveScore(w), best)
      /\ file = None => feasibleWaves = {}
      /\ K > AisleCount
  BY DEF IInv, OptInv, NoCountTried
<1>2. ASSUME file # None, NEW w \in feasibleWaves
      PROVE  ~ Exceeds(waveScore(w), waveScore(file))
  <2>1. file \in Wave /\ w \in Wave /\ best \in Nat \X (Nat \ {0})
    BY <1>2 DEF IInv, TypeOK, BestInv, feasibleWaves
  <2>2. /\ waveScore(file) \in Nat \X (Nat \ {0})
        /\ waveScore(w) \in Nat \X (Nat \ {0})
    BY <2>1, WaveScoreType
  <2>3. Cardinality(w.aisles) < K
    <3>1. Cardinality(w.aisles) \in 0 .. AisleCount /\ K \in 0 .. AisleCount + 1
      BY <2>1, WaveScoreType DEF IInv, TypeOK
    <3> QED BY <1>1, <3>1, ProblemAssumption
  <2>4. ~ Exceeds(waveScore(w), best)
    BY <1>1, <1>2, <2>3
  <2>5. ~ Exceeds(best, waveScore(file))
    <3>1. CASE best[1] > 0
      <4>1. waveScore(file) = best
        BY <3>1 DEF IInv, BestInv
      <4> QED BY <2>1, <4>1 DEF Exceeds
    <3>2. CASE best[1] = 0
      BY <2>1, <2>2, <3>2, ZeroExceedsNothing
    <3> QED BY <2>1, <3>1, <3>2
  <2> QED BY <2>1, <2>2, <2>4, <2>5, RatioTransitive
<1> QED BY <1>1, <1>2

\* A step that replaces a wave in the file.
LEMMA NoWorseFile ==
  ASSUME IInv, [Next]_vars, noFault', file # None, inTime' \/ best[1] > 0
  PROVE  ~ Exceeds(waveScore(file), waveScore(file'))
<1>1. file \in Wave /\ waveScore(file) \in Nat \X (Nat \ {0})
  BY WaveScoreType DEF IInv, TypeOK
<1>2. CASE file' = file
  <2>1. ~ Exceeds(waveScore(file), waveScore(file))
    BY <1>1 DEF Exceeds
  <2> QED BY <1>2, <2>1
<1>3. CASE \E d \in solveTimes : MaximizeUnits(d)
  <2>1. PICK d \in solveTimes : MaximizeUnits(d)
    BY <1>3
  <2>2. PICK w \in answers(d, mostUnits(modelWaves)) :
          /\ w \in modelWaves \cup {None}
          /\ modelWaves \subseteq Wave /\ None \notin modelWaves
          /\ file' \in Wave \cup {None} /\ noFault' \in BOOLEAN
          /\ noFault' => noFault
          /\ w # None /\ isBetter(w) =>
               /\ best' = answerScore(w)
               /\ noFault' => file' = IF writable THEN w ELSE file
          /\ ~(w # None /\ isBetter(w)) => best' = best /\ file' = file
    BY <2>1, MaximizeUnitsStep
  <2>3. pc = "maximize" /\ inTime' = (inTime /\ ~stopped(d)) /\ noFault
    BY <2>1, <2>2 DEF MaximizeUnits, spend
  <2>4. CASE w # None /\ isBetter(w) /\ writable
    <3>1. /\ file' = w /\ w \in Wave /\ w \in modelWaves
          /\ waveScore(w) \in Nat \X (Nat \ {0})
      BY <2>2, <2>4, WaveScoreType
    <3>2. Exceeds(waveScore(w), best)
      BY <2>3, <2>4, <3>1, AnswerScore DEF isBetter
    <3>3. best \in Nat \X (Nat \ {0}) /\ ~ Exceeds(best, waveScore(w))
      BY <3>1, <3>2 DEF Exceeds, IInv, BestInv
    <3>4. CASE best[1] > 0
      <4>1. waveScore(file) = best
        BY <2>3, <2>4, <3>4 DEF IInv, BestInv
      <4> QED BY <3>1, <3>3, <4>1
    <3>5. CASE inTime'
      <4>1. inTime /\ ~ stopped(d)
        BY <2>3, <3>5
      <4>2. /\ Cardinality(file.aisles) < K => ~ Exceeds(waveScore(file), best)
            /\ Cardinality(file.aisles) <= K
            /\ file \in feasibleWaves
        BY <2>3, <4>1 DEF IInv, OptInv, FileIsFeasible, NoCountTried
      <4>3. CASE Cardinality(file.aisles) = K
        <5>1. ~ Exceeds(waveScore(file), waveScore(w))
          BY <2>3, <4>1, <4>2, <4>3, ProvenAnswer
        <5> QED BY <3>1, <5>1
      <4>4. CASE Cardinality(file.aisles) < K
        <5>1. ~ Exceeds(waveScore(file), waveScore(w))
          BY <1>1, <3>1, <3>3, <4>2, <4>4, RatioTransitive
        <5> QED BY <3>1, <5>1
      <4>5. Cardinality(file.aisles) \in Nat /\ K \in Nat
        BY <1>1, WaveScoreType, ProblemAssumption DEF IInv, TypeOK
      <4> QED BY <4>2, <4>3, <4>4, <4>5
    <3> QED BY <3>4, <3>5
  <2>5. CASE ~(w # None /\ isBetter(w) /\ writable)
    BY <1>2, <2>2, <2>5
  <2> QED BY <2>4, <2>5
<1>4. CASE \E d \in solveTimes : MinimizeAisles(d)
  BY <1>4 DEF MinimizeAisles, IInv, BestInv, NoCountTried
<1>5. CASE \E d \in 0 .. MaxBuild, n \in 0 .. AllRows : BuildModel(d, n)
  BY <1>2, <1>5 DEF BuildModel
<1>6. CASE \E d \in solveTimes : Raise(d)
  BY <1>2, <1>6 DEF Raise
<1>7. CASE NextCount \/ CountsEnd \/ UNCHANGED vars
  BY <1>2, <1>7 DEF NextCount, CountsEnd, vars
<1> QED BY <1>3, <1>4, <1>5, <1>6, <1>7 DEF Next

-----------------------------------------------------------------------------
(* Theorems *)

\* Once a solve was given a limit the baseline does not run MinLimit or more
\* past its budget, without a limit it makes one solve only, and its variables
\* keep their types (main.cpp:116-128).
THEOREM BudgetKept == Spec => [](TypeOK /\ EndsInBudget)
<1>1. IInv => TypeOK /\ EndsInBudget
  BY BudgetHolds DEF IInv
<1> QED BY <1>1, InitInv, NextInv, PTL DEF Spec

\* Without an exception the file is feasible whatever the solver answers, and
\* from the first improvement on it is the wave of the best score.
THEOREM FileIsRight == Spec => [](FileIsFeasible /\ BestIsInFile)
<1>1. IInv => FileIsFeasible /\ BestIsInFile
  BY FileHasBest DEF IInv
<1> QED BY <1>1, InitInv, NextInv, PTL DEF Spec

\* With every solve proven the last wave written is optimal for the ratio of
\* units to aisles, which no single one of the integer programs optimises.
THEOREM BaselineIsOptimal == Spec => []OptimalIfInTime
<1>1. IInv => OptimalIfInTime
  BY OptimumFound
<1> QED BY <1>1, InitInv, NextInv, PTL DEF Spec

\* As long as nothing was raised, a wave in the file is only replaced by one that
\* is not worse, once best is above 0 or if no solve so far was stopped.
THEOREM FileImproves == Spec => FileNeverGetsWorse
<1>1. IInv /\ [Next]_vars =>
        [noFault' /\ file # None /\ (inTime' \/ best[1] > 0) =>
           ~ Exceeds(waveScore(file), waveScore(file'))]_vars
  BY NoWorseFile
<1> QED BY <1>1, InitInv, NextInv, PTL DEF Spec, FileNeverGetsWorse

=============================================================================
