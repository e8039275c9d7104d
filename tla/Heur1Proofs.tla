---------------------------- MODULE Heur1Proofs ----------------------------
(***************************************************************************)
(* Heur1 keeps its promises for every instance: recomputeSolution accepts  *)
(* exactly the orders that some aisles can serve, and its first fit does   *)
(* serve them; the construction promises no unit twice and never runs      *)
(* short of an order it has chosen; construction and refinement implement  *)
(* ImprovedWave.                                                           *)
(*                                                                         *)
(* The first part is about the functions of the instance alone, the second *)
(* about the steps of the heuristic.                                       *)
(***************************************************************************)
EXTENDS Heur1, WaveProblemProofs

\* The search of one item stops with enough of it, if there is enough.
LEMMA FirstFitServes ==
  ASSUME NEW O \in SUBSET Orders, NEW i \in Items,
         Required(O, i) <= Available(Aisles, i)
  PROVE  Required(O, i) <= Available(firstFit(O, i), i)
<1> DEFINE F == firstFit(O, i)
           Left == Providers(i) \ F
<1>1. F \in SUBSET Aisles /\ F \subseteq Providers(i) /\ Aisles \in SUBSET Nat
  BY ProblemAssumption DEF firstFit, Providers, Aisles
<1>2. CASE Left = {}
  <2>1. F = Aisles \cap Providers(i)
    BY <1>1, <1>2 DEF Providers
  <2>2. Available(Aisles, i) = Available(F, i)
    BY <2>1, AvailableOfProviders
  <2> QED BY <2>2
<1>3. CASE Left # {}
  <2>1. Left \in SUBSET Nat
    BY <1>1 DEF Providers
  <2>2. PICK a \in Left : \A b \in Left : a <= b
    BY <1>3, <2>1, LeastIndex
  <2> DEFINE B == {b \in Aisles : b < a}
  <2>3. a \in Providers(i) /\ a \in Nat /\ B \in SUBSET Aisles
    BY <2>1
  <2>4. ~ (Available(B, i) < Required(O, i))
    BY <2>3 DEF firstFit
  <2>5. ASSUME NEW b \in B \cap Providers(i)
        PROVE  b \in F
    <3>1. b \in Nat /\ b < a
      BY <1>1
    <3>2. b \in Left => a <= b
      BY <2>2
    <3> QED BY <2>3, <3>1, <3>2
  <2> HIDE DEF B, F, Left
  <2>6. Available(B, i) = Available(B \cap Providers(i), i)
    BY <2>3, AvailableOfProviders
  <2>7. Available(B \cap Providers(i), i) <= Available(F, i)
    BY <1>1, <2>5, AvailableMonotone
  <2>8. Available(B, i) \in Nat /\ Available(F, i) \in Nat /\ Required(O, i) \in Nat
    BY <1>1, <2>3, QuantityTypes
  <2> QED BY <2>4, <2>6, <2>7, <2>8 DEF F
<1> QED BY <1>2, <1>3

\* What recomputeSolution accepts is feasible with the aisles it returns, and
\* it rejects no set of orders that any aisles can serve (heuristic1.cpp:183).
THEOREM RecomputeIsExact ==
  ASSUME NEW O \in SUBSET Orders
  PROVE  /\ recomputedAisles(O) \in SUBSET Aisles
         /\ recomputeSucceeds(O) => checkFeasibility(O, recomputedAisles(O))
         /\ \A A \in SUBSET Aisles :
              checkFeasibility(O, A) => recomputeSucceeds(O)
<1> DEFINE R == recomputedAisles(O)
<1>1. \A i \in Items : firstFit(O, i) \in SUBSET R /\ firstFit(O, i) \in SUBSET Aisles
  BY DEF recomputedAisles, firstFit, Providers
<1>2. R \in SUBSET Aisles
  BY <1>1 DEF recomputedAisles
<1>3. ASSUME recomputeSucceeds(O)
      PROVE  checkFeasibility(O, R)
  <2>1. CASE O = {}
    <3>1. getTotalUnits(O) = 0 /\ \A i \in Items : Required(O, i) = 0
      BY <2>1, EmptyWave
    <3>2. \A i \in Items : Available(R, i) \in Nat
      BY <1>2, QuantityTypes
    <3>3. LB <= 0
      BY <1>3, <2>1 DEF recomputeSucceeds
    <3> QED BY <3>1, <3>2, <3>3, ProblemAssumption DEF checkFeasibility, Covered
  <2>2. CASE O # {}
    <3>1. /\ LB <= getTotalUnits(O) /\ getTotalUnits(O) <= UB
          /\ \A i \in Items : Required(O, i) <= Available(Aisles, i)
      BY <1>3, <2>2 DEF recomputeSucceeds
    <3>2. ASSUME NEW i \in Items
          PROVE  Required(O, i) <= Available(R, i)
      <4>1. Required(O, i) <= Available(firstFit(O, i), i)
        BY <3>1, FirstFitServes
      <4>2. Available(firstFit(O, i), i) <= Available(R, i)
        BY <1>1, <1>2, AvailableMonotone
      <4>3. /\ Required(O, i) \in Nat /\ Available(R, i) \in Nat
            /\ Available(firstFit(O, i), i) \in Nat
        BY <1>1, <1>2, QuantityTypes
      <4> QED BY <4>1, <4>2, <4>3
    <3> QED BY <3>1, <3>2 DEF checkFeasibility, Covered
  <2> QED BY <2>1, <2>2
<1>4. ASSUME NEW A \in SUBSET Aisles, checkFeasibility(O, A)
      PROVE  recomputeSucceeds(O)
  <2>1. /\ LB <= getTotalUnits(O) /\ getTotalUnits(O) <= UB
        /\ \A i \in Items : Required(O, i) <= Available(A, i)
    BY <1>4 DEF checkFeasibility, Covered
  <2>2. ASSUME NEW i \in Items
        PROVE  Required(O, i) <= Available(Aisles, i)
    <3>1. Available(A, i) <= Available(Aisles, i)
      BY AvailableMonotone
    <3>2. /\ Required(O, i) \in Nat /\ Available(A, i) \in Nat
          /\ Available(Aisles, i) \in Nat
      BY QuantityTypes
    <3> QED BY <2>1, <3>1, <3>2
  <2>3. O = {} => LB <= 0
    BY <2>1, EmptyWave
  <2> QED BY <2>1, <2>2, <2>3 DEF recomputeSucceeds
<1> QED BY <1>2, <1>3, <1>4

-----------------------------------------------------------------------------
(* The stock *)

Stocks == [Aisles -> [Items -> 0 .. MaxQty]]

left(stock, i) == SumOver([a \in Aisles |-> stock[a][i]], Aisles)

\* Taking n units of item k from aisle a lowers what is left of k by n, and of
\* nothing else (heuristic1.cpp:148-162).
LEMMA StockAfterTake ==
  ASSUME NEW stock \in Stocks, NEW after \in Stocks,
         NEW a \in Aisles, NEW k \in Items, NEW n \in Nat,
         after[a][k] = stock[a][k] - n,
         \A b \in Aisles, i \in Items : b # a \/ i # k => after[b][i] = stock[b][i]
  PROVE  \A i \in Items : left(after, i) = left(stock, i) - (IF i = k THEN n ELSE 0)
<1> SUFFICES ASSUME NEW i \in Items
             PROVE  left(after, i) = left(stock, i) - (IF i = k THEN n ELSE 0)
  OBVIOUS
<1> DEFINE f == [b \in Aisles |-> stock[b][i]]
           g == [b \in Aisles |-> after[b][i]]
<1>1. /\ f[a] = stock[a][i] /\ f[a] \in 0 .. MaxQty
      /\ g[a] = after[a][i] /\ g[a] \in 0 .. MaxQty
      /\ \A b \in Aisles \ {a} : f[b] = g[b]
  BY DEF Stocks
<1>2. left(stock, i) = SumOver(f, Aisles) /\ left(after, i) = SumOver(g, Aisles)
  BY DEF left
<1> HIDE DEF f, g
<1>3. IsFiniteSet(Aisles)
  BY FiniteIndices
<1>4. SumOver(g, Aisles) = SumOver(f, Aisles) - f[a] + g[a]
  BY <1>1, <1>3, SumUpdate
<1>5. SumOver(f, Aisles) \in Nat /\ f[a] \in Int /\ g[a] \in Int
  BY <1>1, <1>3, SumType, ProblemAssumption
<1>6. CASE i = k
  BY <1>1, <1>2, <1>4, <1>5, <1>6
<1>7. CASE i # k
  BY <1>1, <1>2, <1>4, <1>5, <1>7
<1> QED BY <1>6, <1>7

\* What has left the shelves has left those of the visited aisles, if the other
\* aisles are untouched; so the visited aisles hold as much.
LEMMA TakenFromVisited ==
  ASSUME NEW stock \in Stocks, NEW A \in SUBSET Aisles, NEW i \in Items,
         \A a \in Aisles \ A : stock[a] = AisleQty[a]
  PROVE  Available(Aisles, i) - left(stock, i) <= Available(A, i)
<1> DEFINE f == [a \in Aisles |-> stock[a][i]]
           g == [a \in Aisles |-> AisleQty[a][i]]
           N == Aisles \ A
<1>1. \A a \in N : f[a] = g[a]
  OBVIOUS
<1>2. Aisles = A \cup N /\ A \cap N = {} /\ IsFiniteSet(A) /\ IsFiniteSet(N)
  BY FiniteIndices
<1>3. /\ left(stock, i) = SumOver(f, Aisles)
      /\ Available(Aisles, i) = SumOver(g, Aisles) /\ Available(A, i) = SumOver(g, A)
  BY DEF left, Available
<1> HIDE DEF f, g, N
<1>4. /\ SumOver(f, A \cup N) = SumOver(f, A) + SumOver(f, N)
      /\ SumOver(g, A \cup N) = SumOver(g, A) + SumOver(g, N)
  BY <1>2, SumDisjointUnion
<1>5. SumOver(f, N) = SumOver(g, N)
  BY <1>1, SumCongruence
<1>6. /\ SumOver(f, A) \in Nat /\ SumOver(g, A) \in Nat
      /\ SumOver(f, N) \in Nat /\ SumOver(g, N) \in Nat
  BY <1>2, SumType
<1> QED BY <1>2, <1>3, <1>4, <1>5, <1>6

\* What is left of an item is a natural number, and nothing is left exactly if
\* every aisle is out of it.
LEMMA LeftType ==
  ASSUME NEW stock \in Stocks, NEW i \in Items
  PROVE  /\ left(stock, i) \in Nat
         /\ (\A a \in Aisles : ~ (stock[a][i] > 0)) => left(stock, i) = 0
         /\ \A a \in Aisles : stock[a][i] <= left(stock, i)
<1> DEFINE f == [a \in Aisles |-> stock[a][i]]
<1>1. IsFiniteSet(Aisles)
  BY FiniteIndices
<1>2. \A a \in Aisles : f[a] = stock[a][i] /\ f[a] \in 0 .. MaxQty
  BY DEF Stocks
<1>3. left(stock, i) = SumOver(f, Aisles)
  BY DEF left
<1> HIDE DEF f
<1>4. SumOver(f, Aisles) \in Nat
  BY <1>1, SumType
<1>5. ASSUME \A a \in Aisles : ~ (stock[a][i] > 0)
      PROVE  SumOver(f, Aisles) = 0
  <2>1. \A a \in Aisles : f[a] = 0
    BY <1>2, <1>5, ProblemAssumption
  <2> QED BY <2>1, SumZero
<1>6. \A a \in Aisles : f[a] <= SumOver(f, Aisles)
  BY <1>1, <1>2, SumElement
<1> QED BY <1>2, <1>3, <1>4, <1>5, <1>6

-----------------------------------------------------------------------------
(* The inductive invariant *)

\* An order is served only in pc "serve"; it is the one candidate in mOrders.
ServingInv ==
  /\ pc # "serve" => chosenOrder = None /\ lines = {} /\ item = None
  /\ pc = "construct" => candidates \cap mOrders = {}
  /\ pc = "serve" =>
       /\ chosenOrder \in Orders
       /\ candidates \cap mOrders = {chosenOrder}
       /\ lines \subseteq OrderItems(chosenOrder)
       /\ item # None =>
            /\ item \in OrderItems(chosenOrder) \ lines
            /\ quantNeeded <= OrderQty[chosenOrder][item]

\* The units counted are those of the orders served, and there is room for the
\* order being served.
TotalInv ==
  constructing =>
    /\ currentTotalUnits = getTotalUnits(committedOrders)
    /\ currentTotalUnits <= UB
    /\ pc = "serve" => currentTotalUnits + orderTotalUnits[chosenOrder] <= UB

\* No aisle gets fuller.
StockInv ==
  constructing =>
    \A a \in Aisles : \A i \in Items : remainingStock[a][i] <= AisleQty[a][i]

\* The moves are judged against the score of the wave, in the refinement only.
ScoreInv ==
  /\ ~constructing => currentObj = calculateScore(mOrders, mAisles)
  /\ pc \in {"construct", "serve", "done"} => pending = {}

IInv ==
  /\ TypeOK /\ ServingInv /\ TotalInv /\ StockInv /\ ScoreInv
  /\ StockIsAccountedFor /\ EveryLineIsServed

\* None is no order and no item; items and orders are integers.
LEMMA NoneIsNothing == None \notin Orders /\ None \notin Items
BY NoneAssumption, ProblemAssumption DEF Orders, Items

\* The orders not in doubt when no order is being served are all of mOrders.
LEMMA CommittedWhenIdle ==
  ASSUME TypeOK, chosenOrder = None
  PROVE  committedOrders = mOrders
BY NoneIsNothing DEF TypeOK, committedOrders

\* A score is a pair of natural numbers.
LEMMA ScoreType ==
  ASSUME NEW O \in SUBSET Orders, NEW A \in SUBSET Aisles
  PROVE  calculateScore(O, A) \in Nat \X Nat
<1>1. getTotalUnits(O) \in Nat
  BY QuantityTypes
<1>2. Cardinality(A) \in Nat
  BY FiniteIndices, FS_CardinalityType
<1> QED BY <1>1, <1>2 DEF calculateScore

\* Moves take orders of the wave out and bring others in.
LEMMA MovesAreMoves ==
  ASSUME NEW O \in SUBSET Orders
  PROVE  addMoves(O) \cup removeMoves(O) \cup swapMoves(O) \subseteq Moves
BY DEF addMoves, removeMoves, swapMoves, ordersOut, Moves

\* The first round starts with full shelves and nothing promised.
LEMMA InitInv ==
  ASSUME Init
  PROVE  IInv
<1> USE DEF Init
<1>1. AisleQty \in Stocks /\ MaxQty \in Nat
  BY ProblemAssumption DEF Stocks
<1>2. TypeOK
  BY <1>1, ProblemAssumption DEF TypeOK, Stocks, Moves
<1>3. ServingInv
  BY DEF ServingInv
<1>4. committedOrders = {}
  BY DEF committedOrders
<1>5. TotalInv
  BY <1>4, EmptyWave, ProblemAssumption DEF TotalInv, constructing
<1>6. StockInv
  BY QuantityTypes DEF StockInv, constructing
<1>7. ScoreInv
  BY DEF IInv, ScoreInv, constructing
<1>8. StockIsAccountedFor
  <2>1. ASSUME NEW i \in Items
        PROVE  RemainingTotal(i) + Required(committedOrders, i) + served(i)
                 = Available(Aisles, i)
    <3>1. RemainingTotal(i) = Available(Aisles, i)
      BY DEF RemainingTotal, Available
    <3>2. Required(committedOrders, i) = 0 /\ served(i) = 0
      BY <1>4, EmptyWave DEF served
    <3>3. Available(Aisles, i) \in Nat
      BY QuantityTypes
    <3> QED BY <3>1, <3>2, <3>3
  <2> QED BY <2>1 DEF StockIsAccountedFor
<1>9. EveryLineIsServed
  BY DEF EveryLineIsServed
<1> QED BY <1>2, <1>3, <1>5, <1>6, <1>7, <1>8, <1>9 DEF IInv

\* Choosing an order promises nothing yet; its stock is there in total.
LEMMA ChooseOrderInv ==
  ASSUME IInv, NEW o \in Orders, ChooseOrder(o)
  PROVE  IInv'
<1> USE DEF ChooseOrder
<1>1. /\ o \in validCandidates /\ validCandidates \subseteq candidates
      /\ o \in candidates /\ o \notin mOrders /\ chosenOrder = None /\ item = None
      /\ candidates \subseteq Orders /\ mOrders \subseteq Orders
  BY DEF rcl, validCandidates, IInv, ServingInv, TypeOK
<1>2. TypeOK'
  BY <1>1 DEF IInv, TypeOK, OrderItems
<1>3. ServingInv'
  BY <1>1 DEF IInv, ServingInv
<1>4. committedOrders = mOrders /\ committedOrders' = mOrders
  BY <1>1, CommittedWhenIdle DEF IInv, committedOrders
<1>5. TotalInv'
  BY <1>1, <1>4 DEF IInv, TotalInv, constructing, validCandidates
<1>6. StockInv'
  BY DEF IInv, StockInv, constructing
<1>7. ScoreInv'
  BY DEF IInv, ScoreInv, constructing
<1>8. StockIsAccountedFor'
  <2>1. ASSUME NEW i \in Items
        PROVE  served(i) = 0 /\ served(i)' = 0
    <3>1. i # None
      BY NoneIsNothing
    <3>2. i \notin OrderItems(o) => OrderQty[o][i] = 0
      BY QuantityTypes DEF OrderItems
    <3> QED BY <1>1, <3>1, <3>2 DEF served
  <2>2. \A i \in Items : RemainingTotal(i)' = RemainingTotal(i)
    BY DEF RemainingTotal
  <2> QED BY <1>4, <2>1, <2>2 DEF IInv, StockIsAccountedFor, constructing
<1>9. EveryLineIsServed'
  BY <1>1 DEF EveryLineIsServed, validCandidates, RemainingTotal
<1> QED BY <1>2, <1>3, <1>5, <1>6, <1>7, <1>8, <1>9 DEF IInv

\* Starting a line: its units are still on the shelves.
LEMMA StartLineInv ==
  ASSUME IInv, NEW i \in Items, StartLine(i)
  PROVE  IInv'
<1> USE DEF StartLine, waveState
<1>1. /\ chosenOrder \in Orders /\ i \in lines /\ i \in OrderItems(chosenOrder)
      /\ OrderQty[chosenOrder][i] \in 0 .. MaxQty /\ i # None
      /\ chosenOrder # None
  BY NoneIsNothing, ProblemAssumption DEF nextLines, IInv, ServingInv
<1>2. TypeOK'
  BY <1>1 DEF IInv, TypeOK
<1>3. ServingInv'
  BY <1>1, ProblemAssumption DEF IInv, ServingInv
<1>4. committedOrders' = committedOrders
  BY DEF committedOrders
<1>5. TotalInv'
  BY <1>4 DEF IInv, TotalInv, constructing
<1>6. StockInv'
  BY DEF IInv, StockInv, constructing
<1>7. ScoreInv'
  BY DEF IInv, ScoreInv, constructing
<1>8. StockIsAccountedFor'
  <2>1. ASSUME NEW k \in Items
        PROVE  served(k)' = served(k)
    <3>1. k # None
      BY NoneIsNothing
    <3>2. OrderQty[chosenOrder][i] - OrderQty[chosenOrder][i] = 0
      BY <1>1, ProblemAssumption
    <3> QED BY <1>1, <3>1, <3>2 DEF served
  <2>2. \A k \in Items : RemainingTotal(k)' = RemainingTotal(k)
    BY DEF RemainingTotal
  <2> QED BY <1>4, <2>1, <2>2 DEF IInv, StockIsAccountedFor, constructing
<1>9. EveryLineIsServed'
  BY <1>1 DEF IInv, EveryLineIsServed, RemainingTotal
<1> QED BY <1>2, <1>3, <1>5, <1>6, <1>7, <1>8, <1>9 DEF IInv

\* The quantities of one contribution of an aisle to a line.
LEMMA TakeFacts ==
  ASSUME IInv, NEW a \in Aisles, Take(a)
  PROVE  /\ item \in Items /\ chosenOrder \in Orders
         /\ item \in OrderItems(chosenOrder) \ lines
         /\ remainingStock \in Stocks /\ remainingStock' \in Stocks
         /\ remainingStock[a][item] > 0
         /\ \E n \in Nat \ {0} :
              /\ n <= remainingStock[a][item] /\ n <= quantNeeded
              /\ quantNeeded' = quantNeeded - n
              /\ remainingStock' = [remainingStock EXCEPT ![a][item] = @ - n]
              /\ \A i \in Items :
                   RemainingTotal(i)' = RemainingTotal(i) - (IF i = item THEN n ELSE 0)
<1> DEFINE n == smaller(quantNeeded, remainingStock[a][item])
<1>1. /\ item \in Items /\ chosenOrder \in Orders
      /\ item \in OrderItems(chosenOrder) \ lines
      /\ remainingStock \in Stocks
      /\ quantNeeded \in 0 .. MaxQty /\ quantNeeded > 0
  BY DEF Take, IInv, ServingInv, TypeOK, Stocks
<1>2. remainingStock[a][item] \in 0 .. MaxQty
  BY <1>1 DEF Stocks
<1>3. remainingStock[a][item] > 0
  BY DEF Take, sources
<1>4. n \in Nat \ {0} /\ n <= quantNeeded /\ n <= remainingStock[a][item]
  BY <1>1, <1>2, <1>3, ProblemAssumption DEF smaller
<1>5. /\ quantNeeded' = quantNeeded - n
      /\ remainingStock' = [remainingStock EXCEPT ![a][item] = @ - n]
  BY <1>1 DEF Take, takeFrom, Stocks
<1> HIDE DEF n
<1>6. /\ remainingStock' \in Stocks
      /\ \A i \in Items : left(remainingStock', i)
           = left(remainingStock, i) - (IF i = item THEN n ELSE 0)
  <2>1. /\ n \in Nat
        /\ remainingStock[a][item] - n \in 0 .. MaxQty
    BY <1>2, <1>4, ProblemAssumption
  <2>2. /\ remainingStock' \in Stocks
        /\ remainingStock'[a][item] = remainingStock[a][item] - n
        /\ \A b \in Aisles, i \in Items :
             b # a \/ i # item => remainingStock'[b][i] = remainingStock[b][i]
    BY <1>1, <1>5, <2>1 DEF Stocks
  <2>3. \A i \in Items : left(remainingStock', i)
           = left(remainingStock, i) - (IF i = item THEN n ELSE 0)
    BY <1>1, <2>1, <2>2, StockAfterTake
  <2> QED BY <2>2, <2>3
<1>7. \A i \in Items : RemainingTotal(i) = left(remainingStock, i)
                       /\ RemainingTotal(i)' = left(remainingStock', i)
  BY DEF RemainingTotal, left
<1> QED BY <1>1, <1>3, <1>4, <1>5, <1>6, <1>7

\* A contribution moves units from the shelves to the order.
LEMMA TakeInv ==
  ASSUME IInv, NEW a \in Aisles, Take(a)
  PROVE  IInv'
<1>1. /\ item \in Items /\ chosenOrder \in Orders
      /\ item \in OrderItems(chosenOrder) \ lines
      /\ remainingStock \in Stocks /\ remainingStock' \in Stocks
      /\ remainingStock[a][item] > 0
  BY TakeFacts
<1>2. PICK n \in Nat \ {0} :
        /\ n <= remainingStock[a][item] /\ n <= quantNeeded
        /\ quantNeeded' = quantNeeded - n
        /\ remainingStock' = [remainingStock EXCEPT ![a][item] = @ - n]
        /\ \A i \in Items :
             RemainingTotal(i)' = RemainingTotal(i) - (IF i = item THEN n ELSE 0)
  BY TakeFacts
<1>3. /\ pc = "serve" /\ pc' = "serve" /\ mAisles' = mAisles \cup {a}
      /\ UNCHANGED <<candidates, mOrders, currentTotalUnits, chosenOrder, lines,
                     item, currentObj, pending>>
  BY DEF Take
<1>4. quantNeeded \in 0 .. MaxQty /\ quantNeeded' \in 0 .. MaxQty /\ MaxQty \in Nat
  BY <1>2, ProblemAssumption DEF IInv, TypeOK
<1>5. TypeOK'
  BY <1>1, <1>3, <1>4 DEF IInv, TypeOK, Stocks
<1>6. ServingInv'
  <2>1. OrderQty[chosenOrder][item] \in Nat
    BY <1>1, QuantityTypes
  <2>2. item # None
    BY DEF Take
  <2>3. quantNeeded' <= OrderQty[chosenOrder][item]
    BY <1>2, <1>3, <1>4, <2>1, <2>2 DEF IInv, ServingInv
  <2> QED BY <1>3, <2>3 DEF IInv, ServingInv
<1>7. committedOrders' = committedOrders
  BY <1>3 DEF committedOrders
<1>8. TotalInv'
  BY <1>3, <1>7 DEF IInv, TotalInv, constructing
<1>9. \A b \in Aisles : \A i \in Items :
        /\ remainingStock[b][i] \in Nat /\ AisleQty[b][i] \in Nat
        /\ remainingStock[b][i] <= AisleQty[b][i]
  BY <1>1, <1>3, QuantityTypes, ProblemAssumption
     DEF IInv, StockInv, constructing, Stocks
<1>10. /\ remainingStock'[a][item] < AisleQty[a][item]
       /\ \A b \in Aisles \ {a} : remainingStock'[b] = remainingStock[b]
       /\ \A i \in Items \ {item} : remainingStock'[a][i] = remainingStock[a][i]
  <2>1. remainingStock'[a][item] = remainingStock[a][item] - n
    BY <1>1, <1>2 DEF Stocks
  <2>2. \A b \in Aisles \ {a} : remainingStock'[b] = remainingStock[b]
    BY <1>1, <1>2 DEF Stocks
  <2>3. \A i \in Items \ {item} : remainingStock'[a][i] = remainingStock[a][i]
    BY <1>1, <1>2 DEF Stocks
  <2>4. remainingStock[a][item] - n < AisleQty[a][item]
    BY <1>1, <1>2, <1>9
  <2> QED BY <2>1, <2>2, <2>3, <2>4
<1>11. StockInv'
  <2>1. ASSUME NEW b \in Aisles, NEW i \in Items
        PROVE  remainingStock'[b][i] <= AisleQty[b][i]
    <3>1. CASE b = a /\ i = item
      <4>1. AisleQty[a][item] \in Nat /\ remainingStock'[a][item] \in Int
        BY <1>1, <1>9 DEF Stocks
      <4> QED BY <1>10, <3>1, <4>1
    <3>2. CASE b # a
      BY <1>9, <1>10, <3>2
    <3>3. CASE b = a /\ i # item
      BY <1>9, <1>10, <3>3
    <3> QED BY <3>1, <3>2, <3>3
  <2> QED BY <2>1 DEF StockInv
<1>12. ScoreInv'
  BY <1>3 DEF IInv, ScoreInv, constructing
<1>13. \A i \in Items : served(i)' = served(i) + (IF i = item THEN n ELSE 0)
  <2> SUFFICES ASSUME NEW i \in Items
               PROVE  served(i)' = served(i) + (IF i = item THEN n ELSE 0)
    OBVIOUS
  <2>1. chosenOrder # None /\ OrderQty[chosenOrder][i] \in Nat
    BY <1>1, NoneIsNothing, QuantityTypes
  <2>2. CASE i = item
    BY <1>1, <1>2, <1>3, <1>4, <2>1, <2>2 DEF served
  <2>3. CASE i # item
    <3>1. served(i)' = served(i) /\ served(i) \in Nat
      BY <1>3, <2>1, <2>3 DEF served
    <3> QED BY <2>3, <3>1
  <2> QED BY <2>2, <2>3
<1>14. \A i \in Items : /\ RemainingTotal(i) \in Nat
                        /\ Required(committedOrders, i) \in Nat
                        /\ Available(Aisles, i) \in Nat
                        /\ served(i) \in Int
  <2> SUFFICES ASSUME NEW i \in Items
               PROVE  /\ RemainingTotal(i) \in Nat
                      /\ Required(committedOrders, i) \in Nat
                      /\ Available(Aisles, i) \in Nat
                      /\ served(i) \in Int
    OBVIOUS
  <2>1. RemainingTotal(i) \in Nat
    BY <1>1, LeftType DEF RemainingTotal, left
  <2>2. committedOrders \in SUBSET Orders
    BY DEF IInv, TypeOK, committedOrders
  <2>3. served(i) \in Int
    BY <1>1, <1>4, QuantityTypes DEF served
  <2> QED BY <2>1, <2>2, <2>3, QuantityTypes
<1>15. StockIsAccountedFor'
  <2>1. ASSUME NEW i \in Items
        PROVE  RemainingTotal(i)' + Required(committedOrders', i) + served(i)'
                 = Available(Aisles, i)
    <3>1. RemainingTotal(i) + Required(committedOrders, i) + served(i)
            = Available(Aisles, i)
      BY <1>3 DEF IInv, StockIsAccountedFor, constructing
    <3>2. CASE i = item
      BY <1>2, <1>7, <1>13, <1>14, <3>1, <3>2
    <3>3. CASE i # item
      BY <1>2, <1>7, <1>13, <1>14, <3>1, <3>3
    <3> QED BY <3>2, <3>3
  <2>2. ASSUME NEW b \in Aisles
        PROVE  b \in mAisles' <=> remainingStock'[b] # AisleQty[b]
    <3>1. CASE b = a
      <4>1. AisleQty[a][item] \in Int
        BY <1>1, <1>9
      <4> QED BY <1>3, <1>10, <3>1, <4>1
    <3>2. CASE b # a
      <4>1. b \in mAisles <=> remainingStock[b] # AisleQty[b]
        BY <1>3 DEF IInv, StockIsAccountedFor, constructing
      <4> QED BY <1>3, <1>10, <3>2, <4>1
    <3> QED BY <3>1, <3>2
  <2> QED BY <2>1, <2>2 DEF StockIsAccountedFor
<1>16. EveryLineIsServed'
  <2>1. item # None /\ quantNeeded <= RemainingTotal(item)
    BY <1>1, <1>3, NoneIsNothing DEF IInv, EveryLineIsServed
  <2>2. quantNeeded' <= RemainingTotal(item)'
    BY <1>1, <1>2, <1>3, <1>4, <1>14, <2>1
  <2>3. ASSUME NEW i \in lines
        PROVE  OrderQty[chosenOrder][i] <= RemainingTotal(i)'
    <3>1. i \in Items /\ i # item
      BY <1>1, <2>3 DEF IInv, TypeOK
    <3>2. OrderQty[chosenOrder][i] <= RemainingTotal(i)
      BY <1>3, <2>3 DEF IInv, EveryLineIsServed
    <3>3. RemainingTotal(i)' = RemainingTotal(i)
      BY <1>2, <1>14, <3>1
    <3> QED BY <3>2, <3>3
  <2> QED BY <1>3, <2>2, <2>3 DEF EveryLineIsServed
<1> QED BY <1>5, <1>6, <1>8, <1>11, <1>12, <1>15, <1>16 DEF IInv

\* A line ends with nothing missing: if no aisle has the item any more, no unit
\* of it was still needed.
LEMMA EndLineInv ==
  ASSUME IInv, EndLine
  PROVE  quantNeeded = 0 /\ IInv'
<1>1. /\ pc = "serve" /\ pc' = "serve" /\ item # None /\ item' = None
      /\ quantNeeded' = 0
      /\ UNCHANGED <<candidates, mOrders, mAisles, remainingStock,
                     currentTotalUnits, chosenOrder, lines, currentObj, pending>>
  BY DEF EndLine, waveState
<1>2. /\ item \in Items /\ remainingStock \in Stocks
      /\ quantNeeded \in Nat /\ quantNeeded <= RemainingTotal(item)
  BY <1>1, ProblemAssumption DEF IInv, TypeOK, EveryLineIsServed, Stocks
<1>3. quantNeeded = 0
  <2>1. CASE sources = {}
    <3>1. ASSUME NEW a \in Aisles, remainingStock[a][item] > 0
          PROVE  FALSE
      <4> DEFINE H == {b \in Aisles : remainingStock[b][item] > 0}
      <4>1. H \in SUBSET Nat
        BY ProblemAssumption DEF Aisles
      <4>2. H # {}
        BY <3>1
      <4>3. PICK c \in H : \A b \in H : c <= b
        BY <4>1, <4>2, LeastIndex
      <4> QED BY <2>1, <4>3 DEF sources
    <3>2. left(remainingStock, item) = 0
      BY <1>2, <3>1, LeftType
    <3> QED BY <1>2, <3>2 DEF RemainingTotal, left
  <2> QED BY <1>2, <2>1 DEF EndLine
<1>4. TypeOK'
  BY <1>1, ProblemAssumption DEF IInv, TypeOK
<1>5. ServingInv'
  BY <1>1 DEF IInv, ServingInv
<1>6. committedOrders' = committedOrders
  BY <1>1 DEF committedOrders
<1>7. TotalInv'
  BY <1>1, <1>6 DEF IInv, TotalInv, constructing
<1>8. StockInv' /\ ScoreInv'
  BY <1>1 DEF IInv, StockInv, ScoreInv, constructing
<1>9. \A i \in Items : served(i)' = served(i) /\ RemainingTotal(i)' = RemainingTotal(i)
  <2> SUFFICES ASSUME NEW i \in Items
               PROVE  served(i)' = served(i) /\ RemainingTotal(i)' = RemainingTotal(i)
    OBVIOUS
  <2>1. i # None /\ chosenOrder \in Orders
    BY <1>1, NoneIsNothing DEF IInv, ServingInv
  <2>2. OrderQty[chosenOrder][i] - 0 = OrderQty[chosenOrder][i]
    BY <2>1, QuantityTypes
  <2>3. served(i)' = served(i)
    BY <1>1, <1>3, <2>1, <2>2 DEF served
  <2> QED BY <1>1, <2>3 DEF RemainingTotal
<1>10. StockIsAccountedFor'
  BY <1>1, <1>6, <1>9 DEF IInv, StockIsAccountedFor, constructing
<1>11. EveryLineIsServed'
  BY <1>1 DEF IInv, EveryLineIsServed, RemainingTotal
<1> QED BY <1>3, <1>4, <1>5, <1>7, <1>8, <1>10, <1>11 DEF IInv

\* The last line done, the visited aisles hold all that the orders need, the
\* one just served included.
LEMMA OrderIsServed ==
  ASSUME IInv, EndOrder
  PROVE  /\ chosenOrder \in Orders /\ chosenOrder \in mOrders
         /\ mOrders = committedOrders \cup {chosenOrder}
         /\ chosenOrder \notin committedOrders
         /\ \A i \in Items : served(i) = OrderQty[chosenOrder][i]
         /\ \A i \in Items : Required(mOrders, i)
              = Required(committedOrders, i) + OrderQty[chosenOrder][i]
         /\ getTotalUnits(mOrders)
              = getTotalUnits(committedOrders) + orderTotalUnits[chosenOrder]
         /\ getTotalUnits(mOrders) <= UB
         /\ Covered(mOrders, mAisles)
<1>1. /\ pc = "serve" /\ item = None /\ lines = {}
      /\ chosenOrder \in Orders /\ chosenOrder \in mOrders
      /\ mOrders \subseteq Orders /\ mAisles \subseteq Aisles
      /\ remainingStock \in Stocks
  BY DEF EndOrder, IInv, ServingInv, TypeOK, Stocks
<1>2. /\ mOrders = committedOrders \cup {chosenOrder}
      /\ chosenOrder \notin committedOrders /\ committedOrders \in SUBSET Orders
  BY <1>1 DEF committedOrders
<1>3. ASSUME NEW i \in Items
      PROVE  served(i) = OrderQty[chosenOrder][i]
  BY <1>1, NoneIsNothing DEF served
<1>4. ASSUME NEW i \in Items
      PROVE  Required(mOrders, i)
               = Required(committedOrders, i) + OrderQty[chosenOrder][i]
  BY <1>1, <1>2, RequiredStep
<1>5. getTotalUnits(mOrders)
        = getTotalUnits(committedOrders) + orderTotalUnits[chosenOrder]
  BY <1>1, <1>2, TotalStep
<1>6. getTotalUnits(mOrders) <= UB
  BY <1>1, <1>5 DEF IInv, TotalInv, constructing
<1>7. ASSUME NEW i \in Items
      PROVE  Required(mOrders, i) <= Available(mAisles, i)
  <2>1. RemainingTotal(i) + Required(committedOrders, i) + served(i)
          = Available(Aisles, i)
    BY <1>1 DEF IInv, StockIsAccountedFor, constructing
  <2>2. \A a \in Aisles \ mAisles : remainingStock[a] = AisleQty[a]
    BY <1>1 DEF IInv, StockIsAccountedFor, constructing
  <2>3. Available(Aisles, i) - left(remainingStock, i) <= Available(mAisles, i)
    BY <1>1, <2>2, TakenFromVisited
  <2>4. RemainingTotal(i) = left(remainingStock, i) /\ left(remainingStock, i) \in Nat
    BY <1>1, LeftType DEF RemainingTotal, left
  <2>5. /\ Required(mOrders, i) \in Nat /\ Required(committedOrders, i) \in Nat
        /\ Available(Aisles, i) \in Nat /\ Available(mAisles, i) \in Nat
        /\ OrderQty[chosenOrder][i] \in Nat
    BY <1>1, <1>2, QuantityTypes
  <2> QED BY <1>3, <1>4, <2>1, <2>3, <2>4, <2>5
<1> QED BY <1>1, <1>2, <1>3, <1>4, <1>5, <1>6, <1>7 DEF Covered

\* The order served joins the orders served before.
LEMMA EndOrderInv ==
  ASSUME IInv, EndOrder
  PROVE  IInv'
<1>1. /\ pc = "serve" /\ pc' = "construct" /\ item = None /\ lines = {}
      /\ chosenOrder' = None /\ candidates' = candidates \ {chosenOrder}
      /\ currentTotalUnits' = currentTotalUnits + orderTotalUnits[chosenOrder]
      /\ UNCHANGED <<mOrders, mAisles, remainingStock, lines, item, quantNeeded,
                     currentObj, pending>>
  BY DEF EndOrder, waveState
<1>2. /\ chosenOrder \in Orders /\ chosenOrder \in mOrders
      /\ \A i \in Items : served(i) = OrderQty[chosenOrder][i]
      /\ \A i \in Items : Required(mOrders, i)
           = Required(committedOrders, i) + OrderQty[chosenOrder][i]
      /\ getTotalUnits(mOrders)
           = getTotalUnits(committedOrders) + orderTotalUnits[chosenOrder]
      /\ getTotalUnits(mOrders) <= UB
  BY OrderIsServed
<1>3. TypeOK'
  BY <1>1, <1>2, QuantityTypes DEF IInv, TypeOK
<1>4. ServingInv'
  BY <1>1 DEF IInv, ServingInv
<1>5. committedOrders' = mOrders
  BY <1>1, NoneIsNothing DEF IInv, TypeOK, committedOrders
<1>6. TotalInv'
  BY <1>1, <1>2, <1>5 DEF IInv, TotalInv, constructing
<1>7. StockInv' /\ ScoreInv'
  BY <1>1 DEF IInv, StockInv, ScoreInv, constructing
<1>8. StockIsAccountedFor'
  <2>1. ASSUME NEW i \in Items
        PROVE  RemainingTotal(i)' + Required(mOrders, i) + served(i)'
                 = Available(Aisles, i)
    <3>1. RemainingTotal(i) + Required(committedOrders, i) + served(i)
            = Available(Aisles, i)
      BY <1>1 DEF IInv, StockIsAccountedFor, constructing
    <3>2. served(i)' = 0 /\ RemainingTotal(i)' = RemainingTotal(i)
      BY <1>1 DEF served, RemainingTotal
    <3>3. /\ committedOrders \in SUBSET Orders /\ remainingStock \in Stocks
      BY DEF committedOrders, IInv, TypeOK, Stocks
    <3>4. /\ RemainingTotal(i) \in Nat /\ Required(committedOrders, i) \in Nat
          /\ OrderQty[chosenOrder][i] \in Nat
      BY <1>2, <3>3, LeftType, QuantityTypes DEF RemainingTotal, left
    <3> QED BY <1>2, <3>1, <3>2, <3>4
  <2> QED BY <1>1, <1>5, <2>1 DEF IInv, StockIsAccountedFor, constructing
<1>9. EveryLineIsServed'
  BY <1>1 DEF EveryLineIsServed
<1> QED BY <1>3, <1>4, <1>6, <1>7, <1>8, <1>9 DEF IInv

-----------------------------------------------------------------------------
(* The refinement and the theorems *)

\* A pass starts with the score of the wave it is about to judge moves against.
LEMMA StartPassInv ==
  ASSUME IInv, chosenOrder = None, item = None, lines = {},
         NEW O \in SUBSET Orders, NEW A \in SUBSET Aisles, startPass(O, A)
  PROVE  IInv'
<1>1. /\ pc' = "add" /\ mOrders' = O /\ mAisles' = A
      /\ currentObj' = calculateScore(O, A) /\ pending' = addMoves(O)
      /\ UNCHANGED <<candidates, remainingStock, currentTotalUnits, chosenOrder,
                     lines, item, quantNeeded>>
  BY DEF startPass, constructionVars
<1>2. currentObj' \in Nat \X Nat /\ pending' \subseteq Moves
  BY <1>1, ScoreType, MovesAreMoves
<1>3. TypeOK'
  BY <1>1, <1>2 DEF IInv, TypeOK
<1>4. ServingInv'
  BY <1>1 DEF ServingInv
<1>5. ScoreInv'
  BY <1>1 DEF ScoreInv
<1>6. TotalInv' /\ StockInv' /\ StockIsAccountedFor' /\ EveryLineIsServed'
  BY <1>1 DEF TotalInv, StockInv, StockIsAccountedFor, EveryLineIsServed, constructing
<1> QED BY <1>3, <1>4, <1>5, <1>6 DEF IInv

\* A step of the refinement that keeps the wave keeps the invariant.
LEMMA SameWaveInv ==
  ASSUME IInv, ~constructing,
         pc' \in {"add", "remove", "swap", "done"}, pending' \subseteq Moves,
         pc' = "done" => pending' = {},
         UNCHANGED <<constructionVars, waveState, currentObj>>
  PROVE  IInv'
<1> USE DEF constructionVars, waveState
<1>1. TypeOK'
  BY DEF IInv, TypeOK
<1>2. ServingInv'
  BY DEF IInv, ServingInv, constructing
<1>3. ScoreInv'
  BY DEF IInv, ScoreInv, constructing
<1>4. TotalInv' /\ StockInv' /\ StockIsAccountedFor' /\ EveryLineIsServed'
  BY DEF TotalInv, StockInv, StockIsAccountedFor, EveryLineIsServed, constructing
<1> QED BY <1>1, <1>2, <1>3, <1>4 DEF IInv

\* A move due is one of the refinement, and its neighbour is a set of orders.
LEMMA DueFacts ==
  ASSUME IInv, NEW m \in due
  PROVE  /\ pc \in {"add", "remove", "swap"}
         /\ ~constructing /\ chosenOrder = None /\ item = None /\ lines = {}
         /\ neighbor(m) \in SUBSET Orders
         /\ currentObj = calculateScore(mOrders, mAisles)
<1>1. m \in pending /\ m \in Moves
  BY DEF due, IInv, TypeOK
<1> QED BY <1>1 DEF Moves, neighbor, IInv, TypeOK, ServingInv, ScoreInv, constructing

\* Every step of the heuristic keeps the invariant.
LEMMA NextInv ==
  ASSUME IInv, [Next]_vars
  PROVE  IInv'
<1>1. ASSUME Construction
      PROVE  IInv'
  <2>1. CASE \E o \in Orders : ChooseOrder(o)
    BY <2>1, ChooseOrderInv
  <2>2. CASE \E i \in Items : StartLine(i)
    BY <2>2, StartLineInv
  <2>3. CASE \E a \in Aisles : Take(a)
    BY <2>3, TakeInv
  <2>4. CASE EndLine
    BY <2>4, EndLineInv
  <2>5. CASE EndOrder
    BY <2>5, EndOrderInv
  <2>6. CASE ConstructionEnds
    <3>1. /\ chosenOrder = None /\ item = None /\ lines = {}
          /\ mOrders \in SUBSET Orders /\ mAisles \in SUBSET Aisles
      BY <2>6 DEF ConstructionEnds, IInv, ServingInv, TypeOK
    <3>2. startPass(mOrders, mAisles)
      BY <2>6 DEF ConstructionEnds
    <3> QED BY <3>1, <3>2, StartPassInv
  <2> QED BY <1>1, <2>1, <2>2, <2>3, <2>4, <2>5, <2>6 DEF Construction
<1>2. ASSUME Refinement
      PROVE  IInv'
  <2>1. ASSUME NEW m \in pending, AcceptMove(m)
        PROVE  IInv'
    <3>1. m \in due
      BY <2>1 DEF AcceptMove
    <3>2. /\ chosenOrder = None /\ item = None /\ lines = {}
          /\ neighbor(m) \in SUBSET Orders
      BY <3>1, DueFacts
    <3>3. recomputedAisles(neighbor(m)) \in SUBSET Aisles
      BY <3>2, RecomputeIsExact
    <3>4. startPass(neighbor(m), recomputedAisles(neighbor(m)))
      BY <2>1 DEF AcceptMove
    <3> QED BY <3>2, <3>3, <3>4, StartPassInv
  <2>2. ASSUME NEW m \in pending, RejectMove(m)
        PROVE  IInv'
    <3>1. m \in due
      BY <2>2 DEF RejectMove
    <3>2. pc \in {"add", "remove", "swap"} /\ ~constructing
      BY <3>1, DueFacts
    <3>3. /\ pc' = pc /\ pending' = pending \ {m}
          /\ UNCHANGED <<constructionVars, waveState, currentObj>>
      BY <2>2 DEF RejectMove
    <3>4. pending' \subseteq Moves
      BY <3>3 DEF IInv, TypeOK
    <3> QED BY <3>2, <3>3, <3>4, SameWaveInv
  <2>3. ASSUME NEW kind \in {"remove", "swap", "done"}, NEW moves \in SUBSET Moves,
               kind = "done" => moves = {},
               pc \in {"add", "remove", "swap"}, tryNext(kind, moves)
        PROVE  IInv'
    <3>1. ~constructing
      BY <2>3 DEF constructing
    <3>2. /\ pc' = kind /\ pending' = moves
          /\ UNCHANGED <<constructionVars, waveState, currentObj>>
      BY <2>3 DEF tryNext
    <3> QED BY <2>3, <3>1, <3>2, SameWaveInv
  <2>4. removeMoves(mOrders) \in SUBSET Moves /\ swapMoves(mOrders) \in SUBSET Moves
    BY MovesAreMoves DEF IInv, TypeOK
  <2>5. CASE AddsTried
    BY <2>3, <2>4, <2>5 DEF AddsTried
  <2>6. CASE RemovesTried
    BY <2>3, <2>4, <2>6 DEF RemovesTried
  <2>7. CASE SwapsTried
    BY <2>3, <2>7 DEF SwapsTried
  <2> QED BY <1>2, <2>1, <2>2, <2>5, <2>6, <2>7 DEF Refinement
<1>3. ASSUME UNCHANGED vars
      PROVE  IInv'
  BY <1>3 DEF vars, constructionVars, waveState, IInv, TypeOK, ServingInv, TotalInv,
       StockInv, ScoreInv, StockIsAccountedFor, EveryLineIsServed, constructing,
       committedOrders, served, RemainingTotal
<1> QED BY <1>1, <1>2, <1>3 DEF Next

\* Heur1 keeps its types, accounts for every unit it takes from a shelf, and
\* finds every unit of an order it has chosen, on every instance.
THEOREM Heur1Correct == Spec => [](TypeOK /\ StockIsAccountedFor /\ EveryLineIsServed)
<1>1. Init => IInv
  BY InitInv
<1>2. IInv /\ [Next]_vars => IInv'
  BY NextInv
<1>3. IInv => TypeOK /\ StockIsAccountedFor /\ EveryLineIsServed
  BY DEF IInv
<1> QED BY <1>1, <1>2, <1>3, PTL DEF Spec

\* ImprovedWave's copies of the operators of WaveProblem are those operators.
LEMMA SameProblem ==
  /\ Improved!Orders = Orders /\ Improved!Aisles = Aisles
  /\ \A O, A : /\ Improved!Servable(O, A) <=> Covered(O, A) /\ getTotalUnits(O) <= UB
               /\ Improved!checkFeasibility(O, A) <=> checkFeasibility(O, A)
               /\ Improved!calculateScore(O, A) = calculateScore(O, A)
  /\ \A r, s : Improved!Exceeds(r, s) <=> Exceeds(r, s)
<1>1. \A S : Improved!Cardinality(S) = Cardinality(S)
  BY DEF Improved!Cardinality, Cardinality
<1> USE <1>1 DEF Improved!Orders, Improved!Aisles, Improved!Items, Improved!UnitsOf,
        Improved!SumOver, Improved!Available, Improved!Required,
        Improved!getTotalUnits, Improved!Covered, Improved!Servable,
        Improved!checkFeasibility, Improved!calculateScore, Improved!Exceeds,
        Orders, Aisles, Items, UnitsOf, SumOver, Available, Required,
        getTotalUnits, Covered, checkFeasibility, calculateScore, Exceeds
<1>2. Improved!Orders = Orders /\ Improved!Aisles = Aisles
  OBVIOUS
<1>3. ASSUME NEW O, NEW A
      PROVE  /\ Improved!Servable(O, A) <=> Covered(O, A) /\ getTotalUnits(O) <= UB
             /\ Improved!checkFeasibility(O, A) <=> checkFeasibility(O, A)
             /\ Improved!calculateScore(O, A) = calculateScore(O, A)
  OBVIOUS
<1>4. ASSUME NEW r, NEW s
      PROVE  Improved!Exceeds(r, s) <=> Exceeds(r, s)
  OBVIOUS
<1> QED BY <1>2, <1>3, <1>4

\* Each step of Heur1 is a step of ImprovedWave, or leaves what it speaks of.
LEMMA StepImproves ==
  ASSUME IInv, [Next]_vars
  PROVE  [Improved!ImprovedNext]_(Improved!improvedVars)
<1> DEFINE stutters == UNCHANGED <<committedOrders, mAisles, constructing>>
<1>1. ASSUME stutters
      PROVE  [Improved!ImprovedNext]_(Improved!improvedVars)
  BY <1>1 DEF Improved!improvedVars
<1>2. ASSUME NEW o \in Orders, ChooseOrder(o)
      PROVE  stutters
  <2>1. o \notin mOrders /\ chosenOrder = None
    BY <1>2 DEF ChooseOrder, rcl, validCandidates, IInv, ServingInv
  <2>2. committedOrders = mOrders
    BY <2>1, CommittedWhenIdle DEF IInv
  <2> QED BY <1>2, <2>1, <2>2 DEF ChooseOrder, committedOrders, constructing
<1>3. ASSUME NEW i \in Items, StartLine(i)
      PROVE  stutters
  BY <1>3 DEF StartLine, waveState, committedOrders, constructing
<1>4. ASSUME NEW a \in Aisles, Take(a)
      PROVE  [Improved!ImprovedNext]_(Improved!improvedVars)
  <2>1. /\ mAisles' = mAisles \cup {a} /\ constructing
        /\ UNCHANGED <<committedOrders, constructing>>
    BY <1>4 DEF Take, committedOrders, constructing
  <2>2. CASE a \in mAisles
    <3>1. mAisles' = mAisles
      BY <2>1, <2>2
    <3> QED BY <1>1, <2>1, <3>1
  <2>3. CASE a \notin mAisles
    <3>1. Improved!VisitAisle
      BY <2>1, <2>3, SameProblem DEF Improved!VisitAisle
    <3> QED BY <2>1, <3>1 DEF Improved!ImprovedNext, Improved!Grow
  <2> QED BY <2>2, <2>3
<1>5. ASSUME EndLine
      PROVE  stutters
  BY <1>5 DEF EndLine, waveState, committedOrders, constructing
<1>6. ASSUME EndOrder
      PROVE  [Improved!ImprovedNext]_(Improved!improvedVars)
  <2>1. /\ constructing /\ constructing' /\ mAisles' = mAisles
        /\ committedOrders' = mOrders
    BY <1>6, NoneIsNothing
       DEF EndOrder, waveState, committedOrders, constructing, IInv, TypeOK
  <2>2. /\ chosenOrder \in Orders \ committedOrders
        /\ mOrders = committedOrders \cup {chosenOrder}
        /\ Covered(mOrders, mAisles) /\ getTotalUnits(mOrders) <= UB
    BY <1>6, OrderIsServed
  <2>3. Improved!Servable(committedOrders \cup {chosenOrder}, mAisles)
    BY <2>2, SameProblem
  <2>4. Improved!TakeOrder
    BY <2>1, <2>2, <2>3, SameProblem DEF Improved!TakeOrder
  <2> QED BY <2>1, <2>4 DEF Improved!ImprovedNext, Improved!Grow
<1>7. ASSUME ConstructionEnds
      PROVE  [Improved!ImprovedNext]_(Improved!improvedVars)
  <2>1. /\ constructing /\ ~constructing' /\ mAisles' = mAisles
        /\ committedOrders' = committedOrders
    BY <1>7 DEF ConstructionEnds, startPass, constructionVars, committedOrders,
         constructing
  <2> QED BY <2>1 DEF Improved!ImprovedNext, Improved!StopGrowing, Improved!waveVars
<1>8. ASSUME NEW m \in pending, AcceptMove(m)
      PROVE  [Improved!ImprovedNext]_(Improved!improvedVars)
  <2> DEFINE O == neighbor(m)
             A == recomputedAisles(neighbor(m))
  <2>1. m \in due /\ improves(m) /\ startPass(O, A)
    BY <1>8 DEF AcceptMove
  <2>2. /\ ~constructing /\ chosenOrder = None /\ O \in SUBSET Orders
        /\ currentObj = calculateScore(mOrders, mAisles)
    BY <2>1, DueFacts
  <2>3. /\ recomputeSucceeds(O)
        /\ Exceeds(calculateScore(O, A), currentObj)
    BY <2>1 DEF improves
  <2>4. A \in SUBSET Aisles /\ checkFeasibility(O, A)
    BY <2>2, <2>3, RecomputeIsExact
  <2> HIDE DEF O, A
  <2>5. /\ constructing' = constructing /\ mAisles' = A /\ mOrders' = O /\ chosenOrder' = None
    BY <2>1, <2>2 DEF startPass, constructionVars, constructing
  <2>6. committedOrders = mOrders /\ committedOrders' = O
    BY <2>2, <2>5, NoneIsNothing, CommittedWhenIdle DEF committedOrders, IInv
  <2>7. /\ O \in SUBSET Improved!Orders /\ A \in SUBSET Improved!Aisles
        /\ Improved!checkFeasibility(O, A)
        /\ Improved!Exceeds(Improved!calculateScore(O, A),
                            Improved!calculateScore(mOrders, mAisles))
    <3>1. O \in SUBSET Improved!Orders /\ A \in SUBSET Improved!Aisles
      BY <2>2, <2>4, SameProblem
    <3>2. Improved!checkFeasibility(O, A)
      BY <2>4, SameProblem
    <3>3. /\ Improved!calculateScore(O, A) = calculateScore(O, A)
          /\ Improved!calculateScore(mOrders, mAisles) = calculateScore(mOrders, mAisles)
      BY SameProblem
    <3>4. Exceeds(calculateScore(O, A), calculateScore(mOrders, mAisles))
      BY <2>2, <2>3
    <3> QED BY <3>1, <3>2, <3>3, <3>4, SameProblem
  <2>8. Improved!Improve
    BY <2>2, <2>5, <2>6, <2>7 DEF Improved!Improve
  <2> QED BY <2>8 DEF Improved!ImprovedNext
<1>9. ASSUME NEW m \in pending, RejectMove(m)
      PROVE  stutters
  BY <1>9 DEF RejectMove, constructionVars, waveState, committedOrders, constructing
<1>10. ASSUME AddsTried \/ RemovesTried \/ SwapsTried
       PROVE  stutters
  BY <1>10 DEF AddsTried, RemovesTried, SwapsTried, tryNext, constructionVars,
       waveState, committedOrders, constructing
<1>11. ASSUME UNCHANGED vars
       PROVE  stutters
  BY <1>11 DEF vars, constructionVars, waveState, committedOrders, constructing
<1> HIDE DEF stutters
<1> QED BY <1>1, <1>2, <1>3, <1>4, <1>5, <1>6, <1>7, <1>8, <1>9, <1>10, <1>11
        DEF Next, Construction, Refinement

\* Heur1 implements ImprovedWave on every instance: what it has committed to is
\* served at every moment, and the refinement only takes better feasible waves.
THEOREM Heur1Improves == Spec => ImprovedSpec
<1>1. Init => IInv
  BY InitInv
<1>2. IInv /\ [Next]_vars => IInv'
  BY NextInv
<1>3. Init => Improved!ImprovedInit
  <2>1. Init => committedOrders = {} /\ mAisles = {} /\ constructing = TRUE
    BY DEF Init, committedOrders, constructing
  <2> QED BY <2>1 DEF Improved!ImprovedInit, Improved!WaveInit
<1>4. IInv /\ [Next]_vars => [Improved!ImprovedNext]_(Improved!improvedVars)
  BY StepImproves
<1> QED BY <1>1, <1>2, <1>3, <1>4, PTL DEF Spec, ImprovedSpec, Improved!ImprovedSpec

-----------------------------------------------------------------------------
(* The wave returned is a local optimum *)

\* The moves judged so far on the wave the pass started with.
judged ==
  (addMoves(mOrders)
     \cup (IF pc \in {"remove", "swap", "done"} THEN removeMoves(mOrders) ELSE {})
     \cup (IF pc \in {"swap", "done"} THEN swapMoves(mOrders) ELSE {})) \ pending

\* None of them improves the wave: one that did would have started a new pass.
JudgedInv == ~constructing => \A m \in judged : ~ improves(m)

\* A pass starts with nothing judged.
LEMMA StartPassJudged ==
  ASSUME NEW O, NEW A, startPass(O, A)
  PROVE  JudgedInv'
<1>1. mOrders' = O /\ pending' = addMoves(O) /\ pc' = "add"
  BY DEF startPass
<1>2. judged' = addMoves(O) \ addMoves(O)
  BY <1>1 DEF judged
<1> QED BY <1>2 DEF JudgedInv

\* On a wave that stays, moves newly judged must have been rejected.
LEMMA SameWaveJudged ==
  ASSUME JudgedInv, ~constructing, UNCHANGED <<mOrders, currentObj>>,
         \A m \in judged' \ judged : ~ improves(m)
  PROVE  JudgedInv'
<1>1. \A m : improves(m)' <=> improves(m)
  BY DEF improves, neighbor
<1>2. \A m \in judged' : ~ improves(m)
  BY DEF JudgedInv
<1>3. \A m \in judged' : ~ improves(m)'
  BY <1>1, <1>2
<1> QED BY <1>3 DEF JudgedInv

\* Every step keeps the moves judged rejected.
LEMMA NextJudged ==
  ASSUME IInv, JudgedInv, [Next]_vars
  PROVE  JudgedInv'
<1> DEFINE building == \/ \E o \in Orders : ChooseOrder(o)
                       \/ \E i \in Items : StartLine(i)
                       \/ \E a \in Aisles : Take(a)
                       \/ EndLine \/ EndOrder
<1>1. CASE building
  <2>1. constructing'
    BY <1>1 DEF ChooseOrder, StartLine, Take, EndLine, EndOrder, constructing
  <2> QED BY <2>1 DEF JudgedInv
<1>2. CASE ConstructionEnds
  BY <1>2, StartPassJudged DEF ConstructionEnds
<1>3. ASSUME NEW m \in pending, AcceptMove(m)
      PROVE  JudgedInv'
  BY <1>3, StartPassJudged DEF AcceptMove
<1>4. ASSUME NEW m \in pending, RejectMove(m)
      PROVE  JudgedInv'
  <2>1. /\ ~improves(m) /\ ~constructing
        /\ pending' = pending \ {m} /\ UNCHANGED <<pc, mOrders, currentObj>>
    BY <1>4, DueFacts DEF RejectMove, waveState
  <2>2. judged' \subseteq judged \cup {m}
    BY <2>1 DEF judged
  <2> QED BY <2>1, <2>2, SameWaveJudged
<1>5. CASE AddsTried \/ RemovesTried \/ SwapsTried
  <2>1. /\ pc \in {"add", "remove", "swap"} /\ pending = {}
        /\ UNCHANGED <<mOrders, currentObj>>
        /\ pc = "add" => pc' = "remove" /\ pending' = removeMoves(mOrders)
        /\ pc = "remove" => pc' = "swap" /\ pending' = swapMoves(mOrders)
        /\ pc = "swap" => pc' = "done" /\ pending' = {}
    BY <1>5 DEF AddsTried, RemovesTried, SwapsTried, tryNext, waveState
  <2>2. judged' \subseteq judged /\ ~constructing
    BY <2>1 DEF judged, constructing
  <2> QED BY <2>1, <2>2, SameWaveJudged
<1>6. CASE UNCHANGED vars
  <2>1. UNCHANGED <<pc, mOrders, pending, currentObj>>
    BY <1>6 DEF vars, constructionVars, waveState
  <2>2. judged' = judged
    BY <2>1 DEF judged
  <2>3. CASE constructing
    BY <2>1, <2>3 DEF constructing, JudgedInv
  <2> QED BY <2>1, <2>2, <2>3, SameWaveJudged
<1> QED BY <1>1, <1>2, <1>3, <1>4, <1>5, <1>6 DEF Next, Construction, Refinement

\* The refinement returns only when no order added, removed or swapped gives a
\* better wave: the moves of a pass are all judged on the wave it ends with
\* (heuristic1.cpp:241-314).
THEOREM Heur1LocallyOptimal == Spec => []LocallyOptimal
<1>1. Init => IInv /\ JudgedInv
  BY InitInv DEF Init, JudgedInv, constructing
<1>2. IInv /\ JudgedInv /\ [Next]_vars => IInv' /\ JudgedInv'
  BY NextInv, NextJudged
<1>3. IInv /\ JudgedInv => LocallyOptimal
  <2> SUFFICES ASSUME IInv, JudgedInv, pc = "done",
                      NEW m \in addMoves(mOrders) \cup removeMoves(mOrders)
                                  \cup swapMoves(mOrders)
               PROVE  ~ improves(m) /\ currentObj = calculateScore(mOrders, mAisles)
    BY DEF LocallyOptimal, improves
  <2>1. ~constructing /\ pending = {}
    BY DEF IInv, ScoreInv, constructing
  <2>2. m \in judged
    BY <2>1 DEF judged
  <2> QED BY <2>1, <2>2 DEF JudgedInv, IInv, ScoreInv
<1> QED BY <1>1, <1>2, <1>3, PTL DEF Spec

=============================================================================
