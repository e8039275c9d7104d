--------------------------- MODULE WaveRefinement ---------------------------
(***************************************************************************)
(* The helpers of State that take several steps (caches.hpp:246-364) and   *)
(* HeurCached::refinement (heuristic2.cpp:85-176), the local search that   *)
(* every State based heuristic ends with.                                  *)
(*                                                                         *)
(* A construction module EXTENDS this one, starts at a pc of its own and   *)
(* hands over at pc "refineRepair".  Every action makes at most one of the *)
(* calls addAisle, removeAisle, addOrder, removeOrder.  The iteration      *)
(* order of an unordered_set and the random draws are nondeterministic.    *)
(***************************************************************************)
EXTENDS WaveState, Sequences, SequencesExt

CONSTANTS
  ProviderLimit,  \* the constant of `checks > 5', caches.hpp:305
  None            \* no order is being tried

ASSUME RefinementAssumption == ProviderLimit \in Nat /\ None \notin Orders

VARIABLES
  pc,             \* the point of the heuristic's code that runs next
  pick,           \* the order being tried, kept or rolled back
  todo,           \* the orders the loop of a move has still to visit
  scan,           \* `scanning' of pruneAislesToFitOrders, not yet visited
  removedAisles,  \* `mem': the aisles a drop has pruned, in order
  currentScore,   \* score at the head of the refinement loop
  queue           \* the order lines addAisleWithOrdersGreedy has yet to visit

ctlVars == <<pc, pick, todo, scan, removedAisles, currentScore, queue>>
refinementVars == <<stateVars, ctlVars>>

-----------------------------------------------------------------------------
(* Lines in the order the code visits them *)

\* The lines of every aisle, sorted once by quantity, descending; std::sort
\* leaves equal quantities in some fixed order, here that of the items.
LineBefore(a, i, j) == \/ AisleQty[a][i] > AisleQty[a][j]
                       \/ AisleQty[a][i] = AisleQty[a][j] /\ i < j

AisleLines ==
  [a \in Aisles |->
     SetToSortSeq(AisleItems(a), LAMBDA i, j : LineBefore(a, i, j))]

\* The orders that demand an item, by ascending index.
itemToOrders ==
  [i \in Items |-> SetToSortSeq({o \in Orders : OrderQty[o][i] > 0}, <)]

-----------------------------------------------------------------------------
(* addAislesToRepairSolution *)

\* Mutant of ScoredProviders: selected aisles use up the limit too.
ScoredAmongAll(i) ==
  {a \in Providers(i) \ aisleSelected :
     Cardinality({b \in Providers(i) : Before(i, b, a)}) <= ProviderLimit}

\* The unselected aisles scored for item i: the first ProviderLimit + 1 of
\* itemToAisles[i], because the limit is tested after the increment.
ScoredProviders(i) ==
  LET free == Providers(i) \ aisleSelected
  IN  {a \in free : Cardinality({b \in free : Before(i, b, a)}) <= ProviderLimit}

repairCandidates == UNION {ScoredProviders(i) : i \in deficitItems}

Useful(i, a) ==
  IF a \notin ScoredProviders(i) THEN 0
  ELSE IF AisleQty[a][i] <= -itemBalance[i] THEN AisleQty[a][i]
  ELSE -itemBalance[i]

aisleScore(a) == SumOver([i \in Items |-> Useful(i, a)], deficitItems)

\* One pass of the while loop: the best scored aisle enters, the first one of
\* equals in the iteration order of an unordered_map.
RepairPass ==
  /\ pc \in {"repair", "refineRepair"}
  /\ \E a \in repairCandidates :
       /\ \A b \in repairCandidates : aisleScore(b) <= aisleScore(a)
       /\ addAisle(a)
  /\ UNCHANGED ctlVars

\* The loop ends with success, or with -1 and the added aisles left in.
repaired == deficitItems = {}
repairFailed == deficitItems # {} /\ repairCandidates = {}

-----------------------------------------------------------------------------
(* pruneAislesToFitOrders: each visited aisle once, in any order. *)

\* Mutant of PrunePass: the pruned aisle is not remembered.
PruneForget(a) ==
  /\ pc \in {"finalPrune", "refinePrune", "dropPrune"}
  /\ a \in scan
  /\ scan' = scan \ {a}
  /\ IF canRemove(a) THEN removeAisle(a) ELSE UNCHANGED stateVars
  /\ UNCHANGED <<removedAisles, pc, pick, todo, currentScore, queue>>

PrunePass(a) ==
  /\ pc \in {"finalPrune", "refinePrune", "dropPrune"}
  /\ a \in scan
  /\ scan' = scan \ {a}
  /\ \/ /\ canRemove(a)
        /\ removeAisle(a)
        \* only the drop move uses the list the helper returns
        /\ removedAisles' = IF pc = "dropPrune" THEN Append(removedAisles, a)
                            ELSE removedAisles
     \/ /\ ~ canRemove(a)
        /\ UNCHANGED <<stateVars, removedAisles>>
  /\ UNCHANGED <<pc, pick, todo, currentScore, queue>>

-----------------------------------------------------------------------------
(* estimateNewItemsForAisle *)

\* The inner loop: the estimate after the k-th and later orders of item i,
\* with qty units of the aisle's line left.  orderQty is line.ff, the item id
\* of the aisle's line, where the order's quantity would be line2's: the item
\* id is what is compared and added.  Selected orders are counted too.
EstimateOrders(i) ==
  LET demand == itemToOrders[i]
      from[k \in Nat, est \in Nat, qty \in Int] ==
        IF k > Len(demand) THEN est
        ELSE IF /\ currentTotalUnits + est + orderTotalUnits[demand[k]] <= UB
                /\ itemBalance[i] + qty >= i
             THEN from[k + 1, est + i, qty - i]
             ELSE from[k + 1, est, qty]
  IN  from

estimateNewItemsForAisle(a) ==
  LET lines == AisleLines[a]
      from[l \in Nat, est \in Nat] ==
        IF l > Len(lines) THEN est
        ELSE from[l + 1, EstimateOrders(lines[l])
                           [1, est, AisleQty[a][lines[l]]]]
  IN  from[1, 0]

-----------------------------------------------------------------------------
(* addAisleWithOrdersGreedy: the aisle, then every order of its items that  *)
(* fits, line by line, the orders of a line by ascending index.             *)

\* <<a, i, o>>: order o is to be tried because item i of aisle a is in it.
GreedyQueue(a) ==
  {q \in {a} \X AisleItems(a) \X Orders : OrderQty[q[3]][q[2]] > 0}

FillBefore(q, r) == \/ LineBefore(q[1], q[2], r[2])
                    \/ q[2] = r[2] /\ q[3] < r[3]

nextFill(q) == q \in queue /\ \A r \in queue \ {q} : FillBefore(q, r)

startGreedy(a) == addAisle(a) /\ queue' = GreedyQueue(a)

\* Mutant of FillPass: the orders of the aisle enter without the fit test.
FillUnchecked(o) ==
  /\ pc \in {"greedyFill", "refineFill"}
  /\ \E q \in queue : nextFill(q) /\ q[3] = o /\ queue' = queue \ {q}
  /\ addOrder(o)
  /\ UNCHANGED <<pc, pick, todo, scan, removedAisles, currentScore>>

FillPass(o) ==
  /\ pc \in {"greedyFill", "refineFill"}
  /\ \E q \in queue : nextFill(q) /\ q[3] = o /\ queue' = queue \ {q}
  /\ \/ o \notin orderSelected /\ canFitOrder(o) /\ addOrder(o)
     \/ (o \in orderSelected \/ ~ canFitOrder(o)) /\ UNCHANGED stateVars
  /\ UNCHANGED <<pc, pick, todo, scan, removedAisles, currentScore>>

-----------------------------------------------------------------------------
(* HeurCached::refinement *)

\* Mutant of RefineRepaired: the scan copies the wrong solution set.
RefineScanOrders ==
  /\ pc = "refineRepair"
  /\ repaired \/ repairFailed
  /\ pc' = "refinePrune"
  /\ scan' = orderSolution
  /\ UNCHANGED <<stateVars, pick, todo, removedAisles, currentScore, queue>>

\* The result of the first repair is ignored.
RefineRepaired ==
  /\ pc = "refineRepair"
  /\ repaired \/ repairFailed
  /\ pc' = "refinePrune"
  /\ scan' = aisleSolution
  /\ UNCHANGED <<stateVars, pick, todo, removedAisles, currentScore, queue>>

RefinePruned ==
  /\ pc = "refinePrune" /\ scan = {}
  /\ pc' = "iterate"
  /\ UNCHANGED <<stateVars, pick, todo, scan, removedAisles, currentScore, queue>>

\* The head of the while (improved) loop.
Iterate ==
  /\ pc = "iterate"
  /\ currentScore' = stateScore
  /\ todo' = Orders \ orderSelected
  /\ pc' = "add"
  /\ UNCHANGED <<stateVars, pick, scan, removedAisles, queue>>

\* ADD: the unselected orders in ascending order.
isNext(u) == u \in todo /\ \A v \in todo : u <= v

AddTry(u) ==
  /\ pc = "add" /\ isNext(u)
  /\ canFitOrder(u)
  /\ addOrder(u)
  /\ pick' = u
  /\ todo' = todo \ {u}
  /\ pc' = "added"
  /\ UNCHANGED <<scan, removedAisles, currentScore, queue>>

AddSkip(u) ==
  /\ pc = "add" /\ isNext(u)
  /\ ~ canFitOrder(u)
  /\ todo' = todo \ {u}
  /\ UNCHANGED <<stateVars, pc, pick, scan, removedAisles, currentScore, queue>>

addImproves == isFeasible /\ Exceeds(stateScore, currentScore)

AddKeep ==
  /\ pc = "added" /\ addImproves
  /\ pc' = "iterate"
  /\ pick' = None
  /\ todo' = {}
  /\ UNCHANGED <<stateVars, scan, removedAisles, currentScore, queue>>

AddUndo ==
  /\ pc = "added" /\ ~ addImproves
  /\ removeOrder(pick)
  /\ pc' = "add"
  /\ pick' = None
  /\ UNCHANGED <<todo, scan, removedAisles, currentScore, queue>>

AddExhausted ==
  /\ pc = "add" /\ todo = {}
  /\ pc' = "drop"
  /\ todo' = orderSolution
  /\ UNCHANGED <<stateVars, pick, scan, removedAisles, currentScore, queue>>

\* DROP & REPAIR: over a copy of the selected orders, in any order.
DropTry(o) ==
  /\ pc = "drop" /\ o \in todo
  /\ removeOrder(o)
  /\ pick' = o
  /\ todo' = todo \ {o}
  /\ scan' = aisleSolution
  /\ pc' = "dropPrune"
  /\ UNCHANGED <<removedAisles, currentScore, queue>>

\* The move is kept, or the order goes back in and the aisles follow.
DropJudge ==
  /\ pc = "dropPrune" /\ scan = {}
  /\ IF Exceeds(stateScore, currentScore) /\ currentTotalUnits >= LB
     THEN /\ pc' = "iterate"
          /\ pick' = None /\ todo' = {} /\ removedAisles' = <<>>
          /\ UNCHANGED stateVars
     ELSE /\ addOrder(pick)
          /\ pc' = "restore"
          /\ UNCHANGED <<pick, todo, removedAisles>>
  /\ UNCHANGED <<scan, currentScore, queue>>

RestoreAisle ==
  /\ pc = "restore" /\ removedAisles # <<>>
  /\ addAisle(Head(removedAisles))
  /\ removedAisles' = Tail(removedAisles)
  /\ UNCHANGED <<pc, pick, todo, scan, currentScore, queue>>

Restored ==
  /\ pc = "restore" /\ removedAisles = <<>>
  /\ pc' = "drop"
  /\ pick' = None
  /\ UNCHANGED <<stateVars, todo, scan, removedAisles, currentScore, queue>>

DropExhausted ==
  /\ pc = "drop" /\ todo = {}
  /\ pc' = "addAisle"
  /\ UNCHANGED <<stateVars, pick, todo, scan, removedAisles, currentScore, queue>>

\* Add an aisle.  Of the 16 drawn aisles the loop evaluates only the first,
\* so bestAisle is one random aisle, selected ones included.
aisleImproves(a) ==
  Exceeds(<<currentTotalUnits + estimateNewItemsForAisle(a), AisleCount + 1>>,
          currentScore)

AisleTry(a) ==
  /\ pc = "addAisle"
  /\ aisleImproves(a)
  /\ startGreedy(a)
  /\ pc' = "refineFill"
  /\ UNCHANGED <<pick, todo, scan, removedAisles, currentScore>>

\* No move improved: the loop ends.
RefinementEnds ==
  /\ pc = "addAisle"
  /\ Aisles = {} \/ \E a \in Aisles : ~ aisleImproves(a)
  /\ pc' = "done"
  /\ UNCHANGED <<stateVars, pick, todo, scan, removedAisles, currentScore, queue>>

\* improved = true, whatever the aisle brought.
RefineFilled ==
  /\ pc = "refineFill" /\ queue = {}
  /\ pc' = "iterate"
  /\ UNCHANGED <<stateVars, pick, todo, scan, removedAisles, currentScore, queue>>

RefinementInit ==
  /\ StateInit
  /\ pick = None
  /\ todo = {} /\ scan = {}
  /\ removedAisles = <<>> /\ queue = {}
  /\ currentScore = <<0, AisleCount>>

RefinementNext ==
  \/ RepairPass
  \/ \E a \in Aisles : PrunePass(a) \/ AisleTry(a)
  \/ RefineRepaired \/ RefinePruned \/ Iterate
  \/ \E u \in Orders : FillPass(u) \/ AddTry(u) \/ AddSkip(u) \/ DropTry(u)
  \/ AddKeep \/ AddUndo \/ AddExhausted
  \/ DropJudge \/ RestoreAisle \/ Restored \/ DropExhausted
  \/ RefineFilled \/ RefinementEnds

=============================================================================
