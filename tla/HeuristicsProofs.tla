-------------------------- MODULE HeuristicsProofs --------------------------
(***************************************************************************)
(* The State based heuristics keep what they promise, for every instance:  *)
(* every value has its type and the cache describes the solution, nothing  *)
(* is in deficit where the code takes that for granted, pruning leaves no  *)
(* redundant aisle, a repair gives up only on the impossible, no free fill *)
(* is left at the end, and the wave decided on moves as CommittedWave      *)
(* allows.                                                                 *)
(*                                                                         *)
(* The inductive invariant speaks of two waves: the one in State, which    *)
(* the helpers edit, and the committed one, which the heuristic falls back *)
(* to when a try fails.                                                    *)
(***************************************************************************)
EXTENDS Heuristics, WaveStateProofs

Pruning == {"finalPrune", "refinePrune", "dropPrune"}

\* The points of one iteration of the refinement's loop.
Iterating == {"add", "added", "drop", "dropPrune", "restore", "addAisle"}

\* The order being tried is in the solution; the one being dropped is not.
PickInv ==
  /\ pc \in {"repair", "added"} => pick \in orderSolution
  /\ pc = "dropPrune" => pick \in Orders \ orderSolution

\* No candidate order is in the wave yet, but for the one being tried.  Only
\* Heur4 has aisles for candidates.
PoolInv ==
  /\ pc = "greedyFill" => heuristic = "Heur4"
  /\ pc = "construct" /\ heuristic # "Heur4" => candidates \cap orderSolution = {}
  /\ pc = "repair" => /\ heuristic # "Heur4"
                      /\ candidates \cap orderSolution \subseteq {pick}

\* The loops visit what their names say, and only a drop owes aisles.
LoopInv ==
  /\ pc \in {"add", "added"} => todo \cap orderSolution = {}
  /\ pc \in {"drop", "dropPrune", "restore"} => todo \subseteq orderSolution
  /\ pc \in Pruning => scan \subseteq aisleSolution
  /\ pc \notin {"dropPrune", "restore"} => removedAisles = <<>>

\* The wave to fall back to can be served, and so can the one in State unless
\* a repair or a restore is at work on it.
ServedInv ==
  /\ Covered(committedOrders, committedAisles)
  /\ getTotalUnits(committedOrders) <= UB /\ getTotalUnits(orderSolution) <= UB
  /\ pc \notin {"repair", "restore"} => Covered(orderSolution, aisleSolution)

\* The moves are judged against the units of the wave they started from.
UnitsAtHead ==
  pc \in Iterating => currentScore[1] = getTotalUnits(committedOrders)

FreeFill(o) ==
  /\ orderTotalUnits[o] > 0
  /\ checkFeasibility(committedOrders \cup {o}, committedAisles)

\* The orders the ADD loop has passed are no free fills, and stay so until
\* something is added to the wave.
NoFillPassed ==
  /\ pc \in {"add", "added"} =>
       \A o \in Orders \ (orderSolution \cup todo) : ~ FreeFill(o)
  /\ pc \in {"drop", "dropPrune", "restore", "addAisle", "done"} =>
       \A o \in Orders \ committedOrders : ~ FreeFill(o)

IInv ==
  /\ TypeOK /\ StateInv
  /\ PickInv /\ PoolInv /\ LoopInv
  /\ ServedInv /\ UnitsAtHead /\ NoFillPassed
  /\ PruneLeavesNoRedundantAisle

-----------------------------------------------------------------------------
(* What the invariant says of a state *)

\* The cache describes the solution, and its tests are exact.
LEMMA CacheIsExact ==
  ASSUME IInv
  PROVE  /\ StateIInv
         /\ orderSolution \in SUBSET Orders /\ aisleSolution \in SUBSET Aisles
         /\ aisleSelected = aisleSolution /\ orderSelected = orderSolution
         /\ currentTotalUnits = getTotalUnits(orderSolution)
         /\ deficitItems = {} <=> Covered(orderSolution, aisleSolution)
         /\ isFeasible <=> checkFeasibility(orderSolution, aisleSolution)
         /\ Covered(orderSolution, aisleSolution) =>
              /\ \A o \in Orders \ orderSolution :
                   canFitOrder(o) <=>
                     /\ Covered(orderSolution \cup {o}, aisleSolution)
                     /\ getTotalUnits(orderSolution \cup {o}) <= UB
              /\ \A a \in aisleSolution :
                   canRemove(a) <=> Covered(orderSolution, aisleSolution \ {a})
<1>1. StateIInv
  BY DEF IInv, TypeOK, StateIInv
<1>2. deficitItems = {} <=> Covered(orderSolution, aisleSolution)
  BY <1>1, NoDeficitIsCovered
<1>3. CanFitIsExact /\ CanRemoveIsExact /\ FastFeasibilityAgrees
  BY <1>1, FitTestIsExact, PruneTestIsExact, FastTestIsFull
<1> QED BY <1>1, <1>2, <1>3 DEF StateIInv, StateTypeOK, StateInv, MirrorInv,
        UnitsInv, CanFitIsExact, CanRemoveIsExact, FastFeasibilityAgrees

\* The committed orders at each point, now and after a step.
LEMMA CommittedOrders ==
  /\ pc \in {"repair", "added"} => committedOrders = orderSolution \ {pick}
  /\ pc = "dropPrune" => committedOrders = orderSolution \cup {pick}
  /\ pc \notin {"repair", "added", "dropPrune"} => committedOrders = orderSolution
  /\ pc' \in {"repair", "added"} => committedOrders' = orderSolution' \ {pick'}
  /\ pc' = "dropPrune" => committedOrders' = orderSolution' \cup {pick'}
  /\ pc' \notin {"repair", "added", "dropPrune"} => committedOrders' = orderSolution'
BY DEF committedOrders

\* The points where the solution in State is the committed wave.
LEMMA CommittedIsSolution ==
  ASSUME IInv, pc \notin {"repair", "added", "dropPrune", "restore"}
  PROVE  /\ committedOrders = orderSolution /\ committedAisles = aisleSolution
         /\ Covered(orderSolution, aisleSolution)
         /\ getTotalUnits(orderSolution) <= UB
         /\ removedAisles = <<>>
         /\ deficitItems = {}
<1>1. removedAisles = <<>>
  BY DEF IInv, LoopInv
<1>2. ToSet(removedAisles) = {}
  BY <1>1 DEF ToSet
<1> QED BY <1>1, <1>2, CacheIsExact DEF IInv, ServedInv, committedOrders, committedAisles

-----------------------------------------------------------------------------
(* Every action keeps the invariant *)

\* What a step may do to the committed wave: leave it, take one order into it,
\* visit one more aisle, or leave one aisle.
WaveStays == UNCHANGED <<committedOrders, committedAisles>>

WaveTakes ==
  /\ \E o \in Orders \ committedOrders : committedOrders' = committedOrders \cup {o}
  /\ UNCHANGED committedAisles

WaveVisits ==
  /\ \E a \in Aisles : committedAisles' = committedAisles \cup {a}
  /\ UNCHANGED committedOrders

WaveLeaves ==
  /\ \E a \in committedAisles : committedAisles' = committedAisles \ {a}
  /\ UNCHANGED committedOrders

\* The points where the wave in State is one that is being tried.
Trying == {"repair", "added", "dropPrune", "restore"}

\* The steps that only move on to the next point or drop a candidate.
MovesOn ==
  \/ /\ \/ RefineRepaired \/ RefinePruned \/ Iterate \/ AddExhausted
        \/ DropExhausted \/ RefineFilled \/ RefinementEnds
     /\ UNCHANGED constructionVars
  \/ \E o \in Orders : Heur3Discard(o)
  \/ \E a \in Aisles : Heur4Discard(a)
  \/ CachedEnds \/ Heur3Ends \/ Heur4Ends \/ FinalPruned \/ Heur4Filled

\* They keep the invariant: the wave is the same, in State and committed.
LEMMA MovesOnInv ==
  ASSUME IInv, MovesOn
  PROVE  IInv' /\ WaveStays
<1> USE DEF MovesOn, RefineRepaired, RefinePruned, Iterate, AddExhausted,
        DropExhausted, RefineFilled, RefinementEnds, Heur3Discard, Heur4Discard,
        CachedEnds, Heur3Ends, Heur4Ends, FinalPruned, Heur4Filled,
        startFinalPrune, startRefinement, constructionVars, refinementVars,
        ctlVars, stateVars, aisleVars, orderVars
<1>1. /\ UNCHANGED <<stateVars, pick, removedAisles, heuristic>>
      /\ candidates' \subseteq candidates
      /\ pc \notin Trying /\ pc' \notin Trying
  BY DEF Trying
<1>2. StateIInv'
  BY <1>1, CacheIsExact, StateStutter
<1>3. TypeOK'
  BY <1>1, <1>2, CacheIsExact DEF IInv, TypeOK, StateIInv, StateTypeOK, PCs, stateScore
<1>4. /\ committedOrders' = committedOrders /\ committedAisles' = committedAisles
      /\ committedOrders = orderSolution
  BY <1>1, CommittedOrders DEF committedAisles, Trying
<1>5. PickInv' /\ PoolInv'
  BY <1>1 DEF IInv, PickInv, PoolInv, Trying
<1>6. LoopInv'
  BY <1>1, CacheIsExact DEF IInv, LoopInv, Pruning, Trying
<1>7. ServedInv' /\ PruneLeavesNoRedundantAisle'
  BY <1>1, <1>4 DEF IInv, ServedInv, PruneLeavesNoRedundantAisle, Pruning, Trying
<1>8. UnitsAtHead'
  BY <1>1, <1>4, CacheIsExact DEF IInv, UnitsAtHead, Iterating, stateScore
<1>9. NoFillPassed'
  BY <1>1, <1>4, CacheIsExact DEF IInv, NoFillPassed, FreeFill, TypeOK
<1> QED BY <1>2, <1>3, <1>5, <1>6, <1>7, <1>8, <1>9, <1>4 DEF IInv, StateIInv, WaveStays

\* The committed wave is a wave.
LEMMA CommittedType ==
  ASSUME IInv
  PROVE  committedOrders \in SUBSET Orders /\ committedAisles \in SUBSET Aisles
<1>1. ToSet(removedAisles) \subseteq Aisles
  BY DEF ToSet, IInv, TypeOK
<1> QED BY <1>1, CacheIsExact, CommittedOrders DEF IInv, PickInv, committedAisles

\* A pass of the repair: the aisles grow under the order being tried.
LEMMA RepairPassInv ==
  ASSUME IInv, RepairPass, UNCHANGED constructionVars
  PROVE  IInv' /\ WaveVisits
<1> USE DEF RepairPass, ctlVars, constructionVars
<1>1. PICK a \in Aisles : addAisle(a) /\ deficitItems # {}
  BY DEF repairCandidates, ScoredProviders, Providers
<1>2. pc = "repair"
  BY <1>1, CommittedIsSolution
<1>3. StateIInv' /\ aisleSolution' = aisleSolution \cup {a} /\ orderSolution' = orderSolution
  BY <1>1, CacheIsExact, CallsEdit, AddAisleKeeps
<1>4. TypeOK'
  BY <1>3 DEF IInv, TypeOK, StateIInv
<1>5. /\ committedOrders' = committedOrders
      /\ committedAisles' = committedAisles \cup {a}
      /\ committedAisles' \in SUBSET Aisles
  BY <1>2, <1>3, CommittedOrders, CommittedType DEF committedAisles
<1>6. PickInv' /\ PoolInv' /\ LoopInv'
  BY <1>2, <1>3 DEF IInv, PickInv, PoolInv, LoopInv, Pruning
<1>7. ServedInv'
  <2>1. Covered(committedOrders, committedAisles')
    BY <1>5, CommittedType, CoveredMonotone DEF IInv, ServedInv
  <2> QED BY <1>2, <1>3, <1>5, <2>1 DEF IInv, ServedInv
<1>8. UnitsAtHead' /\ NoFillPassed' /\ PruneLeavesNoRedundantAisle'
  BY <1>2 DEF UnitsAtHead, Iterating, NoFillPassed, PruneLeavesNoRedundantAisle
<1> QED BY <1>3, <1>4, <1>6, <1>7, <1>8, <1>5 DEF IInv, StateIInv, WaveVisits

\* The restricted candidate list has candidates only.
LEMMA RestrictedAreScored ==
  ASSUME NEW S, NEW score, DOMAIN score = S
  PROVE  Restricted(score) \subseteq S
BY DEF Restricted

\* An order is only tried if it is a candidate that fits UB.
LEMMA PickFacts ==
  ASSUME NEW o \in Orders, CachedPick(o) \/ Heur3Pick(o)
  PROVE  /\ o \in candidates /\ fitsUB(o)
         /\ pc = "construct" /\ heuristic # "Heur4" /\ tryOrder(o)
<1>1. CASE CachedPick(o)
  <2>1. o \in cachedRcl
    BY <1>1, RestrictedAreScored DEF CachedPick
  <2> QED BY <1>1, <2>1 DEF CachedPick, cachedRcl
<1>2. CASE Heur3Pick(o)
  <2>1. PICK S \in Samples : o \in rclOf(S)
    BY <1>2 DEF Heur3Pick
  <2>2. o \in validOrders(S)
    BY <2>1, RestrictedAreScored DEF rclOf
  <2> QED BY <1>2, <2>1, <2>2 DEF Heur3Pick, validOrders, Samples
<1> QED BY <1>1, <1>2

\* The order being tried is not in the wave to fall back to.
LEMMA TryOrderInv ==
  ASSUME IInv, NEW o \in Orders, CachedPick(o) \/ Heur3Pick(o)
  PROVE  IInv' /\ WaveStays
<1>1. /\ o \in candidates /\ fitsUB(o)
      /\ pc = "construct" /\ heuristic # "Heur4" /\ tryOrder(o)
  BY PickFacts
<1> USE <1>1 DEF tryOrder, constructionVars
<1>2. /\ StateIInv' /\ orderSolution' = orderSolution \cup {o}
      /\ aisleSolution' = aisleSolution /\ o \notin orderSolution
  BY CacheIsExact, CallsEdit, AddOrderKeeps DEF IInv, PoolInv
<1>3. TypeOK'
  BY <1>2 DEF IInv, TypeOK, StateIInv, PCs
<1>4. /\ committedOrders = orderSolution /\ committedOrders' = orderSolution
      /\ committedAisles' = committedAisles
  BY <1>2, CommittedOrders DEF committedAisles
<1>5. PickInv' /\ PoolInv' /\ LoopInv'
  BY <1>2 DEF IInv, PickInv, PoolInv, LoopInv, Pruning
<1>6. getTotalUnits(orderSolution') <= UB
  BY <1>2, CacheIsExact, TotalStep DEF fitsUB
<1>7. ServedInv'
  BY <1>4, <1>6 DEF IInv, ServedInv
<1>8. UnitsAtHead' /\ NoFillPassed' /\ PruneLeavesNoRedundantAisle'
  BY DEF UnitsAtHead, Iterating, NoFillPassed, PruneLeavesNoRedundantAisle
<1> QED BY <1>2, <1>3, <1>5, <1>7, <1>8, <1>4 DEF IInv, StateIInv, WaveStays

\* The order is kept with its aisles, or taken out again; both ways the wave
\* is served and no candidate of it is left in the pool.
LEMMA LeaveTryInv ==
  ASSUME IInv, KeepOrder \/ RollbackOrder
  PROVE  IInv' /\ (WaveStays \/ WaveTakes)
<1> USE DEF KeepOrder, RollbackOrder, leaveTry, constructionVars
<1>1. /\ pc = "repair" /\ leaveTry /\ pick \in orderSolution /\ pick \in Orders
      /\ removedAisles = <<>> /\ ToSet(removedAisles) = {}
  BY CacheIsExact DEF IInv, PickInv, LoopInv, ToSet
<1>2. /\ StateIInv' /\ aisleSolution' = aisleSolution
      /\ orderSolution' \in {orderSolution, orderSolution \ {pick}}
      /\ Covered(orderSolution', aisleSolution)
      /\ getTotalUnits(orderSolution') <= UB
  <2>1. CASE KeepOrder
    <3>1. Covered(orderSolution, aisleSolution)
      BY <2>1, CacheIsExact DEF repaired
    <3> QED BY <2>1, <3>1, CacheIsExact, StateStutter
            DEF IInv, ServedInv, stateVars, aisleVars, orderVars
  <2>2. CASE RollbackOrder
    <3>1. StateIInv' /\ aisleSolution' = aisleSolution
          /\ orderSolution' = orderSolution \ {pick}
      BY <1>1, <2>2, CacheIsExact, CallsEdit, RemoveOrderKeeps
    <3>2. committedOrders = orderSolution \ {pick} /\ committedAisles = aisleSolution
      BY <1>1, CommittedOrders DEF committedAisles
    <3> QED BY <3>1, <3>2 DEF IInv, ServedInv
  <2> QED BY <2>1, <2>2
<1>3. TypeOK'
  BY <1>1, <1>2 DEF IInv, TypeOK, StateIInv, PCs
<1>4. committedOrders' = orderSolution' /\ committedAisles' = aisleSolution
  BY <1>1, <1>2, CommittedOrders DEF committedAisles
<1>5. PickInv' /\ PoolInv' /\ LoopInv'
  BY <1>1, <1>2 DEF IInv, PickInv, PoolInv, LoopInv, Pruning
<1>6. ServedInv'
  BY <1>2, <1>4 DEF ServedInv
<1>7. UnitsAtHead' /\ NoFillPassed' /\ PruneLeavesNoRedundantAisle'
  BY <1>1 DEF UnitsAtHead, Iterating, NoFillPassed, PruneLeavesNoRedundantAisle
<1>8. committedOrders = orderSolution \ {pick} /\ committedAisles = aisleSolution
  BY <1>1, CommittedOrders DEF committedAisles
<1>9. WaveStays \/ WaveTakes
  BY <1>1, <1>2, <1>4, <1>8 DEF WaveStays, WaveTakes
<1> QED BY <1>2, <1>3, <1>5, <1>6, <1>7, <1>9 DEF IInv, StateIInv

\* A list with one element more.
LEMMA ToSetAppend ==
  ASSUME NEW S, NEW s \in Seq(S), NEW x \in S
  PROVE  Append(s, x) \in Seq(S) /\ ToSet(Append(s, x)) = ToSet(s) \cup {x}
<1>1. /\ DOMAIN Append(s, x) = DOMAIN s \cup {Len(s) + 1}
      /\ \A k \in DOMAIN s : Append(s, x)[k] = s[k]
      /\ Append(s, x)[Len(s) + 1] = x
  OBVIOUS
<1>2. \A y : y \in ToSet(Append(s, x)) <=> y \in ToSet(s) \/ y = x
  BY <1>1 DEF ToSet
<1> QED BY <1>2

\* A list is its head and its tail.
LEMMA ToSetHeadTail ==
  ASSUME NEW S, NEW s \in Seq(S), s # <<>>
  PROVE  /\ Head(s) \in S /\ Tail(s) \in Seq(S)
         /\ ToSet(s) = {Head(s)} \cup ToSet(Tail(s))
<1>1. /\ Head(s) \in S /\ Tail(s) \in Seq(S) /\ Len(s) \in Nat \ {0}
      /\ Len(Tail(s)) = Len(s) - 1
      /\ Head(s) = s[1]
      /\ \A k \in 1 .. Len(s) - 1 : Tail(s)[k] = s[k + 1]
  OBVIOUS
<1>2. ASSUME NEW y \in ToSet(s)
      PROVE  y = Head(s) \/ y \in ToSet(Tail(s))
  <2>1. PICK k \in 1 .. Len(s) : y = s[k]
    BY DEF ToSet
  <2>2. CASE k = 1
    BY <1>1, <2>1, <2>2
  <2>3. CASE k # 1
    <3>1. k - 1 \in 1 .. Len(s) - 1 /\ Tail(s)[k - 1] = s[k]
      BY <1>1, <2>3
    <3>2. k - 1 \in DOMAIN Tail(s)
      BY <1>1, <3>1
    <3> QED BY <2>1, <3>1, <3>2 DEF ToSet
  <2> QED BY <2>2, <2>3
<1>3. ASSUME NEW y \in ToSet(Tail(s))
      PROVE  y \in ToSet(s)
  <2>1. PICK k \in 1 .. Len(s) - 1 : y = Tail(s)[k]
    BY <1>1 DEF ToSet
  <2>2. k + 1 \in DOMAIN s /\ y = s[k + 1]
    BY <1>1, <2>1
  <2> QED BY <2>2 DEF ToSet
<1>4. Head(s) \in ToSet(s)
  BY <1>1 DEF ToSet
<1> QED BY <1>1, <1>2, <1>3, <1>4

\* One aisle is judged: it leaves only if the orders do not need it, and an
\* aisle that was needed before it left is needed still.
LEMMA PrunePassInv ==
  ASSUME IInv, NEW a \in Aisles, PrunePass(a), UNCHANGED constructionVars
  PROVE  IInv' /\ (WaveStays \/ WaveLeaves)
<1> USE DEF PrunePass, constructionVars
<1>1. /\ pc \in Pruning /\ a \in scan /\ scan \subseteq aisleSolution
      /\ Covered(orderSolution, aisleSolution)
      /\ canRemove(a) <=> Covered(orderSolution, aisleSolution \ {a})
      /\ \A b \in aisleSolution \ scan :
           ~ Covered(orderSolution, aisleSolution \ {b})
  BY CacheIsExact
     DEF IInv, LoopInv, ServedInv, PruneLeavesNoRedundantAisle, Pruning
<1>2. /\ StateIInv' /\ orderSolution' = orderSolution
      /\ IF Covered(orderSolution, aisleSolution \ {a})
         THEN aisleSolution' = aisleSolution \ {a}
         ELSE aisleSolution' = aisleSolution
      /\ Covered(orderSolution, aisleSolution')
  <2>1. CASE canRemove(a)
    BY <1>1, <2>1, CacheIsExact, CallsEdit, RemoveAisleKeeps
  <2>2. CASE ~ canRemove(a)
    BY <1>1, <2>2, CacheIsExact, StateStutter DEF stateVars, aisleVars, orderVars
  <2> QED BY <2>1, <2>2
<1>3. removedAisles' \in Seq(Aisles)
  BY ToSetAppend DEF IInv, TypeOK
<1>4. TypeOK'
  BY <1>2, <1>3 DEF IInv, TypeOK, StateIInv
<1>5. committedOrders' = committedOrders
  BY <1>1, <1>2, CommittedOrders DEF Pruning
<1>6. ASSUME pc = "dropPrune"
      PROVE  ServedInv' /\ NoFillPassed' /\ UnitsAtHead' /\ WaveStays
  <2>1. committedAisles' = committedAisles
    <3>1. CASE canRemove(a)
      <4>1. removedAisles' = Append(removedAisles, a)
        BY <1>6, <3>1
      <4>2. ToSet(removedAisles') = ToSet(removedAisles) \cup {a}
        BY <4>1, ToSetAppend DEF IInv, TypeOK
      <4> QED BY <1>1, <1>2, <3>1, <4>2 DEF committedAisles
    <3>2. CASE ~ canRemove(a)
      BY <1>1, <1>2, <3>2 DEF committedAisles
    <3> QED BY <3>1, <3>2
  <2>2. ServedInv'
    BY <1>1, <1>2, <1>5, <2>1 DEF IInv, ServedInv
  <2>3. NoFillPassed' /\ UnitsAtHead'
    BY <1>5, <1>6, <2>1 DEF IInv, NoFillPassed, FreeFill, UnitsAtHead
  <2> QED BY <1>5, <2>1, <2>2, <2>3 DEF WaveStays
<1>7. ASSUME pc # "dropPrune"
      PROVE  /\ ServedInv' /\ NoFillPassed' /\ UnitsAtHead'
             /\ WaveStays \/ WaveLeaves
  <2>1. removedAisles' = <<>> /\ committedOrders' = orderSolution
    BY <1>1, <1>2, <1>7, CommittedOrders DEF IInv, LoopInv, Pruning
  <2>2. committedAisles' = aisleSolution'
    BY <2>1 DEF committedAisles, ToSet
  <2>3. ServedInv'
    BY <1>1, <1>2, <1>5, <2>1, <2>2 DEF IInv, ServedInv
  <2>4. NoFillPassed' /\ UnitsAtHead'
    BY <1>1, <1>7 DEF NoFillPassed, UnitsAtHead, Pruning, Iterating
  <2>5. committedAisles = aisleSolution
    BY <1>1, <1>7 DEF IInv, LoopInv, committedAisles, ToSet, Pruning
  <2>6. WaveStays \/ WaveLeaves
    BY <1>1, <1>2, <1>5, <2>2, <2>5 DEF WaveStays, WaveLeaves
  <2> QED BY <2>3, <2>4, <2>6
<1>8. PickInv' /\ PoolInv' /\ LoopInv'
  BY <1>1, <1>2 DEF IInv, PickInv, PoolInv, LoopInv, Pruning
<1>9. PruneLeavesNoRedundantAisle'
  <2>1. ASSUME NEW b \in aisleSolution' \ scan'
        PROVE  ~ Covered(orderSolution, aisleSolution' \ {b})
    <3>1. CASE b = a
      BY <1>2, <3>1
    <3>2. CASE b # a
      <4>1. ~ Covered(orderSolution, aisleSolution \ {b})
        BY <1>1, <1>2, <3>2
      <4>2. aisleSolution \ {b} \in SUBSET Aisles
            /\ aisleSolution' \ {b} \in SUBSET (aisleSolution \ {b})
        BY <1>2, CacheIsExact
      <4> QED BY <4>1, <4>2, CacheIsExact, CoveredMonotone
    <3> QED BY <3>1, <3>2
  <2> QED BY <1>2, <2>1 DEF PruneLeavesNoRedundantAisle
<1> QED BY <1>2, <1>4, <1>6, <1>7, <1>8, <1>9 DEF IInv, StateIInv

\* An aisle enters to be filled.
LEMMA FillStartInv ==
  ASSUME IInv, NEW a \in Aisles,
         Heur4Pick(a) \/ (AisleTry(a) /\ UNCHANGED constructionVars)
  PROVE  IInv' /\ WaveVisits
<1> USE DEF Heur4Pick, AisleTry, startGreedy, constructionVars
<1>1. /\ pc \notin Trying /\ pc' \in {"greedyFill", "refineFill"}
      /\ pc' = "greedyFill" => heuristic = "Heur4"
      /\ candidates' \subseteq candidates /\ heuristic' = heuristic
      /\ queue' = GreedyQueue(a)
      /\ UNCHANGED <<pick, todo, scan, removedAisles, currentScore>>
  BY DEF Trying
<1>2. /\ StateIInv' /\ aisleSolution' = aisleSolution \cup {a}
      /\ orderSolution' = orderSolution
  BY CacheIsExact, CallsEdit, AddAisleKeeps
<1>3. queue' \subseteq Aisles \X Items \X Orders
  BY <1>1 DEF GreedyQueue, AisleItems
<1>4. TypeOK'
  BY <1>1, <1>2, <1>3 DEF IInv, TypeOK, StateIInv, PCs
<1>5. /\ Covered(orderSolution', aisleSolution') /\ getTotalUnits(orderSolution') <= UB
      /\ committedOrders' = orderSolution' /\ committedAisles' = aisleSolution'
      /\ removedAisles' = <<>>
  <2>1. /\ Covered(orderSolution, aisleSolution) /\ getTotalUnits(orderSolution) <= UB
        /\ removedAisles = <<>>
    BY <1>1, CommittedIsSolution DEF Trying
  <2>2. Covered(orderSolution, aisleSolution')
    BY <1>2, <2>1, CacheIsExact, CoveredMonotone
  <2>3. ToSet(removedAisles') = {}
    BY <1>1, <2>1 DEF ToSet
  <2> QED BY <1>1, <1>2, <2>1, <2>2, <2>3, CommittedOrders DEF committedAisles
<1>6. PickInv' /\ PoolInv' /\ LoopInv'
  BY <1>1, <1>5 DEF PickInv, PoolInv, LoopInv, Pruning
<1>7. ServedInv'
  BY <1>5 DEF ServedInv
<1>8. UnitsAtHead' /\ NoFillPassed' /\ PruneLeavesNoRedundantAisle'
  BY <1>1 DEF UnitsAtHead, Iterating, NoFillPassed, PruneLeavesNoRedundantAisle
<1>9. committedOrders = orderSolution /\ committedAisles = aisleSolution
  BY <1>1, CommittedIsSolution DEF Trying
<1> QED BY <1>2, <1>4, <1>5, <1>6, <1>7, <1>8, <1>9 DEF IInv, StateIInv, WaveVisits

\* An order enters only if all it needs is there.
LEMMA FillPassInv ==
  ASSUME IInv, NEW o \in Orders, FillPass(o), UNCHANGED constructionVars
  PROVE  IInv' /\ (WaveStays \/ WaveTakes)
<1> USE DEF FillPass, constructionVars
<1>1. /\ pc \in {"greedyFill", "refineFill"} /\ queue' \subseteq queue
      /\ UNCHANGED <<pc, pick, todo, scan, removedAisles, currentScore>>
  OBVIOUS
<1>2. /\ Covered(orderSolution, aisleSolution) /\ getTotalUnits(orderSolution) <= UB
      /\ removedAisles = <<>>
  BY <1>1, CommittedIsSolution
<1>3. /\ StateIInv' /\ aisleSolution' = aisleSolution
      /\ Covered(orderSolution', aisleSolution) /\ getTotalUnits(orderSolution') <= UB
      /\ \/ orderSolution' = orderSolution
         \/ o \notin orderSolution /\ orderSolution' = orderSolution \cup {o}
  <2>1. CASE o \notin orderSelected /\ canFitOrder(o) /\ addOrder(o)
    BY <1>2, <2>1, CacheIsExact, CallsEdit, AddOrderKeeps
  <2>2. CASE UNCHANGED stateVars
    BY <1>2, <2>2, CacheIsExact, StateStutter DEF stateVars, aisleVars, orderVars
  <2> QED BY <2>1, <2>2
<1>4. TypeOK'
  BY <1>1, <1>3 DEF IInv, TypeOK, StateIInv
<1>5. committedOrders' = orderSolution' /\ committedAisles' = aisleSolution'
  BY <1>1, <1>2, CommittedOrders DEF committedAisles, ToSet
<1>6. PickInv' /\ PoolInv' /\ LoopInv'
  BY <1>1, <1>2 DEF IInv, PickInv, PoolInv, LoopInv, Pruning
<1>7. ServedInv'
  BY <1>3, <1>5 DEF ServedInv
<1>8. UnitsAtHead' /\ NoFillPassed' /\ PruneLeavesNoRedundantAisle'
  BY <1>1 DEF UnitsAtHead, Iterating, NoFillPassed, PruneLeavesNoRedundantAisle
<1>9. committedOrders = orderSolution /\ committedAisles = aisleSolution
  BY <1>1, CommittedIsSolution
<1>10. WaveStays \/ WaveTakes
  BY <1>3, <1>5, <1>9 DEF WaveStays, WaveTakes
<1> QED BY <1>3, <1>4, <1>6, <1>7, <1>8, <1>10 DEF IInv, StateIInv

\* ADD tries an order that fits.
LEMMA AddTryInv ==
  ASSUME IInv, NEW u \in Orders, AddTry(u), UNCHANGED constructionVars
  PROVE  IInv' /\ WaveStays
<1> USE DEF AddTry, isNext, constructionVars
<1>1. /\ Covered(orderSolution, aisleSolution) /\ removedAisles = <<>>
      /\ committedOrders = orderSolution /\ committedAisles = aisleSolution
      /\ u \in todo /\ u \notin orderSolution
  BY CommittedIsSolution DEF IInv, LoopInv
<1>2. /\ StateIInv' /\ orderSolution' = orderSolution \cup {u}
      /\ aisleSolution' = aisleSolution
      /\ Covered(orderSolution', aisleSolution) /\ getTotalUnits(orderSolution') <= UB
  BY <1>1, CacheIsExact, CallsEdit, AddOrderKeeps
<1>3. TypeOK'
  BY <1>2 DEF IInv, TypeOK, StateIInv, PCs
<1>4. committedOrders' = committedOrders /\ committedAisles' = committedAisles
  BY <1>1, <1>2, CommittedOrders DEF committedAisles
<1>5. PickInv' /\ PoolInv' /\ LoopInv'
  BY <1>1, <1>2 DEF IInv, PickInv, PoolInv, LoopInv, Pruning
<1>6. ServedInv'
  BY <1>1, <1>2, <1>4 DEF IInv, ServedInv
<1>7. UnitsAtHead' /\ NoFillPassed'
  BY <1>1, <1>2, <1>4 DEF IInv, UnitsAtHead, Iterating, NoFillPassed, FreeFill
<1>8. PruneLeavesNoRedundantAisle'
  BY DEF PruneLeavesNoRedundantAisle
<1> QED BY <1>2, <1>3, <1>5, <1>6, <1>7, <1>8, <1>4 DEF IInv, StateIInv, WaveStays

\* An order that ADD skips is no free fill.
LEMMA AddSkipInv ==
  ASSUME IInv, NEW u \in Orders, AddSkip(u), UNCHANGED constructionVars
  PROVE  IInv' /\ WaveStays
<1> USE DEF AddSkip, isNext, constructionVars, stateVars, aisleVars, orderVars
<1>1. /\ Covered(orderSolution, aisleSolution)
      /\ committedOrders = orderSolution /\ committedAisles = aisleSolution
      /\ u \in todo /\ u \notin orderSolution
  BY CommittedIsSolution DEF IInv, LoopInv
<1>2. StateIInv'
  BY CacheIsExact, StateStutter
<1>3. TypeOK'
  BY <1>2 DEF IInv, TypeOK, StateIInv
<1>4. committedOrders' = committedOrders /\ committedAisles' = committedAisles
  BY CommittedOrders DEF committedAisles
<1>5. ~ FreeFill(u)
  BY <1>1, CacheIsExact DEF FreeFill, checkFeasibility
<1>6. PickInv' /\ PoolInv' /\ LoopInv'
  BY DEF IInv, PickInv, PoolInv, LoopInv, Pruning
<1>7. ServedInv' /\ UnitsAtHead' /\ PruneLeavesNoRedundantAisle'
  BY <1>4 DEF IInv, ServedInv, UnitsAtHead, Iterating, PruneLeavesNoRedundantAisle
<1>8. NoFillPassed'
  BY <1>4, <1>5 DEF IInv, NoFillPassed, FreeFill
<1> QED BY <1>2, <1>3, <1>6, <1>7, <1>8, <1>4 DEF IInv, StateIInv, WaveStays

\* The order that ADD has tried is kept: it joins the wave.
LEMMA AddKeepInv ==
  ASSUME IInv, AddKeep, UNCHANGED constructionVars
  PROVE  IInv' /\ WaveTakes
<1> USE DEF AddKeep, constructionVars, stateVars, aisleVars, orderVars
<1>1. StateIInv' /\ removedAisles = <<>>
  BY CacheIsExact, StateStutter DEF IInv, LoopInv
<1>2. TypeOK'
  BY <1>1 DEF IInv, TypeOK, StateIInv, PCs
<1>3. committedOrders' = orderSolution /\ committedAisles' = aisleSolution
  BY <1>1, CommittedOrders DEF committedAisles, ToSet
<1>4. ServedInv'
  BY <1>3 DEF IInv, ServedInv
<1>5. PickInv' /\ PoolInv' /\ LoopInv'
  BY <1>1 DEF PickInv, PoolInv, LoopInv, Pruning
<1>6. UnitsAtHead' /\ NoFillPassed' /\ PruneLeavesNoRedundantAisle'
  BY DEF UnitsAtHead, Iterating, NoFillPassed, PruneLeavesNoRedundantAisle
<1>7. /\ pick \in Orders \ committedOrders /\ committedOrders' = committedOrders \cup {pick}
      /\ committedAisles' = committedAisles
  BY <1>1, <1>3, CacheIsExact, CommittedOrders
     DEF IInv, PickInv, committedAisles, ToSet
<1> QED BY <1>1, <1>2, <1>4, <1>5, <1>6, <1>7 DEF IInv, StateIInv, WaveTakes

\* A wave that an order with units is part of is only covered by some aisle.
LEMMA UnitsNeedAisles ==
  ASSUME NEW O \in SUBSET Orders, NEW A \in SUBSET Aisles, Covered(O, A),
         NEW o \in O, orderTotalUnits[o] > 0
  PROVE  AisleCount > 0
<1>1. PICK i \in Items : OrderQty[o][i] # 0
  BY SumZero DEF orderTotalUnits
<1>2. Required(O, i) = Required(O \ {o}, i) + OrderQty[o][i]
  <2>1. Required((O \ {o}) \cup {o}, i) = Required(O \ {o}, i) + OrderQty[o][i]
    BY RequiredStep
  <2>2. (O \ {o}) \cup {o} = O
    OBVIOUS
  <2> QED BY <2>1, <2>2
<1>3. Required(O, i) <= Available(A, i)
  BY DEF Covered
<1>4. OrderQty[o][i] \in Nat /\ Required(O \ {o}, i) \in Nat /\ Available(A, i) \in Nat
  BY QuantityTypes
<1>5. Available(A, i) # 0
  BY <1>1, <1>2, <1>3, <1>4
<1>6. A # {}
  BY <1>5, EmptyWave
<1>7. PICK a \in A : a \in 0 .. AisleCount - 1
  BY <1>6 DEF Aisles
<1>8. AisleCount \in Nat
  BY ProblemAssumption
<1> QED BY <1>7, <1>8

\* Over the same aisles more units are the better score.
LEMMA MoreUnitsExceed ==
  ASSUME NEW m \in Int, NEW n \in Int, NEW k \in Nat
  PROVE  Exceeds(<<m, k>>, <<n, k>>) <=> m > n /\ k > 0
BY DEF Exceeds

\* An order that ADD has tried and taken out again is no free fill: either the
\* wave with it is not feasible or it has no units.
LEMMA AddUndoInv ==
  ASSUME IInv, AddUndo, UNCHANGED constructionVars
  PROVE  IInv' /\ WaveStays
<1> USE DEF AddUndo, constructionVars
<1>1. /\ pick \in orderSolution /\ pick \in Orders
      /\ Covered(orderSolution, aisleSolution)
      /\ removedAisles = <<>> /\ ToSet(removedAisles) = {}
      /\ committedOrders = orderSolution \ {pick} /\ committedAisles = aisleSolution
  BY CacheIsExact, CommittedOrders
     DEF IInv, PickInv, LoopInv, ServedInv, ToSet, committedAisles
<1>2. /\ StateIInv' /\ orderSolution' = orderSolution \ {pick}
      /\ aisleSolution' = aisleSolution
  BY <1>1, CacheIsExact, CallsEdit, RemoveOrderKeeps
<1>3. TypeOK'
  BY <1>1, <1>2 DEF IInv, TypeOK, StateIInv, PCs
<1>4. committedOrders' = committedOrders /\ committedAisles' = committedAisles
  BY <1>1, <1>2, CommittedOrders DEF committedAisles
<1>5. PickInv' /\ PoolInv' /\ LoopInv'
  BY <1>2 DEF IInv, PickInv, PoolInv, LoopInv, Pruning
<1>6. ServedInv'
  BY <1>1, <1>2, <1>4 DEF IInv, ServedInv
<1>7. ~ FreeFill(pick)
  <2> SUFFICES ASSUME orderTotalUnits[pick] > 0,
                      checkFeasibility(orderSolution, aisleSolution)
               PROVE  FALSE
    BY <1>1 DEF FreeFill
  <2>1. isFeasible
    BY CacheIsExact
  <2>2. AisleCount > 0
    <3>1. orderSolution \in SUBSET Orders /\ aisleSolution \in SUBSET Aisles
      BY CacheIsExact
    <3> QED BY <1>1, <3>1, UnitsNeedAisles
  <2>3. getTotalUnits(committedOrders)
          = getTotalUnits(orderSolution) - orderTotalUnits[pick]
    BY <1>1, CacheIsExact, TotalStep
  <2>4. /\ currentScore = <<getTotalUnits(committedOrders), AisleCount>>
        /\ stateScore = <<getTotalUnits(orderSolution), AisleCount>>
    BY CacheIsExact DEF IInv, TypeOK, UnitsAtHead, Iterating, stateScore
  <2>5. /\ getTotalUnits(committedOrders) \in Nat /\ getTotalUnits(orderSolution) \in Nat
        /\ orderTotalUnits[pick] \in Nat /\ AisleCount \in Nat
    BY <1>1, CommittedType, CacheIsExact, QuantityTypes, ProblemAssumption
  <2>6. Exceeds(stateScore, currentScore)
    BY <2>2, <2>3, <2>4, <2>5, MoreUnitsExceed
  <2> QED BY <2>1, <2>6 DEF addImproves
<1>8. UnitsAtHead' /\ PruneLeavesNoRedundantAisle'
  BY <1>4 DEF IInv, UnitsAtHead, Iterating, PruneLeavesNoRedundantAisle
<1>9. NoFillPassed'
  BY <1>1, <1>2, <1>4, <1>7 DEF IInv, NoFillPassed, FreeFill
<1> QED BY <1>2, <1>3, <1>5, <1>6, <1>8, <1>9, <1>4 DEF IInv, StateIInv, WaveStays

\* DROP takes an order out of the solution, and not yet out of the wave.
LEMMA DropTryInv ==
  ASSUME IInv, NEW o \in Orders, DropTry(o), UNCHANGED constructionVars
  PROVE  IInv' /\ WaveStays
<1> USE DEF DropTry, constructionVars
<1>1. /\ Covered(orderSolution, aisleSolution) /\ getTotalUnits(orderSolution) <= UB
      /\ committedOrders = orderSolution /\ o \in orderSolution /\ removedAisles = <<>>
  BY CommittedIsSolution DEF IInv, LoopInv
<1>2. /\ StateIInv' /\ orderSolution' = orderSolution \ {o}
      /\ aisleSolution' = aisleSolution
  BY CacheIsExact, CallsEdit, RemoveOrderKeeps
<1>3. Covered(orderSolution', aisleSolution') /\ getTotalUnits(orderSolution') <= UB
  <2>1. getTotalUnits(orderSolution') <= getTotalUnits(orderSolution)
    BY <1>2, CacheIsExact, RequiredMonotone
  <2>2. /\ getTotalUnits(orderSolution') \in Nat /\ getTotalUnits(orderSolution) \in Nat
        /\ UB \in Nat
    BY <1>2, CacheIsExact, QuantityTypes, ProblemAssumption
  <2> QED BY <1>1, <1>2, <2>1, <2>2, CacheIsExact, CoveredMonotone
<1>4. TypeOK'
  BY <1>2, CacheIsExact DEF IInv, TypeOK, StateIInv, PCs
<1>5. committedOrders' = committedOrders /\ committedAisles' = committedAisles
  BY <1>1, <1>2, CommittedOrders DEF committedAisles
<1>6. PickInv' /\ PoolInv' /\ LoopInv'
  BY <1>1, <1>2 DEF IInv, PickInv, PoolInv, LoopInv, Pruning
<1>7. ServedInv'
  BY <1>3, <1>5 DEF IInv, ServedInv
<1>8. UnitsAtHead' /\ NoFillPassed'
  BY <1>5 DEF IInv, UnitsAtHead, Iterating, NoFillPassed, FreeFill
<1>9. PruneLeavesNoRedundantAisle'
  BY <1>2 DEF PruneLeavesNoRedundantAisle
<1> QED BY <1>2, <1>4, <1>6, <1>7, <1>8, <1>9, <1>5 DEF IInv, StateIInv, WaveStays

\* Without the order the units are fewer: no drop is ever kept, because the
\* score divides by all the aisles of the warehouse.
LEMMA DropNeverImproves ==
  ASSUME IInv, pc = "dropPrune"
  PROVE  ~ Exceeds(stateScore, currentScore)
<1>1. committedOrders = orderSolution \cup {pick}
  BY CommittedOrders
<1>2. getTotalUnits(orderSolution) <= getTotalUnits(committedOrders)
  BY <1>1, CommittedType, RequiredMonotone
<1>3. /\ currentScore = <<getTotalUnits(committedOrders), AisleCount>>
      /\ stateScore = <<getTotalUnits(orderSolution), AisleCount>>
  BY CacheIsExact DEF IInv, TypeOK, UnitsAtHead, Iterating, stateScore
<1>4. /\ getTotalUnits(committedOrders) \in Nat /\ getTotalUnits(orderSolution) \in Nat
      /\ AisleCount \in Nat
  BY CommittedType, CacheIsExact, QuantityTypes, ProblemAssumption
<1> QED BY <1>2, <1>3, <1>4, MoreUnitsExceed

\* The dropped order comes back, and its aisles are owed.
LEMMA DropJudgeInv ==
  ASSUME IInv, DropJudge, UNCHANGED constructionVars
  PROVE  IInv' /\ WaveStays
<1> USE DEF DropJudge, constructionVars
<1>1. /\ pc = "dropPrune" /\ pc' = "restore" /\ addOrder(pick) /\ pick \in Orders
      /\ UNCHANGED <<pick, todo, removedAisles, scan, currentScore, queue>>
  BY DropNeverImproves DEF IInv, PickInv
<1>2. /\ StateIInv' /\ orderSolution' = orderSolution \cup {pick}
      /\ aisleSolution' = aisleSolution
  BY <1>1, CacheIsExact, CallsEdit, AddOrderKeeps
<1>3. TypeOK'
  BY <1>1, <1>2 DEF IInv, TypeOK, StateIInv, PCs
<1>4. /\ committedOrders = orderSolution' /\ committedOrders' = orderSolution'
      /\ committedAisles' = committedAisles
  BY <1>1, <1>2, CommittedOrders DEF committedAisles
<1>5. PickInv' /\ PoolInv' /\ LoopInv'
  BY <1>1, <1>2 DEF IInv, PickInv, PoolInv, LoopInv, Pruning
<1>6. ServedInv'
  BY <1>1, <1>4 DEF IInv, ServedInv
<1>7. UnitsAtHead' /\ NoFillPassed'
  BY <1>1, <1>4 DEF IInv, UnitsAtHead, Iterating, NoFillPassed, FreeFill
<1>8. PruneLeavesNoRedundantAisle'
  BY <1>1 DEF PruneLeavesNoRedundantAisle
<1> QED BY <1>2, <1>3, <1>5, <1>6, <1>7, <1>8, <1>4 DEF IInv, StateIInv, WaveStays

\* An aisle that is owed comes back.
LEMMA RestoreAisleInv ==
  ASSUME IInv, RestoreAisle, UNCHANGED constructionVars
  PROVE  IInv' /\ WaveStays
<1> USE DEF RestoreAisle, constructionVars
<1> DEFINE a == Head(removedAisles)
<1>1. /\ a \in Aisles /\ removedAisles' \in Seq(Aisles)
      /\ ToSet(removedAisles) = {a} \cup ToSet(removedAisles')
  BY ToSetHeadTail DEF IInv, TypeOK
<1> HIDE DEF a
<1>2. addAisle(a)
  BY DEF a
<1>3. /\ StateIInv' /\ aisleSolution' = aisleSolution \cup {a}
      /\ orderSolution' = orderSolution
  BY <1>1, <1>2, CacheIsExact, CallsEdit, AddAisleKeeps
<1>4. TypeOK'
  BY <1>1, <1>3 DEF IInv, TypeOK, StateIInv
<1>5. committedOrders' = committedOrders /\ committedAisles' = committedAisles
  BY <1>1, <1>3, CommittedOrders DEF committedAisles
<1>6. PickInv' /\ PoolInv' /\ LoopInv'
  BY <1>3 DEF IInv, PickInv, PoolInv, LoopInv, Pruning
<1>7. ServedInv'
  BY <1>3, <1>5 DEF IInv, ServedInv
<1>8. UnitsAtHead' /\ NoFillPassed' /\ PruneLeavesNoRedundantAisle'
  BY <1>5 DEF IInv, UnitsAtHead, NoFillPassed, FreeFill, PruneLeavesNoRedundantAisle
<1> QED BY <1>3, <1>4, <1>6, <1>7, <1>8, <1>5 DEF IInv, StateIInv, WaveStays

\* All aisles are back: the wave is what it was before the drop.
LEMMA RestoredInv ==
  ASSUME IInv, Restored, UNCHANGED constructionVars
  PROVE  IInv' /\ WaveStays
<1> USE DEF Restored, constructionVars, stateVars, aisleVars, orderVars
<1>1. StateIInv'
  BY CacheIsExact, StateStutter
<1>2. TypeOK'
  BY <1>1 DEF IInv, TypeOK, StateIInv, PCs
<1>3. /\ committedOrders = orderSolution /\ committedAisles = aisleSolution
      /\ committedOrders' = committedOrders /\ committedAisles' = committedAisles
  BY CommittedOrders DEF committedAisles, ToSet
<1>4. PickInv' /\ PoolInv' /\ LoopInv'
  BY DEF IInv, PickInv, PoolInv, LoopInv, Pruning
<1>5. ServedInv'
  BY <1>3 DEF IInv, ServedInv
<1>6. UnitsAtHead' /\ NoFillPassed' /\ PruneLeavesNoRedundantAisle'
  BY <1>3 DEF IInv, UnitsAtHead, Iterating, NoFillPassed, FreeFill,
              PruneLeavesNoRedundantAisle
<1> QED BY <1>1, <1>2, <1>4, <1>5, <1>6, <1>3 DEF IInv, StateIInv, WaveStays

\* A heuristic starts with the empty wave.
LEMMA InitInv ==
  ASSUME Init
  PROVE  IInv
<1> USE DEF Init, RefinementInit
<1>1. StateIInv /\ orderSolution = {} /\ aisleSolution = {}
  BY StateInitIInv DEF StateInit
<1>2. TypeOK
  BY <1>1, ProblemAssumption DEF TypeOK, StateIInv, PCs
<1>3. committedOrders = {} /\ committedAisles = {}
  BY <1>1, CommittedOrders DEF committedAisles, ToSet
<1>4. Covered({}, {}) /\ getTotalUnits({}) <= UB
  BY EmptyWave, ProblemAssumption DEF Covered
<1>5. ServedInv
  BY <1>1, <1>3, <1>4 DEF ServedInv
<1>6. PickInv /\ PoolInv /\ LoopInv
  BY <1>1 DEF PickInv, PoolInv, LoopInv, Pruning
<1>7. UnitsAtHead /\ NoFillPassed /\ PruneLeavesNoRedundantAisle
  BY DEF UnitsAtHead, Iterating, NoFillPassed, PruneLeavesNoRedundantAisle
<1> QED BY <1>1, <1>2, <1>5, <1>6, <1>7 DEF IInv, StateIInv

\* A step that changes nothing.
LEMMA StutterInv ==
  ASSUME IInv, UNCHANGED vars
  PROVE  IInv' /\ WaveStays
<1> USE DEF vars, refinementVars, constructionVars, ctlVars, stateVars, aisleVars,
        orderVars
<1>1. StateIInv'
  BY CacheIsExact, StateStutter
<1>2. TypeOK'
  BY <1>1 DEF IInv, TypeOK, StateIInv
<1>3. committedOrders' = committedOrders /\ committedAisles' = committedAisles
  BY CommittedOrders DEF committedAisles
<1>4. PickInv' /\ PoolInv' /\ LoopInv'
  BY DEF IInv, PickInv, PoolInv, LoopInv
<1>5. /\ ServedInv' /\ UnitsAtHead' /\ NoFillPassed'
      /\ PruneLeavesNoRedundantAisle'
  BY <1>3 DEF IInv, ServedInv, UnitsAtHead, NoFillPassed, FreeFill,
              PruneLeavesNoRedundantAisle
<1> QED BY <1>1, <1>2, <1>4, <1>5, <1>3 DEF IInv, StateIInv, WaveStays

\* The other steps of a heuristic, by what they do to the wave.
TriesOrder == \E o \in Orders : CachedPick(o) \/ Heur3Pick(o)

StartsFill ==
  \E a \in Aisles : Heur4Pick(a) \/ (AisleTry(a) /\ UNCHANGED constructionVars)

Edits ==
  /\ UNCHANGED constructionVars
  /\ \/ RepairPass
     \/ \E a \in Aisles : PrunePass(a)
     \/ \E o \in Orders : FillPass(o) \/ AddTry(o) \/ AddSkip(o) \/ DropTry(o)
     \/ AddKeep \/ AddUndo \/ DropJudge \/ RestoreAisle \/ Restored

\* These are all the steps there are.
LEMMA StepCases ==
  [Next]_vars => \/ UNCHANGED vars \/ MovesOn \/ KeepOrder \/ RollbackOrder
                 \/ TriesOrder \/ StartsFill \/ Edits
BY DEF Next, Step, Returned, Construct, RefinementNext, MovesOn, TriesOrder,
       StartsFill, Edits

\* Every step keeps the invariant and moves the wave in one of the four ways.
LEMMA NextInv ==
  ASSUME IInv, [Next]_vars
  PROVE  IInv' /\ (WaveStays \/ WaveTakes \/ WaveVisits \/ WaveLeaves)
<1>1. CASE UNCHANGED vars \/ MovesOn \/ KeepOrder \/ RollbackOrder
  BY <1>1, StutterInv, MovesOnInv, LeaveTryInv
<1>2. CASE TriesOrder
  BY <1>2, TryOrderInv DEF TriesOrder
<1>3. CASE StartsFill
  BY <1>3, FillStartInv DEF StartsFill
<1>4. CASE Edits
  <2> USE <1>4 DEF Edits
  <2>1. CASE RepairPass
    BY <2>1, RepairPassInv
  <2>2. ASSUME NEW a \in Aisles, PrunePass(a)
        PROVE  IInv' /\ (WaveStays \/ WaveLeaves)
    BY <2>2, PrunePassInv
  <2>3. ASSUME NEW o \in Orders, FillPass(o) \/ AddTry(o) \/ AddSkip(o) \/ DropTry(o)
        PROVE  IInv' /\ (WaveStays \/ WaveTakes)
    BY <2>3, FillPassInv, AddTryInv, AddSkipInv, DropTryInv
  <2>4. CASE AddKeep \/ AddUndo \/ DropJudge \/ RestoreAisle \/ Restored
    BY <2>4, AddKeepInv, AddUndoInv, DropJudgeInv, RestoreAisleInv, RestoredInv
  <2> QED BY <2>1, <2>2, <2>3, <2>4
<1> QED BY <1>1, <1>2, <1>3, <1>4, StepCases

\* The invariant holds in every state a heuristic reaches.
THEOREM HeuristicsInv == Spec => []IInv
<1>1. Init => IInv
  BY InitInv
<1>2. IInv /\ [Next]_vars => IInv'
  BY NextInv
<1> QED BY <1>1, <1>2, PTL DEF Spec

-----------------------------------------------------------------------------
(* What the invariant gives the heuristics *)

\* A set of aisles has a first one in the order of itemToAisles[i].
LEMMA FirstProvider ==
  ASSUME NEW i \in Items, NEW F \in SUBSET Aisles, F # {}
  PROVE  \E a \in F : \A b \in F : ~ Before(i, b, a)
<1>1. \A a \in F : /\ AisleQty[a][i] \in Nat /\ AisleQty[a][i] <= MaxQty
                   /\ a \in Nat /\ a <= AisleCount - 1
  BY ProblemAssumption DEF Aisles
<1>2. MaxQty \in Nat /\ AisleCount \in Nat
  BY ProblemAssumption
<1> DEFINE short(a) == MaxQty - AisleQty[a][i]
           Short == {short(a) : a \in F}
<1>3. Short \in SUBSET Nat /\ Short # {}
  BY <1>1, <1>2
<1>4. PICK s \in Short : \A t \in Short : s <= t
  BY <1>3, LeastIndex
<1> DEFINE G == {a \in F : short(a) = s}
           Back == {AisleCount - 1 - a : a \in G}
<1>5. Back \in SUBSET Nat /\ Back # {}
  BY <1>1, <1>2, <1>4
<1>6. PICK m \in Back : \A n \in Back : m <= n
  BY <1>5, LeastIndex
<1>7. PICK a \in G : m = AisleCount - 1 - a
  BY <1>6
<1>8. ASSUME NEW b \in F
      PROVE  ~ Before(i, b, a)
  <2>1. short(a) <= short(b) /\ short(a) = s
    BY <1>4, <1>7
  <2>2. short(b) = s => b <= a
    <3> SUFFICES ASSUME short(b) = s
                 PROVE  b <= a
      OBVIOUS
    <3>1. AisleCount - 1 - b \in Back
      OBVIOUS
    <3>2. AisleCount - 1 - a <= AisleCount - 1 - b
      BY <1>6, <1>7, <3>1
    <3> QED BY <1>1, <1>2, <3>2
  <2>3. ~ (AisleQty[b][i] > AisleQty[a][i])
    BY <1>1, <1>2, <2>1
  <2>4. AisleQty[b][i] = AisleQty[a][i] => ~ (b > a)
    BY <1>1, <1>2, <2>1, <2>2
  <2> QED BY <2>3, <2>4 DEF Before
<1> QED BY <1>7, <1>8

\* If no aisle is scored for an item, all that hold it are visited: the limit on
\* the providers looked at never hides the last one.
LEMMA NoneScored ==
  ASSUME NEW i \in Items, ScoredProviders(i) = {}
  PROVE  Providers(i) \subseteq aisleSelected
<1> SUFFICES ASSUME Providers(i) \ aisleSelected # {}
             PROVE  FALSE
  OBVIOUS
<1> DEFINE free == Providers(i) \ aisleSelected
<1>1. PICK a \in free : \A b \in free : ~ Before(i, b, a)
  BY FirstProvider DEF Providers
<1>2. {b \in free : Before(i, b, a)} = {}
  BY <1>1
<1>3. Cardinality({b \in free : Before(i, b, a)}) <= ProviderLimit
  BY <1>2, FS_EmptySet, RefinementAssumption
<1> QED BY <1>1, <1>3 DEF ScoredProviders

\* A repair gives up on the impossible only.
LEMMA FailedRepair ==
  ASSUME IInv, repairFailed
  PROVE  \E i \in Items : Required(orderSolution, i) > globalItemAvailability(i)
<1>1. PICK i \in deficitItems : ScoredProviders(i) = {}
  BY DEF repairFailed, repairCandidates
<1>2. /\ i \in Items /\ itemBalance[i] < 0
      /\ itemBalance[i] = Available(aisleSolution, i) - Required(orderSolution, i)
  BY <1>1, CacheIsExact
     DEF StateIInv, StateTypeOK, StateInv, DeficitInv, BalanceInv
<1>3. Aisles \cap Providers(i) = aisleSolution \cap Providers(i)
  BY <1>1, <1>2, CacheIsExact, NoneScored DEF Providers
<1>4. Available(Aisles, i) = Available(aisleSolution, i)
  BY <1>2, <1>3, CacheIsExact, AvailableOfProviders
<1>5. Available(aisleSolution, i) \in Nat /\ Required(orderSolution, i) \in Nat
  BY <1>2, CacheIsExact, QuantityTypes
<1> QED BY <1>2, <1>4, <1>5 DEF globalItemAvailability

\* Every variable keeps its type and the cache describes the solution after
\* every step of every heuristic, whatever calls it makes in which order.
THEOREM HeuristicsTyped == Spec => [](TypeOK /\ StateInv)
<1>1. IInv => TypeOK /\ StateInv
  BY DEF IInv
<1> QED BY <1>1, HeuristicsInv, PTL

\* Nothing is in deficit wherever the code takes that for granted: the tests
\* canFitOrder and canRemove are exact where they are asked.
THEOREM NoDeficitUnseen == Spec => []SettledWithoutDeficit
<1>1. IInv => SettledWithoutDeficit
  BY CacheIsExact DEF IInv, ServedInv, SettledWithoutDeficit
<1> QED BY <1>1, HeuristicsInv, PTL

\* Pruning leaves no redundant aisle, although each removal changes the balances
\* the later tests look at (caches.hpp:246-265).
THEOREM PruningIsComplete == Spec => []PruneLeavesNoRedundantAisle
<1>1. IInv => PruneLeavesNoRedundantAisle
  BY DEF IInv
<1> QED BY <1>1, HeuristicsInv, PTL

\* "Impossible to satisfy" is true where the repair says it, although it looks at
\* a few providers of each item only (caches.hpp:305-309).
THEOREM RepairIsComplete == Spec => []RepairFailsOnlyWhenImpossible
<1>1. IInv => RepairFailsOnlyWhenImpossible
  BY FailedRepair DEF RepairFailsOnlyWhenImpossible
<1> QED BY <1>1, HeuristicsInv, PTL

\* No free fill is left when a heuristic returns: the DROP moves tried after the
\* last ADD loop have put everything back (heuristic2.cpp:104-149).
THEOREM AddingIsComplete == Spec => []NoFreeFillLeft
<1>1. IInv => NoFreeFillLeft
  <2> SUFFICES ASSUME IInv, pc = "done"
               PROVE  NoFreeFillLeft
    BY DEF NoFreeFillLeft
  <2>1. committedOrders = orderSolution /\ committedAisles = aisleSolution
    BY CommittedIsSolution
  <2> QED BY <2>1 DEF IInv, NoFillPassed, FreeFill, NoFreeFillLeft
<1> QED BY <1>1, HeuristicsInv, PTL

-----------------------------------------------------------------------------
(* The wave decided on moves as CommittedWave allows *)

\* CommittedWave speaks of the same orders, aisles and totals.
LEMMA SameProblem ==
  /\ Wave!Orders = Orders /\ Wave!Aisles = Aisles
  /\ \A O, A : Wave!Servable(O, A) <=> Covered(O, A) /\ getTotalUnits(O) <= UB
<1>1. \A S : Wave!Cardinality(S) = Cardinality(S)
  BY DEF Wave!Cardinality, Cardinality
<1> QED
  BY <1>1 DEF Wave!Orders, Wave!Aisles, Wave!Items, Wave!UnitsOf, Wave!SumOver,
     Wave!Available, Wave!Required, Wave!getTotalUnits, Wave!Covered, Wave!Servable,
     Orders, Aisles, Items, UnitsOf, SumOver, Available, Required, getTotalUnits,
     Covered

\* Each step of a heuristic is a step of CommittedWave, or leaves the wave.
LEMMA StepKeepsWave ==
  ASSUME IInv, [Next]_vars
  PROVE  [Wave!WaveNext]_(Wave!waveVars)
<1> DEFINE O == committedOrders
           A == committedAisles
<1>1. /\ Covered(O', A') /\ getTotalUnits(O') <= UB
      /\ WaveStays \/ WaveTakes \/ WaveVisits \/ WaveLeaves
  BY NextInv DEF IInv, ServedInv
<1>2. Wave!Servable(O', A')
  BY <1>1, SameProblem
<1>3. CASE WaveStays
  BY <1>3 DEF WaveStays, Wave!waveVars
<1>4. CASE WaveTakes
  <2>1. PICK o \in Orders \ O : O' = O \cup {o} /\ A' = A
    BY <1>4 DEF WaveTakes
  <2>2. Wave!TakeOrder
    BY <1>2, <2>1, SameProblem DEF Wave!TakeOrder
  <2> QED BY <2>2 DEF Wave!WaveNext
<1>5. CASE WaveVisits
  <2>1. PICK a \in Aisles : A' = A \cup {a} /\ O' = O
    BY <1>5 DEF WaveVisits
  <2>2. CASE a \in A
    <3>1. A' = A
      BY <2>1, <2>2
    <3> QED BY <2>1, <3>1 DEF Wave!waveVars
  <2>3. CASE a \notin A
    BY <2>1, <2>3, SameProblem DEF Wave!VisitAisle, Wave!WaveNext
  <2> QED BY <2>2, <2>3
<1>6. CASE WaveLeaves
  <2>1. PICK a \in A : A' = A \ {a} /\ O' = O
    BY <1>6 DEF WaveLeaves
  <2>2. Wave!LeaveAisle
    BY <1>2, <2>1 DEF Wave!LeaveAisle
  <2> QED BY <2>2 DEF Wave!WaveNext
<1> QED BY <1>1, <1>3, <1>4, <1>5, <1>6

\* A heuristic moves the wave it has decided on one order or one aisle at a time
\* and never out of what its aisles serve: a failed repair, an undone ADD and a
\* reverted DROP leave it as it was (heuristic2.cpp:69-149, heuristic3.cpp:101-117).
THEOREM HeuristicsKeepWave == Spec => WaveSpec
<1>1. Init => IInv
  BY InitInv
<1>2. IInv /\ [Next]_vars => IInv'
  BY NextInv
<1>3. Init => Wave!WaveInit
  <2>1. Init => committedOrders = {} /\ committedAisles = {}
    BY DEF Init, RefinementInit, StateInit, committedOrders, committedAisles, ToSet
  <2> QED BY <2>1 DEF Wave!WaveInit
<1>4. IInv /\ [Next]_vars => [Wave!WaveNext]_(Wave!waveVars)
  BY StepKeepsWave
<1> QED BY <1>1, <1>2, <1>3, <1>4, PTL DEF Spec, WaveSpec, Wave!WaveSpec

\* The refinement works on a wave that has the units it needs.
InLoop == pc \in Iterating \cup {"iterate", "refineFill", "done"}

EnoughInLoop == InLoop /\ getTotalUnits(committedOrders) >= LB

\* The refinement's loop leads nowhere else.
LEMMA StaysInLoop ==
  ASSUME InLoop, [Next]_vars
  PROVE  InLoop'
<1> USE DEF InLoop, Iterating
<1>1. CASE UNCHANGED vars
  BY <1>1 DEF vars, refinementVars, ctlVars
<1>2. CASE MovesOn
  BY <1>2 DEF MovesOn, RefineRepaired, RefinePruned, Iterate, AddExhausted,
     DropExhausted, RefineFilled, RefinementEnds, Heur3Discard, Heur4Discard,
     CachedEnds, Heur3Ends, Heur4Ends, FinalPruned, Heur4Filled
<1>3. CASE KeepOrder \/ RollbackOrder
  BY <1>3 DEF KeepOrder, RollbackOrder
<1>4. CASE TriesOrder
  BY <1>4 DEF TriesOrder, CachedPick, Heur3Pick
<1>5. CASE StartsFill
  BY <1>5 DEF StartsFill, Heur4Pick, AisleTry
<1>6. CASE Edits
  BY <1>6 DEF Edits, RepairPass, PrunePass, FillPass, AddTry, AddSkip, DropTry,
     AddKeep, AddUndo, DropJudge, RestoreAisle, Restored
<1> QED BY <1>1, <1>2, <1>3, <1>4, <1>5, <1>6, StepCases

\* No step of the loop takes the committed wave below LB: no order leaves it.
LEMMA StaysEnough ==
  ASSUME IInv, EnoughInLoop, [Next]_vars
  PROVE  EnoughInLoop'
<1> DEFINE O == committedOrders
<1>1. InLoop'
  BY StaysInLoop DEF EnoughInLoop
<1>2. O \in SUBSET Orders
  BY CommittedType
<1>3. O \subseteq O' /\ O' \in SUBSET Orders
  BY <1>2, NextInv DEF WaveStays, WaveTakes, WaveVisits, WaveLeaves
<1>4. /\ getTotalUnits(O) \in Nat /\ getTotalUnits(O') \in Nat
      /\ getTotalUnits(O) <= getTotalUnits(O') /\ LB \in Nat
  BY <1>2, <1>3, RequiredMonotone, QuantityTypes, ProblemAssumption
<1>5. getTotalUnits(O)' = getTotalUnits(O')
  OBVIOUS
<1> QED BY <1>1, <1>4, <1>5 DEF EnoughInLoop

\* At the head of the loop and at its end, feasible means LB is reached.
LEMMA FeasibleAtHead ==
  ASSUME IInv, pc \in {"iterate", "done"}
  PROVE  checkFeasibility(orderSolution, aisleSolution) <=> EnoughInLoop
<1>1. /\ committedOrders = orderSolution
      /\ Covered(orderSolution, aisleSolution) /\ getTotalUnits(orderSolution) <= UB
  BY CommittedIsSolution
<1>2. getTotalUnits(orderSolution) \in Nat /\ LB \in Nat
  BY CacheIsExact, QuantityTypes, ProblemAssumption
<1> QED BY <1>1, <1>2 DEF checkFeasibility, EnoughInLoop, InLoop

\* Once the refinement works on a feasible wave, every later iteration and the
\* result are feasible (heuristic2.cpp:86-170).
THEOREM FeasibilityIsKept == Spec => FeasibleStaysFeasible
<1> DEFINE feasible == checkFeasibility(orderSolution, aisleSolution)
           head == pc \in {"iterate", "done"}
<1>1. IInv /\ EnoughInLoop /\ [Next]_vars => EnoughInLoop'
  BY StaysEnough
<1>2. IInv /\ head => (feasible <=> EnoughInLoop)
  BY FeasibleAtHead
<1>3. FeasibleStaysFeasible <=> [](head /\ feasible => [](head => feasible))
  BY DEF FeasibleStaysFeasible
<1> HIDE DEF feasible, head
<1> QED BY <1>1, <1>2, <1>3, HeuristicsInv, PTL DEF Spec

\* No DROP move is ever kept, on any instance: the units are divided by all the
\* aisles of the warehouse, so fewer units never score better, however many aisles
\* the move leaves (caches.hpp:118, heuristic2.cpp:137-139).
THEOREM DropIsNeverKept == Spec => [][pc = "dropPrune" => pc' # "iterate"]_vars
<1>1. ASSUME IInv, [Next]_vars, pc = "dropPrune", pc' = "iterate"
      PROVE  FALSE
  <2> USE <1>1
  <2>1. CASE UNCHANGED vars
    BY <2>1 DEF vars, refinementVars, ctlVars
  <2>2. CASE MovesOn
    BY <2>2 DEF MovesOn, RefineRepaired, RefinePruned, Iterate, AddExhausted,
       DropExhausted, RefineFilled, RefinementEnds, Heur3Discard, Heur4Discard,
       CachedEnds, Heur3Ends, Heur4Ends, FinalPruned, Heur4Filled
  <2>3. CASE KeepOrder \/ RollbackOrder \/ TriesOrder \/ StartsFill
    BY <2>3 DEF KeepOrder, RollbackOrder, TriesOrder, CachedPick, Heur3Pick,
       StartsFill, Heur4Pick, AisleTry
  <2>4. CASE Edits
    BY <2>4, DropNeverImproves DEF Edits, RepairPass, PrunePass, FillPass, AddTry,
       AddSkip, DropTry, AddKeep, AddUndo, DropJudge, RestoreAisle, Restored
  <2> QED BY <2>1, <2>2, <2>3, <2>4, StepCases
<1>2. IInv /\ [Next]_vars => [pc = "dropPrune" => pc' # "iterate"]_vars
  BY <1>1
<1> QED BY <1>2, HeuristicsInv, PTL DEF Spec

-----------------------------------------------------------------------------
(* The heuristics are clients of State *)

\* Each step of a heuristic makes one call on State, or none.
LEMMA StepCallsState ==
  ASSUME IInv, [Next]_vars
  PROVE  [StateNext]_stateVars
<1> USE DEF StateNext
<1>1. CASE UNCHANGED vars
  BY <1>1 DEF vars, refinementVars
<1>2. CASE MovesOn
  BY <1>2 DEF MovesOn, RefineRepaired, RefinePruned, Iterate, AddExhausted,
     DropExhausted, RefineFilled, RefinementEnds, Heur3Discard, Heur4Discard,
     CachedEnds, Heur3Ends, Heur4Ends, FinalPruned, Heur4Filled, startFinalPrune,
     startRefinement, refinementVars
<1>3. CASE KeepOrder \/ RollbackOrder
  <2>1. pc = "repair" => pick \in Orders
    BY CacheIsExact DEF IInv, PickInv
  <2> QED BY <1>3, <2>1 DEF KeepOrder, RollbackOrder
<1>4. CASE TriesOrder
  BY <1>4 DEF TriesOrder, CachedPick, Heur3Pick, tryOrder
<1>5. CASE StartsFill
  BY <1>5 DEF StartsFill, Heur4Pick, AisleTry, startGreedy
<1>6. CASE Edits
  <2> USE <1>6 DEF Edits
  <2>1. CASE RepairPass
    BY <2>1 DEF RepairPass, repairCandidates, ScoredProviders, Providers
  <2>2. ASSUME NEW a \in Aisles, PrunePass(a)
        PROVE  [StateNext]_stateVars
    BY <2>2 DEF PrunePass
  <2>3. ASSUME NEW o \in Orders, FillPass(o) \/ AddTry(o) \/ AddSkip(o) \/ DropTry(o)
        PROVE  [StateNext]_stateVars
    BY <2>3 DEF FillPass, AddTry, AddSkip, DropTry
  <2>4. CASE AddKeep \/ AddUndo \/ DropJudge
    <3>1. pc \in {"added", "dropPrune"} => pick \in Orders
      BY CacheIsExact DEF IInv, PickInv
    <3> QED BY <2>4, <3>1 DEF AddKeep, AddUndo, DropJudge
  <2>5. CASE RestoreAisle
    <3>1. Head(removedAisles) \in Aisles
      BY <2>5 DEF RestoreAisle, IInv, TypeOK
    <3> QED BY <2>5, <3>1 DEF RestoreAisle
  <2>6. CASE Restored
    BY <2>6 DEF Restored
  <2> QED BY <2>1, <2>2, <2>3, <2>4, <2>5, <2>6
<1> QED BY <1>1, <1>2, <1>3, <1>4, <1>5, <1>6, StepCases

\* A heuristic only ever changes State through its four edits, one at a time and
\* each of an order or an aisle there is.
THEOREM HeuristicsUseState == Spec => StateSpec
<1>1. Init => IInv /\ StateInit
  BY InitInv DEF Init, RefinementInit
<1>2. IInv /\ [Next]_vars => IInv' /\ [StateNext]_stateVars
  BY NextInv, StepCallsState
<1> QED BY <1>1, <1>2, PTL DEF Spec, StateSpec

\* So the fast tests the heuristics decide with are exact in every state they
\* reach, as they are under any sequence of calls.
THEOREM TestsAreExact ==
  Spec => [](FastFeasibilityAgrees /\ CanFitIsExact /\ CanRemoveIsExact)
BY HeuristicsUseState, FastFeasibility, CanFit, CanRemove, PTL

=============================================================================
