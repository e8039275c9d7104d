-------------------------- MODULE WaveStateProofs --------------------------
(***************************************************************************)
(* State (caches.hpp) describes its solution exactly, for every instance.  *)
(*                                                                         *)
(* StateTypeOK /\ StateInv is inductive.  From it follow, in every         *)
(* reachable state, that the fast feasibility test is the full one and     *)
(* that the insertion and removal tests of the heuristics are exact.       *)
(***************************************************************************)
EXTENDS WaveState, WaveProblemProofs

StateIInv == StateTypeOK /\ StateInv

-----------------------------------------------------------------------------
(* The line loops, on their own *)

\* The line loop of addAisle and removeOrder keeps deficitItems the set of
\* the items in deficit.
LEMMA GainKeepsDeficit ==
  ASSUME StateTypeOK, DeficitInv,
         NEW qty, \A i \in Items : qty[i] \in Nat, Gain(qty)
  PROVE  /\ itemBalance' \in [Items -> Int]
         /\ \A i \in Items : itemBalance'[i] = itemBalance[i] + qty[i]
         /\ deficitItems' \subseteq Items
         /\ DeficitInv'
<1>1. \A i \in Items : itemBalance[i] \in Int
  BY DEF StateTypeOK
<1>2. itemBalance' \in [Items -> Int]
  BY <1>1 DEF Gain
<1>3. \A i \in Items : itemBalance'[i] = itemBalance[i] + qty[i]
  BY DEF Gain
<1>4. \A i \in Items : i \in deficitItems' <=> itemBalance'[i] < 0
  BY <1>1, <1>3 DEF Gain, DeficitInv
<1>5. deficitItems' \subseteq Items
  BY DEF Gain, StateTypeOK
<1> QED BY <1>2, <1>3, <1>4, <1>5 DEF DeficitInv

\* The line loop of addOrder and removeAisle does too.
LEMMA LoseKeepsDeficit ==
  ASSUME StateTypeOK, DeficitInv,
         NEW qty, \A i \in Items : qty[i] \in Nat, Lose(qty)
  PROVE  /\ itemBalance' \in [Items -> Int]
         /\ \A i \in Items : itemBalance'[i] = itemBalance[i] - qty[i]
         /\ deficitItems' \subseteq Items
         /\ DeficitInv'
<1>1. \A i \in Items : itemBalance[i] \in Int
  BY DEF StateTypeOK
<1>2. itemBalance' \in [Items -> Int]
  BY <1>1 DEF Lose
<1>3. \A i \in Items : itemBalance'[i] = itemBalance[i] - qty[i]
  BY DEF Lose
<1>4. \A i \in Items : i \in deficitItems' <=> itemBalance'[i] < 0
  BY <1>1, <1>3 DEF Lose, DeficitInv
<1>5. deficitItems' \subseteq Items
  BY DEF Lose, StateTypeOK
<1> QED BY <1>2, <1>3, <1>4, <1>5 DEF DeficitInv

-----------------------------------------------------------------------------
(* The inductive invariant *)

\* A State over an empty Solution describes it.
LEMMA StateInitIInv == StateInit => StateIInv
<1> SUFFICES ASSUME StateInit
             PROVE  StateIInv
  OBVIOUS
<1>1. StateTypeOK
  BY DEF StateInit, StateTypeOK
<1>2. MirrorInv
  BY DEF StateInit, MirrorInv
<1>3. BalanceInv
  BY EmptyWave DEF StateInit, BalanceInv
<1>4. DeficitInv
  BY DEF StateInit, DeficitInv
<1>5. UnitsInv
  BY EmptyWave DEF StateInit, UnitsInv
<1> QED BY <1>1, <1>2, <1>3, <1>4, <1>5 DEF StateIInv, StateInv

\* A call that does nothing leaves the invariant as it was.
LEMMA StateStutter == StateIInv /\ UNCHANGED stateVars => StateIInv'
BY DEF StateIInv, StateTypeOK, StateInv, MirrorInv, BalanceInv, DeficitInv,
       UnitsInv, stateVars, aisleVars, orderVars

\* addAisle keeps the invariant (caches.hpp:134).
LEMMA AddAisleKeeps ==
  ASSUME StateIInv, NEW a \in Aisles, addAisle(a)
  PROVE  StateIInv'
<1>1. CASE UNCHANGED stateVars
  BY <1>1, StateStutter
<1>2. CASE /\ a \notin aisleSelected
           /\ aisleSelected' = aisleSelected \cup {a}
           /\ aisleSolution' = aisleSolution \cup {a}
           /\ Gain(AisleQty[a])
           /\ UNCHANGED orderVars
  <2>1. /\ StateTypeOK /\ MirrorInv /\ BalanceInv /\ DeficitInv /\ UnitsInv
    BY DEF StateIInv, StateInv
  <2>2. \A i \in Items : AisleQty[a][i] \in Nat
    BY QuantityTypes
  <2>3. /\ itemBalance' \in [Items -> Int]
        /\ \A i \in Items : itemBalance'[i] = itemBalance[i] + AisleQty[a][i]
        /\ deficitItems' \subseteq Items
        /\ DeficitInv'
    BY <1>2, <2>1, <2>2, GainKeepsDeficit
  <2>4. StateTypeOK'
    BY <1>2, <2>1, <2>3 DEF StateTypeOK, orderVars
  <2>5. MirrorInv'
    BY <1>2, <2>1 DEF MirrorInv, orderVars
  <2>6. BalanceInv'
    <3> SUFFICES ASSUME NEW i \in Items
                 PROVE  itemBalance'[i] = Available(aisleSolution', i)
                                            - Required(orderSolution', i)
      BY DEF BalanceInv
    <3>1. a \notin aisleSolution /\ aisleSolution \in SUBSET Aisles
      BY <1>2, <2>1 DEF MirrorInv, StateTypeOK
    <3>2. Available(aisleSolution', i)
            = Available(aisleSolution, i) + AisleQty[a][i]
      BY <1>2, <3>1, AvailableStep
    <3>3. Required(orderSolution', i) = Required(orderSolution, i)
      BY <1>2 DEF orderVars
    <3>4. /\ Available(aisleSolution, i) \in Nat
          /\ Required(orderSolution, i) \in Nat
      BY <2>1, QuantityTypes DEF StateTypeOK
    <3> QED BY <2>1, <2>2, <2>3, <3>2, <3>3, <3>4 DEF BalanceInv
  <2>7. UnitsInv'
    BY <1>2, <2>1 DEF UnitsInv, orderVars
  <2> QED BY <2>3, <2>4, <2>5, <2>6, <2>7 DEF StateIInv, StateInv
<1> QED BY <1>1, <1>2 DEF addAisle

\* removeAisle keeps the invariant (caches.hpp:156).
LEMMA RemoveAisleKeeps ==
  ASSUME StateIInv, NEW a \in Aisles, removeAisle(a)
  PROVE  StateIInv'
<1>1. CASE UNCHANGED stateVars
  BY <1>1, StateStutter
<1>2. CASE /\ a \in aisleSelected
           /\ aisleSelected' = aisleSelected \ {a}
           /\ aisleSolution' = aisleSolution \ {a}
           /\ Lose(AisleQty[a])
           /\ UNCHANGED orderVars
  <2>1. /\ StateTypeOK /\ MirrorInv /\ BalanceInv /\ DeficitInv /\ UnitsInv
    BY DEF StateIInv, StateInv
  <2>2. \A i \in Items : AisleQty[a][i] \in Nat
    BY QuantityTypes
  <2>3. /\ itemBalance' \in [Items -> Int]
        /\ \A i \in Items : itemBalance'[i] = itemBalance[i] - AisleQty[a][i]
        /\ deficitItems' \subseteq Items
        /\ DeficitInv'
    BY <1>2, <2>1, <2>2, LoseKeepsDeficit
  <2>4. StateTypeOK'
    BY <1>2, <2>1, <2>3 DEF StateTypeOK, orderVars
  <2>5. MirrorInv'
    BY <1>2, <2>1 DEF MirrorInv, orderVars
  <2>6. BalanceInv'
    <3> SUFFICES ASSUME NEW i \in Items
                 PROVE  itemBalance'[i] = Available(aisleSolution', i)
                                            - Required(orderSolution', i)
      BY DEF BalanceInv
    <3>1. a \in aisleSolution /\ aisleSolution \in SUBSET Aisles
      BY <1>2, <2>1 DEF MirrorInv, StateTypeOK
    <3>2. Available(aisleSolution', i)
            = Available(aisleSolution, i) - AisleQty[a][i]
      BY <1>2, <3>1, AvailableStep
    <3>3. Required(orderSolution', i) = Required(orderSolution, i)
      BY <1>2 DEF orderVars
    <3>4. /\ Available(aisleSolution, i) \in Nat
          /\ Required(orderSolution, i) \in Nat
      BY <2>1, QuantityTypes DEF StateTypeOK
    <3> QED BY <2>1, <2>2, <2>3, <3>2, <3>3, <3>4 DEF BalanceInv
  <2>7. UnitsInv'
    BY <1>2, <2>1 DEF UnitsInv, orderVars
  <2> QED BY <2>3, <2>4, <2>5, <2>6, <2>7 DEF StateIInv, StateInv
<1> QED BY <1>1, <1>2 DEF removeAisle

\* addOrder keeps the invariant (caches.hpp:176).
LEMMA AddOrderKeeps ==
  ASSUME StateIInv, NEW o \in Orders, addOrder(o)
  PROVE  StateIInv'
<1>1. CASE UNCHANGED stateVars
  BY <1>1, StateStutter
<1>2. CASE /\ o \notin orderSelected
           /\ orderSelected' = orderSelected \cup {o}
           /\ orderSolution' = orderSolution \cup {o}
           /\ currentTotalUnits' = currentTotalUnits + orderTotalUnits[o]
           /\ Lose(OrderQty[o])
           /\ UNCHANGED aisleVars
  <2>1. /\ StateTypeOK /\ MirrorInv /\ BalanceInv /\ DeficitInv /\ UnitsInv
    BY DEF StateIInv, StateInv
  <2>2. orderTotalUnits[o] \in Nat /\ \A i \in Items : OrderQty[o][i] \in Nat
    BY QuantityTypes
  <2>3. /\ itemBalance' \in [Items -> Int]
        /\ \A i \in Items : itemBalance'[i] = itemBalance[i] - OrderQty[o][i]
        /\ deficitItems' \subseteq Items
        /\ DeficitInv'
    BY <1>2, <2>1, <2>2, LoseKeepsDeficit
  <2>4. o \notin orderSolution /\ orderSolution \in SUBSET Orders
    BY <1>2, <2>1 DEF MirrorInv, StateTypeOK
  <2>5. StateTypeOK'
    BY <1>2, <2>1, <2>2, <2>3 DEF StateTypeOK, aisleVars
  <2>6. MirrorInv'
    BY <1>2, <2>1 DEF MirrorInv, aisleVars
  <2>7. BalanceInv'
    <3> SUFFICES ASSUME NEW i \in Items
                 PROVE  itemBalance'[i] = Available(aisleSolution', i)
                                            - Required(orderSolution', i)
      BY DEF BalanceInv
    <3>1. Required(orderSolution', i)
            = Required(orderSolution, i) + OrderQty[o][i]
      BY <1>2, <2>4, RequiredStep
    <3>2. Available(aisleSolution', i) = Available(aisleSolution, i)
      BY <1>2 DEF aisleVars
    <3>3. /\ Available(aisleSolution, i) \in Nat
          /\ Required(orderSolution, i) \in Nat
      BY <2>1, QuantityTypes DEF StateTypeOK
    <3> QED BY <2>1, <2>2, <2>3, <3>1, <3>2, <3>3 DEF BalanceInv
  <2>8. UnitsInv'
    BY <1>2, <2>1, <2>4, TotalStep DEF UnitsInv
  <2> QED BY <2>3, <2>5, <2>6, <2>7, <2>8 DEF StateIInv, StateInv
<1> QED BY <1>1, <1>2 DEF addOrder

\* removeOrder keeps the invariant (caches.hpp:197).
LEMMA RemoveOrderKeeps ==
  ASSUME StateIInv, NEW o \in Orders, removeOrder(o)
  PROVE  StateIInv'
<1>1. CASE UNCHANGED stateVars
  BY <1>1, StateStutter
<1>2. CASE /\ o \in orderSelected
           /\ orderSelected' = orderSelected \ {o}
           /\ orderSolution' = orderSolution \ {o}
           /\ currentTotalUnits' = currentTotalUnits - orderTotalUnits[o]
           /\ Gain(OrderQty[o])
           /\ UNCHANGED aisleVars
  <2>1. /\ StateTypeOK /\ MirrorInv /\ BalanceInv /\ DeficitInv /\ UnitsInv
    BY DEF StateIInv, StateInv
  <2>2. orderTotalUnits[o] \in Nat /\ \A i \in Items : OrderQty[o][i] \in Nat
    BY QuantityTypes
  <2>3. /\ itemBalance' \in [Items -> Int]
        /\ \A i \in Items : itemBalance'[i] = itemBalance[i] + OrderQty[o][i]
        /\ deficitItems' \subseteq Items
        /\ DeficitInv'
    BY <1>2, <2>1, <2>2, GainKeepsDeficit
  <2>4. o \in orderSolution /\ orderSolution \in SUBSET Orders
    BY <1>2, <2>1 DEF MirrorInv, StateTypeOK
  <2>5. StateTypeOK'
    BY <1>2, <2>1, <2>2, <2>3 DEF StateTypeOK, aisleVars
  <2>6. MirrorInv'
    BY <1>2, <2>1 DEF MirrorInv, aisleVars
  <2>7. BalanceInv'
    <3> SUFFICES ASSUME NEW i \in Items
                 PROVE  itemBalance'[i] = Available(aisleSolution', i)
                                            - Required(orderSolution', i)
      BY DEF BalanceInv
    <3>1. Required(orderSolution', i)
            = Required(orderSolution, i) - OrderQty[o][i]
      BY <1>2, <2>4, RequiredStep
    <3>2. Available(aisleSolution', i) = Available(aisleSolution, i)
      BY <1>2 DEF aisleVars
    <3>3. /\ Available(aisleSolution, i) \in Nat
          /\ Required(orderSolution, i) \in Nat
      BY <2>1, QuantityTypes DEF StateTypeOK
    <3> QED BY <2>1, <2>2, <2>3, <3>1, <3>2, <3>3 DEF BalanceInv
  <2>8. UnitsInv'
    BY <1>2, <2>1, <2>4, TotalStep DEF UnitsInv
  <2> QED BY <2>3, <2>5, <2>6, <2>7, <2>8 DEF StateIInv, StateInv
<1> QED BY <1>1, <1>2 DEF removeOrder

\* Every call of State keeps the invariant.
LEMMA StateNextKeeps == StateIInv /\ [StateNext]_stateVars => StateIInv'
<1> SUFFICES ASSUME StateIInv, [StateNext]_stateVars
             PROVE  StateIInv'
  OBVIOUS
<1>1. CASE UNCHANGED stateVars
  BY <1>1, StateStutter
<1>2. ASSUME NEW a \in Aisles, addAisle(a)
      PROVE  StateIInv'
  BY <1>2, AddAisleKeeps
<1>3. ASSUME NEW a \in Aisles, removeAisle(a)
      PROVE  StateIInv'
  BY <1>3, RemoveAisleKeeps
<1>4. ASSUME NEW o \in Orders, addOrder(o)
      PROVE  StateIInv'
  BY <1>4, AddOrderKeeps
<1>5. ASSUME NEW o \in Orders, removeOrder(o)
      PROVE  StateIInv'
  BY <1>5, RemoveOrderKeeps
<1> QED BY <1>1, <1>2, <1>3, <1>4, <1>5 DEF StateNext

\* What each call does to the solution: an element that is there already, or
\* gone already, changes nothing.
LEMMA CallsEdit ==
  ASSUME StateIInv
  PROVE  /\ \A a \in Aisles :
              /\ addAisle(a) =>
                   /\ aisleSolution' = aisleSolution \cup {a}
                   /\ orderSolution' = orderSolution
              /\ removeAisle(a) =>
                   /\ aisleSolution' = aisleSolution \ {a}
                   /\ orderSolution' = orderSolution
         /\ \A o \in Orders :
              /\ addOrder(o) =>
                   /\ orderSolution' = orderSolution \cup {o}
                   /\ aisleSolution' = aisleSolution
              /\ removeOrder(o) =>
                   /\ orderSolution' = orderSolution \ {o}
                   /\ aisleSolution' = aisleSolution
<1>1. aisleSelected = aisleSolution /\ orderSelected = orderSolution
  BY DEF StateIInv, StateInv, MirrorInv
<1>2. ASSUME NEW a \in Aisles, addAisle(a)
      PROVE  aisleSolution' = aisleSolution \cup {a} /\ orderSolution' = orderSolution
  BY <1>1, <1>2 DEF addAisle, stateVars, aisleVars, orderVars
<1>3. ASSUME NEW a \in Aisles, removeAisle(a)
      PROVE  aisleSolution' = aisleSolution \ {a} /\ orderSolution' = orderSolution
  BY <1>1, <1>3 DEF removeAisle, stateVars, aisleVars, orderVars
<1>4. ASSUME NEW o \in Orders, addOrder(o)
      PROVE  orderSolution' = orderSolution \cup {o} /\ aisleSolution' = aisleSolution
  BY <1>1, <1>4 DEF addOrder, stateVars, aisleVars, orderVars
<1>5. ASSUME NEW o \in Orders, removeOrder(o)
      PROVE  orderSolution' = orderSolution \ {o} /\ aisleSolution' = aisleSolution
  BY <1>1, <1>5 DEF removeOrder, stateVars, aisleVars, orderVars
<1> QED BY <1>2, <1>3, <1>4, <1>5

\* Any sequence of add and remove calls, legal or repeated, leaves a cache
\* of the right types that describes the solution (caches.hpp:82-215).
THEOREM StateCorrect == StateSpec => [](StateTypeOK /\ StateInv)
<1>1. StateInit => StateIInv
  BY StateInitIInv
<1>2. StateIInv /\ [StateNext]_stateVars => StateIInv'
  BY StateNextKeeps
<1>3. StateIInv => StateTypeOK /\ StateInv
  BY DEF StateIInv
<1> QED BY <1>1, <1>2, <1>3, PTL DEF StateSpec

-----------------------------------------------------------------------------
(* What the invariant gives the heuristics *)

\* An item has no deficit exactly when the solution covers it.
LEMMA NoDeficitIsCovered ==
  ASSUME StateIInv
  PROVE  deficitItems = {} <=> Covered(orderSolution, aisleSolution)
<1>1. /\ StateTypeOK /\ BalanceInv /\ DeficitInv
  BY DEF StateIInv, StateInv
<1>2. ASSUME NEW i \in Items
      PROVE  itemBalance[i] < 0 <=> ~ (Required(orderSolution, i)
                                        <= Available(aisleSolution, i))
  <2>1. /\ Available(aisleSolution, i) \in Nat
        /\ Required(orderSolution, i) \in Nat
    BY <1>1, QuantityTypes DEF StateTypeOK
  <2>2. itemBalance[i] = Available(aisleSolution, i)
                           - Required(orderSolution, i)
    BY <1>1 DEF BalanceInv
  <2> QED BY <2>1, <2>2
<1> QED BY <1>1, <1>2 DEF DeficitInv, Covered

\* The fast feasibility test gives the verdict of the full one.
LEMMA FastTestIsFull ==
  ASSUME StateIInv
  PROVE  FastFeasibilityAgrees
<1>1. currentTotalUnits = getTotalUnits(orderSolution)
  BY DEF StateIInv, StateInv, UnitsInv
<1>2. /\ getTotalUnits(orderSolution) \in Nat /\ LB \in Nat /\ UB \in Nat
  BY QuantityTypes, ProblemAssumption DEF StateIInv, StateTypeOK
<1> QED BY <1>1, <1>2, NoDeficitIsCovered
        DEF isFeasible, checkFeasibility, FastFeasibilityAgrees

\* The fast test of State::isFeasible is Solution::checkFeasibility
\* (caches.hpp:218, common.hpp:203).
THEOREM FastFeasibility == StateSpec => []FastFeasibilityAgrees
<1>1. StateTypeOK /\ StateInv => FastFeasibilityAgrees
  BY FastTestIsFull DEF StateIInv
<1> QED BY <1>1, StateCorrect, PTL

\* The insertion test is exact.
LEMMA FitTestIsExact ==
  ASSUME StateIInv
  PROVE  CanFitIsExact
<1> SUFFICES ASSUME deficitItems = {},
                    NEW o \in Orders \ orderSolution
             PROVE  canFitOrder(o)
                      <=> /\ Covered(orderSolution \cup {o}, aisleSolution)
                          /\ getTotalUnits(orderSolution \cup {o}) <= UB
  BY DEF CanFitIsExact
<1>1. /\ StateTypeOK /\ BalanceInv /\ DeficitInv /\ UnitsInv
  BY DEF StateIInv, StateInv
<1>2. orderSolution \in SUBSET Orders /\ o \in Orders /\ o \notin orderSolution
  BY <1>1 DEF StateTypeOK
<1>3. getTotalUnits(orderSolution \cup {o})
        = currentTotalUnits + orderTotalUnits[o]
  BY <1>1, <1>2, TotalStep DEF UnitsInv
<1>4. ASSUME NEW i \in Items
      PROVE  Required(orderSolution \cup {o}, i) <= Available(aisleSolution, i)
               <=> (i \in OrderItems(o) => itemBalance[i] >= OrderQty[o][i])
  <2>1. /\ Available(aisleSolution, i) \in Nat
        /\ Required(orderSolution, i) \in Nat
        /\ OrderQty[o][i] \in Nat
    BY <1>1, <1>2, QuantityTypes DEF StateTypeOK
  <2>2. itemBalance[i] = Available(aisleSolution, i)
                           - Required(orderSolution, i)
    BY <1>1 DEF BalanceInv
  <2>3. Required(orderSolution \cup {o}, i)
          = Required(orderSolution, i) + OrderQty[o][i]
    BY <1>2, RequiredStep
  <2>4. ~ (itemBalance[i] < 0)
    BY <1>1 DEF DeficitInv
  <2>5. i \in OrderItems(o) <=> OrderQty[o][i] > 0
    BY DEF OrderItems
  <2> QED BY <2>1, <2>2, <2>3, <2>4, <2>5
<1>5. OrderItems(o) \subseteq Items
  BY DEF OrderItems
<1> QED BY <1>3, <1>4, <1>5 DEF canFitOrder, Covered

\* Without deficit, canFitOrder accepts exactly the orders the visited
\* aisles can serve within UB (caches.hpp:230).
THEOREM CanFit == StateSpec => []CanFitIsExact
<1>1. StateTypeOK /\ StateInv => CanFitIsExact
  BY FitTestIsExact DEF StateIInv
<1> QED BY <1>1, StateCorrect, PTL

\* The prune test is exact.
LEMMA PruneTestIsExact ==
  ASSUME StateIInv
  PROVE  CanRemoveIsExact
<1> SUFFICES ASSUME deficitItems = {}, NEW a \in aisleSolution
             PROVE  canRemove(a) <=> Covered(orderSolution, aisleSolution \ {a})
  BY DEF CanRemoveIsExact
<1>1. /\ StateTypeOK /\ BalanceInv /\ DeficitInv
  BY DEF StateIInv, StateInv
<1>2. aisleSolution \in SUBSET Aisles /\ a \in Aisles
  BY <1>1 DEF StateTypeOK
<1>3. ASSUME NEW i \in Items
      PROVE  Required(orderSolution, i) <= Available(aisleSolution \ {a}, i)
               <=> (i \in AisleItems(a) => itemBalance[i] - AisleQty[a][i] >= 0)
  <2>1. /\ Available(aisleSolution, i) \in Nat
        /\ Required(orderSolution, i) \in Nat
        /\ AisleQty[a][i] \in Nat
    BY <1>1, <1>2, QuantityTypes DEF StateTypeOK
  <2>2. itemBalance[i] = Available(aisleSolution, i)
                           - Required(orderSolution, i)
    BY <1>1 DEF BalanceInv
  <2>3. Available(aisleSolution \ {a}, i)
          = Available(aisleSolution, i) - AisleQty[a][i]
    BY <1>2, AvailableStep
  <2>4. ~ (itemBalance[i] < 0)
    BY <1>1 DEF DeficitInv
  <2>5. i \in AisleItems(a) <=> AisleQty[a][i] > 0
    BY DEF AisleItems
  <2> QED BY <2>1, <2>2, <2>3, <2>4, <2>5
<1>4. AisleItems(a) \subseteq Items
  BY DEF AisleItems
<1> QED BY <1>3, <1>4 DEF canRemove, Covered

\* Without deficit, the prune test accepts exactly the visited aisles the
\* solution does not need (caches.hpp:250).
THEOREM CanRemove == StateSpec => []CanRemoveIsExact
<1>1. StateTypeOK /\ StateInv => CanRemoveIsExact
  BY PruneTestIsExact DEF StateIInv
<1> QED BY <1>1, StateCorrect, PTL

=============================================================================
