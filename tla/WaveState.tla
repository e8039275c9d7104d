----------------------------- MODULE WaveState -----------------------------
(***************************************************************************)
(* struct State (caches.hpp): the mutable cache every heuristic edits.     *)
(* It keeps, next to the two sets of the Solution, the balance of every    *)
(* item, the set of items in deficit and the units picked, and updates     *)
(* them by the lines of the one order or aisle that enters or leaves, so   *)
(* that isFeasible and canFitOrder never scan the solution again.          *)
(*                                                                         *)
(* Each heuristic run owns one State; no two threads share one.  A         *)
(* vector<bool> is the set of its true indices.                            *)
(***************************************************************************)
EXTENDS WaveProblem

VARIABLES
  itemBalance,        \* available - required, per item
  deficitItems,       \* the items whose balance is negative
  currentTotalUnits,  \* units of the selected orders
  aisleSelected,      \* vector<bool>
  orderSelected,      \* vector<bool>
  aisleSolution,      \* Solution::mAisles, by reference
  orderSolution       \* Solution::mOrders, by reference

aisleVars == <<aisleSelected, aisleSolution>>
orderVars == <<orderSelected, orderSolution, currentTotalUnits>>
stateVars == <<itemBalance, deficitItems, aisleVars, orderVars>>

-----------------------------------------------------------------------------
(* Construction of a State over an empty Solution: reset() has nothing to  *)
(* add back.  The program constructs it over no other.                     *)

StateInit ==
  /\ itemBalance = [i \in Items |-> 0]
  /\ deficitItems = {}
  /\ currentTotalUnits = 0
  /\ aisleSelected = {} /\ orderSelected = {}
  /\ aisleSolution = {} /\ orderSolution = {}

\* Mutant of Gain: an item whose balance comes back to exactly 0 stays in
\* deficit.
GainAbove(qty) ==
  /\ itemBalance' = [i \in Items |-> itemBalance[i] + qty[i]]
  /\ deficitItems' = deficitItems \
       {i \in Items : itemBalance[i] < 0 /\ itemBalance[i] + qty[i] > 0}

\* The line loop of addAisle and removeOrder: each item gains its units and
\* leaves deficitItems if it was in deficit and no longer is.
Gain(qty) ==
  /\ itemBalance' = [i \in Items |-> itemBalance[i] + qty[i]]
  /\ deficitItems' = deficitItems \
       {i \in Items : itemBalance[i] < 0 /\ itemBalance[i] + qty[i] >= 0}

\* The line loop of addOrder and removeAisle: each item loses its units and
\* enters deficitItems if it was not in deficit and now is.
Lose(qty) ==
  /\ itemBalance' = [i \in Items |-> itemBalance[i] - qty[i]]
  /\ deficitItems' = deficitItems \cup
       {i \in Items : itemBalance[i] >= 0 /\ itemBalance[i] - qty[i] < 0}

\* Mutant of addAisle: aisles numbered from 1, as a file might.
addAisleFromOne(a) ==
  /\ a \notin aisleSelected
  /\ aisleSelected' = aisleSelected \cup {a}
  /\ aisleSolution' = aisleSolution \cup {a + 1}
  /\ Gain(AisleQty[a])
  /\ UNCHANGED orderVars

addAisle(a) ==
  \/ a \in aisleSelected /\ UNCHANGED stateVars
  \/ /\ a \notin aisleSelected
     /\ aisleSelected' = aisleSelected \cup {a}
     /\ aisleSolution' = aisleSolution \cup {a}
     /\ Gain(AisleQty[a])
     /\ UNCHANGED orderVars

removeAisle(a) ==
  \/ a \notin aisleSelected /\ UNCHANGED stateVars
  \/ /\ a \in aisleSelected
     /\ aisleSelected' = aisleSelected \ {a}
     /\ aisleSolution' = aisleSolution \ {a}
     /\ Lose(AisleQty[a])
     /\ UNCHANGED orderVars

addOrder(o) ==
  \/ o \in orderSelected /\ UNCHANGED stateVars
  \/ /\ o \notin orderSelected
     /\ orderSelected' = orderSelected \cup {o}
     /\ orderSolution' = orderSolution \cup {o}
     /\ currentTotalUnits' = currentTotalUnits + orderTotalUnits[o]
     /\ Lose(OrderQty[o])
     /\ UNCHANGED aisleVars

\* Mutant of removeOrder: the running total is not taken back.
removeOrderOnly(o) ==
  /\ o \in orderSelected
  /\ orderSelected' = orderSelected \ {o}
  /\ orderSolution' = orderSolution \ {o}
  /\ Gain(OrderQty[o])
  /\ UNCHANGED <<currentTotalUnits, aisleVars>>

removeOrder(o) ==
  \/ o \notin orderSelected /\ UNCHANGED stateVars
  \/ /\ o \in orderSelected
     /\ orderSelected' = orderSelected \ {o}
     /\ orderSolution' = orderSolution \ {o}
     /\ currentTotalUnits' = currentTotalUnits - orderTotalUnits[o]
     /\ Gain(OrderQty[o])
     /\ UNCHANGED aisleVars

StateNext ==
  \/ \E a \in Aisles : addAisle(a) \/ removeAisle(a)
  \/ \E o \in Orders : addOrder(o) \/ removeOrder(o)

StateSpec == StateInit /\ [][StateNext]_stateVars

-----------------------------------------------------------------------------
(* The queries the heuristics decide with. *)

isFeasible ==
  /\ deficitItems = {}
  /\ currentTotalUnits >= LB
  /\ currentTotalUnits <= UB

\* Mutant of canFitOrder: an order that takes the last unit does not fit.
canFitWithSpare(o) ==
  /\ currentTotalUnits + orderTotalUnits[o] <= UB
  /\ \A i \in OrderItems(o) : itemBalance[i] > OrderQty[o][i]

canFitOrder(o) ==
  /\ currentTotalUnits + orderTotalUnits[o] <= UB
  /\ \A i \in OrderItems(o) : itemBalance[i] >= OrderQty[o][i]

\* Mutant of canRemove: some unit must remain.
canRemoveWithSpare(a) ==
  \A i \in AisleItems(a) : itemBalance[i] - AisleQty[a][i] > 0

\* The test of pruneAislesToFitOrders: no line of aisle a is needed.
canRemove(a) == \A i \in AisleItems(a) : itemBalance[i] - AisleQty[a][i] >= 0

\* State::calculateScore.  The denominator is the length of the
\* vector aisleSelected: every aisle of the warehouse, visited or not.
stateScore == <<currentTotalUnits, AisleCount>>

-----------------------------------------------------------------------------
(* Properties *)

\* Every variable holds what its C++ type and range allow.
StateTypeOK ==
  /\ itemBalance \in [Items -> Int]
  /\ deficitItems \subseteq Items
  /\ currentTotalUnits \in Int
  /\ aisleSelected \subseteq Aisles /\ aisleSolution \subseteq Aisles
  /\ orderSelected \subseteq Orders /\ orderSolution \subseteq Orders

\* The bit vectors mirror the sets of the Solution.
MirrorInv == aisleSelected = aisleSolution /\ orderSelected = orderSolution

\* The balance kept line by line is the balance of the whole solution.
BalanceInv ==
  \A i \in Items : itemBalance[i] = Available(aisleSolution, i)
                                      - Required(orderSolution, i)

\* deficitItems, edited only when a balance changes sign, is exactly the set
\* of items with a negative balance.
DeficitInv == deficitItems = {i \in Items : itemBalance[i] < 0}

\* The running total is the total of the selected orders.
UnitsInv == currentTotalUnits = getTotalUnits(orderSolution)

\* The incremental cache describes the solution it stands for, after any
\* sequence of add and remove calls, repeated calls included
\* (caches.hpp:82-215).
StateInv == MirrorInv /\ BalanceInv /\ DeficitInv /\ UnitsInv

\* The O(1) test the heuristics act on (caches.hpp:218) gives the verdict of
\* the full recomputation that decides in main what is kept
\* (Solution::checkFeasibility, common.hpp:203).
FastFeasibilityAgrees ==
  isFeasible <=> checkFeasibility(orderSolution, aisleSolution)

\* In a state without deficit canFitOrder (caches.hpp:230) accepts exactly
\* the orders that the visited aisles can serve within UB.
CanFitIsExact ==
  deficitItems = {} =>
    \A o \in Orders \ orderSolution :
      canFitOrder(o) <=> /\ Covered(orderSolution \cup {o}, aisleSolution)
                         /\ getTotalUnits(orderSolution \cup {o}) <= UB

\* In a state without deficit the prune test (caches.hpp:250-258) accepts
\* exactly the visited aisles that the solution does not need.
CanRemoveIsExact ==
  deficitItems = {} =>
    \A a \in aisleSolution :
      canRemove(a) <=> Covered(orderSolution, aisleSolution \ {a})

=============================================================================
