------------------------------- MODULE Heur1 -------------------------------
(***************************************************************************)
(* Heuristic 0 of main.cpp (heuristic1.cpp), which works on the plain      *)
(* Solution and not on State.  The construction allocates the stock of the *)
(* aisles to the orders, line by line; the refinement forgets the          *)
(* allocation, and rebuilds the aisles of every neighbour from its orders. *)
(*                                                                         *)
(* A step is one aisle's contribution to one line, or one neighbour tried. *)
(***************************************************************************)
EXTENDS WaveProblem

CONSTANT None    \* no order, no item

ASSUME NoneAssumption == None \notin Int

VARIABLES
  pc,                 \* "construct", "serve", "add", "remove", "swap", "done"
  candidates,         \* orders not yet decided
  mOrders, mAisles,   \* the Solution
  remainingStock,     \* remainingStock[a][i]: units of item i left in aisle a
  currentTotalUnits,  \* units of the orders served
  chosenOrder,        \* the order being served, or None
  lines,              \* its items whose line is not begun
  item, quantNeeded,  \* the line being served, or None; its units not yet found
  currentObj,         \* score of the wave when the pass of moves started
  pending             \* moves of the current kind not yet tried

constructionVars ==
  <<candidates, remainingStock, currentTotalUnits, chosenOrder, lines, item,
    quantNeeded>>
waveState == <<mOrders, mAisles>>
vars == <<pc, constructionVars, waveState, currentObj, pending>>

-----------------------------------------------------------------------------
(* Construction: the candidates of a round *)

RemainingTotal(i) == SumOver([a \in Aisles |-> remainingStock[a][i]], Aisles)

\* Mutant of validCandidates: the stock left is not looked at.
candidatesWithinUB ==
  {o \in candidates : currentTotalUnits + orderTotalUnits[o] <= UB}

\* Within UB, and the units of every item are left somewhere.
validCandidates ==
  {o \in candidates :
     /\ currentTotalUnits + orderTotalUnits[o] <= UB
     /\ \A i \in OrderItems(o) : OrderQty[o][i] <= RemainingTotal(i)}

\* The aisles not visited that still hold any item of the order.
newAislesNeeded(o) ==
  {a \in Aisles \ mAisles : \E i \in OrderItems(o) : remainingStock[a][i] > 0}

cost(o) == <<orderTotalUnits[o], 1 + Cardinality(newAislesNeeded(o))>>

\* Cost at least best - 0.3 * (best - worst).  On the threshold itself the
\* rounding of the double decides; here the order is in the list.
rcl ==
  {o \in validCandidates : \A hi \in validCandidates : \E lo \in validCandidates :
     10 * cost(o)[1] * cost(hi)[2] * cost(lo)[2]
       >= (7 * cost(hi)[1] * cost(lo)[2] + 3 * cost(lo)[1] * cost(hi)[2])
            * cost(o)[2]}

ChooseOrder(o) ==
  /\ pc = "construct"
  /\ o \in rcl
  /\ candidates' = validCandidates
  /\ mOrders' = mOrders \cup {o}
  /\ chosenOrder' = o
  /\ lines' = OrderItems(o)
  /\ pc' = "serve"
  /\ UNCHANGED <<mAisles, remainingStock, currentTotalUnits, item, quantNeeded,
                 currentObj, pending>>

-----------------------------------------------------------------------------
(* Construction: serving the chosen order *)

\* readFrom sorts the lines of an order by decreasing quantity.
nextLines ==
  {i \in lines : \A k \in lines :
     OrderQty[chosenOrder][i] >= OrderQty[chosenOrder][k]}

StartLine(i) ==
  /\ pc = "serve" /\ item = None
  /\ i \in nextLines
  /\ item' = i
  /\ quantNeeded' = OrderQty[chosenOrder][i]
  /\ lines' = lines \ {i}
  /\ UNCHANGED <<pc, candidates, waveState, remainingStock, currentTotalUnits,
                 chosenOrder, currentObj, pending>>

\* Visited aisles in any order while they have stock, then the unvisited
\* aisle of the lowest index.
sources ==
  LET holding == {a \in Aisles : remainingStock[a][item] > 0}
      visited == holding \cap mAisles
  IN  IF visited # {} THEN visited
      ELSE {a \in holding : \A b \in holding : a <= b}

smaller(m, n) == IF m < n THEN m ELSE n

\* Mutant of takeFrom: all the units needed are taken from one aisle.
takeAll(a) == remainingStock' = [remainingStock EXCEPT ![a][item] = @ - quantNeeded]

\* Mutant of takeFrom: the units taken stay on the shelf.
takeNothing(a) == UNCHANGED remainingStock

takeFrom(a) ==
  remainingStock' = [remainingStock EXCEPT
                       ![a][item] = @ - smaller(quantNeeded, @)]

Take(a) ==
  /\ pc = "serve" /\ item # None
  /\ quantNeeded > 0
  /\ a \in sources
  /\ takeFrom(a)
  /\ quantNeeded' = quantNeeded - smaller(quantNeeded, remainingStock[a][item])
  /\ mAisles' = mAisles \cup {a}
  /\ UNCHANGED <<pc, candidates, mOrders, currentTotalUnits, chosenOrder, lines,
                 item, currentObj, pending>>

EndLine ==
  /\ pc = "serve" /\ item # None
  /\ quantNeeded = 0 \/ sources = {}
  /\ item' = None
  /\ quantNeeded' = 0
  /\ UNCHANGED <<pc, candidates, waveState, remainingStock, currentTotalUnits,
                 chosenOrder, lines, currentObj, pending>>

EndOrder ==
  /\ pc = "serve" /\ item = None /\ lines = {}
  /\ currentTotalUnits' = currentTotalUnits + orderTotalUnits[chosenOrder]
  /\ candidates' = candidates \ {chosenOrder}
  /\ chosenOrder' = None
  /\ pc' = "construct"
  /\ UNCHANGED <<waveState, remainingStock, lines, item, quantNeeded, currentObj,
                 pending>>

-----------------------------------------------------------------------------
(* recomputeSolution: the aisles of a set of orders, first fit *)

\* Mutant of firstFit: the search of an item starts at the second provider.
secondFit(O, i) ==
  {a \in Providers(i) : /\ Available({b \in Aisles : b < a}, i) < Required(O, i)
                        /\ \E b \in Providers(i) : b < a}

\* An aisle with the item is visited while the aisles before it do not suffice.
firstFit(O, i) ==
  {a \in Providers(i) : Available({b \in Aisles : b < a}, i) < Required(O, i)}

recomputedAisles(O) == UNION {firstFit(O, i) : i \in Items}

\* Mutant of recomputeSucceeds: UB is not looked at.
recomputeWithoutUB(O) ==
  IF O = {} THEN LB <= 0
  ELSE /\ LB <= getTotalUnits(O)
       /\ \A i \in Items : Required(O, i) <= Available(Aisles, i)

recomputeSucceeds(O) ==
  IF O = {} THEN LB <= 0
  ELSE /\ LB <= getTotalUnits(O) /\ getTotalUnits(O) <= UB
       /\ \A i \in Items : Required(O, i) <= Available(Aisles, i)

-----------------------------------------------------------------------------
(* Refinement *)

\* A move takes the orders out of the wave and puts the orders in into it.
ordersOut(O) == Orders \ O

addMoves(O)    == {[out |-> {}, in |-> {o}] : o \in ordersOut(O)}
removeMoves(O) == {[out |-> {o}, in |-> {}] : o \in O}
swapMoves(O)   == {[out |-> {r}, in |-> {o}] : r \in O, o \in ordersOut(O)}

neighbor(m) == (mOrders \ m.out) \cup m.in

\* Orders leave in any order, but the swaps of one are tried together;
\* orders enter by increasing index.
due ==
  {m \in pending :
     /\ \A n \in pending : n.out = m.out =>
          \A o \in m.in, q \in n.in : o <= q
     /\ pc = "swap" => \A n \in pending : n.out # m.out =>
          {s \in swapMoves(mOrders) : s.out = n.out} \subseteq pending}

\* Mutant of improves: a neighbour of an equal score will do.
improvesOrEquals(m) ==
  LET O == neighbor(m)
  IN  /\ recomputeSucceeds(O)
      /\ ~ Exceeds(currentObj, calculateScore(O, recomputedAisles(O)))

\* Scores that differ do so by more than the 1e-9 of the code.
improves(m) ==
  LET O == neighbor(m)
  IN  /\ recomputeSucceeds(O)
      /\ Exceeds(calculateScore(O, recomputedAisles(O)), currentObj)

\* A pass over the moves starts with the wave <<O, A>>.
startPass(O, A) ==
  /\ mOrders' = O /\ mAisles' = A
  /\ currentObj' = calculateScore(O, A)
  /\ pending' = addMoves(O)
  /\ pc' = "add"
  /\ UNCHANGED constructionVars

\* No candidate is left: the construction returns, the refinement starts.
ConstructionEnds ==
  /\ pc = "construct" /\ validCandidates = {}
  /\ startPass(mOrders, mAisles)

\* Mutant of AcceptMove: the pass goes on over the moves left.
AcceptAndGoOn(m) ==
  /\ m \in due /\ improves(m)
  /\ mOrders' = neighbor(m) /\ mAisles' = recomputedAisles(neighbor(m))
  /\ currentObj' = calculateScore(mOrders', mAisles')
  /\ pending' = pending \ {m}
  /\ UNCHANGED <<pc, constructionVars>>

\* Every move of a later kind is tried on the wave the pass started with.
AcceptMove(m) ==
  /\ m \in due /\ improves(m)
  /\ startPass(neighbor(m), recomputedAisles(neighbor(m)))

RejectMove(m) ==
  /\ m \in due /\ ~improves(m)
  /\ pending' = pending \ {m}
  /\ UNCHANGED <<pc, constructionVars, waveState, currentObj>>

tryNext(kind, moves) ==
  /\ pc' = kind /\ pending' = moves
  /\ UNCHANGED <<constructionVars, waveState, currentObj>>

AddsTried    == pc = "add" /\ pending = {} /\ tryNext("remove", removeMoves(mOrders))
RemovesTried == pc = "remove" /\ pending = {} /\ tryNext("swap", swapMoves(mOrders))
SwapsTried   == pc = "swap" /\ pending = {} /\ tryNext("done", {})

-----------------------------------------------------------------------------
(* Specification *)

Init ==
  /\ pc = "construct"
  /\ candidates = Orders
  /\ mOrders = {} /\ mAisles = {}
  /\ remainingStock = AisleQty
  /\ currentTotalUnits = 0
  /\ chosenOrder = None /\ lines = {} /\ item = None /\ quantNeeded = 0
  /\ currentObj = <<0, 1>> /\ pending = {}

Construction ==
  \/ \E o \in Orders : ChooseOrder(o)
  \/ \E i \in Items : StartLine(i)
  \/ \E a \in Aisles : Take(a)
  \/ EndLine \/ EndOrder \/ ConstructionEnds

Refinement ==
  \/ \E m \in pending : AcceptMove(m) \/ RejectMove(m)
  \/ AddsTried \/ RemovesTried \/ SwapsTried

Next == Construction \/ Refinement

\* The heuristic is sequential code: it runs on.
Spec == Init /\ [][Next]_vars /\ WF_vars(Next)

-----------------------------------------------------------------------------
(* Properties *)

Moves == [out : SUBSET Orders, in : SUBSET Orders]

\* Every variable holds what its type in heuristic1.cpp allows, and no stock
\* is negative.
TypeOK ==
  /\ pc \in {"construct", "serve", "add", "remove", "swap", "done"}
  /\ candidates \subseteq Orders
  /\ mOrders \subseteq Orders /\ mAisles \subseteq Aisles
  /\ remainingStock \in [Aisles -> [Items -> 0 .. MaxQty]]
  /\ currentTotalUnits \in Nat
  /\ chosenOrder \in Orders \cup {None}
  /\ lines \subseteq Items
  /\ item \in Items \cup {None}
  /\ quantNeeded \in 0 .. MaxQty
  /\ currentObj \in Nat \X Nat
  /\ pending \subseteq Moves

constructing == pc \in {"construct", "serve"}

\* The orders fully served: mOrders holds the chosen order before its units
\* are found (heuristic1.cpp:134).
committedOrders == mOrders \ {chosenOrder}

\* Units of item i already found for the order being served.
served(i) ==
  IF chosenOrder = None \/ i \in lines THEN 0
  ELSE IF i = item THEN OrderQty[chosenOrder][i] - quantNeeded
  ELSE OrderQty[chosenOrder][i]

\* What has left the shelves is exactly what the orders were given, only
\* visited aisles were touched, and each of them gave something; so no unit
\* is promised twice (heuristic1.cpp:139-169).
StockIsAccountedFor ==
  constructing =>
    /\ \A i \in Items :
         RemainingTotal(i) + Required(committedOrders, i) + served(i)
           = Available(Aisles, i)
    /\ \A a \in Aisles : a \in mAisles <=> remainingStock[a] # AisleQty[a]

\* The round checked the stock of an order in total, before its lines are
\* served one after the other (heuristic1.cpp:53-65): the search for a line
\* never comes up short.
EveryLineIsServed ==
  pc = "serve" =>
    /\ item # None => quantNeeded <= RemainingTotal(item)
    /\ \A i \in lines : OrderQty[chosenOrder][i] <= RemainingTotal(i)

\* When the refinement returns, no order added, removed or swapped gives a
\* wave that recomputeSolution accepts with a better score: the pass that
\* found nothing was over the final wave (heuristic1.cpp:241-314).
LocallyOptimal ==
  pc = "done" =>
    \A m \in addMoves(mOrders) \cup removeMoves(mOrders) \cup swapMoves(mOrders) :
      recomputeSucceeds(neighbor(m)) =>
        ~ Exceeds(calculateScore(neighbor(m), recomputedAisles(neighbor(m))),
                  calculateScore(mOrders, mAisles))

\* The promise of ImprovedWave.
Improved == INSTANCE ImprovedWave
              WITH orders <- committedOrders, aisles <- mAisles,
                   growing <- constructing

\* The construction serves every order it commits to; the refinement only
\* takes feasible waves of a better score (heuristic1.cpp:235-315).
ImprovedSpec == Improved!ImprovedSpec

\* The refinement of Heur1 comes to an end: every accepted move improves the
\* score, and there are finitely many waves.
RefinementEnds == <>(pc = "done")

=============================================================================
