---------------------------- MODULE Heuristics ----------------------------
(***************************************************************************)
(* One run of a State based heuristic, as main chooses it (main.cpp:41-50):*)
(* a construction over an empty Solution, then HeurCached::refinement.     *)
(***************************************************************************)
EXTENDS HeurCached, Heur3, Heur4

vars == <<refinementVars, constructionVars>>

\* The switch of main over its first argument, -1 if there is none.  Heur1 works
\* on a plain Solution: it has a module of its own.
Arguments == -1 .. 4

dispatch(n) ==
  CASE n = 0 -> "Heur1"
    [] n = 2 -> "Heur3"
    [] n = 3 -> "Heur4"
    [] OTHER -> "HeurCached"

HeuristicNames == {dispatch(n) : n \in Arguments} \ {"Heur1"}

Init ==
  /\ RefinementInit
  /\ pc = "construct"
  /\ heuristic \in HeuristicNames
  /\ candidates = IF heuristic = "Heur4" THEN Aisles ELSE Orders

Construct ==
  \/ \E o \in Orders : CachedPick(o) \/ Heur3Pick(o) \/ Heur3Discard(o)
  \/ \E a \in Aisles : Heur4Pick(a) \/ Heur4Discard(a)
  \/ KeepOrder \/ RollbackOrder
  \/ CachedEnds \/ Heur3Ends \/ FinalPruned
  \/ Heur4Filled \/ Heur4Ends

\* The heuristic has returned.
Returned == pc = "done" /\ UNCHANGED vars

Step == Construct \/ (RefinementNext /\ UNCHANGED constructionVars)

Next == Step \/ Returned

\* The heuristic is sequential code: it runs on.
Spec == Init /\ [][Next]_vars /\ WF_vars(Step)

-----------------------------------------------------------------------------
(* Properties *)

PCs == {"construct", "repair", "finalPrune", "greedyFill", "refineRepair",
        "refinePrune", "iterate", "add", "added", "drop", "dropPrune",
        "restore", "addAisle", "refineFill", "done"}

\* Every variable of the heuristics holds what its type allows.
TypeOK ==
  /\ StateTypeOK
  /\ pc \in PCs
  /\ pick \in Orders \cup {None}
  /\ todo \subseteq Orders
  /\ scan \subseteq Aisles
  /\ removedAisles \in Seq(Aisles)
  /\ queue \subseteq Aisles \X Items \X Orders
  /\ currentScore \in Int \X {AisleCount}
  /\ heuristic \in HeuristicNames
  /\ candidates \subseteq (Orders \cup Aisles)

\* The wave decided on.  An order being tried is not in it yet, and an order
\* or an aisle a drop has taken out is still in it.
committedOrders ==
  CASE pc \in {"repair", "added"}     -> orderSolution \ {pick}
    [] pc \in {"dropPrune"}           -> orderSolution \cup {pick}
    [] OTHER                          -> orderSolution

committedAisles == aisleSolution \cup ToSet(removedAisles)

Wave == INSTANCE CommittedWave WITH orders <- committedOrders,
                                    aisles <- committedAisles

\* A heuristic only ever moves its committed wave the way CommittedWave
\* allows: a failed repair, an ADD that is undone and a DROP that is reverted
\* leave it exactly as it was (heuristic2.cpp:69-75, 107-121, 127-149,
\* heuristic3.cpp:101-117).
WaveSpec == Wave!WaveSpec

\* Wherever a heuristic reads deficitItems as settled, nothing is in
\* deficit: at the heads of its loops, and while it prunes or fills.
SettledWithoutDeficit ==
  pc \notin {"repair", "restore"} => deficitItems = {}

\* Pruning leaves no redundant aisle: an aisle visited by the scan and kept
\* is needed, although aisles that leave later change every balance
\* (caches.hpp:246-265).
PruneLeavesNoRedundantAisle ==
  pc \in {"finalPrune", "refinePrune", "dropPrune"} =>
    \A a \in aisleSolution \ scan : ~ Covered(orderSolution, aisleSolution \ {a})

\* A repair gives up only on a wave that not even the whole warehouse serves:
\* "Impossible to satisfy" (caches.hpp:309).
RepairFailsOnlyWhenImpossible ==
  pc \in {"repair", "refineRepair"} /\ repairFailed =>
    \E i \in Items : Required(orderSolution, i) > globalItemAvailability(i)

\* A heuristic that returns has no free fill left: no other order that has
\* units can be added to the visited aisles and give a feasible wave
\* (heuristic2.cpp:104-121).
NoFreeFillLeft ==
  pc = "done" =>
    \A o \in Orders \ orderSolution :
      orderTotalUnits[o] > 0 =>
        ~ checkFeasibility(orderSolution \cup {o}, aisleSolution)

\* Once the refinement works on a feasible wave, every later iteration and
\* the result are feasible.
FeasibleStaysFeasible ==
  LET Feasible == checkFeasibility(orderSolution, aisleSolution)
      AtHead == pc \in {"iterate", "done"}
  IN  [](AtHead /\ Feasible => [](AtHead => Feasible))

\* Every construction ends: the repair loop runs out of aisles and the pool
\* of candidates out of candidates.
ConstructionEnds == <>(pc = "iterate")

\* The refinement ends too (a property that fails).
HeuristicReturns == <>(pc = "done")

\* A drop that raises units per visited aisle, the objective of the problem
\* and the score main keeps, and stays above LB is kept (a property that
\* fails).
DropKeepsBetterWave ==
  [][pc = "dropPrune" /\ scan = {}
      /\ Exceeds(calculateScore(orderSolution, aisleSolution),
                 calculateScore(committedOrders, committedAisles))
      /\ currentTotalUnits >= LB
      => pc' = "iterate"]_vars

\* "only check top 5 providers per item" (caches.hpp:305; a property that
\* fails).
ScoresTopProviders ==
  \A i \in deficitItems : Cardinality(ScoredProviders(i)) <= ProviderLimit

\* A round of Heur3 that discards an order has sampled none that fits: "All
\* sampled items were bad (hit UB)" (heuristic3.cpp:86; a property that
\* fails).
DiscardsOnlyOverUB ==
  [][heuristic = "Heur3" /\ pc = "construct" /\ pc' = "construct"
      => \A o \in candidates \ candidates' : ~ fitsUB(o)]_vars

=============================================================================
