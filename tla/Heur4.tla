------------------------------- MODULE Heur4 -------------------------------
(***************************************************************************)
(* Heur4::construction (heuristic4.cpp:5-80): aisles are picked from the   *)
(* RCL of a sample and filled greedily with the orders that fit, until the *)
(* solution is feasible.  There is no repair and no final cleanup.         *)
(***************************************************************************)
EXTENDS GraspConstruction

aisleGain(a) == <<currentTotalUnits + estimateNewItemsForAisle(a), 1>>

\* log(0) is -inf: an aisle that adds nothing to nothing is skipped too.
validAisles(S) == {a \in S : AboveCutoff(aisleGain(a))}

aisleRclOf(S) == Restricted([b \in validAisles(S) |-> aisleGain(b)])

Heur4Pick(a) ==
  /\ heuristic = "Heur4" /\ pc = "construct"
  /\ ~ isFeasible
  /\ \E S \in Samples : a \in aisleRclOf(S)
  /\ startGreedy(a)
  /\ candidates' = candidates \ {a}
  /\ pc' = "greedyFill"
  /\ UNCHANGED <<heuristic, pick, todo, scan, removedAisles, currentScore>>

Heur4Discard(a) ==
  /\ heuristic = "Heur4" /\ pc = "construct"
  /\ ~ isFeasible
  /\ \E S \in Samples : a \in S /\ aisleRclOf(S) = {}
  /\ candidates' = candidates \ {a}
  /\ UNCHANGED <<refinementVars, heuristic>>

Heur4Filled ==
  /\ pc = "greedyFill" /\ queue = {}
  /\ pc' = "construct"
  /\ UNCHANGED <<stateVars, constructionVars, pick, todo, scan, removedAisles,
                 currentScore, queue>>

Heur4Ends ==
  /\ heuristic = "Heur4" /\ pc = "construct"
  /\ candidates = {} \/ isFeasible
  /\ startRefinement

=============================================================================
