------------------------------- MODULE Heur3 -------------------------------
(***************************************************************************)
(* Heur3::construction (heuristic3.cpp:5-132): each round picks an order   *)
(* from the RCL of a sample of the candidates; if the sample has no valid  *)
(* order, its first one is discarded.                                      *)
(***************************************************************************)
EXTENDS GraspConstruction

\* Over UB means the poison score -1.0, below the cutoff like a low score.
validOrders(S) == {o \in S : fitsUB(o) /\ AboveCutoff(orderScore(o))}

rclOf(S) == Restricted([u \in validOrders(S) |-> orderScore(u)])

Heur3Pick(o) ==
  /\ heuristic = "Heur3" /\ pc = "construct"
  /\ \E S \in Samples : o \in rclOf(S)
  /\ tryOrder(o)

Heur3Discard(o) ==
  /\ heuristic = "Heur3" /\ pc = "construct"
  /\ \E S \in Samples : o \in S /\ rclOf(S) = {}
  /\ candidates' = candidates \ {o}
  /\ UNCHANGED <<refinementVars, heuristic>>

Heur3Ends ==
  /\ heuristic = "Heur3" /\ pc = "construct"
  /\ candidates = {}
  /\ startFinalPrune

=============================================================================
