---------------------------- MODULE ImprovedWave ----------------------------
(***************************************************************************)
(* What a heuristic over the plain Solution promises (heuristic1.cpp).  A  *)
(* wave grows first: an order enters only when the aisles visited serve it *)
(* and UB holds, nothing leaves.  Once the wave has stopped growing it     *)
(* changes as a whole only, and only to a feasible wave of a strictly      *)
(* better score.                                                           *)
(***************************************************************************)
EXTENDS CommittedWave

VARIABLE growing

improvedVars == <<orders, aisles, growing>>

ImprovedInit == WaveInit /\ growing = TRUE

Grow == growing /\ (TakeOrder \/ VisitAisle) /\ UNCHANGED growing

StopGrowing == growing /\ growing' = FALSE /\ UNCHANGED waveVars

Improve ==
  /\ ~growing
  /\ orders' \in SUBSET Orders /\ aisles' \in SUBSET Aisles
  /\ checkFeasibility(orders', aisles')
  /\ Exceeds(calculateScore(orders', aisles'), calculateScore(orders, aisles))
  /\ UNCHANGED growing

ImprovedNext == Grow \/ StopGrowing \/ Improve

ImprovedSpec == ImprovedInit /\ [][ImprovedNext]_improvedVars
=============================================================================
