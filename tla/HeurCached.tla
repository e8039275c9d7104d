----------------------------- MODULE HeurCached -----------------------------
(***************************************************************************)
(* HeurCached::construction (heuristic2.cpp:5-83): orders are picked from  *)
(* the RCL of all the candidates that fit.                                 *)
(***************************************************************************)
EXTENDS GraspConstruction

cachedRcl == {o \in candidates : fitsUB(o)}

CachedPick(o) ==
  /\ heuristic = "HeurCached" /\ pc = "construct"
  /\ o \in Restricted([u \in cachedRcl |-> orderScore(u)])
  /\ tryOrder(o)

\* The pool is empty or every order left in it exceeds UB.
CachedEnds ==
  /\ heuristic = "HeurCached" /\ pc = "construct"
  /\ cachedRcl = {}
  /\ startFinalPrune

=============================================================================
