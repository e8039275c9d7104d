---------------------------- MODULE MCSearchPool ----------------------------
(***************************************************************************)
(* Two workers and five results: the empty solution, two feasible ones of  *)
(* equal score, a better feasible one, and an infeasible one of the best   *)
(* score.  NoneSolutions: a problem on which every run gives an infeasible *)
(* solution.                                                               *)
(***************************************************************************)
EXTENDS SearchPool, TLC

CONSTANTS t1, t2, s0, s1, s2, s3, bad

MCThreads == {t1, t2}

MCSolutions == {s0, s1, s2, s3, bad}
MCScore == (s0 :> 0) @@ (s1 :> 1) @@ (s2 :> 1) @@ (s3 :> 2) @@ (bad :> 3)
MCFeasible == [s \in MCSolutions |-> s # bad]

NoneSolutions == {s0, bad}
NoneScore == (s0 :> 0) @@ (bad :> 3)
NoneFeasible == [s \in NoneSolutions |-> FALSE]
=============================================================================
