------------------------- MODULE GraspConstruction -------------------------
(***************************************************************************)
(* What the three State based constructions share: the pool of candidates, *)
(* the restricted candidate list (RCL), and the try, repair, keep or roll  *)
(* back of one order, which heuristic2.cpp and heuristic3.cpp both write   *)
(* out.                                                                    *)
(*                                                                         *)
(* A score is the logarithm of a ratio; the ratio <<n, d>> stands for it.  *)
(* With alpha = 0.5 the threshold max - alpha * (max - min) on logarithms  *)
(* is r * r >= max * min on ratios.                                        *)
(***************************************************************************)
EXTENDS WaveRefinement

CONSTANT SampleSize    \* SAMPLE_SIZE of heuristic3.cpp and heuristic4.cpp

ASSUME SampleAssumption == SampleSize \in Nat \ {0}

VARIABLES
  heuristic,   \* which construction this run executes
  candidates   \* the orders, or for Heur4 the aisles, not yet decided

constructionVars == <<heuristic, candidates>>

-----------------------------------------------------------------------------
(* Scores *)

\* Items the order would leave short whose best provider is not selected:
\* one new aisle each.
estimatedNewAisles(o) ==
  Cardinality({i \in OrderItems(o) :
                 /\ itemBalance[i] < OrderQty[o][i]
                 /\ ~ (Providers(i) # {} /\ TopAisle(i) \in aisleSelected)})

orderScore(o) == <<currentTotalUnits + orderTotalUnits[o],
                   Cardinality(aisleSolution) + estimatedNewAisles(o)>>

fitsUB(o) == currentTotalUnits + orderTotalUnits[o] <= UB

\* The scored candidates whose score reaches the threshold.
Restricted(score) ==
  LET S == DOMAIN score
  IN  {x \in S : \E lo \in S : \A hi \in S :
         score[x][1] * score[x][1] * score[lo][2] * score[hi][2]
           >= score[lo][1] * score[hi][1] * score[x][2] * score[x][2]}

\* The sampling heuristics drop a score of -0.5 or less: a ratio of at most
\* exp(-0.5) = 0.6065...
AboveCutoff(r) == 10000 * r[1] > 6065 * r[2]

\* A round of Heur3 and Heur4 draws min(|candidates|, SampleSize) times with
\* replacement: any small enough set of candidates can be the sample, and any
\* of its members the first one drawn.
Samples == {S \in SUBSET candidates : S # {} /\ Cardinality(S) <= SampleSize}

-----------------------------------------------------------------------------
(* Try one order *)

tryOrder(o) ==
  /\ addOrder(o)
  /\ pick' = o
  /\ pc' = "repair"
  /\ UNCHANGED <<constructionVars, todo, scan, removedAisles, currentScore,
                 queue>>

\* Mutant of leaveTry: the order stays in the pool.
leaveTryInPool ==
  /\ pick' = None
  /\ pc' = "construct"
  /\ UNCHANGED <<candidates, heuristic, todo, scan, removedAisles, currentScore,
                 queue>>

leaveTry ==
  /\ candidates' = candidates \ {pick}
  /\ pick' = None
  /\ pc' = "construct"
  /\ UNCHANGED <<heuristic, todo, scan, removedAisles, currentScore, queue>>

KeepOrder     == pc = "repair" /\ repaired /\ UNCHANGED stateVars /\ leaveTry
\* Mutant of RollbackOrder: the order that cannot be served stays in.
RollbackNothing == pc = "repair" /\ repairFailed /\ UNCHANGED stateVars /\ leaveTry

RollbackOrder == pc = "repair" /\ repairFailed /\ removeOrder(pick) /\ leaveTry

\* No candidate is left to pick from: the final cleanup starts.
startFinalPrune ==
  /\ pc' = "finalPrune"
  /\ scan' = aisleSolution
  /\ UNCHANGED <<stateVars, constructionVars, pick, todo, removedAisles,
                 currentScore, queue>>

\* The construction returns and the refinement starts.
startRefinement ==
  /\ pc' = "refineRepair"
  /\ UNCHANGED <<stateVars, constructionVars, pick, todo, scan, removedAisles,
                 currentScore, queue>>

FinalPruned == pc = "finalPrune" /\ scan = {} /\ startRefinement

=============================================================================
