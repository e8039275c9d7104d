----------------------------- MODULE MCBaseline -----------------------------
(***************************************************************************)
(* Three orders and three aisles for the baseline: one aisle serves order  *)
(* 1 or 2, two aisles serve the best wave, a wave in three aisles has more *)
(* units and a lower score, and all the orders together exceed UB.         *)
(*                                                                         *)
(* Ten: the shortest program that still solves, in units of 15 seconds.    *)
(***************************************************************************)
EXTENDS Baseline, TLC

\* A row <<x, y, ...>> as a function of the item ids, which start at 0.
ByItem(rs) == [r \in DOMAIN rs |-> [i \in Items |-> rs[r][i + 1]]]

MCOrderQty == ByItem((0 :> <<3, 3>>) @@ (1 :> <<0, 1>>) @@ (2 :> <<1, 1>>))
MCAisleQty == ByItem((0 :> <<3, 0>>) @@ (1 :> <<0, 3>>) @@ (2 :> <<1, 1>>))

TenOrderQty == ByItem(0 :> <<1>>)
TenAisleQty == ByItem(0 :> <<1>>)

\* MAX_RUNTIME is declared as "milliseconds; 10 minutes" (main.cpp:23): the run
\* ends within ten minutes, 40 units of 15 seconds, if the model was built.
EndsInTenMinutes == noFault /\ timeLimit # None => now <= 40
=============================================================================
