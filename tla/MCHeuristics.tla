---------------------------- MODULE MCHeuristics ----------------------------
(***************************************************************************)
(* A small warehouse for the heuristics.  Item 1 is in four aisles, more   *)
(* than ProviderLimit + 1, and order 2 needs three of them; item 2 is      *)
(* scarce, so that order 3 has no solution and its repair fails after      *)
(* aisles were added; order 4 exceeds UB on its own; aisle 1 can make the  *)
(* aisles a repair added before it redundant.                              *)
(***************************************************************************)
EXTENDS Heuristics, TLC

OrderRows == (0 :> <<1, 0, 0>>) @@ (1 :> <<0, 0, 1>>) @@ (2 :> <<0, 4, 0>>)
               @@ (3 :> <<0, 5, 2>>) @@ (4 :> <<5, 5, 1>>) @@ (5 :> <<1, 1, 1>>)
AisleRows == (0 :> <<4, 0, 0>>) @@ (1 :> <<1, 2, 0>>) @@ (2 :> <<0, 1, 0>>)
               @@ (3 :> <<0, 1, 1>>) @@ (4 :> <<0, 1, 0>>)

\* A row <<x, y, ...>> as a function of the item ids, which start at 0.
ByItem(rows) == [r \in DOMAIN rows |-> [i \in Items |-> rows[r][i + 1]]]
MCOrderQty == ByItem(OrderRows)
MCAisleQty == ByItem(AisleRows)
=============================================================================
