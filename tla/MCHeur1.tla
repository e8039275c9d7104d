------------------------------ MODULE MCHeur1 ------------------------------
(***************************************************************************)
(* Seven orders and five aisles for Heur1: orders leave the candidates over *)
(* UB and for lack of stock, lines take from several aisles, constructions *)
(* end below LB, the first fit needs more aisles than the construction     *)
(* visited, and adding, removing and swapping orders all get accepted.     *)
(***************************************************************************)
EXTENDS Heur1, TLC

\* A row <<x, y, ...>> as a function of the item ids, which start at 0.
ByItem(rows) == [r \in DOMAIN rows |-> [i \in Items |-> rows[r][i + 1]]]

MCOrderQty == ByItem((0 :> <<1, 2, 2>>) @@ (1 :> <<0, 3, 0>>) @@ (2 :> <<0, 3, 0>>)
                @@ (3 :> <<1, 3, 0>>) @@ (4 :> <<0, 1, 0>>) @@ (5 :> <<0, 2, 0>>)
                @@ (6 :> <<1, 1, 2>>))
MCAisleQty == ByItem((0 :> <<0, 3, 1>>) @@ (1 :> <<2, 0, 1>>) @@ (2 :> <<3, 2, 1>>)
                @@ (3 :> <<3, 0, 2>>) @@ (4 :> <<3, 1, 2>>))
=============================================================================
