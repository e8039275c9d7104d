---------------------------- MODULE MCFindings ----------------------------
(***************************************************************************)
(* Small warehouses on which the heuristics do what the documents and      *)
(* comments do not say.                                                    *)
(*                                                                         *)
(* Drop: order 1 is one unit in an aisle of its own; without it the wave   *)
(* has 4 units in 1 aisle in place of 5 units in 2.                        *)
(*                                                                         *)
(* Loop: two orders of one unit of item 1, both served by either aisle.    *)
(*                                                                         *)
(* Wide: one unit of one item, in each of seven aisles.                    *)
(***************************************************************************)
EXTENDS Heuristics, TLC

\* A row <<x, y>> as a function of the item ids, which start at 0.
ByItem(rows) == [r \in DOMAIN rows |-> [i \in Items |-> rows[r][i + 1]]]

DropOrderQty == ByItem((0 :> <<4, 0>>) @@ (1 :> <<0, 1>>))
DropAisleQty == ByItem((0 :> <<4, 0>>) @@ (1 :> <<0, 1>>))

LoopOrderQty == ByItem((0 :> <<0, 1>>) @@ (1 :> <<0, 1>>))
LoopAisleQty == ByItem((0 :> <<0, 5>>) @@ (1 :> <<0, 5>>))

WideOrderQty == [o \in Orders |-> [i \in Items |-> 1]]
WideAisleQty == [a \in Aisles |-> [i \in Items |-> 1]]
=============================================================================
