----------------------------- MODULE MCChallenge -----------------------------
(***************************************************************************)
(* Three instances, the second unreadable, and two runs.  Order 0 needs    *)
(* one of the aisles 0 and 1 or both, order 1 needs aisle 1; both orders   *)
(* exceed UB.                                                              *)
(***************************************************************************)
EXTENDS Challenge, TLC

\* A row <<x, y, ...>> as a function of the item ids, which start at 0.
ByItem(rows) == [r \in DOMAIN rows |-> [i \in Items |-> rows[r][i + 1]]]

MCOrderQty == ByItem((0 :> <<2, 0>>) @@ (1 :> <<2, 1>>))
MCAisleQty == ByItem((0 :> <<2, 0>>) @@ (1 :> <<2, 1>>))
=============================================================================
