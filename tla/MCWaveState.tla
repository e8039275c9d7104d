---------------------------- MODULE MCWaveState ----------------------------
(***************************************************************************)
(* A small warehouse for WaveState: an item in every aisle, one that only  *)
(* one aisle has, one that no aisle has, an aisle and an order of several  *)
(* lines, and an order that alone exceeds UB.                              *)
(***************************************************************************)
EXTENDS WaveState, FiniteSetsExt, Functions, TLC

MCOrderQty == (0 :> <<1, 0, 0>>) @@ (1 :> <<2, 1, 0>>)
                @@ (2 :> <<0, 1, 1>>) @@ (3 :> <<3, 2, 0>>)
MCAisleQty == (0 :> <<2, 0, 0>>) @@ (1 :> <<1, 2, 0>>)
                @@ (2 :> <<1, 0, 0>>) @@ (3 :> <<3, 0, 0>>)

\* A row <<x, y, ...>> as a function of the item ids, which start at 0.
Rows(m) == [r \in DOMAIN m |-> [i \in Items |-> m[r][i + 1]]]
OrderRows == Rows(MCOrderQty)
AisleRows == Rows(MCAisleQty)

\* SumOver, defined by counting units, is the sum.
ASSUME SumOverIsSum ==
  \A o \in Orders :
    SumOver(OrderQty[o], Items) = MapThenSumSet(LAMBDA i : OrderQty[o][i], Items)
=============================================================================
