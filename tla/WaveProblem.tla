---------------------------- MODULE WaveProblem ----------------------------
(***************************************************************************)
(* The wave order picking instance (struct Problem, common.hpp), the       *)
(* static tables computed from it once (struct Caches, caches.hpp), and    *)
(* what the program takes for a correct wave (struct Solution,             *)
(* common.hpp): a set of orders and a set of aisles, the units of the      *)
(* orders between LB and UB, and every item demanded available in the      *)
(* aisles.                                                                 *)
(*                                                                         *)
(* An order or an aisle is its quantity per item: 0 where the item has no  *)
(* line.  The item ids of a line are distinct and below itemCount, as in   *)
(* every instance of the data sets.                                        *)
(***************************************************************************)
EXTENDS Integers, FiniteSets

CONSTANTS
  ItemCount,      \* Problem::itemCount
  OrderCount,     \* Problem::orders.size()
  AisleCount,     \* Problem::aisles.size()
  OrderQty,       \* OrderQty[o][i]: units of item i that order o demands
  AisleQty,       \* AisleQty[a][i]: units of item i that aisle a offers
  MaxQty,         \* bound: no line has more units than this
  LB, UB          \* Problem::lb, Problem::ub

Items  == 0 .. (ItemCount - 1)
Orders == 0 .. (OrderCount - 1)
Aisles == 0 .. (AisleCount - 1)

ASSUME ProblemAssumption ==
  /\ ItemCount \in Nat /\ OrderCount \in Nat /\ AisleCount \in Nat
  /\ MaxQty \in Nat
  /\ OrderQty \in [Orders -> [Items -> 0 .. MaxQty]]
  /\ AisleQty \in [Aisles -> [Items -> 0 .. MaxQty]]
  /\ LB \in Nat /\ UB \in Nat

-----------------------------------------------------------------------------
(* Sums.  The sum of f over S is counted in units: one token <<x, k>> for   *)
(* the k-th unit of x.  Written this way its laws follow from the laws of   *)
(* Cardinality.  f takes values in 0 .. MaxQty on S.                        *)

UnitsOf(f, S) == {t \in S \X (1 .. MaxQty) : t[2] <= f[t[1]]}

SumOver(f, S) == Cardinality(UnitsOf(f, S))

\* Units of item i in the aisles A; units of item i the orders O demand.
Available(A, i) == SumOver([a \in Aisles |-> AisleQty[a][i]], A)
Required(O, i)  == SumOver([o \in Orders |-> OrderQty[o][i]], O)

-----------------------------------------------------------------------------
(* Caches *)

\* The items with a line in order o, in aisle a.
OrderItems(o) == {i \in Items : OrderQty[o][i] > 0}
AisleItems(a) == {i \in Items : AisleQty[a][i] > 0}

\* Precomputed units of every order.
orderTotalUnits == [o \in Orders |-> SumOver(OrderQty[o], Items)]

\* The aisles that hold item i, and their order in itemToAisles[i]:
\* largest quantity first, then largest index.
Providers(i) == {a \in Aisles : AisleQty[a][i] > 0}

Before(i, a, b) == \/ AisleQty[a][i] > AisleQty[b][i]
                   \/ AisleQty[a][i] = AisleQty[b][i] /\ a > b

\* itemToAisles[i][0]
TopAisle(i) ==
  CHOOSE a \in Providers(i) : \A b \in Providers(i) \ {a} : Before(i, a, b)

globalItemAvailability(i) == Available(Aisles, i)

-----------------------------------------------------------------------------
(* Solution *)

getTotalUnits(O) ==
  SumOver([p \in Orders \X Items |-> OrderQty[p[1]][p[2]]], O \X Items)

\* Every item the orders O demand is available in the aisles A.
Covered(O, A) == \A i \in Items : Required(O, i) <= Available(A, i)

checkFeasibility(O, A) ==
  /\ LB <= getTotalUnits(O) /\ getTotalUnits(O) <= UB
  /\ Covered(O, A)

\* A score is a ratio <<numerator, denominator>>.  A denominator 0 is the
\* 0.0 that calculateScore returns when no aisle is visited.
calculateScore(O, A) ==
  IF A = {} THEN <<0, 1>> ELSE <<getTotalUnits(O), Cardinality(A)>>

Exceeds(r, s) == r[1] * s[2] > s[1] * r[2]

=============================================================================
