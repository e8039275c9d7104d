------------------------- MODULE WaveProblemProofs -------------------------
(***************************************************************************)
(* The laws of the sums of WaveProblem: a sum over a disjoint union, the   *)
(* sum of one element, and what one more or one less order or aisle does   *)
(* to Available, Required and getTotalUnits.                               *)
(***************************************************************************)
EXTENDS WaveProblem, FiniteSetTheorems, FunctionTheorems, WellFoundedInduction,
        TLAPS

\* A sum over a finite set is a natural number, and the units it counts are
\* finitely many (the totals of caches.hpp:33 and common.hpp:181).
LEMMA SumType ==
  ASSUME NEW S, IsFiniteSet(S), NEW f
  PROVE  IsFiniteSet(UnitsOf(f, S)) /\ SumOver(f, S) \in Nat
<1>1. IsFiniteSet(1 .. MaxQty)
  BY FS_Interval, ProblemAssumption
<1>2. IsFiniteSet(S \X (1 .. MaxQty))
  BY <1>1, FS_Product
<1>3. UnitsOf(f, S) \in SUBSET (S \X (1 .. MaxQty))
  BY DEF UnitsOf
<1>4. IsFiniteSet(UnitsOf(f, S))
  BY <1>2, <1>3, FS_Subset
<1> QED BY <1>4, FS_CardinalityType DEF SumOver

\* The sum over the empty set is 0.
LEMMA SumEmpty ==
  ASSUME NEW f
  PROVE  SumOver(f, {}) = 0
<1>1. UnitsOf(f, {}) = {}
  BY DEF UnitsOf
<1> QED BY <1>1, FS_EmptySet DEF SumOver

\* The sum over a disjoint union is the sum of the two sums.
LEMMA SumDisjointUnion ==
  ASSUME NEW S, IsFiniteSet(S), NEW T, IsFiniteSet(T), S \cap T = {}, NEW f
  PROVE  SumOver(f, S \cup T) = SumOver(f, S) + SumOver(f, T)
<1>1. UnitsOf(f, S \cup T) = UnitsOf(f, S) \cup UnitsOf(f, T)
  BY DEF UnitsOf
<1>2. UnitsOf(f, S) \cap UnitsOf(f, T) = {}
  BY DEF UnitsOf
<1>3. /\ IsFiniteSet(UnitsOf(f, S)) /\ IsFiniteSet(UnitsOf(f, T))
      /\ SumOver(f, S) \in Nat /\ SumOver(f, T) \in Nat
  BY SumType
<1>4. Cardinality(UnitsOf(f, S) \cup UnitsOf(f, T))
        = Cardinality(UnitsOf(f, S)) + Cardinality(UnitsOf(f, T))
            - Cardinality({})
  BY <1>2, <1>3, FS_Union
<1>5. Cardinality({}) = 0
  BY FS_EmptySet
<1>6. /\ SumOver(f, S \cup T) = Cardinality(UnitsOf(f, S) \cup UnitsOf(f, T))
      /\ SumOver(f, S) = Cardinality(UnitsOf(f, S))
      /\ SumOver(f, T) = Cardinality(UnitsOf(f, T))
  BY <1>1 DEF SumOver
<1> QED BY <1>3, <1>4, <1>5, <1>6

\* The sum over one element is its value.
LEMMA SumSingleton ==
  ASSUME NEW f, NEW x, f[x] \in 0 .. MaxQty
  PROVE  SumOver(f, {x}) = f[x]
<1>1. MaxQty \in Nat /\ f[x] \in Nat /\ f[x] <= MaxQty
  BY ProblemAssumption
<1>2. UnitsOf(f, {x}) = {x} \X (1 .. f[x])
  <2>1. \A t \in {x} \X (1 .. MaxQty) : t[1] = x /\ t[2] \in 1 .. MaxQty
    OBVIOUS
  <2>2. \A t \in {x} \X (1 .. MaxQty) : t[2] <= f[t[1]] <=> t[2] \in 1 .. f[x]
    BY <1>1, <2>1
  <2>3. {x} \X (1 .. f[x]) \subseteq {x} \X (1 .. MaxQty)
    BY <1>1
  <2> QED BY <2>1, <2>2, <2>3 DEF UnitsOf
<1>3. IsFiniteSet(1 .. f[x]) /\ Cardinality(1 .. f[x]) = f[x]
  <2>1. \A n \in Nat : IsFiniteSet(1 .. n) /\ Cardinality(1 .. n) = n
    <3> SUFFICES ASSUME NEW n \in Nat
                 PROVE  IsFiniteSet(1 .. n) /\ Cardinality(1 .. n) = n
      OBVIOUS
    <3>1. /\ IsFiniteSet(1 .. n)
          /\ Cardinality(1 .. n) = IF 1 > n THEN 0 ELSE n - 1 + 1
      BY FS_Interval
    <3> QED BY <3>1
  <2> QED BY <1>1, <2>1
<1>4. IsFiniteSet({x}) /\ Cardinality({x}) = 1
  BY FS_Singleton
<1>5. Cardinality({x} \X (1 .. f[x])) = Cardinality({x}) * Cardinality(1 .. f[x])
  BY <1>3, <1>4, FS_Product
<1>6. Cardinality({x} \X (1 .. f[x])) = f[x]
  BY <1>1, <1>3, <1>4, <1>5
<1>7. SumOver(f, {x}) = Cardinality({x} \X (1 .. f[x]))
  BY <1>2, Zenon DEF SumOver
<1> QED BY <1>6, <1>7

\* One more element adds its value to a sum.
LEMMA SumAdd ==
  ASSUME NEW S, IsFiniteSet(S), NEW x, x \notin S, NEW f, f[x] \in 0 .. MaxQty
  PROVE  SumOver(f, S \cup {x}) = SumOver(f, S) + f[x]
<1>1. IsFiniteSet({x}) /\ S \cap {x} = {}
  BY FS_Singleton
<1> QED BY <1>1, SumDisjointUnion, SumSingleton

\* One element less takes its value from a sum.
LEMMA SumRemove ==
  ASSUME NEW S, IsFiniteSet(S), NEW x \in S, NEW f, f[x] \in 0 .. MaxQty
  PROVE  SumOver(f, S \ {x}) = SumOver(f, S) - f[x]
<1> DEFINE R == S \ {x}
<1>1. IsFiniteSet(R) /\ x \notin R /\ R \cup {x} = S
  BY FS_RemoveElement
<1> HIDE DEF R
<1>2. SumOver(f, R \cup {x}) = SumOver(f, R) + f[x]
  BY <1>1, SumAdd
<1>3. SumOver(f, R) \in Nat /\ f[x] \in Nat
  BY <1>1, SumType, ProblemAssumption
<1>4. SumOver(f, S) = SumOver(f, R) + f[x]
  BY <1>1, <1>2, Zenon
<1>5. SumOver(f, R) = SumOver(f, S) - f[x]
  BY <1>3, <1>4
<1> QED BY <1>5 DEF R

\* Two functions that agree have the same sum.
LEMMA SumCongruence ==
  ASSUME NEW S, NEW f, NEW g, \A x \in S : f[x] = g[x]
  PROVE  SumOver(f, S) = SumOver(g, S)
<1>1. UnitsOf(f, S) = UnitsOf(g, S)
  BY DEF UnitsOf
<1> QED BY <1>1 DEF SumOver

\* A sum over fewer elements is not larger.
LEMMA SumMonotone ==
  ASSUME NEW S, IsFiniteSet(S), NEW T \in SUBSET S, NEW f
  PROVE  SumOver(f, T) <= SumOver(f, S)
<1>1. UnitsOf(f, T) \subseteq UnitsOf(f, S)
  BY DEF UnitsOf
<1>2. IsFiniteSet(UnitsOf(f, S))
  BY SumType
<1> QED BY <1>1, <1>2, FS_Subset DEF SumOver

\* No value exceeds the sum it is part of.
LEMMA SumElement ==
  ASSUME NEW S, IsFiniteSet(S), NEW x \in S, NEW f, f[x] \in 0 .. MaxQty
  PROVE  f[x] <= SumOver(f, S)
<1>1. {x} \in SUBSET S
  OBVIOUS
<1> QED BY <1>1, SumMonotone, SumSingleton

\* A sum of zeros is 0.
LEMMA SumZero ==
  ASSUME NEW S, NEW f, \A x \in S : f[x] = 0
  PROVE  SumOver(f, S) = 0
<1>1. UnitsOf(f, S) = {}
  BY DEF UnitsOf
<1> QED BY <1>1, FS_EmptySet DEF SumOver

\* A sum changes by as much as the one value that changes.
LEMMA SumUpdate ==
  ASSUME NEW S, IsFiniteSet(S), NEW x \in S, NEW f, NEW g,
         f[x] \in 0 .. MaxQty, g[x] \in 0 .. MaxQty,
         \A y \in S \ {x} : f[y] = g[y]
  PROVE  SumOver(g, S) = SumOver(f, S) - f[x] + g[x]
<1>1. SumOver(f, S \ {x}) = SumOver(f, S) - f[x]
  BY SumRemove
<1>2. SumOver(g, S \ {x}) = SumOver(g, S) - g[x]
  BY SumRemove
<1>3. SumOver(f, S \ {x}) = SumOver(g, S \ {x})
  BY SumCongruence
<1>4. SumOver(f, S) \in Nat /\ SumOver(g, S) \in Nat /\ f[x] \in Int /\ g[x] \in Int
  BY SumType, ProblemAssumption
<1> QED BY <1>1, <1>2, <1>3, <1>4

-----------------------------------------------------------------------------
(* The sums of an instance *)

\* A set of natural numbers has a least one.
LEMMA LeastIndex ==
  ASSUME NEW S \in SUBSET Nat, S # {}
  PROVE  \E x \in S : \A y \in S : x <= y
<1> DEFINE R == OpToRel(<, Nat)
<1>1. IsWellFoundedOn(R, Nat)
  BY NatLessThanWellFounded, Zenon
<1>2. \A x, y \in Nat : <<y, x>> \in R <=> y < x
  BY DEF OpToRel
<1> HIDE DEF R
<1>3. PICK x \in S : \A y \in S : ~ (<<y, x>> \in R)
  BY <1>1, WFMin
<1>4. ASSUME NEW y \in S
      PROVE  x <= y
  <2>1. x \in Nat /\ y \in Nat /\ ~ (<<y, x>> \in R)
    BY <1>3
  <2>2. ~ (y < x)
    BY <1>2, <2>1
  <2> QED BY <2>1, <2>2
<1> QED BY <1>4

\* Items, orders and aisles are finite, and so is every set of them.
LEMMA FiniteIndices ==
  /\ IsFiniteSet(Items)
  /\ \A O \in SUBSET Orders : IsFiniteSet(O)
  /\ \A A \in SUBSET Aisles : IsFiniteSet(A)
<1>1. IsFiniteSet(Items) /\ IsFiniteSet(Orders) /\ IsFiniteSet(Aisles)
  BY FS_Interval, ProblemAssumption DEF Items, Orders, Aisles
<1> QED BY <1>1, FS_Subset

\* Quantities and sums are natural numbers.
LEMMA QuantityTypes ==
  /\ \A o \in Orders : /\ orderTotalUnits[o] \in Nat
                       /\ \A i \in Items : OrderQty[o][i] \in Nat
  /\ \A a \in Aisles : \A i \in Items : AisleQty[a][i] \in Nat
  /\ \A O \in SUBSET Orders : /\ getTotalUnits(O) \in Nat
                              /\ \A i \in Items : Required(O, i) \in Nat
  /\ \A A \in SUBSET Aisles : \A i \in Items : Available(A, i) \in Nat
<1>1. \A o \in Orders : orderTotalUnits[o] \in Nat
  BY FiniteIndices, SumType DEF orderTotalUnits
<1>2. \A o \in Orders : \A i \in Items : OrderQty[o][i] \in Nat
  BY ProblemAssumption
<1>3. \A a \in Aisles : \A i \in Items : AisleQty[a][i] \in Nat
  BY ProblemAssumption
<1>4. ASSUME NEW O \in SUBSET Orders
      PROVE  getTotalUnits(O) \in Nat /\ \A i \in Items : Required(O, i) \in Nat
  <2>1. IsFiniteSet(O) /\ IsFiniteSet(O \X Items)
    BY FiniteIndices, FS_Product
  <2> QED BY <2>1, SumType DEF getTotalUnits, Required
<1>5. ASSUME NEW A \in SUBSET Aisles
      PROVE  \A i \in Items : Available(A, i) \in Nat
  BY FiniteIndices, SumType DEF Available
<1> QED BY <1>1, <1>2, <1>3, <1>4, <1>5

\* The empty wave requires, offers and picks nothing.
LEMMA EmptyWave ==
  /\ \A i \in Items : Required({}, i) = 0 /\ Available({}, i) = 0
  /\ getTotalUnits({}) = 0
<1>1. {} \X Items = {}
  OBVIOUS
<1> QED BY <1>1, SumEmpty DEF Required, Available, getTotalUnits

\* One more or one less visited aisle moves Available by its quantity.
LEMMA AvailableStep ==
  ASSUME NEW A \in SUBSET Aisles, NEW a \in Aisles, NEW i \in Items
  PROVE  /\ a \notin A =>
              Available(A \cup {a}, i) = Available(A, i) + AisleQty[a][i]
         /\ a \in A =>
              Available(A \ {a}, i) = Available(A, i) - AisleQty[a][i]
<1> DEFINE f == [b \in Aisles |-> AisleQty[b][i]]
<1>1. IsFiniteSet(A)
  BY FiniteIndices
<1>2. f[a] = AisleQty[a][i] /\ f[a] \in 0 .. MaxQty
  BY ProblemAssumption
<1> HIDE DEF f
<1>3. a \notin A => SumOver(f, A \cup {a}) = SumOver(f, A) + f[a]
  BY <1>1, <1>2, SumAdd
<1>4. a \in A => SumOver(f, A \ {a}) = SumOver(f, A) - f[a]
  BY <1>1, <1>2, SumRemove
<1> QED BY <1>2, <1>3, <1>4 DEF Available, f

\* One more or one less order moves Required by its quantity.
LEMMA RequiredStep ==
  ASSUME NEW O \in SUBSET Orders, NEW o \in Orders, NEW i \in Items
  PROVE  /\ o \notin O =>
              Required(O \cup {o}, i) = Required(O, i) + OrderQty[o][i]
         /\ o \in O =>
              Required(O \ {o}, i) = Required(O, i) - OrderQty[o][i]
<1> DEFINE f == [p \in Orders |-> OrderQty[p][i]]
<1>1. IsFiniteSet(O)
  BY FiniteIndices
<1>2. f[o] = OrderQty[o][i] /\ f[o] \in 0 .. MaxQty
  BY ProblemAssumption
<1> HIDE DEF f
<1>3. o \notin O => SumOver(f, O \cup {o}) = SumOver(f, O) + f[o]
  BY <1>1, <1>2, SumAdd
<1>4. o \in O => SumOver(f, O \ {o}) = SumOver(f, O) - f[o]
  BY <1>1, <1>2, SumRemove
<1> QED BY <1>2, <1>3, <1>4 DEF Required, f

\* The units of one order counted among the lines of all orders are the
\* units precomputed for it (caches.hpp:55-66 against common.hpp:181-189).
LEMMA OneOrderUnits ==
  ASSUME NEW o \in Orders
  PROVE  getTotalUnits({o}) = orderTotalUnits[o]
<1> DEFINE f == [p \in Orders \X Items |-> OrderQty[p[1]][p[2]]]
           S == UnitsOf(OrderQty[o], Items)
           T == UnitsOf(f, {o} \X Items)
           F == [t \in S |-> <<<<o, t[1]>>, t[2]>>]
<1>1. IsFiniteSet(S)
  BY FiniteIndices, SumType
<1>2. \A i \in Items : f[<<o, i>>] = OrderQty[o][i]
  OBVIOUS
<1> HIDE DEF f
<1>3. ASSUME NEW t \in S
      PROVE  F[t] \in T
  <2>1. t \in Items \X (1 .. MaxQty) /\ t[2] <= OrderQty[o][t[1]]
    BY <1>3 DEF UnitsOf
  <2>2. <<<<o, t[1]>>, t[2]>> \in ({o} \X Items) \X (1 .. MaxQty)
    BY <2>1
  <2> QED BY <1>2, <2>1, <2>2 DEF UnitsOf
<1>4. ASSUME NEW u \in T
      PROVE  \E t \in S : F[t] = u
  <2>1. u \in ({o} \X Items) \X (1 .. MaxQty) /\ u[2] <= f[u[1]]
    BY <1>4 DEF UnitsOf
  <2>2. PICK i \in Items, k \in 1 .. MaxQty : u = <<<<o, i>>, k>>
    BY <2>1
  <2>3. <<i, k>> \in S
    BY <1>2, <2>1, <2>2 DEF UnitsOf
  <2>4. F[<<i, k>>] = u
    BY <2>2, <2>3
  <2> QED BY <2>3, <2>4
<1>5. ASSUME NEW s \in S, NEW t \in S, F[s] = F[t]
      PROVE  s = t
  <2>1. s \in Items \X (1 .. MaxQty) /\ t \in Items \X (1 .. MaxQty)
    BY <1>5 DEF UnitsOf
  <2>2. <<<<o, s[1]>>, s[2]>> = <<<<o, t[1]>>, t[2]>>
    BY <1>5
  <2> QED BY <2>1, <2>2
<1>6. F \in [S -> T]
  BY <1>3
<1> HIDE DEF F, S, T
<1>7. F \in Bijection(S, T)
  BY <1>4, <1>5, <1>6, Fun_IsBij
<1>8. Cardinality(T) = Cardinality(S)
  BY <1>1, <1>7, FS_Bijection DEF ExistsBijection
<1> QED BY <1>8 DEF S, T, f, SumOver, getTotalUnits, orderTotalUnits

\* One more or one less order moves the total by its precomputed units.
LEMMA TotalStep ==
  ASSUME NEW O \in SUBSET Orders, NEW o \in Orders
  PROVE  /\ o \notin O =>
              getTotalUnits(O \cup {o}) = getTotalUnits(O) + orderTotalUnits[o]
         /\ o \in O =>
              getTotalUnits(O \ {o}) = getTotalUnits(O) - orderTotalUnits[o]
<1>1. ASSUME NEW P \in SUBSET Orders, o \notin P
      PROVE  getTotalUnits(P \cup {o}) = getTotalUnits(P) + orderTotalUnits[o]
  <2>1. (P \cup {o}) \X Items = (P \X Items) \cup ({o} \X Items)
    OBVIOUS
  <2>2. (P \X Items) \cap ({o} \X Items) = {}
    BY <1>1
  <2>3. IsFiniteSet(P \X Items) /\ IsFiniteSet({o} \X Items)
    BY FiniteIndices, FS_Product
  <2>4. getTotalUnits(P \cup {o}) = getTotalUnits(P) + getTotalUnits({o})
    BY <2>1, <2>2, <2>3, SumDisjointUnion DEF getTotalUnits
  <2> QED BY <2>4, OneOrderUnits
<1>2. ASSUME o \in O
      PROVE  getTotalUnits(O \ {o}) = getTotalUnits(O) - orderTotalUnits[o]
  <2>1. O \ {o} \in SUBSET Orders /\ o \notin O \ {o} /\ (O \ {o}) \cup {o} = O
    BY <1>2
  <2>2. getTotalUnits(O) = getTotalUnits(O \ {o}) + orderTotalUnits[o]
    BY <1>1, <2>1
  <2>3. getTotalUnits(O \ {o}) \in Nat /\ orderTotalUnits[o] \in Nat
    BY <2>1, QuantityTypes
  <2> QED BY <2>2, <2>3
<1> QED BY <1>1, <1>2

\* Less aisles do not hold more of an item.
LEMMA AvailableMonotone ==
  ASSUME NEW A \in SUBSET Aisles, NEW B \in SUBSET A, NEW i \in Items
  PROVE  Available(B, i) <= Available(A, i)
BY FiniteIndices, SumMonotone DEF Available

\* The aisles without the item do not count for it.
LEMMA AvailableOfProviders ==
  ASSUME NEW A \in SUBSET Aisles, NEW i \in Items
  PROVE  Available(A, i) = Available(A \cap Providers(i), i)
<1> DEFINE f == [a \in Aisles |-> AisleQty[a][i]]
           P == A \cap Providers(i)
           N == A \ Providers(i)
<1>1. A = P \cup N /\ P \cap N = {} /\ IsFiniteSet(P) /\ IsFiniteSet(N)
  BY FiniteIndices
<1>2. \A a \in N : f[a] = 0
  BY QuantityTypes DEF Providers
<1>3. SumOver(f, N) = 0
  BY <1>2, SumZero
<1> HIDE DEF f, P, N
<1>4. SumOver(f, P \cup N) = SumOver(f, P) + SumOver(f, N)
  BY <1>1, SumDisjointUnion
<1>5. SumOver(f, P) \in Nat
  BY <1>1, SumType
<1>6. SumOver(f, A) = SumOver(f, P)
  BY <1>1, <1>3, <1>4, <1>5
<1> QED BY <1>6 DEF Available, f, P

\* Fewer orders do not demand more of an item, and have no more units.
LEMMA RequiredMonotone ==
  ASSUME NEW O \in SUBSET Orders, NEW P \in SUBSET O
  PROVE  /\ getTotalUnits(P) <= getTotalUnits(O)
         /\ \A i \in Items : Required(P, i) <= Required(O, i)
<1>1. IsFiniteSet(O) /\ IsFiniteSet(O \X Items) /\ P \X Items \in SUBSET (O \X Items)
  BY FiniteIndices, FS_Product
<1> QED BY <1>1, SumMonotone DEF Required, getTotalUnits

\* Fewer orders stay covered by more aisles.
LEMMA CoveredMonotone ==
  ASSUME NEW O \in SUBSET Orders, NEW P \in SUBSET O,
         NEW B \in SUBSET Aisles, NEW A \in SUBSET B,
         Covered(O, A)
  PROVE  Covered(P, B)
<1> SUFFICES ASSUME NEW i \in Items
             PROVE  Required(P, i) <= Available(B, i)
  BY DEF Covered
<1>1. Required(P, i) <= Required(O, i) /\ Available(A, i) <= Available(B, i)
  BY RequiredMonotone, AvailableMonotone
<1>2. Required(O, i) <= Available(A, i)
  BY DEF Covered
<1>3. /\ Required(P, i) \in Nat /\ Required(O, i) \in Nat
      /\ Available(A, i) \in Nat /\ Available(B, i) \in Nat
  BY QuantityTypes
<1> QED BY <1>1, <1>2, <1>3

=============================================================================
