------------------------------ MODULE Verdicts ------------------------------
(***************************************************************************)
(* How the scripts judge an output file: read_output, is_solution_feasible *)
(* and compute_objective_function, which run_challenge.py, table.py and    *)
(* graphs.py share, and checker.py, which differs.                         *)
(*                                                                         *)
(* A file is the wave that is being printed and the number of its lines    *)
(* written so far: the solver flushes after every line.                    *)
(***************************************************************************)
EXTENDS WaveProblem

Wave == [orders : SUBSET Orders, aisles : SUBSET Aisles]

NoWave == [orders |-> {}, aisles |-> {}]

\* Solution::print: the number of orders, the orders, and likewise the aisles.
lineCount(w) == 2 + Cardinality(w.orders) + Cardinality(w.aisles)

complete(f) == f.written = lineCount(f.wave)

\* Mutant of read_output: what could be read counts, the rest does not.
readWhatIsThere(f) ==
  [orders |-> IF f.written > Cardinality(f.wave.orders) THEN f.wave.orders ELSE {},
   aisles |-> {a \in f.wave.aisles :
                 Cardinality({b \in f.wave.aisles : b <= a})
                   <= f.written - Cardinality(f.wave.orders) - 2}]

\* A file that ends early reads as the empty wave, except between the two
\* lists: then no aisle is visited.
read_output(f) ==
  IF complete(f) THEN f.wave
  ELSE IF f.written = 1 + Cardinality(f.wave.orders)
       THEN [f.wave EXCEPT !.aisles = {}]
       ELSE NoWave

\* The items on a line of some order; only they are compared.
requiredItems(O) == UNION {OrderItems(o) : o \in O}

\* Mutant of is_solution_feasible: no units are always within the bounds.
feasibleOrEmpty(O, A) ==
  /\ \/ LB <= getTotalUnits(O) /\ getTotalUnits(O) <= UB
     \/ getTotalUnits(O) = 0
  /\ \A i \in requiredItems(O) : Required(O, i) <= Available(A, i)

is_solution_feasible(O, A) ==
  /\ \/ LB <= getTotalUnits(O) /\ getTotalUnits(O) <= UB
     \/ getTotalUnits(O) = 0 /\ LB <= 0
  /\ \A i \in requiredItems(O) : Required(O, i) <= Available(A, i)

compute_objective_function(O, A) == calculateScore(O, A)

\* table.py and graphs.py: 0 if anything fails.
calculate_score(f) ==
  LET w == read_output(f)
  IN  IF is_solution_feasible(w.orders, w.aisles)
      THEN compute_objective_function(w.orders, w.aisles) ELSE <<0, 1>>

\* checker.py does not expect a short file, and divides before it prints the
\* verdict: the empty wave without aisles ends it too.
checker(f) ==
  IF ~complete(f) \/ f.wave = NoWave THEN "error"
  ELSE IF /\ LB <= getTotalUnits(f.wave.orders) /\ getTotalUnits(f.wave.orders) <= UB
          /\ \A i \in requiredItems(f.wave.orders) :
               Required(f.wave.orders, i) <= Available(f.wave.aisles, i)
       THEN "feasible" ELSE "infeasible"

=============================================================================
