--------------------------- MODULE CommittedWave ---------------------------
(***************************************************************************)
(* What a State based heuristic promises about the wave it has decided on, *)
(* whatever it is trying at the moment: the wave is served by its aisles   *)
(* and never exceeds UB, an order once in it stays in it, orders enter one *)
(* at a time, and an aisle leaves only when the orders do not need it.     *)
(***************************************************************************)
EXTENDS WaveProblem

VARIABLES orders, aisles

waveVars == <<orders, aisles>>

Servable(O, A) == Covered(O, A) /\ getTotalUnits(O) <= UB

WaveInit == orders = {} /\ aisles = {}

\* An order enters; all it needs is already there.
TakeOrder ==
  \E o \in Orders \ orders :
    /\ Servable(orders \cup {o}, aisles)
    /\ orders' = orders \cup {o}
    /\ UNCHANGED aisles

VisitAisle ==
  \E a \in Aisles \ aisles : aisles' = aisles \cup {a} /\ UNCHANGED orders

LeaveAisle ==
  \E a \in aisles :
    /\ Servable(orders, aisles \ {a})
    /\ aisles' = aisles \ {a}
    /\ UNCHANGED orders

WaveNext == TakeOrder \/ VisitAisle \/ LeaveAisle

WaveSpec == WaveInit /\ [][WaveNext]_waveVars
=============================================================================
