CONSTANTS
  ItemCount = 3
  OrderCount = 6
  AisleCount = 5
  OrderQty <- MCOrderQty
  AisleQty <- MCAisleQty
  MaxQty = 5
  LB = 5
  UB = 10
  ProviderLimit = 1
  SampleSize = 2
  None = None
SPECIFICATION Spec
INVARIANTS
  TypeOK
  SettledWithoutDeficit
  PruneLeavesNoRedundantAisle
  RepairFailsOnlyWhenImpossible
  NoFreeFillLeft
PROPERTIES
  WaveSpec
  FeasibleStaysFeasible
  ConstructionEnds
