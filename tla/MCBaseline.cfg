CONSTANTS
  ItemCount = 2
  OrderCount = 3
  AisleCount = 3
  OrderQty <- MCOrderQty
  AisleQty <- MCAisleQty
  MaxQty = 3
  LB = 1
  UB = 8
  MaxRuntime = 5
  Margin = 2
  MinLimit = 2
  MaxBuild = 5
  MaxSolve = 5
  None = None
CHECK_DEADLOCK FALSE
SPECIFICATION Spec
INVARIANTS
  TypeOK
  FileIsFeasible
  BestIsInFile
  OptimalIfInTime
  EndsInBudget
PROPERTIES
  FileNeverGetsWorse
  BaselineEnds
