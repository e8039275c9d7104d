CONSTANTS
  ItemCount = 1
  OrderCount = 1
  AisleCount = 1
  OrderQty <- TenOrderQty
  AisleQty <- TenAisleQty
  MaxQty = 1
  LB = 1
  UB = 1
  MaxRuntime = 80
  Margin = 1
  MinLimit = 1
  MaxBuild = 0
  MaxSolve = 80
  None = None
CHECK_DEADLOCK FALSE
SPECIFICATION Spec
INVARIANT EndsInTenMinutes
