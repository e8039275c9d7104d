CONSTANTS
  ItemCount = 2
  OrderCount = 2
  AisleCount = 2
  OrderQty <- LoopOrderQty
  AisleQty <- LoopAisleQty
  MaxQty = 5
  LB = 1
  UB = 10
  ProviderLimit = 5
  SampleSize = 80
  None = None
SPECIFICATION Spec
PROPERTY HeuristicReturns
