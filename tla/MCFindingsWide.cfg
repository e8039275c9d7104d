CONSTANTS
  ItemCount = 1
  OrderCount = 1
  AisleCount = 7
  OrderQty <- WideOrderQty
  AisleQty <- WideAisleQty
  MaxQty = 1
  LB = 1
  UB = 5
  ProviderLimit = 5
  SampleSize = 80
  None = None
SPECIFICATION Spec
INVARIANT ScoresTopProviders
