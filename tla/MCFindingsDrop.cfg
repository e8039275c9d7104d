CONSTANTS
  ItemCount = 2
  OrderCount = 2
  AisleCount = 2
  OrderQty <- DropOrderQty
  AisleQty <- DropAisleQty
  MaxQty = 5
  LB = 2
  UB = 6
  ProviderLimit = 5
  SampleSize = 80
  None = None
SPECIFICATION Spec
PROPERTY DropKeepsBetterWave
