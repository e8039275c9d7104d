CONSTANTS
  ItemCount = 3
  OrderCount = 6
  AisleCount = 5
  OrderQty <- MCOrderQty
  AisleQty <- MCAisleQty
  MaxQty = 5
  LB = 5
  UB = 10
  ProviderLimit = 5
  SampleSize = 80
  None = None
SPECIFICATION Spec
PROPERTY DiscardsOnlyOverUB
