CONSTANTS
  ItemCount = 3
  OrderCount = 7
  AisleCount = 5
  OrderQty <- MCOrderQty
  AisleQty <- MCAisleQty
  MaxQty = 3
  LB = 7
  UB = 10
  None = None
CHECK_DEADLOCK FALSE
SPECIFICATION Spec
INVARIANTS
  TypeOK
  StockIsAccountedFor
  EveryLineIsServed
  LocallyOptimal
PROPERTIES
  ImprovedSpec
  RefinementEnds
