CONSTANTS
  ItemCount = 3
  OrderCount = 4
  AisleCount = 4
  OrderQty <- OrderRows
  AisleQty <- AisleRows
  MaxQty = 3
  LB = 2
  UB = 4
SPECIFICATION StateSpec
INVARIANTS
  StateTypeOK
  StateInv
  FastFeasibilityAgrees
  CanFitIsExact
  CanRemoveIsExact
