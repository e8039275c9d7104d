CONSTANTS
  ItemCount = 2
  OrderCount = 2
  AisleCount = 2
  OrderQty <- MCOrderQty
  AisleQty <- MCAisleQty
  MaxQty = 2
  LB = 1
  UB = 4
  Instances = {1, 2, 3}
  Unreadable = {2}
  MaxRuns = 2
  None = None
CHECK_DEADLOCK FALSE
SPECIFICATION Spec
INVARIANTS
  TypeOK
  VerdictIsRight
  TableScoreIsReal
  NoStaleScoreAfterRun
  CheckersAgree
