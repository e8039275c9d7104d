CONSTANTS
  t1 = t1
  t2 = t2
  s0 = s0
  s1 = s1
  s2 = s2
  s3 = s3
  bad = bad
  Threads <- MCThreads
  Solutions <- MCSolutions
  Score <- MCScore
  Feasible <- MCFeasible
  Patience = 2
  Empty = s0
  NoThread = NoThread
SPECIFICATION Spec
INVARIANTS
  TypeOK
  BestIsConsistent
  NoFindingIsLost
  PrintsTheBest
  LogRises
PROPERTIES
  ImprovementsOnly
  StopsIfFeasible
