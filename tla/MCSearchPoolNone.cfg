CONSTANTS
  t1 = t1
  t2 = t2
  s0 = s0
  s1 = s1
  s2 = s2
  s3 = s3
  bad = bad
  Threads <- MCThreads
  Solutions <- NoneSolutions
  Score <- NoneScore
  Feasible <- NoneFeasible
  Patience = 2
  Empty = s0
  NoThread = NoThread
SPECIFICATION Spec
PROPERTY ProgramStops
