SPECIFICATION FairSpec
CONSTANTS
  Pids = {p1,p2}
  MaxBorn = 2
  CacheTtl = 2
  ServiceTtl = 1
  InWindows = {1}
INVARIANTS ExeNameFresh CategoryFresh
PROPERTIES RightInTheEnd
