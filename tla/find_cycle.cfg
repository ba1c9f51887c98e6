CONSTANTS
  t1 = t1
  t2 = t2
  t3 = t3
  r1 = r1
  r2 = r2
  NoTask = NoTask
  Tasks = {t1, t2, t3}
  Requests = {r1, r2}
  MaxDepth = 3
  MaxCalls = 5
SPECIFICATION Spec
INVARIANT DependenciesAcyclic
CHECK_DEADLOCK FALSE
