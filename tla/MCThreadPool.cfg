SPECIFICATION Spec
CONSTANTS
  w1 = w1  w2 = w2  c1 = c1  c2 = c2  s1 = s1  t1 = t1  t2 = t2  t3 = t3
  Workers = {w1, w2}
  Clients = {c1, c2}
  Spawned = {s1}
  Tasks = {t1, t2, t3}
  Lasting = {t1}
  Null = Null
  QueuesCount = 2
  LevelOf <- DetachedLevels
  MaxRetries = 1
SYMMETRY WorkerSymmetry
CHECK_DEADLOCK FALSE
INVARIANTS OneOwner NoneForgotten AllStoppedQuiescent
