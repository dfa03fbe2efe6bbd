SPECIFICATION FairSpec
CONSTANTS
  w1 = w1  w2 = w2  c1 = c1  c2 = c2  s1 = s1  t1 = t1  t2 = t2  t3 = t3
  Workers = {w1, w2}
  Clients = {c1}
  Spawned = {}
  Tasks = {t1, t2, t3}
  Lasting = {t1}
  Null = Null
  QueuesCount = 2
  LevelOf <- QueuedLevels
  MaxRetries = 1
CHECK_DEADLOCK FALSE
PROPERTIES TakenInOrder ImplementsTaskPool BusyWorkerServes StopReachesOthers
