SPECIFICATION FairSpec
CONSTANTS
  c1 = c1  c2 = c2  h1 = h1  h2 = h2
  Callers = {c1, c2}
  Handlers = {h1, h2}
  Null = Null
  MaxRuns = 3

CHECK_DEADLOCK FALSE
INVARIANTS NoUseAfterClear FutureMeansDown OneRun
PROPERTIES StopWaits StopHeard
