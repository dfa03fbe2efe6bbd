SPECIFICATION FairSpec
CONSTANTS
  w1 = w1  w2 = w2
  Workers = {w1, w2}
  Conns = {1, 2}
  Stopper = Stopper
  Nobody = Nobody
  MaxPackets = 3
  MaxTimers = 2
CHECK_DEADLOCK FALSE
INVARIANTS OneLoop LoopKeepsConn GateOpens TimerKept
PROPERTIES WorkersReturn
