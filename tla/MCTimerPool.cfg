SPECIFICATION FairSpec
CONSTANTS
  a = a  b = b  c = c
  Timers = {a, b, c}
  Loop = Loop
  Width = 2
  Durations = {0, 2}
  MaxId = 3
  MaxClock = 2
CHECK_DEADLOCK FALSE
INVARIANTS PendingOnce NeverEarly IteratorValid LapComplete
PROPERTIES LostOnlyByRemoval HandedOver StopQuiets
