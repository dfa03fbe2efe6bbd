SPECIFICATION Spec
CONSTANTS
  s1 = s1  s2 = s2
  Streams = {s1, s2}
  Nil = Nil
  MaxBody <- Two
  MaxText <- One
  MaxFile <- One
SYMMETRY StreamSymmetry
CHECK_DEADLOCK FALSE
INVARIANTS ReadersAlone NoLostWakeup
PROPERTIES DataReachesReader
