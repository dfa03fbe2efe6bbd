SPECIFICATION Spec
CONSTANTS
  s1 = s1  s2 = s2
  Streams = {s1}
  Nil = Nil
  MaxBody <- One
  MaxText <- One
  MaxFile <- One
CHECK_DEADLOCK FALSE
INVARIANTS TaskOutlivesLoop
