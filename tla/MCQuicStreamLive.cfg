SPECIFICATION FairSpec
CONSTANTS
  s1 = s1  s2 = s2
  Streams = {s1}
  Nil = Nil
  MaxBody <- Three
  MaxText <- Two
  MaxFile <- Two
CHECK_DEADLOCK FALSE
PROPERTIES LoopComesBack RequestsEnd
