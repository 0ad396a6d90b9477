SPECIFICATION FairSpec
CONSTANTS
  Workers = {w1, w2}
  Events = {e1, e2}
  BatchSize = 2
  MaxFaults = 2
  LastStamp = 1
INVARIANTS
  TypeOK
  AtMostOnce
  HandledInOrder
PROPERTIES
  NeverLeftPending
CHECK_DEADLOCK FALSE
