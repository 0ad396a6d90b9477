SPECIFICATION FairSpec
CONSTANTS
  Workers = {w1}
  Events = {e1, e2}
  BatchSize = 2
  MaxFaults = 1
  LastStamp = 1
PROPERTIES
  EveryEventHandled
CHECK_DEADLOCK FALSE
