SPECIFICATION FairSpec
CONSTANTS
  a = a
  b = b
  c = c
  none = none
  Procs = {a, b, c}
  None = none
INVARIANTS TypeOK OneKeyForAll SharedOnlyIfRobbed SignsAsAnnounced
PROPERTIES EveryWaiterEnds
CHECK_DEADLOCK FALSE
