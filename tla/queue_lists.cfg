SPECIFICATION Spec
CONSTANTS
  a = a
  b = b
  Conns = {a, b}
  MaxBuilds = 1
  RecentLimit = 1
  MaxRestarts = 0
INVARIANT QueueListsWaiting
CHECK_DEADLOCK FALSE
