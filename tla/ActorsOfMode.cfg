CONSTANTS
  Ids = {1, 2}
  RingSize = 2
  Budget = 1
  MaxEvents = 3
  MaxRestarts = 1
SPECIFICATION Spec
CHECK_DEADLOCK FALSE
INVARIANT ActorsOfMode
