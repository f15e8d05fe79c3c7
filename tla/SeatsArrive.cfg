CONSTANTS
  Ids = {1, 2}
  Handles = {1, 2}
  RingSize = 2
  MaxEvents = 3
  MaxRestarts = 0
SPECIFICATION Spec
CHECK_DEADLOCK FALSE
INVARIANT SeatsArrive
