CONSTANTS
  Ids = {1, 2}
  Addresses = {1, 2}
  Handles = {1, 2}
  RingSize = 2
  Cap = 2
  Budget = 1
  MaxEvents = 3
  MaxRestarts = 1
  DecorRing = 2
  MaxRecords = 1
  MaxDecor = 5
SPECIFICATION Spec
CHECK_DEADLOCK FALSE
INVARIANTS TypeOK ObjectsAgree VehiclesAgree ActorsAgree PlayersAgree ZonesMirrored DecorAgrees
