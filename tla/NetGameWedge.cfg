SPECIFICATION LiveSpec
CONSTANTS
    MaxQueue = 2
    Budget = 2
PROPERTIES
    LossReconnects
