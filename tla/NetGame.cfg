SPECIFICATION LiveSpec
CONSTANTS
    MaxQueue = 2
    Budget = 2
INVARIANTS
    TypeOK
    JoinedLasts
    NewsOfTheEnd
PROPERTIES
    DeadLinkIsRetried
