SPECIFICATION Spec
CONSTANTS
    ChatRing = 2
    MoneyRing = 1
    MaxEvents = 4
    MaxLatches = 2
    MaxSessions = 3
INVARIANTS
    TypeOK
PROPERTIES
    ChatIsFeed
    MoneyIsFeed
