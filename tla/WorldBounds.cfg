SPECIFICATION Spec
CONSTANTS
    ChatRing = 1
    MoneyRing = 1
    MaxEvents = 1
    MaxLatches = 1
    MaxSessions = 3
INVARIANTS
    BoundsFollowServer
