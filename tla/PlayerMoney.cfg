SPECIFICATION Spec
CONSTANTS
    MaxApplies = 4
    MaxInfos = 0
    MaxPos = 0
    MaxGifts = 2
    MaxSessions = 1
INVARIANTS
    MoneyArrives
