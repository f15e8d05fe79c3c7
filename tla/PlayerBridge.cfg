SPECIFICATION Spec
CONSTANTS
    MaxApplies = 4
    MaxInfos = 2
    MaxPos = 1
    MaxGifts = 2
    MaxSessions = 2
INVARIANTS
    TypeOK
    SpawnTakesEffect
    SpawnsOnce
    PosHonored
    BelongingsHonored
