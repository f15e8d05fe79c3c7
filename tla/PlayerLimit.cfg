SPECIFICATION LiveSpec
CONSTANTS
    MaxApplies = 2
    MaxInfos = 0
    MaxPos = 0
    MaxGifts = 2
    MaxSessions = 1
PROPERTIES
    GiftsArrive
