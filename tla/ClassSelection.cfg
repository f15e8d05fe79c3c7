SPECIFICATION LiveSpec
CONSTANTS
    NumClasses = 2
    MaxQueue = 1
    MaxSame = 1
INVARIANTS
    TypeOK
    WaitingIsAnswered
    SpawnSentIsAnswered
    SpawnIsOfClass
PROPERTIES
    ClassReplyArrives
    SpawnIsAnswered
