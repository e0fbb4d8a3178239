SPECIFICATION Spec
CONSTANTS
    ana = ana
    chat = chat
    transcribe = transcribe
    r1 = r1
    r2 = r2
    r3 = r3
    Users <- MCUsers
    SerialKeys <- MCSerialKeys
    Types <- MCTypes
    Keys <- MCKeys
    Requests <- MCRequests
    FREE_DAILY_LIMIT = 2
    MaxDay = 2
    MaxGrants = 3
SYMMETRY MCSymmetry
INVARIANTS
    DailyLimit
CHECK_DEADLOCK FALSE
