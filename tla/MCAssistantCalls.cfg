SPECIFICATION CSpec
CONSTANTS
    ana = ana
    Chat = Chat
    transcribe = transcribe
    r1 = r1
    r2 = r2
    groq = groq
    NoKey = NoKey
    ServerProvider = groq
    Users <- MCUsers
    SerialKeys <- MCSerialKeys
    Types <- MCTypes
    Keys <- MCKeys
    Requests <- MCRequests
    Providers <- MCProviders
    WithFallback <- MCWithFallback
    FREE_DAILY_LIMIT = 2
    MaxDay = 2
    MaxGrants = 3
SYMMETRY MCSymmetry
INVARIANTS
    CountWithinLimit
    NoEarlyRefusal
    ServerAsksAreCounted
PROPERTIES
    ImplementsPromise
CHECK_DEADLOCK FALSE
