SPECIFICATION FairSpec
CONSTANTS
    t1 = t1
    jpg = jpg
    png = png
    r1 = r1
    r2 = r2
    NoReceipt = NoReceipt
    Txs <- MCTxs
    Exts <- MCExts
    Requests <- MCRequests
    RECEIPT_DAILY_LIMIT = 2
    MaxDay = 2
    MaxFaults = 1
INVARIANTS
    UploadLimit
    ChargesWhatWasStored
    NoDanglingUrl
    NoOrphanObject
PROPERTIES
    EveryRequestEnds
CHECK_DEADLOCK FALSE
