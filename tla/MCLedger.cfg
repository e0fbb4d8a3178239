SPECIFICATION Spec
CONSTANTS
    a1 = a1
    a2 = a2
    t1 = t1
    t2 = t2
    ars = ars
    usd = usd
    r1 = r1
    r2 = r2
    Null = Null
    Unset = Unset
    Gone = Gone
    Accounts <- MCAccounts
    Txs <- MCTxs
    Currencies <- MCCurrencies
    Requests <- MCRequests
    CreateBodies <- MCCreateBodies
    Targets <- MCTargets
    UpdateBodies <- MCUpdateBodies
    MaxRecurrencied = 1
    MaxDelta = 1
    MaxWork = 4
SYMMETRY MCSymmetry
INVARIANTS
    TransactionInAccountCurrency
    OnlyTransfersHaveDestination
    SameCurrencyUnlessToAmount
PROPERTIES
    AdjustmentReachesTarget
    DeletionKeepsOtherBalances
CHECK_DEADLOCK FALSE
