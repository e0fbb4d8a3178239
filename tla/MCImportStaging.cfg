SPECIFICATION Spec
CONSTANTS
    k1 = k1
    cash = cash
    bank = bank
    ars = ars
    usd = usd
    food = food
    home = home
    market = market
    r1 = r1
    r2 = r2
    New = New
    Null = Null
    Gone = Gone
    Tokens <- MCTokens
    Names <- MCNames
    Currencies <- MCCurrencies
    Labels <- MCLabels
    Cats <- MCCats
    Subs <- MCSubs
    Parent <- MCParent
    Files <- MCFiles
    Requests <- MCRequests
    MaxImports = 2
SYMMETRY MCSymmetry
INVARIANTS
    ImportedOnce
    FileStaysUntilImported
    ImportedRowsCoherent
CHECK_DEADLOCK FALSE
