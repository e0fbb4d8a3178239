SPECIFICATION Spec
CONSTANTS
    food = food
    home = home
    salary = salary
    market = market
    b1 = b1
    b2 = b2
    t1 = t1
    ars = ars
    r1 = r1
    r2 = r2
    Null = Null
    Unset = Unset
    Gone = Gone
    Cats <- MCCats
    ExpenseCats <- MCExpenseCats
    Subs <- MCSubs
    Parent <- MCParent
    Budgets <- MCBudgets
    Txs <- MCTxs
    Currencies <- MCCurrencies
    Requests <- MCRequests
SYMMETRY MCSymmetry
INVARIANTS
    DeleteIsRefusedNot500
CHECK_DEADLOCK FALSE
