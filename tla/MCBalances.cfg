SPECIFICATION AnyLedger
CONSTANTS
    visa = visa
    amex = amex
    bank = bank
    i1 = i1
    i2 = i2
    ars = ars
    usd = usd
    food = food
    lunch = lunch
    home = home
    none = none
    market = market
    snack = snack
    treat = treat
    Null = Null
    Accounts <- MCAccounts
    account <- MCaccount
    AccountName <- MCAccountName
    Currencies <- MCCurrencies
    Ids <- MCIds
    Rows <- MCRows
    MonthOf <- MCMonthOf
    CategoryName <- MCCategoryName
    SubcategoryName <- MCSubcategoryName
    Subcategories <- MCSubcategories
    ParentCategory <- MCParentCategory
    NoCategory = NoCategory
    NoCategoryOfPair = NoCategoryOfPair
    NoSubcategory = NoSubcategory
    LastDay = 3
SYMMETRY MCSymmetry
INVARIANTS
    SummaryIsBalance
    ClosedPeriodIsSummaryWithoutPayments
    SeriesShowsEachSummary
    CategoriesAddUp
    BudgetsSpendWhatStatisticsShow
    ExportImportsBack
CHECK_DEADLOCK FALSE
