SPECIFICATION Spec
CONSTANTS
    a1 = a1
    a2 = a2
    food = food
    lunch = lunch
    salary = salary
    ARS = ARS
    usd = usd
    Said = Said
    Tiny = Tiny
    Invalid = Invalid
    Zero = Zero
    Null = Null
    Gone = Gone
    Accounts <- MCAccounts
    Categories <- MCCategories
    Subcategories <- MCSubcategories
    CategoryType <- MCCategoryType
    Parent <- MCParent
    Currencies <- MCCurrencies
    Patches <- MCPatches
    MaxChanges = 1
    MaxRecent = 2
SYMMETRY MCSymmetry
INVARIANTS
    DraftIsComplete
    AnswersAddUp
PROPERTIES
    AnswerRefersToWhatExists
    InferredAccountFits
CHECK_DEADLOCK FALSE
