----------------------------- MODULE BalanceViews -----------------------------
(***************************************************************************)
(* What the endpoints of accounts, statistics and budgets answer about one *)
(* ledger, and whether it fits together; and what an export of it imports  *)
(* to.  The ledger is any one the handlers may have written: rows of every *)
(* type, to the same account too, rows whose accounts or categories were   *)
(* deleted since (SET NULL), or whose account changed its currency, rows   *)
(* that update_expense left a subcategory without a category               *)
(* (expenses.py 596-613), and imported rows, which keep the destination    *)
(* and to_amount the file gives to any type.  Only what two overlapping    *)
(* updates can leave, a subcategory of another category, is left out       *)
(* (TxCategoryCoherent of Catalog).                                        *)
(***************************************************************************)
EXTENDS Statistics

CONSTANTS Accounts,   \* the accounts of the user
          account,    \* [Accounts -> type, currency and closed period]
          AccountName, \* [Accounts -> name]
          Currencies,
          Subcategories, ParentCategory,   \* [Subcategories -> category ids]
          Ids,        \* bound: the ids of the rows
          Rows,       \* bound: the rows
          LastDay     \* bound: the dates are 1 .. LastDay

Categories == DOMAIN CategoryName
Months == {MonthOf[d] : d \in 1 .. LastDay}

Row == [type : {"income", "expense", "transfer"}, amount : Int, currency : Currencies,
        to_amount : Nat \cup {Null}, account_id : Accounts \cup {Null},
        account_destination_id : Accounts \cup {Null}, category_id : Categories \cup {Null},
        subcategory_id : Subcategories \cup {Null}, affects_balance : BOOLEAN,
        expense_date : 1 .. LastDay]

AccountNames == {AccountName[a] : a \in Accounts}

ASSUME ViewsAssumption ==
    /\ Rows \subseteq Row
    /\ \A t \in Rows : t.subcategory_id # Null =>
            t.category_id \in {Null, ParentCategory[t.subcategory_id]}
    /\ LastDay \in Nat
    /\ MonthOf \in [1 .. LastDay -> [year : Nat, month : 1 .. 12]]
    /\ \A a \in Accounts :
          /\ account[a].currency \in Currencies
          /\ {account[a].billing_period_start, account[a].billing_period_end} \subseteq Int \cup {Null}
    /\ DOMAIN SubcategoryName = Subcategories
    /\ ParentCategory \in [Subcategories -> Categories]
    /\ \A c \in Categories : CategoryName[c] # Null
    /\ \A s \in Subcategories : SubcategoryName[s] # Null
    /\ Null \notin Int \cup Accounts \cup Currencies \cup Categories \cup Subcategories
                     \cup AccountNames
    /\ \A S \in {Accounts, Currencies, Categories, Subcategories} : IsFiniteSet(S)

VARIABLE ledger

Csv == INSTANCE CsvFile WITH Names <- AccountNames

NoRows == ledger = <<>>

Record(i, t) ==
    /\ i \notin DOMAIN ledger
    /\ ledger' = [j \in DOMAIN ledger \cup {i} |-> IF j = i THEN t ELSE ledger[j]]

RecordOne == \E i \in Ids, t \in Rows : Record(i, t)

AnyLedger == NoRows /\ [][RecordOne]_ledger

-------------------------------------------------------------------------------
NameOf(names, id) == IF id = Null THEN Null ELSE names[id]

(* Mutant: the amount that arrives is not exported. *)
NoToAmount(t) == Null

(* An import may leave a to_amount on any type of row; the export does not. *)
ToAmount(t) == IF t.type = "transfer" THEN t.to_amount ELSE Null

(* A row of GET /expenses/export.  Whether the row affects the balance is   *)
(* not part of it.                                                          *)
Exported(t) ==
    LET transfer == t.type = "transfer"
        destination == IF transfer THEN t.account_destination_id ELSE Null
    IN  [type |-> t.type, amount |-> t.amount, currency |-> t.currency,
         account_name |-> NameOf(AccountName, t.account_id),
         category_name |-> IF transfer THEN Null ELSE NameOf(CategoryName, t.category_id),
         subcategory_name |-> IF transfer THEN Null ELSE NameOf(SubcategoryName, t.subcategory_id),
         account_destination_name |-> NameOf(AccountName, destination),
         to_amount |-> ToAmount(t),
         to_currency |-> IF destination # Null /\ ToAmount(t) # Null
                         THEN account[destination].currency ELSE Null,
         date |-> t.expense_date]

Export == [i \in DOMAIN ledger |-> Exported(ledger[i])]

(* What the import asks of a row alone. *)
RowAccepted(x) == x.amount > 0 /\ x.to_amount # 0 /\ x.account_name # Null

Accepted(file) ==
    LET rows == {file[i] : i \in DOMAIN file}
    IN  Csv!Acceptable(rows) /\ \A x \in rows : RowAccepted(x)

(* The category and subcategory a pair of names is mapped to: existing ones *)
(* of those names, or new ones, which show the same.  Only the pairs with a *)
(* category are offered to map; a row of no pair gets neither.              *)
Mapped(category, subcategory) ==
    IF category = Null THEN [category_id |-> Null, subcategory_id |-> Null]
    ELSE IF subcategory = Null
    THEN [category_id |-> CHOOSE c \in Categories : CategoryName[c] = category,
          subcategory_id |-> Null]
    ELSE LET sub == CHOOSE s \in Subcategories :
                        /\ SubcategoryName[s] = subcategory
                        /\ CategoryName[ParentCategory[s]] = category
         IN  [category_id |-> ParentCategory[sub], subcategory_id |-> sub]

(* The transaction an import makes of a row; its accounts are new, one for  *)
(* each name, and stand here by their names.                                *)
Imported(x) ==
    LET pair == Mapped(x.category_name, x.subcategory_name) IN
    [type |-> x.type, amount |-> x.amount, currency |-> x.currency, to_amount |-> x.to_amount,
     account_id |-> x.account_name, account_destination_id |-> x.account_destination_name,
     category_id |-> pair.category_id, subcategory_id |-> pair.subcategory_id,
     affects_balance |-> TRUE, expense_date |-> x.date]

ImportedAccounts(file) ==
    LET currencies == Csv!AccountCurrencies({file[i] : i \in DOMAIN file})
    IN  [n \in DOMAIN currencies |-> [currency |-> currencies[n]]]

-------------------------------------------------------------------------------
(* Where the two computations part: Python takes a to_amount of 0 for none, *)
(* COALESCE does not.  Only an import can store it (0.004, rounded).        *)
NoZeroToAmount == \A i \in DOMAIN ledger : ledger[i].to_amount # 0

(* The summary of an account over all dates is the balance that is listed   *)
(* for it: the query and the Python loop treat every type of row alike,     *)
(* a transfer from an account to itself included.                           *)
SummaryIsBalance ==
    NoZeroToAmount => \A a \in Accounts : NetBalance(ledger, a, 1, LastDay) = Balance(ledger, a)

(* The closed period of a credit card is the summary of those dates without *)
(* the payments to the card (accounts.py 130-132).                          *)
ClosedPeriodIsSummaryWithoutPayments ==
    NoZeroToAmount => \A a \in {x \in Accounts : HasWindow(account[x])} :
        LET payments == {i \in DOMAIN ledger :
                            /\ ledger[i].type = "transfer"
                            /\ ledger[i].account_destination_id = a
                            /\ InWindow(account[a], ledger[i])}
        IN  ClosedBalance(ledger, account, a)
            = NetBalance(ledger, a, account[a].billing_period_start,
                                    account[a].billing_period_end)
              - MapThenSumSet(LAMBDA i : Credited(ledger[i]), payments)

-------------------------------------------------------------------------------
(* The months the six numbers of a series stand for, told by counting back. *)
MonthsBack(m, n) ==
    IF m.month > n THEN [m EXCEPT !.month = @ - n]
    ELSE [year |-> m.year - 1, month |-> m.month + 12 - n]

(* The series of a month shows of each of the six months what the summary   *)
(* of that month shows, over the end of a year (stats.py 48-52, 106-167).   *)
SeriesShowsEachSummary ==
    \A m \in Months, c \in Currencies, type \in {"income", "expense"} :
        LET series == MonthlySeries(ledger, account, type, m, c)
        IN  \A n \in 0 .. 5 :
                series[-n] = MonthTotal(ledger, account, type, MonthsBack(m, n), c)

SumOver(f, keys) == MapThenSumSet(LAMBDA k : f[k], keys)

(* The label of no category is not spelled alike in the two lists. *)
Unnamed == {NoCategory, NoCategoryOfPair}

(* The categories of a month add up to its summary and the subcategories to *)
(* their categories, those of one name included; what has no category does  *)
(* under the two spellings together.                                        *)
CategoriesAddUp ==
    \A m \in Months, c \in Currencies, type \in {"income", "expense"} :
        LET categories == ByCategory(ledger, account, type, m, c)
            subcategories == BySubcategory(ledger, account, type, m, c) IN
        /\ SumOver(categories, DOMAIN categories) = MonthTotal(ledger, account, type, m, c)
        /\ \A l \in DOMAIN categories \ Unnamed :
              categories[l] = SumOver(subcategories, {k \in DOMAIN subcategories : k[1] = l})
        /\ SumOver(categories, DOMAIN categories \cap Unnamed)
           = SumOver(subcategories, {k \in DOMAIN subcategories : k[1] \in Unnamed})

InAccountCurrency(t) == t.account_id # Null /\ account[t.account_id].currency = t.currency

Get(f, key) == IF key \in DOMAIN f THEN f[key] ELSE 0

Budget(category, subcategory, currency) ==
    [category_id |-> category, subcategory_id |-> subcategory, currency |-> currency]

(* Budgets go by the currency of the row and statistics by that of its      *)
(* account: where the two agree, and the account is there, the budgets on   *)
(* the categories or subcategories of one name spent what the statistics    *)
(* show for the name.  A name that is the label of rows without any shows   *)
(* those as well, in the list of subcategories also the rows that have a    *)
(* subcategory and no category, which no budget covers.                     *)
BudgetsSpendWhatStatisticsShow ==
    \A m \in Months, c \in Currencies :
        (\A i \in DOMAIN ledger : ledger[i].type = "expense" => InAccountCurrency(ledger[i]))
        => /\ \A l \in {CategoryName[x] : x \in Categories} \ {NoCategory} :
                MapThenSumSet(LAMBDA x : Spent(ledger, Budget(x, Null, c), m),
                              {x \in Categories : CategoryName[x] = l})
                = Get(ByCategory(ledger, account, "expense", m, c), l)
           /\ \A l \in {<<CategoryName[ParentCategory[s]], SubcategoryName[s]>> : s \in Subcategories} :
                l[1] # NoCategoryOfPair /\ l[2] # NoSubcategory =>
                MapThenSumSet(LAMBDA s : Spent(ledger, Budget(ParentCategory[s], s, c), m),
                              {s \in Subcategories :
                                <<CategoryName[ParentCategory[s]], SubcategoryName[s]>> = l})
                = Get(BySubcategory(ledger, account, "expense", m, c), l)

(* What the list of subcategories shows of a row after an import. *)
LabelOnceImported(t) ==
    IF t.category_id = Null THEN <<NoCategoryOfPair, NoSubcategory>> ELSE PairLabel(t)

(* An export that is imported again gives each account the balance it had,  *)
(* accounts of one name together.  Where every row counted for the          *)
(* statistics in its own currency, each category shows what it did, and     *)
(* each pair too, but that a row with a subcategory and no category comes   *)
(* back with neither: expenses.py 257-299 writes its subcategory,           *)
(* import_csv.py 266-267 and 415 pass over it.                              *)
ExportImportsBack ==
    Accepted(Export) =>
        LET new == [i \in DOMAIN ledger |-> Imported(Export[i])]
            accounts == ImportedAccounts(Export) IN
        /\ \A n \in AccountNames :
              Balance(new, n) = MapThenSumSet(LAMBDA a : Balance(ledger, a),
                                              {a \in Accounts : AccountName[a] = n})
        /\ (\A i \in DOMAIN ledger : ledger[i].affects_balance /\ InAccountCurrency(ledger[i]))
           => \A m \in Months, c \in Currencies, type \in {"income", "expense"} :
                 /\ ByCategory(new, accounts, type, m, c) = ByCategory(ledger, account, type, m, c)
                 /\ BySubcategory(new, accounts, type, m, c)
                    = Grouped(ledger, [i \in Counted(ledger, account, type, m, m, c) |->
                                          LabelOnceImported(ledger[i])])
===============================================================================
