------------------------------ MODULE Statistics ------------------------------
(***************************************************************************)
(* What a month came to, which no table stores either: the aggregate       *)
(* queries of routers/stats.py, in one currency, and what a budget has     *)
(* spent, services/budget_aggregations.py.                                 *)
(*                                                                         *)
(* A ledger is a function from ids to rows, as in Balances; names stand    *)
(* for the labels of the answer.  Percentages and rounding are left out.   *)
(***************************************************************************)
EXTENDS Balances

CONSTANTS MonthOf,        \* date -> [year, month]
          CategoryName,   \* category id -> name
          SubcategoryName,
          NoCategory, NoSubcategory,   \* the labels of rows without one
          NoCategoryOfPair   \* that of no category where subcategories are listed

(* Mutant: the year is not carried. *)
ShiftMonthOfYear(m, delta) ==
    [year |-> m.year, month |-> ((m.month - 1 + delta) % 12) + 1]

(* _shift_month *)
ShiftMonth(m, delta) ==
    LET index == 12 * m.year + (m.month - 1) + delta
    IN  [year |-> index \div 12, month |-> (index % 12) + 1]

Before(m, n) == m.year < n.year \/ (m.year = n.year /\ m.month <= n.month)

Total(ledger, rows) == MapThenSumSet(LAMBDA i : ledger[i].amount, rows)

(* The rows the queries add up: the join leaves out those whose account was *)
(* deleted, and the currency is that of the account, not of the row.        *)
Counted(ledger, account, type, from, to, currency) ==
    {i \in DOMAIN ledger :
        LET t == ledger[i] IN
        /\ t.type = type
        /\ t.affects_balance
        /\ Before(from, MonthOf[t.expense_date])
        /\ Before(MonthOf[t.expense_date], to)
        /\ t.account_id # Null
        /\ account[t.account_id].currency = currency}

(* _fetch_month_totals, of one type *)
MonthTotal(ledger, account, type, m, currency) ==
    Total(ledger, Counted(ledger, account, type, m, m, currency))

(* _fetch_monthly_series, of one type: one query over the six months, a     *)
(* bucket for each month that has rows.                                     *)
MonthlySeries(ledger, account, type, m, currency) ==
    LET rows == Counted(ledger, account, type, ShiftMonth(m, -5), m, currency)
        values == [b \in {MonthOf[ledger[i].expense_date] : i \in rows} |->
                    Total(ledger, {i \in rows : MonthOf[ledger[i].expense_date] = b})]
    IN  [offset \in -5 .. 0 |->
            LET b == ShiftMonth(m, offset) IN IF b \in DOMAIN values THEN values[b] ELSE 0]

NameOr(label, names, id) == IF id = Null THEN label ELSE names[id]

CategoryLabel(t) == NameOr(NoCategory, CategoryName, t.category_id)

(* The queries spell "Sin categoria" in two ways. *)
PairLabel(t) == <<NameOr(NoCategoryOfPair, CategoryName, t.category_id),
                  NameOr(NoSubcategory, SubcategoryName, t.subcategory_id)>>

(* The total of each label; labelOf maps a row to its label. *)
Grouped(ledger, labelOf) ==
    [l \in {labelOf[i] : i \in DOMAIN labelOf} |->
        Total(ledger, {i \in DOMAIN labelOf : labelOf[i] = l})]

(* Mutant: an inner join of the categories. *)
InnerByCategory(ledger, account, type, m, currency) ==
    Grouped(ledger, [i \in {j \in Counted(ledger, account, type, m, m, currency) :
                               ledger[j].category_id # Null} |-> CategoryLabel(ledger[i])])

(* _fetch_expenses_by_category, _fetch_income_by_category *)
ByCategory(ledger, account, type, m, currency) ==
    Grouped(ledger, [i \in Counted(ledger, account, type, m, m, currency) |->
                        CategoryLabel(ledger[i])])

(* _fetch_expenses_by_subcategory, _fetch_income_by_subcategory *)
BySubcategory(ledger, account, type, m, currency) ==
    Grouped(ledger, [i \in Counted(ledger, account, type, m, m, currency) |->
                        PairLabel(ledger[i])])

-------------------------------------------------------------------------------
(* allocate_budget_spent *)

(* Mutant: the budget of a category is that of what has no subcategory. *)
CoversExactly(budget, t) ==
    /\ budget.currency = t.currency
    /\ budget.category_id = t.category_id
    /\ budget.subcategory_id = t.subcategory_id

(* The budget of a category covers its subcategories. *)
Covers(budget, t) ==
    /\ budget.currency = t.currency
    /\ budget.category_id = t.category_id
    /\ budget.subcategory_id \in {Null, t.subcategory_id}

(* calculate_budget_spent in month m *)
Spent(ledger, budget, m) ==
    Total(ledger, {i \in DOMAIN ledger :
                      /\ MonthOf[ledger[i].expense_date] = m
                      /\ ledger[i].type = "expense"
                      /\ ledger[i].affects_balance
                      /\ Covers(budget, ledger[i])})
===============================================================================
