------------------------------ MODULE MCBalances ------------------------------
(* Model values for BalanceViews: two credit cards and a bank account. *)
EXTENDS BalanceViews, TLC

CONSTANTS visa, amex, bank, i1, i2, ars, usd, food, lunch, home, none, market, snack, treat

Card(start, end) == [account_type |-> "credit_card", currency |-> usd,
                     billing_period_start |-> start, billing_period_end |-> end]

MCCurrencies == {ars, usd}
MCAccounts == {visa, amex, bank}
MCaccount == visa :> Card(2, 2) @@ amex :> Card(1, Null)
             @@ bank :> [account_type |-> "savings", currency |-> ars,
                         billing_period_start |-> Null, billing_period_end |-> Null]

(* Two accounts of one name. *)
MCAccountName == visa :> "Tarjeta" @@ amex :> "Tarjeta" @@ bank :> "Banco"

(* Two categories of one name, as an import can leave them, each with a     *)
(* subcategory of one name, and one that is named like no category, with a  *)
(* subcategory of that name too.                                            *)
MCCategoryName == food :> "Comida" @@ lunch :> "Comida" @@ home :> "Casa"
                  @@ none :> NoCategoryOfPair
MCSubcategories == {market, snack, treat}
MCSubcategoryName == market :> "Super" @@ snack :> "Super" @@ treat :> "Super"
MCParentCategory == market :> food @@ snack :> lunch @@ treat :> none

(* Three dates, five months and one month apart, over the end of a year. *)
MCMonthOf == <<[year |-> 2025, month |-> 8], [year |-> 2025, month |-> 12],
               [year |-> 2026, month |-> 1]>>

MCIds == {i1, i2}

(* Rows that differ in what balances look at, and in what months look at. *)
Plain == [type |-> "expense", amount |-> 2, currency |-> ars, to_amount |-> Null,
          account_id |-> bank, account_destination_id |-> Null, category_id |-> Null,
          subcategory_id |-> Null, affects_balance |-> TRUE, expense_date |-> 1]

Sums == {<<-1, Null>>, <<2, Null>>, <<2, 0>>, <<2, 3>>}

BalanceRows ==
    {[Plain EXCEPT !.type = type, !.amount = sum[1], !.to_amount = sum[2], !.account_id = a,
                   !.account_destination_id = d, !.expense_date = date] :
        type \in {"income", "expense", "transfer"}, sum \in Sums, a \in MCAccounts \cup {Null},
        d \in MCAccounts \cup {Null}, date \in {1, 2}}

Where == {<<ars, bank>>, <<ars, Null>>, <<ars, visa>>, <<usd, visa>>}
What == {<<Null, Null>>, <<Null, market>>, <<food, Null>>, <<food, market>>, <<lunch, snack>>,
         <<home, Null>>, <<none, Null>>, <<none, treat>>}

MonthRows ==
    {[Plain EXCEPT !.type = type, !.currency = where[1], !.account_id = where[2],
                   !.category_id = what[1], !.subcategory_id = what[2],
                   !.affects_balance = affects, !.expense_date = date] :
        type \in {"income", "expense"}, where \in Where, what \in What,
        affects \in BOOLEAN, date \in 1 .. 3}

HiddenRows == {t \in MonthRows : ~t.affects_balance /\ t.category_id # food}

MCRows == BalanceRows \cup (MonthRows \ HiddenRows)
MCSymmetry == Permutations(MCIds)
===============================================================================
