--------------------------- MODULE MCImportStaging ----------------------------
(* Model values for ImportStaging. *)
EXTENDS ImportStaging, TLC

CONSTANTS k1, cash, bank, ars, usd, food, home, market, r1, r2

MCTokens == {k1}
MCNames == {cash, bank}
MCCurrencies == {ars, usd}
MCLabels == {"Comida"}
MCCats == {food, home}
MCSubs == {market}
MCParent == [s \in MCSubs |-> food]
MCRequests == {r1, r2}

Line(type, name, currency) ==
    [type |-> type, currency |-> currency, account_name |-> name,
     account_destination_name |-> Null, to_currency |-> Null,
     category_name |-> Null, subcategory_name |-> Null]
Shopping == [Line("expense", cash, ars) EXCEPT !.category_name = "Comida",
                                               !.subcategory_name = "Comida"]
Snack == [Shopping EXCEPT !.subcategory_name = Null]
Exchange == [Line("transfer", cash, ars) EXCEPT !.account_destination_name = bank,
                                                !.to_currency = usd]
Deposit == [Exchange EXCEPT !.to_currency = Null]
Salary(currency) == [Line("income", bank, currency) EXCEPT !.category_name = "Comida"]

(* Two files that are accepted, one whose transfer arrives nowhere, and two *)
(* that give an account two currencies.                                     *)
MCFiles == {{Shopping, Snack}, {Exchange, Salary(usd)}, {Exchange},
            {Deposit, Salary(usd)}, {Salary(ars), Salary(usd)}}

MCSymmetry == Permutations(MCRequests)
===============================================================================
