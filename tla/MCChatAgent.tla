------------------------------ MODULE MCChatAgent ------------------------------
(* Model values for ChatAgent. *)
EXTENDS ChatAgent

CONSTANTS a1, a2, food, lunch, salary, usd

MCAccounts == {a1, a2}
MCCategories == {food, salary}
MCSubcategories == {lunch}
MCCategoryType == food :> "expense" @@ salary :> "income"
MCParent == lunch :> food
MCCurrencies == {ARS, usd}

Nothing == [starts_new |-> FALSE, type |-> Null, amount |-> Null, currency |-> Null,
            account |-> Null, destination |-> Null, category |-> Null, subcategory |-> Null]

(* One thing said, with the type named or not. *)
OneField ==
    {[Nothing EXCEPT !.amount = x] : x \in {Said, Tiny, Invalid}}
    \cup {[Nothing EXCEPT !.currency = c] : c \in MCCurrencies}
    \cup {[Nothing EXCEPT !.account = a] : a \in MCAccounts}
    \cup {[Nothing EXCEPT !.destination = a] : a \in MCAccounts}
    \cup {[Nothing EXCEPT !.category = c] : c \in MCCategories}
    \cup {[Nothing EXCEPT !.subcategory = s] : s \in MCSubcategories}

MCPatches ==
    OneField
    \cup {[p EXCEPT !.type = t] : p \in OneField \cup {Nothing}, t \in Types}
    \cup {[Nothing EXCEPT !.starts_new = TRUE, !.type = t, !.account = a, !.currency = c] :
            t \in {"expense", Null}, a \in MCAccounts \cup {Null}, c \in {usd, Null}}
    \cup {[Nothing EXCEPT !.type = "transfer", !.account = a, !.destination = b, !.starts_new = n] :
            a \in MCAccounts, b \in MCAccounts, n \in BOOLEAN}
    \cup {[Nothing EXCEPT !.type = "expense", !.category = food, !.subcategory = lunch]}

MCSymmetry == Permutations(MCAccounts)
===============================================================================
