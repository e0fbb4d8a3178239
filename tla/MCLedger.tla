------------------------------- MODULE MCLedger --------------------------------
(* Model values for Ledger. *)
EXTENDS Ledger, TLC

CONSTANTS a1, a2, t1, t2, ars, usd, r1, r2

MCAccounts == {a1, a2}
MCTxs == {t1, t2}
MCOneTx == {t1}
MCCurrencies == {ars, usd}
MCRequests == {r1, r2}
MCTargets == {0, 1}

(* An expense of 1, and a transfer of 1 with and without a to_amount. *)
MCCreateBodies ==
    [type : {"expense"}, amount : {1}, currency : MCCurrencies, account_id : MCAccounts,
     account_destination_id : {Null}, to_amount : {Null}, installments : {FALSE}]
    \cup
    [type : {"transfer"}, amount : {1}, currency : MCCurrencies, account_id : MCAccounts,
     account_destination_id : MCAccounts, to_amount : {Null, 1}, installments : {FALSE}]

(* One body for each way to change what a transaction is. *)
Nothing == [type |-> Unset, amount |-> Unset, currency |-> Unset, account_id |-> Unset,
            account_destination_id |-> Unset, to_amount |-> Unset]
MCUpdateBodies ==
    {[Nothing EXCEPT !.type = "expense"]}
    \cup {[Nothing EXCEPT !.type = "transfer", !.account_destination_id = a] : a \in MCAccounts}
    \cup {[Nothing EXCEPT !.currency = c, !.account_id = a] : c \in MCCurrencies, a \in MCAccounts}
    \cup {[Nothing EXCEPT !.to_amount = Null]}

MCSymmetry == Permutations(MCAccounts) \cup Permutations(MCTxs) \cup Permutations(MCCurrencies)
              \cup Permutations(MCRequests)
===============================================================================
