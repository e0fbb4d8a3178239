------------------------------- MODULE Balances -------------------------------
(***************************************************************************)
(* The balance of an account, which no table stores: routers/accounts.py   *)
(* computes it row by row in Python (_calculate_balances_by_account) and,  *)
(* over a range of dates, by an aggregate query (get_account_summary).     *)
(*                                                                         *)
(* A ledger is a function from ids to transaction rows; an account has a   *)
(* type and the first and last date of its closed period.                  *)
(***************************************************************************)
EXTENDS Integers, FiniteSetsExt

CONSTANT Null   \* a NULL column

-------------------------------------------------------------------------------
(* _calculate_balances_by_account *)

(* to_amount or amount: a zero counts as missing, like None. *)
Credited(t) == IF t.to_amount \in {Null, 0} THEN t.amount ELSE t.to_amount

SourceDelta(t) == IF t.type = "income" THEN t.amount ELSE -t.amount

(* Mutant: the destination gets what left the source, whatever to_amount says. *)
DestinationDeltaOfSource(t) == IF t.type = "transfer" THEN t.amount ELSE 0

DestinationDelta(t) == IF t.type = "transfer" THEN Credited(t) ELSE 0

Balance(ledger, a) ==
    LET of(i) == (IF ledger[i].account_id = a THEN SourceDelta(ledger[i]) ELSE 0)
                 + (IF ledger[i].account_destination_id = a
                    THEN DestinationDelta(ledger[i]) ELSE 0)
    IN  MapThenSumSet(of, DOMAIN ledger)

(* The account has a closed period; a range that ends before it begins is none. *)
HasWindow(account) ==
    /\ account.account_type = "credit_card"
    /\ Null \notin {account.billing_period_start, account.billing_period_end}
    /\ account.billing_period_start <= account.billing_period_end

(* Mutant: the last date of the closed period is not part of it. *)
InWindowExclusive(account, t) ==
    /\ t.expense_date >= account.billing_period_start
    /\ t.expense_date < account.billing_period_end

InWindow(account, t) ==
    t.expense_date \in account.billing_period_start .. account.billing_period_end

(* A transfer to a credit card pays it off: it never counts in the closed   *)
(* period.                                                                  *)
IsCardPayment(accounts, t) ==
    /\ t.account_destination_id # Null
    /\ accounts[t.account_destination_id].account_type = "credit_card"

(* closed_period_balance, of an account that has a closed period *)
ClosedBalance(ledger, accounts, a) ==
    LET of(i) == LET t == ledger[i] IN
            IF ~InWindow(accounts[a], t) THEN 0
            ELSE (IF t.account_id = a THEN SourceDelta(t) ELSE 0)
                 + (IF t.account_destination_id = a /\ ~IsCardPayment(accounts, t)
                    THEN DestinationDelta(t) ELSE 0)
    IN  MapThenSumSet(of, DOMAIN ledger)

-------------------------------------------------------------------------------
(* get_account_summary: total_income and total_expenses of the rows in a    *)
(* range of dates, by two CASE expressions of which the first match counts. *)

Coalesce(x, y) == IF x = Null THEN y ELSE x

IncomeAmount(t, a) ==
    IF t.type = "income" /\ t.account_id = a THEN t.amount
    ELSE IF t.type = "transfer" /\ t.account_destination_id = a
         THEN Coalesce(t.to_amount, t.amount) ELSE 0

ExpenseAmount(t, a) ==
    IF t.type \in {"expense", "transfer"} /\ t.account_id = a THEN t.amount ELSE 0

NetBalance(ledger, a, from, to) ==
    LET rows == {i \in DOMAIN ledger :
                    /\ ledger[i].expense_date \in from .. to
                    /\ a \in {ledger[i].account_id, ledger[i].account_destination_id}}
    IN  MapThenSumSet(LAMBDA i : IncomeAmount(ledger[i], a), rows)
        - MapThenSumSet(LAMBDA i : ExpenseAmount(ledger[i], a), rows)
===============================================================================
