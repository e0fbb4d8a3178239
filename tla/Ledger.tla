-------------------------------- MODULE Ledger --------------------------------
(***************************************************************************)
(* The accounts of one user and what their transactions say of them:       *)
(* routers/accounts.py and the account part of routers/expenses.py, on     *)
(* PostgreSQL at READ COMMITTED.                                           *)
(*                                                                         *)
(* An account has a currency; a transaction repeats it, and a transfer has *)
(* a destination and, between two currencies, the amount that arrives.     *)
(* Balances are computed from the rows.  Deleting an account sets its      *)
(* references to NULL.  The rows that an import adds are not here, but in  *)
(* ImportStaging.                                                          *)
(*                                                                         *)
(* update_expense commits the columns that differ from the row it loaded,  *)
(* and an adjustment the difference to a balance it read: each is two      *)
(* steps.  A create handler commits what it checked: a step in between can *)
(* only delete the account, which the foreign key refuses, or change its   *)
(* currency, which it can as well do afterwards; it is one step.           *)
(***************************************************************************)
EXTENDS Balances

CONSTANTS Accounts, Txs,    \* row ids
          Currencies,
          CreateBodies,     \* bound: bodies of create_expense
          UpdateBodies,     \* bound: bodies of update_expense
          Targets,          \* bound: balances an adjustment asks for
          MaxDelta,         \* bound: the largest adjustment
          MaxRecurrencied,  \* bound: accounts whose currency is changed
          Requests,         \* two-step handlers that can be running at once
          MaxWork,          \* bound: updates running, plus two for each row there is or
                            \* an adjustment is to add
          Unset,            \* a field the body leaves out, a column not written
          Gone              \* no such row

Types == {"expense", "income", "transfer"}

(* TransactionCreate and TransactionUpdate; the schemas bound no amount. *)
CreateBody == [type : Types, amount : Int, currency : Currencies, account_id : Accounts,
               account_destination_id : Accounts \cup {Null}, to_amount : Int \cup {Null},
               installments : {FALSE}]

UpdateBody == [type : Types \cup {Unset}, amount : Int \cup {Unset},
               currency : Currencies \cup {Unset}, account_id : Accounts \cup {Unset},
               account_destination_id : Accounts \cup {Null, Unset},
               to_amount : Int \cup {Null, Unset}]

ASSUME LedgerAssumption ==
    /\ CreateBodies \subseteq CreateBody
    /\ UpdateBodies \subseteq UpdateBody
    /\ Targets \subseteq Int
    /\ MaxWork \in Nat
    /\ {Null, Unset} \cap (Int \cup Types \cup Accounts \cup Currencies) = {}
    /\ Unset # Null
    /\ Gone \notin Currencies
    /\ IsFiniteSet(Txs)

VARIABLES
    account,       \* [Accounts -> currency, or Gone]
    tx,            \* [Txs -> a row, or Gone]
    req,           \* the running two-step handlers
    raced,         \* history: transactions with two updates at once
    recurrencied   \* history: accounts whose currency was changed

vars == <<account, tx, req, raced, recurrencied>>

TxRow == [type : Types, amount : Int, currency : Currencies,
          account_id : Accounts \cup {Null}, account_destination_id : Accounts \cup {Null},
          to_amount : Int \cup {Null}, installments : BOOLEAN]

ASSUME RowAssumption == Gone \notin TxRow

Idle == [op |-> "idle"]
Handler == {Idle}
    \cup [op : {"update"}, id : Txs, write : UpdateBody]
    \cup [op : {"adjust"}, id : Accounts, currency : Currencies, seen : Int, target : Int]

LiveAccounts == {a \in Accounts : account[a] # Gone}
LiveTxs == {t \in Txs : tx[t] # Gone}
Rows == [t \in LiveTxs |-> tx[t]]
Active(r) == req[r].op # "idle"
Running(op) == {r \in Requests : req[r].op = op}
RoomFor(n) == 2 * (Cardinality(LiveTxs) + Cardinality(Running("adjust")))
              + Cardinality(Running("update")) + n <= MaxWork
Updating(r, t) == req[r].op = "update" /\ req[r].id = t

(* A new id (a UUID) is one no running handler has in hand. *)
FreshTx(t) == tx[t] = Gone /\ \A r \in Requests : ~Updating(r, t)
FreshAccount(a) ==
    /\ account[a] = Gone
    /\ \A r \in Requests :
          /\ req[r].op = "adjust" => req[r].id # a
          /\ req[r].op = "update" => a \notin {req[r].write.account_id,
                                               req[r].write.account_destination_id}

Init ==
    /\ account = [a \in Accounts |-> Gone]
    /\ tx = [t \in Txs |-> Gone]
    /\ req = [r \in Requests |-> Idle]
    /\ raced = {}
    /\ recurrencied = {}

-------------------------------------------------------------------------------
(* routers/accounts.py *)

create_account(a, currency) ==
    /\ FreshAccount(a)
    /\ account' = [account EXCEPT ![a] = currency]
    /\ recurrencied' = recurrencied \ {a}
    /\ UNCHANGED <<tx, req, raced>>

(* The currency is overwritten whatever the account's transactions are in. *)
update_account(a, currency) ==
    /\ a \in LiveAccounts
    /\ currency # account[a]
    /\ account' = [account EXCEPT ![a] = currency]
    /\ recurrencied' = recurrencied \cup {a}
    /\ Cardinality(recurrencied') <= MaxRecurrencied
    /\ UNCHANGED <<tx, req, raced>>

SetNull(t, a) ==
    [t EXCEPT !.account_id = IF @ = a THEN Null ELSE @,
              !.account_destination_id = IF @ = a THEN Null ELSE @]

(* Mutant: ON DELETE CASCADE. *)
DeleteAccountCascade(a) ==
    /\ a \in LiveAccounts
    /\ account' = [account EXCEPT ![a] = Gone]
    /\ tx' = [t \in Txs |-> IF t \in LiveTxs /\ a \in {tx[t].account_id,
                                                       tx[t].account_destination_id}
                            THEN Gone ELSE tx[t]]
    /\ UNCHANGED <<req, raced, recurrencied>>

delete_account(a) ==
    /\ a \in LiveAccounts
    /\ account' = [account EXCEPT ![a] = Gone]
    /\ tx' = [t \in Txs |-> IF t \in LiveTxs THEN SetNull(tx[t], a) ELSE Gone]
    /\ UNCHANGED <<req, raced, recurrencied>>

AbsOf(n) == IF n < 0 THEN -n ELSE n

(* Lines 388-404; a balance that is right already ends the request there. *)
LoadForAdjust(r, a, target) ==
    /\ ~Active(r) /\ RoomFor(2)
    /\ a \in LiveAccounts
    /\ target # Balance(Rows, a)
    /\ AbsOf(target - Balance(Rows, a)) <= MaxDelta
    /\ req' = [req EXCEPT ![r] = [op |-> "adjust", id |-> a, currency |-> account[a],
                                  seen |-> Balance(Rows, a), target |-> target]]
    /\ UNCHANGED <<account, tx, raced, recurrencied>>

(* Mutant: an excess is booked as income too. *)
AdjustmentOfIncome(h) ==
    [type |-> "income", amount |-> AbsOf(h.target - h.seen), currency |-> h.currency,
     account_id |-> h.id, account_destination_id |-> Null, to_amount |-> Null,
     installments |-> FALSE]

(* The row that makes up for the difference. *)
Adjustment(h) ==
    [type |-> IF h.target > h.seen THEN "income" ELSE "expense",
     amount |-> AbsOf(h.target - h.seen), currency |-> h.currency,
     account_id |-> h.id, account_destination_id |-> Null, to_amount |-> Null,
     installments |-> FALSE]

CommitAdjust(r, t) ==
    /\ req[r].op = "adjust"
    /\ req[r].id \in LiveAccounts
    /\ FreshTx(t)
    /\ tx' = [tx EXCEPT ![t] = Adjustment(req[r])]
    /\ req' = [req EXCEPT ![r] = Idle]
    /\ raced' = raced \ {t}
    /\ UNCHANGED <<account, recurrencied>>

(* The foreign key refuses the row of an account deleted meanwhile: 500. *)
AdjustRefused(r) ==
    /\ req[r].op = "adjust"
    /\ req[r].id \notin LiveAccounts
    /\ req' = [req EXCEPT ![r] = Idle]
    /\ UNCHANGED <<account, tx, raced, recurrencied>>

-------------------------------------------------------------------------------
(* routers/expenses.py *)

(* Mutant: the source account is found, but its currency not compared. *)
SourceExists(t) == t.account_id \in LiveAccounts

(* _get_account_for_user, then _validate_account_currency_match *)
SourceValid(t) == t.account_id \in LiveAccounts /\ account[t.account_id] = t.currency

(* Mutant: to_amount is not what lets a transfer cross currencies. *)
DestinationExists(t) ==
    /\ t.account_destination_id \in LiveAccounts
    /\ t.to_amount # Null => t.to_amount > 0

(* A transfer has a destination, in its own currency unless it has a        *)
(* to_amount, which is positive.                                            *)
DestinationValid(t) ==
    /\ t.account_destination_id \in LiveAccounts
    /\ IF t.to_amount = Null THEN account[t.account_destination_id] = t.currency
       ELSE t.to_amount > 0

(* The rows a create request can ask for. *)
Creatable(t) ==
    /\ SourceValid(t)
    /\ IF t.type = "transfer" THEN DestinationValid(t)
       ELSE t.account_destination_id = Null /\ t.to_amount = Null

create_expense(t, row) ==
    /\ FreshTx(t) /\ RoomFor(2)
    /\ Creatable(row)
    /\ tx' = [tx EXCEPT ![t] = row]
    /\ raced' = raced \ {t}
    /\ UNCHANGED <<account, req, recurrencied>>

(* Installments, a row for each: to_amount=None, line 496. *)
create_installments(parts, last, row) ==
    /\ last \in parts /\ RoomFor(2 * Cardinality(parts))
    /\ \A t \in parts : FreshTx(t)
    /\ Creatable(row)
    /\ LET n == Cardinality(parts)
           amount == row.amount \div n
           entry(t) == [row EXCEPT !.amount = IF t = last THEN row.amount - (n - 1) * amount
                                              ELSE amount,
                                   !.to_amount = Null, !.installments = TRUE]
       IN  tx' = [t \in Txs |-> IF t \in parts THEN entry(t) ELSE tx[t]]
    /\ raced' = raced \ parts
    /\ UNCHANGED <<account, req, recurrencied>>

Over(row, body) ==
    [f \in DOMAIN row |-> IF f \in DOMAIN body /\ body[f] # Unset THEN body[f] ELSE row[f]]

(* The columns an UPDATE writes: those set to something else than loaded. *)
Dirty(row, now) ==
    [f \in {"type", "amount", "currency", "account_id", "account_destination_id",
            "to_amount"} |-> IF now[f] = row[f] THEN Unset ELSE now[f]]

(* Mutant: a transaction that is no transfer any more keeps its destination. *)
ResolvedKeepingDestination(row, body) == Over(row, body)

(* Lines 559-591: what the row is to become. *)
Resolved(row, body) ==
    LET now == Over(row, body)
    IN  IF now.type = "transfer" THEN now
        ELSE [now EXCEPT !.account_destination_id = Null, !.to_amount = Null]

LoadForUpdate(r, t, body) ==
    /\ ~Active(r) /\ RoomFor(1)
    /\ t \in LiveTxs
    /\ body.amount # Unset => body.amount > 0
    /\ LET now == Resolved(tx[t], body) IN
        /\ SourceValid(now)
        /\ now.type = "transfer" => DestinationValid(now)
        /\ req' = [req EXCEPT ![r] = [op |-> "update", id |-> t, write |-> Dirty(tx[t], now)]]
    /\ raced' = IF \E q \in Requests : Updating(q, t) THEN raced \cup {t} ELSE raced
    /\ UNCHANGED <<account, tx, recurrencied>>

(* 500 where the row is gone, or an account it is to refer to. *)
CommitUpdate(r) ==
    /\ req[r].op = "update"
    /\ LET t == req[r].id
           w == req[r].write IN
        tx' = IF /\ t \in LiveTxs
                 /\ {w.account_id, w.account_destination_id} \subseteq
                        LiveAccounts \cup {Null, Unset}
              THEN [tx EXCEPT ![t] = Over(tx[t], w)] ELSE tx
    /\ req' = [req EXCEPT ![r] = Idle]
    /\ UNCHANGED <<account, raced, recurrencied>>

delete_expense(t) ==
    /\ t \in LiveTxs
    /\ tx' = [tx EXCEPT ![t] = Gone]
    /\ UNCHANGED <<account, req, raced, recurrencied>>

-------------------------------------------------------------------------------
Next ==
    \/ \E a \in Accounts, c \in Currencies : create_account(a, c)
    \/ \E a \in Accounts, c \in Currencies : update_account(a, c)
    \/ \E a \in Accounts : delete_account(a)
    \/ \E r \in Requests, a \in Accounts, n \in Targets : LoadForAdjust(r, a, n)
    \/ \E r \in Requests, t \in Txs : CommitAdjust(r, t)
    \/ \E r \in Requests : AdjustRefused(r)
    \/ \E t \in Txs, row \in CreateBodies : create_expense(t, row)
    \/ \E parts \in SUBSET Txs, last \in Txs, row \in CreateBodies :
            create_installments(parts, last, row)
    \/ \E r \in Requests, t \in Txs, body \in UpdateBodies : LoadForUpdate(r, t, body)
    \/ \E r \in Requests : CommitUpdate(r)
    \/ \E t \in Txs : delete_expense(t)

Spec == Init /\ [][Next]_vars

-------------------------------------------------------------------------------
TypeOK ==
    /\ account \in [Accounts -> Currencies \cup {Gone}]
    /\ tx \in [Txs -> TxRow \cup {Gone}]
    /\ req \in [Requests -> Handler]
    /\ raced \subseteq Txs
    /\ recurrencied \subseteq Accounts

(* A transaction is in the currency of its account, so that a balance adds  *)
(* up one currency: unless two updates of the transaction overlapped, or    *)
(* the account's currency was changed under it.                             *)
TransactionInAccountCurrency ==
    \A t \in LiveTxs \ raced :
        LET a == tx[t].account_id IN
        a # Null /\ a \notin recurrencied => account[a] = tx[t].currency

(* Only a transfer has a destination or a to_amount, whichever way it came  *)
(* to its type: what is no transfer credits no second account.  So it is of *)
(* the rows that these handlers write; confirm_import (import_csv.py        *)
(* 420-430) stores both of a row of any type.                               *)
OnlyTransfersHaveDestination ==
    \A t \in LiveTxs \ raced :
        tx[t].type # "transfer" => tx[t].account_destination_id = Null
                                   /\ tx[t].to_amount = Null

CreditsItsCurrency(t) ==
    LET d == tx[t].account_destination_id IN
    tx[t].type = "transfer" /\ tx[t].to_amount = Null /\ d # Null /\ d \notin recurrencied
        => account[d] = tx[t].currency

(* A transfer without a to_amount credits an account of its own currency,   *)
(* through updates and deleted accounts; instalments are the next property. *)
(* This too speaks of the handlers here: a file may leave to_amount empty   *)
(* beside another to_currency (import_csv.py 198-215).                      *)
SameCurrencyUnlessToAmount ==
    \A t \in LiveTxs \ raced : ~tx[t].installments => CreditsItsCurrency(t)

(* The same of every transfer, as the comment in expenses.py:457 has it:    *)
(* "Keep previous same-currency behavior unless to_amount is explicitly     *)
(* provided".  In instalments, a to_amount that is provided is dropped.     *)
InstallmentsKeepToAmount ==
    \A t \in LiveTxs \ raced : tx[t].installments => CreditsItsCurrency(t)

(* An adjustment whose account did not change since it read the balance     *)
(* leaves the balance it was asked for (accounts.py 401-426).               *)
AdjustmentReachesTarget ==
    [][\A r \in Requests, t \in Txs :
          CommitAdjust(r, t) /\ Balance(Rows, req[r].id) = req[r].seen
            => Balance(Rows', req[r].id) = req[r].target]_vars

(* Deleting an account never changes the balance of another one: what was   *)
(* transferred to or from it stays booked (SET NULL).                       *)
DeletionKeepsOtherBalances ==
    [][\A a \in Accounts : delete_account(a) =>
          \A b \in LiveAccounts \ {a} : Balance(Rows', b) = Balance(Rows, b)]_vars
===============================================================================
