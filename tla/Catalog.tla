-------------------------------- MODULE Catalog --------------------------------
(***************************************************************************)
(* Categories, subcategories, budgets and the category fields of           *)
(* transactions, for one user: routers/categories.py, subcategories.py,    *)
(* budgets.py and the category part of routers/expenses.py, on PostgreSQL  *)
(* at READ COMMITTED.                                                      *)
(*                                                                         *)
(* A category never changes its type and a subcategory never moves, so a   *)
(* create handler's checks can only be overtaken by a deletion, which the  *)
(* foreign keys refuse at its commit: a create is one step.  An update     *)
(* commits the columns that differ from the row it loaded, and a delete    *)
(* acts on a check it made before: each is two steps, load and commit.     *)
(* What renames (update_category, update_subcategory) is not state here.   *)
(***************************************************************************)
EXTENDS Naturals, FiniteSets

CONSTANTS Cats, Subs, Budgets, Txs,   \* row ids
          Parent,      \* [Subs -> Cats]: subcategories.category_id
          ExpenseCats, \* the categories of type expense
          Currencies,
          Requests,    \* update and delete handlers that can be running at once
          Null,        \* a NULL column
          Unset,       \* a field the request body leaves out, a column not written
          Gone         \* no such row

ASSUME CatalogAssumption ==
    /\ Parent \in [Subs -> Cats]
    /\ ExpenseCats \subseteq Cats
    /\ Null \notin Cats \cup Subs \cup Currencies
    /\ Unset \notin Cats \cup Subs \cup Currencies \cup {Null}

VARIABLES
    cats, subs,  \* the rows of categories and subcategories
    budget,      \* [Budgets -> a row, or Gone]
    tx,          \* [Txs -> category_id and subcategory_id of a row, or Gone]
    req,         \* the running update and delete handlers
    answer,      \* history: how the last step ended: "fine", or the cause of a 500
    raced,       \* history: budgets and transactions with two updates at once
    overlapped,  \* history: a handler once ran between the two steps of another
    arrived      \* history: [Requests -> budgets put on the category it is deleting]

vars == <<cats, subs, budget, tx, req, answer, raced, overlapped, arrived>>
rows == <<cats, subs, budget, tx>>

BudgetRow == [cat : Cats, sub : Subs \cup {Null}, cur : Currencies]
TxRow     == [cat : Cats \cup {Null}, sub : Subs \cup {Null}]
BudgetBody == [cat : Cats \cup {Unset}, sub : Subs \cup {Null, Unset},
               cur : Currencies \cup {Unset}]
TxBody    == [cat : Cats \cup {Null, Unset}, sub : Subs \cup {Null, Unset}]

LiveBudgets == {b \in Budgets : budget[b] # Gone}
LiveTxs     == {t \in Txs : tx[t] # Gone}

(* Row ids are UUIDs, drawn per row: none is shared by two tables. *)
ASSUME RowAssumption ==
    /\ Gone \notin BudgetRow \cup TxRow
    /\ Budgets \cap Txs = {}
    /\ (Budgets \cup Txs) \cap (Cats \cup Subs) = {}

Idle == [op |-> "idle"]
Active(r) == req[r].op # "idle"
Handler ==
    {Idle}
    \cup [op : {"delete_category"}, id : Cats]
    \cup [op : {"delete_subcategory"}, id : Subs]
    \cup [op : {"update_budget"}, id : Budgets, write : BudgetBody]
    \cup [op : {"update_expense"}, id : Txs, write : TxBody]

Init ==
    /\ cats = Cats
    /\ subs = Subs
    /\ budget = [b \in Budgets |-> Gone]
    /\ tx = [t \in Txs |-> Gone]
    /\ req = [r \in Requests |-> Idle]
    /\ answer = "fine"
    /\ raced = {}
    /\ overlapped = FALSE
    /\ arrived = [r \in Requests |-> {}]

(* A body over a row: a field left out keeps the row's value. *)
Over(row, body) == [f \in DOMAIN row |-> IF body[f] = Unset THEN row[f] ELSE body[f]]

(* The columns an UPDATE writes: those set to something else than loaded. *)
Dirty(row, body) == [f \in DOMAIN row |-> IF body[f] = row[f] THEN Unset ELSE body[f]]

Begin(r, h, racing) ==
    /\ req' = [req EXCEPT ![r] = h]
    /\ overlapped' = (overlapped \/ \E q \in Requests : Active(q))
    /\ raced' = IF racing THEN raced \cup {h.id} ELSE raced
    /\ answer' = "fine"
    /\ UNCHANGED <<rows, arrived>>

End(r, how) ==
    /\ req' = [req EXCEPT ![r] = Idle]
    /\ answer' = how
    /\ UNCHANGED <<raced, overlapped>>

(* An exception no handler catches: rolled back and answered 500. *)
Unhandled(r, cause) == End(r, cause) /\ UNCHANGED rows

OtherUpdate(id) == \E q \in Requests :
    req[q].op \in {"update_budget", "update_expense"} /\ req[q].id = id

(* A handler that is one step: it may fall between the steps of the others. *)
AtOnce ==
    /\ overlapped' = (overlapped \/ \E q \in Requests : Active(q))
    /\ answer' = "fine"
    /\ UNCHANGED req

(* A new row's id (a UUID) is one no running handler has in hand.  *)
Refers(q, id) ==
    \/ Active(q) /\ req[q].id = id
    \/ /\ req[q].op \in {"update_budget", "update_expense"}
       /\ id \in {req[q].write.cat, req[q].write.sub}
Create(id) ==
    /\ \A q \in Requests : ~Refers(q, id)
    /\ raced' = raced \ {id}
    /\ AtOnce

(* A budget comes to stand on a category, of which deletions may be running. *)
Arrives(b, cat) ==
    arrived' = [q \in Requests |-> IF req[q].op = "delete_category" /\ req[q].id = cat
                                   THEN arrived[q] \cup {b} ELSE arrived[q]]

-------------------------------------------------------------------------------
create_category(c) ==
    /\ c \notin cats
    /\ cats' = cats \cup {c}
    /\ Create(c) /\ UNCHANGED <<subs, budget, tx, arrived>>

create_subcategory(s) ==
    /\ s \notin subs
    /\ Parent[s] \in cats
    /\ subs' = subs \cup {s}
    /\ Create(s) /\ UNCHANGED <<cats, budget, tx, arrived>>

(* Mutant: the category is deleted without a look at its budgets. *)
LoadForCategoryDeleteUnchecked(r, c) ==
    /\ ~Active(r)
    /\ c \in cats
    /\ Begin(r, [op |-> "delete_category", id |-> c], FALSE)

(* Lines 80-84: the category, then the budgets that refer to it. *)
LoadForCategoryDelete(r, c) ==
    /\ ~Active(r)
    /\ c \in cats
    /\ {b \in LiveBudgets : budget[b].cat = c} = {}
    /\ Begin(r, [op |-> "delete_category", id |-> c], FALSE)

(* Lines 85-89 where there are several: scalar_one_or_none raises. *)
SeveralBudgets(found) ==
    /\ Cardinality(found) > 1
    /\ answer' = "several budgets"
    /\ UNCHANGED <<rows, req, raced, overlapped, arrived>>

SeveralForCategory(c) ==
    c \in cats /\ SeveralBudgets({b \in LiveBudgets : budget[b].cat = c})

(* Lines 91-92.  The ORM deletes the subcategories first, which a budget's  *)
(* foreign key restricts; the category's own budgets cascade away, and      *)
(* transactions lose their category and subcategory.                        *)
CommitCategoryDelete(r) ==
    /\ req[r].op = "delete_category"
    /\ arrived' = [arrived EXCEPT ![r] = {}]
    /\ LET c == req[r].id
           children == {s \in subs : Parent[s] = c} IN
        IF \E b \in LiveBudgets : budget[b].sub \in children
        THEN Unhandled(r, "integrity")
        ELSE /\ cats' = cats \ {c}
             /\ subs' = subs \ children
             /\ budget' = [b \in Budgets |-> IF b \in LiveBudgets /\ budget[b].cat = c
                                             THEN Gone ELSE budget[b]]
             /\ tx' = [t \in Txs |-> IF t \in LiveTxs
                                     THEN [cat |-> IF tx[t].cat = c THEN Null ELSE tx[t].cat,
                                           sub |-> IF tx[t].sub \in children THEN Null
                                                   ELSE tx[t].sub]
                                     ELSE Gone]
             /\ End(r, "fine")

(* Mutant: the same for a subcategory. *)
LoadForSubcategoryDeleteUnchecked(r, s) ==
    /\ ~Active(r)
    /\ s \in subs
    /\ Begin(r, [op |-> "delete_subcategory", id |-> s], FALSE)

LoadForSubcategoryDelete(r, s) ==
    /\ ~Active(r)
    /\ s \in subs
    /\ {b \in LiveBudgets : budget[b].sub = s} = {}
    /\ Begin(r, [op |-> "delete_subcategory", id |-> s], FALSE)

SeveralForSubcategory(s) ==
    s \in subs /\ SeveralBudgets({b \in LiveBudgets : budget[b].sub = s})

CommitSubcategoryDelete(r) ==
    /\ req[r].op = "delete_subcategory"
    /\ UNCHANGED arrived
    /\ LET s == req[r].id IN
        IF \E b \in LiveBudgets : budget[b].sub = s
        THEN Unhandled(r, "integrity")
        ELSE /\ subs' = subs \ {s}
             /\ tx' = [t \in Txs |-> IF t \in LiveTxs /\ tx[t].sub = s
                                     THEN [tx[t] EXCEPT !.sub = Null] ELSE tx[t]]
             /\ UNCHANGED <<cats, budget>>
             /\ End(r, "fine")

(* Both deletes set the transactions of a subcategory to NULL one by one,   *)
(* as the ORM found them, before its DELETE: one that delete_expense takes  *)
(* in between makes it an error and leaves the rest as it was.              *)
DeleteMeetsGoneExpense(r, t) ==
    /\ tx[t] # Gone
    /\ \/ req[r].op = "delete_category" /\ tx[t].sub \in {s \in subs : Parent[s] = req[r].id}
       \/ req[r].op = "delete_subcategory" /\ tx[t].sub = req[r].id
    /\ tx' = [tx EXCEPT ![t] = Gone]
    /\ req' = [req EXCEPT ![r] = Idle]
    /\ answer' = "stale"
    /\ overlapped' = TRUE
    /\ arrived' = [arrived EXCEPT ![r] = {}]
    /\ UNCHANGED <<cats, subs, budget, raced>>

-------------------------------------------------------------------------------
(* routers/budgets.py *)

(* Mutant: any subcategory of the user will do. *)
ValidateScopeOfUser(cat, sub) ==
    /\ cat \in cats \cap ExpenseCats
    /\ sub # Null => sub \in subs

validate_scope(cat, sub) ==
    /\ cat \in cats \cap ExpenseCats
    /\ sub # Null => sub \in subs /\ Parent[sub] = cat

(* The partial unique indexes: one budget for a scope and currency. *)
ScopeFree(b, row) == \A other \in LiveBudgets \ {b} : budget[other] # row

(* The foreign keys of a row written over the committed one. *)
BudgetRefersTo(row) == row.cat \in cats /\ row.sub \in subs \cup {Null}

create_budget(b, row) ==
    /\ budget[b] = Gone
    /\ validate_scope(row.cat, row.sub)
    /\ ScopeFree(b, row)
    /\ budget' = [budget EXCEPT ![b] = row]
    /\ Arrives(b, row.cat)
    /\ Create(b) /\ UNCHANGED <<cats, subs, tx>>

LoadForBudgetUpdate(r, b, body) ==
    /\ ~Active(r)
    /\ budget[b] # Gone
    /\ LET row == Over(budget[b], body) IN validate_scope(row.cat, row.sub)
    /\ Begin(r, [op |-> "update_budget", id |-> b, write |-> Dirty(budget[b], body)],
             OtherUpdate(b))

(* An IntegrityError is answered 400; a row deleted meanwhile 500, by the   *)
(* UPDATE or, with nothing to write, by the refresh.                        *)
CommitBudgetUpdate(r) ==
    /\ req[r].op = "update_budget"
    /\ LET b == req[r].id
           row == Over(budget[b], req[r].write) IN
        IF budget[b] = Gone
        THEN Unhandled(r, "stale") /\ UNCHANGED arrived
        ELSE IF BudgetRefersTo(row) /\ ScopeFree(b, row)
             THEN /\ budget' = [budget EXCEPT ![b] = row]
                  /\ IF row.cat = budget[b].cat THEN UNCHANGED arrived ELSE Arrives(b, row.cat)
                  /\ UNCHANGED <<cats, subs, tx>>
                  /\ End(r, "fine")
             ELSE End(r, "fine") /\ UNCHANGED <<rows, arrived>>

delete_budget(b) ==
    /\ budget[b] # Gone
    /\ budget' = [budget EXCEPT ![b] = Gone]
    /\ AtOnce /\ UNCHANGED <<raced, cats, subs, tx, arrived>>

-------------------------------------------------------------------------------
(* The category fields in routers/expenses.py *)

(* Lines 413-425: a subcategory decides the category left out. *)
create_expense(t, cat, sub) ==
    /\ tx[t] = Gone
    /\ IF sub # Null
       THEN /\ sub \in subs
            /\ cat \in {Null, Parent[sub]}
            /\ tx' = [tx EXCEPT ![t] = [cat |-> Parent[sub], sub |-> sub]]
       ELSE /\ cat \in cats \cup {Null}
            /\ tx' = [tx EXCEPT ![t] = [cat |-> cat, sub |-> Null]]
    /\ Create(t) /\ UNCHANGED <<cats, subs, budget, arrived>>

(* Mutant: a new category is not compared with the subcategory that stays. *)
CategoryFieldsAlone(row, body) ==
    LET cat == Over(row, body).cat IN
    /\ body.cat \in cats \cup {Null, Unset}
    /\ body.sub \in subs \cup {Null, Unset}
    /\ body.sub \in subs => cat \in {Null, Parent[body.sub]}

(* Lines 593-613 *)
CategoryFieldsValid(row, body) ==
    LET cat == Over(row, body).cat IN
    /\ body.cat \in cats \cup {Null, Unset}
    /\ body.sub \in subs \cup {Null, Unset}
    /\ body.sub \in subs => cat \in {Null, Parent[body.sub]}
    /\ body.sub = Unset /\ body.cat # Unset /\ row.sub # Null
        => body.cat \in {Null, Parent[row.sub]}

LoadForExpenseUpdate(r, t, body) ==
    /\ ~Active(r)
    /\ tx[t] # Gone
    /\ CategoryFieldsValid(tx[t], body)
    /\ Begin(r, [op |-> "update_expense", id |-> t, write |-> Dirty(tx[t], body)],
             OtherUpdate(t))

(* Of a row deleted meanwhile, the UPDATE answers 500; with nothing to      *)
(* write, in these columns and the others, it is looked for again: 404.     *)
CommitExpenseUpdate(r) ==
    /\ req[r].op = "update_expense"
    /\ UNCHANGED arrived
    /\ LET t == req[r].id
           row == Over(tx[t], req[r].write) IN
        IF tx[t] = Gone
        THEN \/ Unhandled(r, "stale")
             \/ req[r].write = [cat |-> Unset, sub |-> Unset] /\ End(r, "fine") /\ UNCHANGED rows
        ELSE IF row.cat \in cats \cup {Null} /\ row.sub \in subs \cup {Null}
             THEN /\ tx' = [tx EXCEPT ![t] = row]
                  /\ UNCHANGED <<cats, subs, budget>>
                  /\ End(r, "fine")
             ELSE Unhandled(r, "integrity")

delete_expense(t) ==
    /\ tx[t] # Gone
    /\ tx' = [tx EXCEPT ![t] = Gone]
    /\ AtOnce /\ UNCHANGED <<raced, cats, subs, budget, arrived>>

-------------------------------------------------------------------------------
Next ==
    \/ \E c \in Cats : create_category(c)
    \/ \E s \in Subs : create_subcategory(s)
    \/ \E r \in Requests, c \in Cats : LoadForCategoryDelete(r, c)
    \/ \E c \in Cats : SeveralForCategory(c)
    \/ \E r \in Requests : CommitCategoryDelete(r)
    \/ \E r \in Requests, s \in Subs : LoadForSubcategoryDelete(r, s)
    \/ \E s \in Subs : SeveralForSubcategory(s)
    \/ \E r \in Requests : CommitSubcategoryDelete(r)
    \/ \E r \in Requests, t \in Txs : DeleteMeetsGoneExpense(r, t)
    \/ \E b \in Budgets, row \in BudgetRow : create_budget(b, row)
    \/ \E r \in Requests, b \in Budgets, body \in BudgetBody : LoadForBudgetUpdate(r, b, body)
    \/ \E r \in Requests : CommitBudgetUpdate(r)
    \/ \E b \in Budgets : delete_budget(b)
    \/ \E t \in Txs, cat \in Cats \cup {Null}, sub \in Subs \cup {Null} :
            create_expense(t, cat, sub)
    \/ \E r \in Requests, t \in Txs, body \in TxBody : LoadForExpenseUpdate(r, t, body)
    \/ \E r \in Requests : CommitExpenseUpdate(r)
    \/ \E t \in Txs : delete_expense(t)

Spec == Init /\ [][Next]_vars

-------------------------------------------------------------------------------
TypeOK ==
    /\ cats \subseteq Cats
    /\ subs \subseteq Subs
    /\ budget \in [Budgets -> BudgetRow \cup {Gone}]
    /\ tx \in [Txs -> TxRow \cup {Gone}]
    /\ req \in [Requests -> Handler]
    /\ answer \in {"fine", "several budgets", "integrity", "stale"}
    /\ raced \subseteq Budgets \cup Txs
    /\ overlapped \in BOOLEAN
    /\ arrived \in [Requests -> SUBSET Budgets]

(* A budget is on an expense category that is there, and on a subcategory   *)
(* of that category: validate_scope checks it on rows read before the       *)
(* commit, the foreign keys keep it, and only two updates of the same       *)
(* budget at once can defeat it.                                            *)
BudgetScopeCoherent ==
    \A b \in LiveBudgets :
        /\ budget[b].cat \in ExpenseCats \cap cats
        /\ budget[b].sub \in subs \cup {Null}
        /\ budget[b].sub # Null /\ b \notin raced => Parent[budget[b].sub] = budget[b].cat

(* A transaction refers to a category and a subcategory that are there, and *)
(* has a subcategory of its category unless two of its updates overlapped   *)
(* (routers/expenses.py 593-613 compare the new value with the other column *)
(* as loaded); deletions in between take only what they should.             *)
TxCategoryCoherent ==
    \A t \in LiveTxs :
        /\ tx[t].cat \in cats \cup {Null} /\ tx[t].sub \in subs \cup {Null}
        /\ tx[t].cat # Null /\ tx[t].sub # Null /\ t \notin raced =>
              Parent[tx[t].sub] = tx[t].cat

(* While no handler runs between the two steps of another, a delete or an   *)
(* update is never answered 500 by a foreign key or a row that is gone.     *)
No500WithoutOverlap == ~overlapped => answer \in {"fine", "several budgets"}

(* But by delete_budget, a budget is lost to the deletion of its category    *)
(* only if it was created or moved there after the handler had looked       *)
(* (routers/categories.py 84-91), and never one on a subcategory, which the *)
(* foreign key restricts; only two updates of the budget at once, which     *)
(* leave it a subcategory of another category, can cost it that protection. *)
BudgetLostOnlyToOverlap ==
    [][\A b \in LiveBudgets :
            budget'[b] = Gone =>
                \/ delete_budget(b)
                \/ \E r \in Requests :
                      /\ req[r].op = "delete_category" /\ req[r].id = budget[b].cat
                      /\ req'[r] = Idle
                      /\ b \in arrived[r]
                      /\ budget[b].sub = Null \/ b \in raced]_vars

(* tests/test_budgets_contract.py:252, test_category_delete_is_blocked_by_  *)
(* budget: a delete is refused with 400 while there is an active budget,    *)
(* never answered 500.  Two budgets are enough to break it.                 *)
DeleteIsRefusedNot500 == answer # "several budgets"
===============================================================================
