---------------------------- MODULE Catalog_proofs ----------------------------
(***************************************************************************)
(* Proofs about Catalog, for any rows, any number of handlers and any      *)
(* interleaving of them.  Three invariants carry the results: Coherent, of *)
(* the rows and of what the handlers between their two steps hold; Alone,  *)
(* of the handlers nobody has overtaken; and BudgetsArrived, of the        *)
(* budgets a running delete_category has not seen.                         *)
(***************************************************************************)
EXTENDS Catalog, TLAPS

Updating(r) == req[r].op \in {"update_budget", "update_expense"}

(* The subcategory of a row is one of its category. *)
ScopeFits(row) == row.cat # Null /\ row.sub # Null => Parent[row.sub] = row.cat

(* The rows, raced ones apart: what the runs check, and that a              *)
(* subcategory's category is there.                                         *)
RowsCoherent ==
    /\ \A s \in subs : Parent[s] \in cats
    /\ BudgetScopeCoherent
    /\ TxCategoryCoherent

(* Two updates in hand of one row have marked it as raced. *)
OneUpdater ==
    \A q, r \in Requests :
        Updating(q) /\ Updating(r) /\ q # r /\ req[q].id = req[r].id => req[q].id \in raced

(* What an update in hand would write over the row it meets now fits. *)
BudgetUpdateFits(r) ==
    req[r].op = "update_budget" =>
        /\ req[r].write.cat \in ExpenseCats \cup {Unset}
        /\ req[r].id \notin raced /\ budget[req[r].id] # Gone =>
              ScopeFits(Over(budget[req[r].id], req[r].write))

ExpenseUpdateFits(r) ==
    req[r].op = "update_expense" =>
        (req[r].id \notin raced /\ tx[req[r].id] # Gone =>
              ScopeFits(Over(tx[req[r].id], req[r].write)))

Coherent ==
    /\ TypeOK
    /\ RowsCoherent
    /\ OneUpdater
    /\ \A r \in Requests : BudgetUpdateFits(r) /\ ExpenseUpdateFits(r)

(* The commit of r would be refused neither by a foreign key nor for want   *)
(* of its row.                                                              *)
Ready(r) ==
    /\ req[r].op = "delete_category" =>
          \A b \in LiveBudgets : budget[b].cat # req[r].id
    /\ req[r].op = "delete_subcategory" =>
          \A b \in LiveBudgets : budget[b].sub # req[r].id
    /\ req[r].op = "update_budget" => budget[req[r].id] # Gone
    /\ req[r].op = "update_expense" =>
          /\ tx[req[r].id] # Gone
          /\ LET row == Over(tx[req[r].id], req[r].write) IN
                row.cat \in cats \cup {Null} /\ row.sub \in subs \cup {Null}

Alone ==
    ~overlapped =>
        /\ answer \in {"fine", "several budgets"}
        /\ raced = {}
        /\ \A q, r \in Requests : Active(q) /\ Active(r) => q = r
        /\ \A r \in Requests : Ready(r)

-------------------------------------------------------------------------------
(* What a handler writes is, over the row it loaded, what the body says.   *)
LEMMA OverDirty == ASSUME NEW row, NEW body PROVE Over(row, Dirty(row, body)) = Over(row, body)
  BY DEF Over, Dirty

LEMMA OverBudget ==
    ASSUME NEW row \in BudgetRow, NEW body \in BudgetBody
    PROVE  /\ Over(row, body) = [cat |-> IF body.cat = Unset THEN row.cat ELSE body.cat,
                                 sub |-> IF body.sub = Unset THEN row.sub ELSE body.sub,
                                 cur |-> IF body.cur = Unset THEN row.cur ELSE body.cur]
           /\ Over(row, body) \in BudgetRow
           /\ Dirty(row, body) \in BudgetBody
  BY DEF Over, Dirty, BudgetRow, BudgetBody

LEMMA OverTx ==
    ASSUME NEW row \in TxRow, NEW body \in TxBody
    PROVE  /\ Over(row, body) = [cat |-> IF body.cat = Unset THEN row.cat ELSE body.cat,
                                 sub |-> IF body.sub = Unset THEN row.sub ELSE body.sub]
           /\ Over(row, body) \in TxRow
           /\ Dirty(row, body) \in TxBody
  BY DEF Over, Dirty, TxRow, TxBody

(* Each kind of handler is a record of its kind. *)
LEMMA HandlerKinds ==
    ASSUME NEW h \in Handler
    PROVE  /\ h.op = "idle" => h = Idle
           /\ h.op = "delete_category" => h.id \in Cats
           /\ h.op = "delete_subcategory" => h.id \in Subs
           /\ h.op = "update_budget" => h.id \in Budgets /\ h.write \in BudgetBody
           /\ h.op = "update_expense" => h.id \in Txs /\ h.write \in TxBody
  BY DEF Handler, Idle

-------------------------------------------------------------------------------
(* Type correctness, one step per action. *)
LEMMA ArrivesType ==
    ASSUME TypeOK, NEW b \in Budgets, NEW cat, Arrives(b, cat)
    PROVE  arrived' \in [Requests -> SUBSET Budgets]
  BY DEF TypeOK, Arrives

LEMMA InitTypeOK == Init => TypeOK
  BY CatalogAssumption DEF Init, TypeOK, Handler

LEMMA BeginType ==
    ASSUME TypeOK, NEW r \in Requests, NEW h \in Handler, NEW racing \in BOOLEAN,
           Begin(r, h, racing), racing => h.id \in Budgets \cup Txs
    PROVE  TypeOK'
  BY DEF TypeOK, Begin, rows, Active

LEMMA EndType ==
    ASSUME TypeOK, NEW r \in Requests, NEW how, End(r, how),
           how \in {"fine", "several budgets", "integrity", "stale"}
    PROVE  /\ req' \in [Requests -> Handler]
           /\ answer' \in {"fine", "several budgets", "integrity", "stale"}
           /\ raced' \subseteq Budgets \cup Txs
           /\ overlapped' \in BOOLEAN
  BY DEF TypeOK, End, Handler

LEMMA AtOnceType ==
    ASSUME TypeOK, AtOnce
    PROVE  /\ req' \in [Requests -> Handler]
           /\ answer' \in {"fine", "several budgets", "integrity", "stale"}
           /\ overlapped' \in BOOLEAN
  BY DEF TypeOK, AtOnce, Active

LEMMA NextTypeOK == TypeOK /\ [Next]_vars => TypeOK'
  <1> SUFFICES ASSUME TypeOK, [Next]_vars PROVE TypeOK'
    OBVIOUS
  <1>1. ASSUME NEW c \in Cats, create_category(c) PROVE TypeOK'
    BY <1>1, AtOnceType DEF create_category, Create, TypeOK
  <1>2. ASSUME NEW s \in Subs, create_subcategory(s) PROVE TypeOK'
    BY <1>2, AtOnceType DEF create_subcategory, Create, TypeOK
  <1>3. ASSUME NEW r \in Requests, NEW c \in Cats, LoadForCategoryDelete(r, c) PROVE TypeOK'
    <2>1. [op |-> "delete_category", id |-> c] \in Handler
      BY DEF Handler
    <2> QED
      BY <1>3, <2>1, BeginType DEF LoadForCategoryDelete
  <1>4. ASSUME NEW c \in Cats, SeveralForCategory(c) PROVE TypeOK'
    BY <1>4 DEF SeveralForCategory, SeveralBudgets, rows, TypeOK
  <1>5. ASSUME NEW r \in Requests, CommitCategoryDelete(r) PROVE TypeOK'
    <2> DEFINE c == req[r].id
               children == {s \in subs : Parent[s] = c}
    <2>0. arrived' \in [Requests -> SUBSET Budgets]
      BY <1>5 DEF CommitCategoryDelete, TypeOK
    <2>1. CASE \E b \in LiveBudgets : budget[b].sub \in children
      BY <1>5, <2>0, <2>1, EndType DEF CommitCategoryDelete, Unhandled, rows, TypeOK
    <2>2. CASE ~\E b \in LiveBudgets : budget[b].sub \in children
      <3>1. cats' \subseteq Cats /\ subs' \subseteq Subs
        BY <1>5, <2>2 DEF CommitCategoryDelete, TypeOK
      <3>2. budget' \in [Budgets -> BudgetRow \cup {Gone}]
        BY <1>5, <2>2 DEF CommitCategoryDelete, TypeOK
      <3>3. tx' \in [Txs -> TxRow \cup {Gone}]
        <4>1. \A t \in LiveTxs : tx[t] \in TxRow
          BY DEF TypeOK, LiveTxs
        <4>2. \A t \in LiveTxs : tx[t].cat \in Cats \cup {Null} /\ tx[t].sub \in Subs \cup {Null}
          BY <4>1 DEF TxRow
        <4> QED
          BY <1>5, <2>2, <4>2 DEF CommitCategoryDelete, TxRow
      <3>4. End(r, "fine")
        BY <1>5, <2>2 DEF CommitCategoryDelete
      <3> QED
        BY <2>0, <3>1, <3>2, <3>3, <3>4, EndType DEF TypeOK
    <2> QED
      BY <2>1, <2>2
  <1>6. ASSUME NEW r \in Requests, NEW s \in Subs, LoadForSubcategoryDelete(r, s) PROVE TypeOK'
    <2>1. [op |-> "delete_subcategory", id |-> s] \in Handler
      BY DEF Handler
    <2> QED
      BY <1>6, <2>1, BeginType DEF LoadForSubcategoryDelete
  <1>7. ASSUME NEW s \in Subs, SeveralForSubcategory(s) PROVE TypeOK'
    BY <1>7 DEF SeveralForSubcategory, SeveralBudgets, rows, TypeOK
  <1>8. ASSUME NEW r \in Requests, CommitSubcategoryDelete(r) PROVE TypeOK'
    <2>1. CASE \E b \in LiveBudgets : budget[b].sub = req[r].id
      BY <1>8, <2>1, EndType DEF CommitSubcategoryDelete, Unhandled, rows, TypeOK
    <2>2. CASE ~\E b \in LiveBudgets : budget[b].sub = req[r].id
      <3>1. tx' \in [Txs -> TxRow \cup {Gone}]
        <4>1. \A t \in LiveTxs : tx[t] \in TxRow /\ [tx[t] EXCEPT !.sub = Null] \in TxRow
          BY DEF TypeOK, LiveTxs, TxRow
        <4> QED
          BY <1>8, <2>2, <4>1 DEF CommitSubcategoryDelete, TypeOK
      <3>2. End(r, "fine") /\ subs' \subseteq Subs /\ UNCHANGED <<cats, budget, arrived>>
        BY <1>8, <2>2 DEF CommitSubcategoryDelete, TypeOK
      <3> QED
        BY <3>1, <3>2, EndType DEF TypeOK
    <2> QED
      BY <2>1, <2>2
  <1>9. ASSUME NEW b \in Budgets, NEW row \in BudgetRow, create_budget(b, row) PROVE TypeOK'
    BY <1>9, AtOnceType, ArrivesType DEF create_budget, Create, TypeOK
  <1>10. ASSUME NEW r \in Requests, NEW b \in Budgets, NEW body \in BudgetBody,
                LoadForBudgetUpdate(r, b, body)
         PROVE  TypeOK'
    <2> DEFINE h == [op |-> "update_budget", id |-> b, write |-> Dirty(budget[b], body)]
    <2>1. Dirty(budget[b], body) \in BudgetBody
      BY <1>10, OverBudget DEF LoadForBudgetUpdate, TypeOK
    <2>2. h \in Handler /\ h.id = b
      BY <2>1 DEF Handler
    <2>3. Begin(r, h, OtherUpdate(b)) /\ OtherUpdate(b) \in BOOLEAN
      BY <1>10 DEF LoadForBudgetUpdate, OtherUpdate
    <2> HIDE DEF h
    <2> QED
      BY <2>2, <2>3, BeginType
  <1>11. ASSUME NEW r \in Requests, CommitBudgetUpdate(r) PROVE TypeOK'
    <2> DEFINE b == req[r].id
               row == Over(budget[b], req[r].write)
    <2>1. req[r].op = "update_budget" /\ b \in Budgets /\ req[r].write \in BudgetBody
      BY <1>11, HandlerKinds DEF CommitBudgetUpdate, TypeOK
    <2>0. arrived' \in [Requests -> SUBSET Budgets]
      <3> HIDE DEF row
      <3>1. UNCHANGED arrived \/ Arrives(b, row.cat)
        BY <1>11 DEF CommitBudgetUpdate, row
      <3> QED
        BY <2>1, <3>1, ArrivesType DEF TypeOK
    <2>2. CASE UNCHANGED rows
      <3>1. End(r, "fine") \/ End(r, "stale")
        BY <1>11 DEF CommitBudgetUpdate, Unhandled
      <3> QED
        BY <2>0, <2>2, <3>1, EndType DEF rows, TypeOK
    <2>3. CASE /\ budget[b] # Gone /\ End(r, "fine")
               /\ budget' = [budget EXCEPT ![b] = row] /\ UNCHANGED <<cats, subs, tx>>
      <3>1. row \in BudgetRow
        BY <2>1, <2>3, OverBudget DEF TypeOK
      <3> HIDE DEF row
      <3> QED
        BY <2>0, <2>1, <2>3, <3>1, EndType DEF TypeOK
    <2> QED
      BY <1>11, <2>2, <2>3 DEF CommitBudgetUpdate, Unhandled
  <1>12. ASSUME NEW b \in Budgets, delete_budget(b) PROVE TypeOK'
    BY <1>12, AtOnceType DEF delete_budget, TypeOK
  <1>13. ASSUME NEW t \in Txs, NEW cat \in Cats \cup {Null}, NEW sub \in Subs \cup {Null},
                create_expense(t, cat, sub)
         PROVE  TypeOK'
    <2>1. PICK row \in TxRow : tx' = [tx EXCEPT ![t] = row]
      <3>1. CASE sub # Null
        BY <1>13, <3>1, CatalogAssumption DEF create_expense, TxRow, TypeOK
      <3>2. CASE sub = Null
        BY <1>13, <3>2 DEF create_expense, TxRow, TypeOK
      <3> QED
        BY <3>1, <3>2
    <2> QED
      BY <1>13, <2>1, AtOnceType DEF create_expense, Create, TypeOK
  <1>14. ASSUME NEW r \in Requests, NEW t \in Txs, NEW body \in TxBody,
                LoadForExpenseUpdate(r, t, body)
         PROVE  TypeOK'
    <2> DEFINE h == [op |-> "update_expense", id |-> t, write |-> Dirty(tx[t], body)]
    <2>1. Dirty(tx[t], body) \in TxBody
      BY <1>14, OverTx DEF LoadForExpenseUpdate, TypeOK
    <2>2. h \in Handler /\ h.id = t
      BY <2>1 DEF Handler
    <2>3. Begin(r, h, OtherUpdate(t)) /\ OtherUpdate(t) \in BOOLEAN
      BY <1>14 DEF LoadForExpenseUpdate, OtherUpdate
    <2> HIDE DEF h
    <2> QED
      BY <2>2, <2>3, BeginType
  <1>15. ASSUME NEW r \in Requests, CommitExpenseUpdate(r) PROVE TypeOK'
    <2> DEFINE t == req[r].id
               row == Over(tx[t], req[r].write)
    <2>1. req[r].op = "update_expense" /\ t \in Txs /\ req[r].write \in TxBody
      BY <1>15, HandlerKinds DEF CommitExpenseUpdate, TypeOK
    <2>0. UNCHANGED arrived
      BY <1>15 DEF CommitExpenseUpdate
    <2>2. CASE UNCHANGED rows
      <3>1. End(r, "fine") \/ End(r, "stale") \/ End(r, "integrity")
        BY <1>15 DEF CommitExpenseUpdate, Unhandled
      <3> QED
        BY <2>0, <2>2, <3>1, EndType DEF rows, TypeOK
    <2>3. CASE /\ tx[t] # Gone /\ End(r, "fine")
               /\ tx' = [tx EXCEPT ![t] = row] /\ UNCHANGED <<cats, subs, budget>>
      <3>1. row \in TxRow
        BY <2>1, <2>3, OverTx DEF TypeOK
      <3> HIDE DEF row
      <3> QED
        BY <2>0, <2>1, <2>3, <3>1, EndType DEF TypeOK
    <2> QED
      BY <1>15, <2>2, <2>3 DEF CommitExpenseUpdate, Unhandled
  <1>16. ASSUME NEW t \in Txs, delete_expense(t) PROVE TypeOK'
    BY <1>16, AtOnceType DEF delete_expense, TypeOK
  <1>17. ASSUME NEW r \in Requests, NEW t \in Txs, DeleteMeetsGoneExpense(r, t) PROVE TypeOK'
    BY <1>17 DEF DeleteMeetsGoneExpense, Handler, TypeOK
  <1>18. CASE UNCHANGED vars
    BY <1>18 DEF vars, TypeOK
  <1> QED
    BY <1>1, <1>2, <1>3, <1>4, <1>5, <1>6, <1>7, <1>8, <1>9, <1>10, <1>11, <1>12, <1>13,
       <1>14, <1>15, <1>16, <1>17, <1>18 DEF Next

(* Rows, columns and handlers have the types the models of the ORM give     *)
(* them (models.py), whatever runs at once.                                 *)
THEOREM TypeCorrect == Spec => []TypeOK
  <1> QED
    BY InitTypeOK, NextTypeOK, PTL DEF Spec

-------------------------------------------------------------------------------
LEMMA InitCoherent == Init => Coherent
  <1> SUFFICES ASSUME Init PROVE Coherent
    OBVIOUS
  <1>1. LiveBudgets = {} /\ LiveTxs = {} /\ \A r \in Requests : req[r] = Idle
    BY DEF Init, LiveBudgets, LiveTxs
  <1>2. RowsCoherent
    BY <1>1, CatalogAssumption
    DEF Init, RowsCoherent, BudgetScopeCoherent, TxCategoryCoherent
  <1> QED
    BY <1>1, <1>2, InitTypeOK
    DEF Coherent, OneUpdater, Updating, BudgetUpdateFits, ExpenseUpdateFits, Idle

(* The step takes the row of a transaction, or sets columns of it to NULL. *)
OnlyLoses(t) ==
    \/ tx'[t] = Gone
    \/ /\ tx[t] # Gone
       /\ tx'[t].cat \in {tx[t].cat, Null} /\ tx'[t].sub \in {tx[t].sub, Null}

(* The step writes no row that the update r has in hand, raced ones apart. *)
Spares(r) ==
    /\ Updating(r) /\ req[r].id \notin raced' => req[r].id \notin raced
    /\ req[r].op = "update_budget" /\ req[r].id \notin raced' =>
          budget'[req[r].id] \in {budget[req[r].id], Gone}
    /\ req[r].op = "update_expense" /\ req[r].id \notin raced' => OnlyLoses(req[r].id)

Fits(r) == BudgetUpdateFits(r) /\ ExpenseUpdateFits(r)

(* A handler that goes on holding what it held still fits.  *)
LEMMA HeldFits ==
    ASSUME Coherent, TypeOK', NEW r \in Requests, req'[r] = req[r], Spares(r)
    PROVE  Fits(r)'
  <1>1. BudgetUpdateFits(r)'
    <2> DEFINE b == req[r].id
               w == req[r].write
    <2> SUFFICES ASSUME req[r].op = "update_budget"
                 PROVE  /\ w.cat \in ExpenseCats \cup {Unset}
                        /\ b \notin raced' /\ budget'[b] # Gone =>
                              ScopeFits(Over(budget'[b], w))
      BY DEF BudgetUpdateFits, ScopeFits, Over
    <2> QED
      BY DEF Coherent, BudgetUpdateFits, Updating, Spares
  <1>2. ExpenseUpdateFits(r)'
    <2> DEFINE t == req[r].id
               w == req[r].write
    <2> SUFFICES ASSUME req[r].op = "update_expense", t \notin raced', tx'[t] # Gone
                 PROVE  ScopeFits(Over(tx'[t], w))
      BY DEF ExpenseUpdateFits, ScopeFits, Over
    <2>1. t \in Txs /\ w \in TxBody
      BY HandlerKinds DEF Coherent, TypeOK
    <2>2. tx[t] \in TxRow /\ tx'[t] \in TxRow
      BY <2>1 DEF Coherent, TypeOK, OnlyLoses, Spares, Updating
    <2>3. ScopeFits(Over(tx[t], w))
      BY <2>2, RowAssumption DEF Coherent, ExpenseUpdateFits, Spares, Updating
    <2>4. tx'[t].cat \in {tx[t].cat, Null} /\ tx'[t].sub \in {tx[t].sub, Null}
      BY DEF OnlyLoses, Spares, Updating
    <2> HIDE DEF t, w
    <2> QED
      BY <2>1, <2>2, <2>3, <2>4, OverTx DEF ScopeFits
  <1> QED
    BY <1>1, <1>2 DEF Fits

(* The rows stand still and no row stops being raced. *)
LEMMA RowsKept ==
    ASSUME Coherent, UNCHANGED rows, raced \subseteq raced'
    PROVE  RowsCoherent'
  BY DEF Coherent, RowsCoherent, BudgetScopeCoherent, TxCategoryCoherent,
         LiveBudgets, LiveTxs, rows

(* A step of a handler that is one step. *)
LEMMA AtOnceHandlers ==
    ASSUME Coherent, TypeOK', RowsCoherent', UNCHANGED req, \A r \in Requests : Spares(r)
    PROVE  Coherent'
  <1>1. \A r \in Requests : Fits(r)'
    BY HeldFits
  <1>2. OneUpdater'
    BY DEF Coherent, OneUpdater, Spares, Updating
  <1> QED
    BY <1>1, <1>2 DEF Coherent, Fits

(* A handler takes its first step and holds h. *)
LEMMA BeginHandlers ==
    ASSUME Coherent, TypeOK', NEW r \in Requests, NEW h \in Handler, NEW racing \in BOOLEAN,
           Begin(r, h, racing), Fits(r)',
           h.op \in {"update_budget", "update_expense"} => racing = OtherUpdate(h.id)
    PROVE  Coherent'
  <1>1. UNCHANGED rows /\ raced \subseteq raced' /\ req' = [req EXCEPT ![r] = h]
    BY DEF Begin
  <1>2. RowsCoherent'
    BY <1>1, RowsKept
  <1>3. \A q \in Requests : Fits(q)'
    <2> SUFFICES ASSUME NEW q \in Requests, q # r PROVE Fits(q)'
      OBVIOUS
    <2>1. req'[q] = req[q]
      BY <1>1 DEF Coherent, TypeOK
    <2>2. Spares(q)
      BY <1>1 DEF Spares, OnlyLoses, rows
    <2> QED
      BY <2>1, <2>2, HeldFits
  <1>4. OneUpdater'
    <2> SUFFICES ASSUME NEW p \in Requests, NEW q \in Requests, Updating(p)', Updating(q)',
                        p # q, req'[p].id = req'[q].id
                 PROVE  req'[p].id \in raced'
      BY DEF OneUpdater
    <2>1. req'[r] = h /\ \A x \in Requests \ {r} : req'[x] = req[x]
      BY <1>1 DEF Coherent, TypeOK
    <2>2. CASE p # r /\ q # r
      BY <1>1, <2>1, <2>2 DEF Coherent, OneUpdater, Updating
    <2>3. CASE p = r \/ q = r
      <3>1. PICK x \in Requests \ {r} : Updating(x)' /\ req'[x].id = h.id
        BY <2>1, <2>3
      <3>2. OtherUpdate(h.id)
        BY <2>1, <3>1 DEF OtherUpdate, Updating
      <3>3. h.op \in {"update_budget", "update_expense"}
        BY <2>1, <2>3 DEF Updating
      <3>4. h.id \in raced'
        BY <3>2, <3>3 DEF Begin
      <3> QED
        BY <2>1, <2>3, <3>4
    <2> QED
      BY <2>2, <2>3
  <1> QED
    BY <1>2, <1>3, <1>4 DEF Coherent, Fits

(* A handler ends. *)
LEMMA EndHandlers ==
    ASSUME Coherent, TypeOK', RowsCoherent', NEW r \in Requests,
           req' = [req EXCEPT ![r] = Idle], UNCHANGED raced,
           \A q \in Requests \ {r} : Spares(q)
    PROVE  Coherent'
  <1>1. req'[r] = Idle /\ (\A q \in Requests \ {r} : req'[q] = req[q]) /\ UNCHANGED raced
    BY DEF Coherent, TypeOK
  <1>2. Fits(r)' /\ ~Updating(r)'
    BY <1>1 DEF Fits, BudgetUpdateFits, ExpenseUpdateFits, Updating, Idle
  <1>3. \A q \in Requests : Fits(q)'
    BY <1>1, <1>2, HeldFits
  <1>4. OneUpdater'
    BY <1>1, <1>2 DEF Coherent, OneUpdater, Updating
  <1> QED
    BY <1>3, <1>4 DEF Coherent, Fits

(* A row that no running handler refers to may be new. *)
LEMMA CreateSpares ==
    ASSUME NEW id, Create(id), NEW r \in Requests,
           \A b \in Budgets \ {id} : budget'[b] \in {budget[b], Gone},
           \A t \in Txs \ {id} : OnlyLoses(t), Coherent
    PROVE  Spares(r)
  <1>1. Updating(r) => req[r].id # id
    BY DEF Create, Refers, Updating, Active
  <1>2. /\ req[r].op = "update_budget" => req[r].id \in Budgets
        /\ req[r].op = "update_expense" => req[r].id \in Txs
    BY HandlerKinds DEF Coherent, TypeOK
  <1> QED
    BY <1>1, <1>2 DEF Spares, Create, Updating

LEMMA NextCoherent == Coherent /\ [Next]_vars => Coherent'
  <1> SUFFICES ASSUME Coherent, [Next]_vars PROVE Coherent'
    OBVIOUS
  <1>t. TypeOK /\ TypeOK'
    BY NextTypeOK DEF Coherent
  <1> USE <1>t
  <1>1. ASSUME NEW c \in Cats, create_category(c) PROVE Coherent'
    <2>1. UNCHANGED <<subs, budget, tx, req>> /\ cats \subseteq cats'
      BY <1>1 DEF create_category, Create, AtOnce
    <2>2. raced' = raced
      BY <1>1, RowAssumption DEF create_category, Create, TypeOK
    <2>3. RowsCoherent'
      BY <2>1, <2>2 DEF Coherent, RowsCoherent, BudgetScopeCoherent, TxCategoryCoherent, LiveBudgets, LiveTxs
    <2> QED
      BY <2>1, <2>2, <2>3, AtOnceHandlers DEF Spares, OnlyLoses
  <1>2. ASSUME NEW s \in Subs, create_subcategory(s) PROVE Coherent'
    <2>1. UNCHANGED <<cats, budget, tx, req>> /\ subs' = subs \cup {s} /\ Parent[s] \in cats
      BY <1>2 DEF create_subcategory, Create, AtOnce
    <2>2. raced' = raced
      BY <1>2, RowAssumption DEF create_subcategory, Create, TypeOK
    <2>3. RowsCoherent'
      BY <2>1, <2>2 DEF Coherent, RowsCoherent, BudgetScopeCoherent, TxCategoryCoherent, LiveBudgets, LiveTxs
    <2> QED
      BY <2>1, <2>2, <2>3, AtOnceHandlers DEF Spares, OnlyLoses
  <1>3. ASSUME NEW r \in Requests, NEW c \in Cats, LoadForCategoryDelete(r, c) PROVE Coherent'
    <2> DEFINE h == [op |-> "delete_category", id |-> c]
    <2>1. h \in Handler
      BY DEF Handler
    <2>2. Begin(r, h, FALSE)
      BY <1>3 DEF LoadForCategoryDelete
    <2>3. Fits(r)'
      BY <2>2 DEF Begin, TypeOK, Fits, BudgetUpdateFits, ExpenseUpdateFits
    <2>4. h.op \notin {"update_budget", "update_expense"}
      OBVIOUS
    <2> HIDE DEF h
    <2> QED
      BY <2>1, <2>2, <2>3, <2>4, BeginHandlers
  <1>4. ASSUME NEW c \in Cats, SeveralForCategory(c) PROVE Coherent'
    <2>1. UNCHANGED <<rows, req, raced>>
      BY <1>4 DEF SeveralForCategory, SeveralBudgets
    <2> QED
      BY <2>1, RowsKept, AtOnceHandlers DEF Spares, OnlyLoses, rows
  <1>5. ASSUME NEW r \in Requests, CommitCategoryDelete(r) PROVE Coherent'
    <2> DEFINE c == req[r].id
               children == {s \in subs : Parent[s] = c}
    <2>1. CASE \E b \in LiveBudgets : budget[b].sub \in children
      <3>1. End(r, "integrity") /\ UNCHANGED rows
        BY <1>5, <2>1 DEF CommitCategoryDelete, Unhandled
      <3>2. RowsCoherent'
        BY <3>1, RowsKept DEF End
      <3> QED
        BY <3>1, <3>2, EndHandlers DEF Spares, OnlyLoses, rows, End
    <2>2. CASE ~\E b \in LiveBudgets : budget[b].sub \in children
      <3>1. /\ cats' = cats \ {c} /\ subs' = subs \ children
            /\ budget' = [b \in Budgets |-> IF b \in LiveBudgets /\ budget[b].cat = c
                                            THEN Gone ELSE budget[b]]
            /\ tx' = [t \in Txs |-> IF t \in LiveTxs
                                    THEN [cat |-> IF tx[t].cat = c THEN Null ELSE tx[t].cat,
                                          sub |-> IF tx[t].sub \in children THEN Null
                                                  ELSE tx[t].sub]
                                    ELSE Gone]
            /\ End(r, "fine") /\ UNCHANGED raced
        BY <1>5, <2>2 DEF CommitCategoryDelete, End
      <3> HIDE DEF c
      <3>2. \A t \in Txs : OnlyLoses(t)
        BY <3>1 DEF OnlyLoses, LiveTxs
      <3>3. \A b \in Budgets : budget'[b] \in {budget[b], Gone}
        BY <3>1
      <3>4. BudgetScopeCoherent'
        <4>1. \A b \in LiveBudgets' : /\ b \in LiveBudgets /\ budget'[b] = budget[b]
                                      /\ budget[b].cat # c /\ budget[b].sub \notin children
          BY <2>2, <3>1 DEF LiveBudgets
        <4> QED
          BY <3>1, <4>1 DEF Coherent, RowsCoherent, BudgetScopeCoherent
      <3>5. TxCategoryCoherent'
        <4>1. \A t \in LiveTxs' :
                  /\ t \in LiveTxs
                  /\ tx'[t].cat = IF tx[t].cat = c THEN Null ELSE tx[t].cat
                  /\ tx'[t].sub = IF tx[t].sub \in children THEN Null ELSE tx[t].sub
          BY <3>1 DEF LiveTxs
        <4> HIDE DEF children
        <4> QED
          BY <3>1, <4>1 DEF Coherent, RowsCoherent, TxCategoryCoherent
      <3>6. RowsCoherent'
        BY <3>1, <3>4, <3>5 DEF Coherent, RowsCoherent
      <3>7. \A q \in Requests : Spares(q)
        BY <3>1, <3>2, <3>3, HandlerKinds DEF Spares, TypeOK
      <3> QED
        BY <3>1, <3>6, <3>7, EndHandlers DEF End
    <2> QED
      BY <2>1, <2>2
  <1>6. ASSUME NEW r \in Requests, NEW s \in Subs, LoadForSubcategoryDelete(r, s)
        PROVE  Coherent'
    <2> DEFINE h == [op |-> "delete_subcategory", id |-> s]
    <2>1. h \in Handler /\ h.op \notin {"update_budget", "update_expense"}
      BY DEF Handler
    <2>2. Begin(r, h, FALSE)
      BY <1>6 DEF LoadForSubcategoryDelete
    <2>3. Fits(r)'
      BY <2>2 DEF Begin, TypeOK, Fits, BudgetUpdateFits, ExpenseUpdateFits
    <2> HIDE DEF h
    <2> QED
      BY <2>1, <2>2, <2>3, BeginHandlers
  <1>7. ASSUME NEW s \in Subs, SeveralForSubcategory(s) PROVE Coherent'
    <2>1. UNCHANGED <<rows, req, raced>>
      BY <1>7 DEF SeveralForSubcategory, SeveralBudgets
    <2> QED
      BY <2>1, RowsKept, AtOnceHandlers DEF Spares, OnlyLoses, rows
  <1>8. ASSUME NEW r \in Requests, CommitSubcategoryDelete(r) PROVE Coherent'
    <2> DEFINE s == req[r].id
    <2>1. CASE \E b \in LiveBudgets : budget[b].sub = s
      <3>1. End(r, "integrity") /\ UNCHANGED rows
        BY <1>8, <2>1 DEF CommitSubcategoryDelete, Unhandled
      <3>2. RowsCoherent'
        BY <3>1, RowsKept DEF End
      <3> QED
        BY <3>1, <3>2, EndHandlers DEF Spares, OnlyLoses, rows, End
    <2>2. CASE ~\E b \in LiveBudgets : budget[b].sub = s
      <3>1. /\ subs' = subs \ {s} /\ UNCHANGED <<cats, budget>>
            /\ tx' = [t \in Txs |-> IF t \in LiveTxs /\ tx[t].sub = s
                                    THEN [tx[t] EXCEPT !.sub = Null] ELSE tx[t]]
            /\ End(r, "fine") /\ UNCHANGED raced
        BY <1>8, <2>2 DEF CommitSubcategoryDelete, End
      <3> HIDE DEF s
      <3>2. \A t \in LiveTxs' :
                /\ t \in LiveTxs
                /\ tx'[t].cat = tx[t].cat
                /\ tx'[t].sub = IF tx[t].sub = s THEN Null ELSE tx[t].sub
        <4>1. \A t \in LiveTxs : tx[t] \in TxRow
          BY DEF LiveTxs, TypeOK
        <4> QED
          BY <3>1, <4>1 DEF LiveTxs, TxRow
      <3>3. \A t \in Txs : OnlyLoses(t)
        BY <3>2 DEF OnlyLoses, LiveTxs
      <3>4. BudgetScopeCoherent'
        BY <2>2, <3>1 DEF Coherent, RowsCoherent, BudgetScopeCoherent,
                          LiveBudgets
      <3>5. TxCategoryCoherent'
        BY <3>1, <3>2 DEF Coherent, RowsCoherent, TxCategoryCoherent
      <3>6. RowsCoherent'
        BY <3>1, <3>4, <3>5 DEF Coherent, RowsCoherent
      <3>7. \A q \in Requests : Spares(q)
        BY <3>1, <3>3, HandlerKinds DEF Spares, TypeOK
      <3> QED
        BY <3>1, <3>6, <3>7, EndHandlers DEF End
    <2> QED
      BY <2>1, <2>2
  <1>9. ASSUME NEW b \in Budgets, NEW row \in BudgetRow, create_budget(b, row) PROVE Coherent'
    <2>1. /\ budget' = [budget EXCEPT ![b] = row] /\ UNCHANGED <<cats, subs, tx, req>>
          /\ raced' = raced \ {b} /\ validate_scope(row.cat, row.sub) /\ ScopeFree(b, row)
          /\ Create(b) /\ b \notin Txs
      BY <1>9, RowAssumption DEF create_budget, Create, AtOnce
    <2>2. \A a \in LiveBudgets' :
              \/ a = b /\ budget'[a] = row
              \/ a # b /\ a \in LiveBudgets /\ budget'[a] = budget[a]
      BY <2>1 DEF LiveBudgets, TypeOK
    <2>3. BudgetScopeCoherent'
      <3> SUFFICES ASSUME NEW a \in LiveBudgets'
                   PROVE  /\ budget'[a].cat \in ExpenseCats \cap cats
                          /\ budget'[a].sub \in subs \cup {Null}
                          /\ budget'[a].sub # Null /\ a \notin raced' =>
                                Parent[budget'[a].sub] = budget'[a].cat
        BY <2>1 DEF BudgetScopeCoherent
      <3>1. CASE a = b /\ budget'[a] = row
        BY <2>1, <3>1 DEF validate_scope
      <3>2. CASE a # b /\ a \in LiveBudgets /\ budget'[a] = budget[a]
        BY <2>1, <3>2 DEF Coherent, RowsCoherent, BudgetScopeCoherent
      <3> QED
        BY <2>2, <3>1, <3>2
    <2>5. TxCategoryCoherent'
      BY <2>1 DEF Coherent, RowsCoherent, TxCategoryCoherent, LiveTxs
    <2>6. RowsCoherent'
      BY <2>1, <2>3, <2>5 DEF Coherent, RowsCoherent
    <2>7. \A r \in Requests : Spares(r)
      BY <2>1, CreateSpares DEF OnlyLoses, TypeOK
    <2> QED
      BY <2>1, <2>6, <2>7, AtOnceHandlers
  <1>10. ASSUME NEW r \in Requests, NEW b \in Budgets, NEW body \in BudgetBody,
                LoadForBudgetUpdate(r, b, body)
         PROVE  Coherent'
    <2> DEFINE row == Over(budget[b], body)
               w == Dirty(budget[b], body)
               h == [op |-> "update_budget", id |-> b, write |-> w]
    <2>1. budget[b] \in BudgetRow /\ w \in BudgetBody
      BY <1>10, OverBudget DEF LoadForBudgetUpdate, TypeOK
    <2>2. h \in Handler /\ h.id = b /\ h.op = "update_budget" /\ h.write = w
      BY <2>1 DEF Handler
    <2>3. Begin(r, h, OtherUpdate(b)) /\ OtherUpdate(b) \in BOOLEAN /\ UNCHANGED budget
      BY <1>10 DEF LoadForBudgetUpdate, OtherUpdate, Begin, rows
    <2>4. row = Over(budget[b], w) /\ validate_scope(row.cat, row.sub)
      BY <1>10, OverDirty DEF LoadForBudgetUpdate
    <2>5. w.cat \in ExpenseCats \cup {Unset}
      BY <2>1, <2>4, OverBudget DEF validate_scope
    <2>6. ScopeFits(row)
      BY <2>4 DEF validate_scope, ScopeFits
    <2> HIDE DEF w, row
    <2>7. req'[r] = h
      BY <2>3 DEF Begin, TypeOK
    <2> HIDE DEF h
    <2>8. Fits(r)'
      BY <2>2, <2>3, <2>4, <2>5, <2>6, <2>7
      DEF Fits, BudgetUpdateFits, ExpenseUpdateFits, ScopeFits, Over
    <2> QED
      BY <2>2, <2>3, <2>8, BeginHandlers
  <1>11. ASSUME NEW r \in Requests, CommitBudgetUpdate(r) PROVE Coherent'
    <2> DEFINE b == req[r].id
               w == req[r].write
               row == Over(budget[b], w)
    <2>1. req[r].op = "update_budget" /\ b \in Budgets /\ w \in BudgetBody
      BY <1>11, HandlerKinds DEF CommitBudgetUpdate, TypeOK
    <2>2. CASE UNCHANGED rows
      <3>1. End(r, "fine") \/ End(r, "stale")
        BY <1>11 DEF CommitBudgetUpdate, Unhandled
      <3>2. RowsCoherent'
        BY <2>2, <3>1, RowsKept DEF End
      <3>3. \A q \in Requests : Spares(q)
        BY <2>2, <3>1 DEF Spares, OnlyLoses, rows, End
      <3> QED
        BY <3>1, <3>2, <3>3, EndHandlers DEF End
    <2>3. CASE /\ budget[b] # Gone /\ BudgetRefersTo(row) /\ ScopeFree(b, row)
               /\ budget' = [budget EXCEPT ![b] = row] /\ UNCHANGED <<cats, subs, tx>>
               /\ End(r, "fine")
      <3>1. budget[b] \in BudgetRow /\ b \in LiveBudgets
        BY <2>1, <2>3 DEF TypeOK, LiveBudgets
      <3>2. UNCHANGED raced
        BY <2>3 DEF End
      <3>3. row.cat \in ExpenseCats \cap cats /\ row.sub \in subs \cup {Null}
        <4>1. budget[b].cat \in ExpenseCats /\ w.cat \in ExpenseCats \cup {Unset}
          BY <2>1, <3>1 DEF Coherent, RowsCoherent, BudgetScopeCoherent, BudgetUpdateFits
        <4>2. row.cat \in ExpenseCats
          BY <2>1, <3>1, <4>1, OverBudget
        <4> QED
          BY <2>3, <4>2 DEF BudgetRefersTo
      <3>4. row.sub # Null /\ b \notin raced => Parent[row.sub] = row.cat
        <4>1. b \notin raced => ScopeFits(row)
          BY <2>1, <2>3 DEF Coherent, BudgetUpdateFits
        <4> QED
          BY <3>3, <4>1, CatalogAssumption DEF ScopeFits
      <3> HIDE DEF row
      <3>5. \A a \in LiveBudgets' :
                \/ a = b /\ budget'[a] = row
                \/ a # b /\ a \in LiveBudgets /\ budget'[a] = budget[a]
        BY <2>1, <2>3 DEF LiveBudgets, TypeOK
      <3>6. BudgetScopeCoherent'
        <4> SUFFICES ASSUME NEW a \in LiveBudgets'
                     PROVE  /\ budget'[a].cat \in ExpenseCats \cap cats
                            /\ budget'[a].sub \in subs \cup {Null}
                            /\ budget'[a].sub # Null /\ a \notin raced =>
                                  Parent[budget'[a].sub] = budget'[a].cat
          BY <2>3, <3>2 DEF BudgetScopeCoherent
        <4>1. CASE a = b /\ budget'[a] = row
          BY <3>3, <3>4, <4>1
        <4>2. CASE a # b /\ a \in LiveBudgets /\ budget'[a] = budget[a]
          BY <4>2 DEF Coherent, RowsCoherent, BudgetScopeCoherent
        <4> QED
          BY <3>5, <4>1, <4>2
      <3>8. RowsCoherent'
        BY <2>3, <3>2, <3>6 DEF Coherent, RowsCoherent, TxCategoryCoherent, LiveTxs
      <3>9. \A q \in Requests \ {r} : Spares(q)
        <4> SUFFICES ASSUME NEW q \in Requests \ {r} PROVE Spares(q)
          OBVIOUS
        <4>1. Updating(q) /\ req[q].id = b => b \in raced
          BY <2>1 DEF Coherent, OneUpdater, Updating
        <4>2. req[q].op = "update_budget" => req[q].id \in Budgets
          BY HandlerKinds DEF TypeOK
        <4> HIDE DEF b
        <4> QED
          BY <2>1, <2>3, <3>2, <4>1, <4>2 DEF Spares, OnlyLoses, Updating, TypeOK
      <3> QED
        BY <2>3, <3>8, <3>9, EndHandlers DEF End
    <2> QED
      BY <1>11, <2>2, <2>3 DEF CommitBudgetUpdate, Unhandled
  <1>12. ASSUME NEW b \in Budgets, delete_budget(b) PROVE Coherent'
    <2>1. budget' = [budget EXCEPT ![b] = Gone] /\ UNCHANGED <<cats, subs, tx, raced, req>>
      BY <1>12 DEF delete_budget, AtOnce
    <2>2. \A a \in LiveBudgets' : a \in LiveBudgets /\ budget'[a] = budget[a]
      BY <2>1 DEF LiveBudgets, TypeOK
    <2>3. RowsCoherent'
      BY <2>1, <2>2 DEF Coherent, RowsCoherent, BudgetScopeCoherent,
                        TxCategoryCoherent, LiveTxs
    <2>4. \A r \in Requests : Spares(r)
      BY <2>1, HandlerKinds DEF Spares, OnlyLoses, TypeOK
    <2> QED
      BY <2>1, <2>3, <2>4, AtOnceHandlers
  <1>13. ASSUME NEW t \in Txs, NEW cat \in Cats \cup {Null}, NEW sub \in Subs \cup {Null},
                create_expense(t, cat, sub)
         PROVE  Coherent'
    <2>1. PICK row \in TxRow : /\ tx' = [tx EXCEPT ![t] = row]
                               /\ row.cat \in cats \cup {Null} /\ row.sub \in subs \cup {Null}
                               /\ ScopeFits(row)
      <3>1. CASE sub # Null
        <4> DEFINE row == [cat |-> Parent[sub], sub |-> sub]
        <4>1. sub \in subs /\ Parent[sub] \in cats /\ tx' = [tx EXCEPT ![t] = row]
          BY <1>13, <3>1 DEF create_expense, Coherent, RowsCoherent
        <4>2. row \in TxRow
          BY <4>1 DEF TxRow, TypeOK
        <4> QED
          BY <4>1, <4>2 DEF ScopeFits
      <3>2. CASE sub = Null
        <4> DEFINE row == [cat |-> cat, sub |-> Null]
        <4>1. cat \in cats \cup {Null} /\ tx' = [tx EXCEPT ![t] = row] /\ row \in TxRow
          BY <1>13, <3>2 DEF create_expense, TxRow
        <4> QED
          BY <4>1 DEF ScopeFits
      <3> QED
        BY <3>1, <3>2
    <2>2. Create(t) /\ UNCHANGED <<cats, subs, budget, req>> /\ t \notin Budgets
      BY <1>13, RowAssumption DEF create_expense, Create, AtOnce
    <2>3. raced' = raced \ {t}
      BY <2>2 DEF Create
    <2>4. \A u \in LiveTxs' : \/ u = t /\ tx'[u] = row
                              \/ u # t /\ u \in LiveTxs /\ tx'[u] = tx[u]
      BY <2>1 DEF LiveTxs, TypeOK
    <2>5. TxCategoryCoherent'
      <3> SUFFICES ASSUME NEW u \in LiveTxs'
                   PROVE  /\ tx'[u].cat \in cats \cup {Null} /\ tx'[u].sub \in subs \cup {Null}
                          /\ u \notin raced' => ScopeFits(tx'[u])
        BY <2>2 DEF TxCategoryCoherent, ScopeFits
      <3>1. CASE u = t /\ tx'[u] = row
        BY <2>1, <3>1
      <3>2. CASE u # t /\ u \in LiveTxs /\ tx'[u] = tx[u]
        BY <2>3, <3>2 DEF Coherent, RowsCoherent, TxCategoryCoherent, ScopeFits
      <3> QED
        BY <2>4, <3>1, <3>2
    <2>6. RowsCoherent'
      BY <2>2, <2>3, <2>5 DEF Coherent, RowsCoherent, BudgetScopeCoherent,
                              LiveBudgets
    <2>7. \A r \in Requests : Spares(r)
      BY <2>1, <2>2, CreateSpares DEF OnlyLoses, TypeOK
    <2> QED
      BY <2>2, <2>6, <2>7, AtOnceHandlers
  <1>14. ASSUME NEW r \in Requests, NEW t \in Txs, NEW body \in TxBody,
                LoadForExpenseUpdate(r, t, body)
         PROVE  Coherent'
    <2> DEFINE row == Over(tx[t], body)
               w == Dirty(tx[t], body)
               h == [op |-> "update_expense", id |-> t, write |-> w]
    <2>1. tx[t] \in TxRow /\ w \in TxBody /\ t \in LiveTxs /\ CategoryFieldsValid(tx[t], body)
      BY <1>14, OverTx DEF LoadForExpenseUpdate, TypeOK, LiveTxs
    <2>2. h \in Handler /\ h.id = t /\ h.op = "update_expense" /\ h.write = w
      BY <2>1 DEF Handler
    <2>3. Begin(r, h, OtherUpdate(t)) /\ OtherUpdate(t) \in BOOLEAN /\ UNCHANGED tx
      BY <1>14 DEF LoadForExpenseUpdate, OtherUpdate, Begin, rows
    <2>4. row = Over(tx[t], w)
      BY OverDirty
    <2>5. t \notin raced => ScopeFits(row)
      <3>1. t \notin raced => ScopeFits(tx[t])
        BY <2>1 DEF Coherent, RowsCoherent, TxCategoryCoherent, ScopeFits
      <3>2. row.cat = IF body.cat = Unset THEN tx[t].cat ELSE body.cat
        BY <2>1, OverTx
      <3>3. row.sub = IF body.sub = Unset THEN tx[t].sub ELSE body.sub
        BY <2>1, OverTx
      <3> QED
        BY <2>1, <3>1, <3>2, <3>3 DEF CategoryFieldsValid, ScopeFits
    <2> HIDE DEF w, row
    <2>6. req'[r] = h /\ raced \subseteq raced'
      BY <2>3 DEF Begin, TypeOK
    <2> HIDE DEF h
    <2>7. Fits(r)'
      BY <2>2, <2>3, <2>4, <2>5, <2>6
      DEF Fits, BudgetUpdateFits, ExpenseUpdateFits, ScopeFits, Over
    <2> QED
      BY <2>2, <2>3, <2>7, BeginHandlers
  <1>15. ASSUME NEW r \in Requests, CommitExpenseUpdate(r) PROVE Coherent'
    <2> DEFINE t == req[r].id
               w == req[r].write
               row == Over(tx[t], w)
    <2>1. req[r].op = "update_expense" /\ t \in Txs /\ w \in TxBody
      BY <1>15, HandlerKinds DEF CommitExpenseUpdate, TypeOK
    <2>2. CASE UNCHANGED rows
      <3>1. End(r, "fine") \/ End(r, "stale") \/ End(r, "integrity")
        BY <1>15 DEF CommitExpenseUpdate, Unhandled
      <3>2. RowsCoherent'
        BY <2>2, <3>1, RowsKept DEF End
      <3>3. \A q \in Requests : Spares(q)
        BY <2>2, <3>1 DEF Spares, OnlyLoses, rows, End
      <3> QED
        BY <3>1, <3>2, <3>3, EndHandlers DEF End
    <2>3. CASE /\ tx[t] # Gone
               /\ row.cat \in cats \cup {Null} /\ row.sub \in subs \cup {Null}
               /\ tx' = [tx EXCEPT ![t] = row] /\ UNCHANGED <<cats, subs, budget>>
               /\ End(r, "fine")
      <3>1. UNCHANGED raced
        BY <2>3 DEF End
      <3>2. t \notin raced => ScopeFits(row)
        BY <2>1, <2>3 DEF Coherent, ExpenseUpdateFits
      <3> HIDE DEF row
      <3>3. \A u \in LiveTxs' : \/ u = t /\ tx'[u] = row
                                \/ u # t /\ u \in LiveTxs /\ tx'[u] = tx[u]
        BY <2>1, <2>3 DEF LiveTxs, TypeOK
      <3>4. TxCategoryCoherent'
        <4> SUFFICES ASSUME NEW u \in LiveTxs'
                     PROVE  /\ tx'[u].cat \in cats \cup {Null} /\ tx'[u].sub \in subs \cup {Null}
                            /\ u \notin raced => ScopeFits(tx'[u])
          BY <2>3, <3>1 DEF TxCategoryCoherent, ScopeFits
        <4>1. CASE u = t /\ tx'[u] = row
          BY <2>3, <3>2, <4>1
        <4>2. CASE u # t /\ u \in LiveTxs /\ tx'[u] = tx[u]
          BY <4>2 DEF Coherent, RowsCoherent, TxCategoryCoherent, ScopeFits
        <4> QED
          BY <3>3, <4>1, <4>2
      <3>5. RowsCoherent'
        BY <2>3, <3>1, <3>4 DEF Coherent, RowsCoherent, BudgetScopeCoherent, LiveBudgets
      <3>6. \A q \in Requests \ {r} : Spares(q)
        <4> SUFFICES ASSUME NEW q \in Requests \ {r} PROVE Spares(q)
          OBVIOUS
        <4>1. Updating(q) /\ req[q].id = t => t \in raced
          BY <2>1 DEF Coherent, OneUpdater, Updating
        <4>2. req[q].op = "update_expense" => req[q].id \in Txs
          BY HandlerKinds DEF TypeOK
        <4> HIDE DEF t
        <4> QED
          BY <2>1, <2>3, <3>1, <4>1, <4>2 DEF Spares, OnlyLoses, Updating, TypeOK
      <3> QED
        BY <2>3, <3>5, <3>6, EndHandlers DEF End
    <2> QED
      BY <1>15, <2>2, <2>3 DEF CommitExpenseUpdate, Unhandled
  <1>16. ASSUME NEW t \in Txs, delete_expense(t) PROVE Coherent'
    <2>1. tx' = [tx EXCEPT ![t] = Gone] /\ UNCHANGED <<cats, subs, budget, raced, req>>
      BY <1>16 DEF delete_expense, AtOnce
    <2>2. \A u \in LiveTxs' : u \in LiveTxs /\ tx'[u] = tx[u]
      BY <2>1 DEF LiveTxs, TypeOK
    <2>3. RowsCoherent'
      BY <2>1, <2>2 DEF Coherent, RowsCoherent, BudgetScopeCoherent,
                        TxCategoryCoherent, LiveBudgets
    <2>4. \A r \in Requests : Spares(r)
      BY <2>1, HandlerKinds DEF Spares, OnlyLoses, TypeOK
    <2> QED
      BY <2>1, <2>3, <2>4, AtOnceHandlers
  <1>17. ASSUME NEW r \in Requests, NEW t \in Txs, DeleteMeetsGoneExpense(r, t)
         PROVE  Coherent'
    <2>1. /\ tx' = [tx EXCEPT ![t] = Gone] /\ req' = [req EXCEPT ![r] = Idle]
          /\ UNCHANGED <<cats, subs, budget, raced>>
      BY <1>17 DEF DeleteMeetsGoneExpense
    <2>2. \A u \in LiveTxs' : u \in LiveTxs /\ tx'[u] = tx[u]
      BY <2>1 DEF LiveTxs, TypeOK
    <2>3. RowsCoherent'
      BY <2>1, <2>2 DEF Coherent, RowsCoherent, BudgetScopeCoherent, TxCategoryCoherent,
                        LiveBudgets
    <2>4. \A q \in Requests : Spares(q)
      BY <2>1, HandlerKinds DEF Spares, OnlyLoses, TypeOK
    <2> QED
      BY <2>1, <2>3, <2>4, EndHandlers
  <1>18. CASE UNCHANGED vars
    <2>1. RowsCoherent'
      BY <1>18, RowsKept DEF vars, rows
    <2> QED
      BY <1>18, <2>1, AtOnceHandlers DEF vars, Spares, OnlyLoses
  <1> QED
    BY <1>1, <1>2, <1>3, <1>4, <1>5, <1>6, <1>7, <1>8, <1>9, <1>10, <1>11, <1>12, <1>13,
       <1>14, <1>15, <1>16, <1>17, <1>18 DEF Next

-------------------------------------------------------------------------------
LEMMA InitAlone == Init => Alone
  <1> SUFFICES ASSUME Init PROVE Alone
    OBVIOUS
  <1>1. \A r \in Requests : req[r] = Idle
    BY DEF Init
  <1> QED
    BY <1>1 DEF Init, Alone, Ready, Active, Idle

(* A handler that is one step runs alone only if no other runs. *)
LEMMA AloneAtOnce ==
    ASSUME Alone, AtOnce, raced' \subseteq raced
    PROVE  Alone'
  <1> SUFFICES ASSUME ~overlapped' PROVE Alone'
    BY DEF Alone
  <1>1. ~overlapped /\ (\A q \in Requests : ~Active(q)) /\ answer' = "fine" /\ req' = req
    BY DEF AtOnce
  <1>2. \A q \in Requests : req'[q].op = "idle"
    BY <1>1 DEF Active
  <1> QED
    BY <1>1, <1>2 DEF Alone, Ready, Active

LEMMA AloneBegin ==
    ASSUME Coherent, Alone, NEW r \in Requests, NEW h, NEW racing,
           Begin(r, h, racing), racing => OtherUpdate(h.id), Ready(r)'
    PROVE  Alone'
  <1> SUFFICES ASSUME ~overlapped' PROVE Alone'
    BY DEF Alone
  <1>1. ~overlapped /\ (\A q \in Requests : ~Active(q)) /\ answer' = "fine"
    BY DEF Begin
  <1>2. ~racing
    BY <1>1 DEF OtherUpdate, Active
  <1>3. \A q \in Requests \ {r} : req'[q].op = "idle"
    BY <1>1 DEF Active, Begin, Coherent, TypeOK
  <1>4. raced' = {}
    BY <1>1, <1>2 DEF Alone, Begin
  <1> QED
    BY <1>1, <1>3, <1>4 DEF Alone, Ready, Active

LEMMA AloneEnd ==
    ASSUME Coherent, Alone, NEW r \in Requests, NEW how, End(r, how), Active(r),
           ~overlapped => how = "fine"
    PROVE  Alone'
  <1> SUFFICES ASSUME ~overlapped' PROVE Alone'
    BY DEF Alone
  <1>1. ~overlapped /\ answer' = "fine" /\ raced' = {}
    BY DEF End, Alone
  <1>2. \A q \in Requests : req'[q].op = "idle"
    <2>1. req'[r] = Idle /\ \A q \in Requests \ {r} : req'[q] = req[q]
      BY DEF End, Coherent, TypeOK
    <2>2. \A q \in Requests \ {r} : ~Active(q)
      BY <1>1 DEF Alone
    <2> QED
      BY <2>1, <2>2 DEF Active, Idle
  <1> QED
    BY <1>1, <1>2 DEF Alone, Ready, Active

LEMMA NextAlone == Coherent /\ Alone /\ [Next]_vars => Alone'
  <1> SUFFICES ASSUME Coherent, Alone, [Next]_vars PROVE Alone'
    OBVIOUS
  <1>t. TypeOK /\ TypeOK'
    BY NextTypeOK DEF Coherent
  <1>1. ASSUME NEW c \in Cats, create_category(c) PROVE Alone'
    BY <1>1, AloneAtOnce DEF create_category, Create
  <1>2. ASSUME NEW s \in Subs, create_subcategory(s) PROVE Alone'
    BY <1>2, AloneAtOnce DEF create_subcategory, Create
  <1>3. ASSUME NEW r \in Requests, NEW c \in Cats, LoadForCategoryDelete(r, c) PROVE Alone'
    <2> DEFINE h == [op |-> "delete_category", id |-> c]
    <2>1. Begin(r, h, FALSE) /\ \A b \in LiveBudgets : budget[b].cat # c
      BY <1>3 DEF LoadForCategoryDelete
    <2>2. req'[r] = h
      BY <1>t, <2>1 DEF Begin, TypeOK
    <2>3. UNCHANGED budget
      BY <2>1 DEF Begin, rows
    <2>4. Ready(r)'
      BY <2>1, <2>2, <2>3 DEF Ready, LiveBudgets
    <2> QED
      BY <2>1, <2>4, AloneBegin
  <1>4. ASSUME NEW c \in Cats, SeveralForCategory(c) PROVE Alone'
    BY <1>4 DEF SeveralForCategory, SeveralBudgets, rows, Alone, Active, Ready, LiveBudgets, Over
  <1>5. ASSUME NEW r \in Requests, CommitCategoryDelete(r) PROVE Alone'
    <2>1. req[r].op = "delete_category" /\ Active(r)
      BY <1>5 DEF CommitCategoryDelete, Active
    <2>2. ASSUME ~overlapped, NEW b \in LiveBudgets, budget[b].sub \in subs,
                 Parent[budget[b].sub] = req[r].id
          PROVE  FALSE
      <3>1. budget[b].sub # Null
        BY <1>t, <2>2, CatalogAssumption DEF TypeOK
      <3>2. budget[b].cat = req[r].id
        BY <2>2, <3>1 DEF Alone, Coherent, RowsCoherent, BudgetScopeCoherent
      <3> QED
        BY <2>1, <2>2, <3>2 DEF Alone, Ready
    <2>3. ~overlapped => End(r, "fine")
      BY <1>5, <2>2 DEF CommitCategoryDelete
    <2>4. End(r, "fine") \/ End(r, "integrity")
      BY <1>5 DEF CommitCategoryDelete, Unhandled
    <2> QED
      BY <2>1, <2>3, <2>4, AloneEnd
  <1>6. ASSUME NEW r \in Requests, NEW s \in Subs, LoadForSubcategoryDelete(r, s) PROVE Alone'
    <2> DEFINE h == [op |-> "delete_subcategory", id |-> s]
    <2>1. Begin(r, h, FALSE) /\ \A b \in LiveBudgets : budget[b].sub # s
      BY <1>6 DEF LoadForSubcategoryDelete
    <2>2. req'[r] = h
      BY <1>t, <2>1 DEF Begin, TypeOK
    <2>3. UNCHANGED budget
      BY <2>1 DEF Begin, rows
    <2>4. Ready(r)'
      BY <2>1, <2>2, <2>3 DEF Ready, LiveBudgets
    <2> QED
      BY <2>1, <2>4, AloneBegin
  <1>7. ASSUME NEW s \in Subs, SeveralForSubcategory(s) PROVE Alone'
    BY <1>7 DEF SeveralForSubcategory, SeveralBudgets, rows, Alone, Active, Ready, LiveBudgets,
                Over
  <1>8. ASSUME NEW r \in Requests, CommitSubcategoryDelete(r) PROVE Alone'
    <2>1. req[r].op = "delete_subcategory" /\ Active(r)
      BY <1>8 DEF CommitSubcategoryDelete, Active
    <2>2. ~overlapped => \A b \in LiveBudgets : budget[b].sub # req[r].id
      BY <2>1 DEF Alone, Ready
    <2>3. ~overlapped => End(r, "fine")
      BY <1>8, <2>2 DEF CommitSubcategoryDelete
    <2>4. End(r, "fine") \/ End(r, "integrity")
      BY <1>8 DEF CommitSubcategoryDelete, Unhandled
    <2> QED
      BY <2>1, <2>3, <2>4, AloneEnd
  <1>9. ASSUME NEW b \in Budgets, NEW row \in BudgetRow, create_budget(b, row) PROVE Alone'
    BY <1>9, AloneAtOnce DEF create_budget, Create
  <1>10. ASSUME NEW r \in Requests, NEW b \in Budgets, NEW body \in BudgetBody,
                LoadForBudgetUpdate(r, b, body)
         PROVE  Alone'
    <2> DEFINE h == [op |-> "update_budget", id |-> b, write |-> Dirty(budget[b], body)]
    <2>1. Begin(r, h, OtherUpdate(b)) /\ budget[b] # Gone /\ h.id = b
      BY <1>10 DEF LoadForBudgetUpdate
    <2>2. req'[r] = h
      BY <1>t, <2>1 DEF Begin, TypeOK
    <2>3. UNCHANGED budget
      BY <2>1 DEF Begin, rows
    <2>4. Ready(r)'
      BY <2>1, <2>2, <2>3 DEF Ready, Over
    <2> HIDE DEF h
    <2> QED
      BY <2>1, <2>4, AloneBegin
  <1>11. ASSUME NEW r \in Requests, CommitBudgetUpdate(r) PROVE Alone'
    <2>1. req[r].op = "update_budget" /\ Active(r)
      BY <1>11 DEF CommitBudgetUpdate, Active
    <2>2. ~overlapped => budget[req[r].id] # Gone
      BY <2>1 DEF Alone, Ready
    <2>3. ~overlapped => End(r, "fine")
      BY <1>11, <2>2 DEF CommitBudgetUpdate
    <2>4. End(r, "fine") \/ End(r, "stale")
      BY <1>11 DEF CommitBudgetUpdate, Unhandled
    <2> QED
      BY <2>1, <2>3, <2>4, AloneEnd
  <1>12. ASSUME NEW b \in Budgets, delete_budget(b) PROVE Alone'
    BY <1>12, AloneAtOnce DEF delete_budget
  <1>13. ASSUME NEW t \in Txs, NEW cat \in Cats \cup {Null}, NEW sub \in Subs \cup {Null},
                create_expense(t, cat, sub)
         PROVE  Alone'
    BY <1>13, AloneAtOnce DEF create_expense, Create
  <1>14. ASSUME NEW r \in Requests, NEW t \in Txs, NEW body \in TxBody,
                LoadForExpenseUpdate(r, t, body)
         PROVE  Alone'
    <2> DEFINE w == Dirty(tx[t], body)
               h == [op |-> "update_expense", id |-> t, write |-> w]
    <2>1. Begin(r, h, OtherUpdate(t)) /\ tx[t] # Gone /\ CategoryFieldsValid(tx[t], body)
      BY <1>14 DEF LoadForExpenseUpdate
    <2>2. req'[r] = h /\ h.id = t /\ h.op = "update_expense" /\ h.write = w
      BY <1>t, <2>1 DEF Begin, TypeOK
    <2>3. UNCHANGED rows
      BY <2>1 DEF Begin
    <2>4. /\ Over(tx[t], w).cat \in cats \cup {Null}
          /\ Over(tx[t], w).sub \in subs \cup {Null}
      <3>1. tx[t] \in TxRow /\ t \in LiveTxs
        BY <1>t, <2>1 DEF TypeOK, LiveTxs
      <3>2. tx[t].cat \in cats \cup {Null} /\ tx[t].sub \in subs \cup {Null}
        BY <3>1 DEF Coherent, RowsCoherent, TxCategoryCoherent
      <3>3. Over(tx[t], w) = Over(tx[t], body)
        BY OverDirty
      <3> QED
        BY <2>1, <3>1, <3>2, <3>3, OverTx DEF CategoryFieldsValid
    <2> HIDE DEF h, w
    <2>5. Ready(r)'
      BY <2>1, <2>2, <2>3, <2>4 DEF Ready, rows, Over
    <2> QED
      BY <2>1, <2>2, <2>5, AloneBegin
  <1>15. ASSUME NEW r \in Requests, CommitExpenseUpdate(r) PROVE Alone'
    <2> DEFINE row == Over(tx[req[r].id], req[r].write)
    <2>1. req[r].op = "update_expense" /\ Active(r)
      BY <1>15 DEF CommitExpenseUpdate, Active
    <2>2. ~overlapped => /\ tx[req[r].id] # Gone
                         /\ row.cat \in cats \cup {Null} /\ row.sub \in subs \cup {Null}
      BY <2>1 DEF Alone, Ready
    <2>3. ~overlapped => End(r, "fine")
      BY <1>15, <2>2 DEF CommitExpenseUpdate
    <2>4. End(r, "fine") \/ End(r, "stale") \/ End(r, "integrity")
      BY <1>15 DEF CommitExpenseUpdate, Unhandled
    <2> QED
      BY <2>1, <2>3, <2>4, AloneEnd
  <1>16. ASSUME NEW t \in Txs, delete_expense(t) PROVE Alone'
    BY <1>16, AloneAtOnce DEF delete_expense
  <1>17. ASSUME NEW r \in Requests, NEW t \in Txs, DeleteMeetsGoneExpense(r, t) PROVE Alone'
    BY <1>17 DEF DeleteMeetsGoneExpense, Alone
  <1>18. CASE UNCHANGED vars
    BY <1>18 DEF vars, Alone, Active, Ready, LiveBudgets, Over
  <1> QED
    BY <1>1, <1>2, <1>3, <1>4, <1>5, <1>6, <1>7, <1>8, <1>9, <1>10, <1>11, <1>12, <1>13,
       <1>14, <1>15, <1>16, <1>17, <1>18 DEF Next

(* delete_category found no budget on its category, and every budget that   *)
(* is there now has come since.                                             *)
BudgetsArrived ==
    \A r \in Requests, b \in LiveBudgets :
        req[r].op = "delete_category" /\ budget[b].cat = req[r].id => b \in arrived[r]

(* A budget that was there and has not moved is one that had come before.   *)
Stays(b) == b \in LiveBudgets /\ budget'[b].cat = budget[b].cat

LEMMA ArrivedFrame ==
    ASSUME BudgetsArrived,
           \A b \in LiveBudgets' : Stays(b),
           \A r \in Requests : \/ req'[r] = req[r] /\ arrived'[r] = arrived[r]
                               \/ req'[r].op # "delete_category"
    PROVE  BudgetsArrived'
  BY DEF BudgetsArrived, Stays

(* A budget comes, and whoever is deleting its category is told. *)
LEMMA ArrivedComes ==
    ASSUME BudgetsArrived, NEW b \in Budgets, Arrives(b, budget'[b].cat),
           \A a \in LiveBudgets' \ {b} : Stays(a),
           \A r \in Requests : req'[r] = req[r] \/ req'[r].op # "delete_category"
    PROVE  BudgetsArrived'
  BY DEF BudgetsArrived, Stays, Arrives

LEMMA ArrivedEnd ==
    ASSUME TypeOK, NEW r \in Requests, req' = [req EXCEPT ![r] = Idle],
           arrived' = [arrived EXCEPT ![r] = {}] \/ UNCHANGED arrived
    PROVE  \A q \in Requests : \/ req'[q] = req[q] /\ arrived'[q] = arrived[q]
                               \/ req'[q].op # "delete_category"
  BY DEF TypeOK, Idle

LEMMA NextArrived == TypeOK /\ BudgetsArrived /\ [Next]_vars => BudgetsArrived'
  <1> SUFFICES ASSUME TypeOK, BudgetsArrived, [Next]_vars PROVE BudgetsArrived'
    OBVIOUS
  <1>1. CASE UNCHANGED <<budget, req, arrived>>
    BY <1>1 DEF BudgetsArrived, LiveBudgets
  <1>2. ASSUME NEW r \in Requests, NEW h, NEW racing, Begin(r, h, racing),
               h.op = "delete_category" => \A b \in LiveBudgets : budget[b].cat # h.id
        PROVE  BudgetsArrived'
    <2>1. /\ req'[r] = h /\ \A q \in Requests \ {r} : req'[q] = req[q]
          /\ UNCHANGED <<budget, arrived>>
      BY <1>2 DEF Begin, rows, TypeOK
    <2> QED
      BY <1>2, <2>1 DEF BudgetsArrived, LiveBudgets
  <1>3. ASSUME NEW r \in Requests, NEW how, End(r, how), UNCHANGED <<budget, arrived>>
        PROVE  BudgetsArrived'
    BY <1>3, ArrivedEnd, ArrivedFrame DEF End, Stays, LiveBudgets
  <1>4. ASSUME NEW r \in Requests, CommitCategoryDelete(r) PROVE BudgetsArrived'
    <2>1. req' = [req EXCEPT ![r] = Idle] /\ arrived' = [arrived EXCEPT ![r] = {}]
      BY <1>4 DEF CommitCategoryDelete, Unhandled, End
    <2>2. \A b \in Budgets : budget'[b] \in {budget[b], Gone}
      BY <1>4 DEF CommitCategoryDelete, Unhandled, rows
    <2>3. \A b \in LiveBudgets' : Stays(b)
      BY <2>2 DEF Stays, LiveBudgets
    <2> QED
      BY <2>1, <2>3, ArrivedEnd, ArrivedFrame
  <1>5. ASSUME NEW r \in Requests, NEW t \in Txs, DeleteMeetsGoneExpense(r, t)
        PROVE  BudgetsArrived'
    BY <1>5, ArrivedEnd, ArrivedFrame DEF DeleteMeetsGoneExpense, Stays, LiveBudgets
  <1>6. ASSUME NEW b \in Budgets, NEW row \in BudgetRow, create_budget(b, row)
        PROVE  BudgetsArrived'
    <2>1. budget' = [budget EXCEPT ![b] = row] /\ Arrives(b, row.cat) /\ UNCHANGED req
      BY <1>6 DEF create_budget, Create, AtOnce
    <2>2. budget'[b] = row /\ \A a \in LiveBudgets' \ {b} : Stays(a)
      BY <2>1 DEF Stays, LiveBudgets, TypeOK
    <2> QED
      BY <2>1, <2>2, ArrivedComes
  <1>7. ASSUME NEW r \in Requests, CommitBudgetUpdate(r) PROVE BudgetsArrived'
    <2> DEFINE b == req[r].id
               row == Over(budget[b], req[r].write)
    <2>1. CASE UNCHANGED <<budget, arrived>> /\ (End(r, "fine") \/ End(r, "stale"))
      BY <1>3, <2>1
    <2>2. CASE /\ budget[b] # Gone /\ End(r, "fine") /\ budget' = [budget EXCEPT ![b] = row]
               /\ IF row.cat = budget[b].cat THEN UNCHANGED arrived ELSE Arrives(b, row.cat)
      <3>1. b \in Budgets
        BY <1>7, HandlerKinds DEF CommitBudgetUpdate, TypeOK
      <3> HIDE DEF row
      <3>2. budget'[b] = row /\ \A a \in LiveBudgets' \ {b} : Stays(a)
        BY <2>2, <3>1 DEF Stays, LiveBudgets, TypeOK
      <3>3. \A q \in Requests : req'[q] = req[q] \/ req'[q].op # "delete_category"
        BY <2>2 DEF End, Idle, TypeOK
      <3>4. CASE row.cat = budget[b].cat
        <4>1. \A a \in LiveBudgets' : Stays(a)
          BY <2>2, <3>1, <3>2, <3>4 DEF Stays, LiveBudgets
        <4> QED
          BY <2>2, <3>4, <4>1, ArrivedEnd, ArrivedFrame DEF End
      <3>5. CASE row.cat # budget[b].cat
        BY <2>2, <3>1, <3>2, <3>3, <3>5, ArrivedComes
      <3> QED
        BY <3>4, <3>5
    <2> QED
      BY <1>7, <2>1, <2>2 DEF CommitBudgetUpdate, Unhandled, rows
  <1>8. ASSUME NEW b \in Budgets, delete_budget(b) PROVE BudgetsArrived'
    <2>1. /\ \A a \in LiveBudgets' : Stays(a)
          /\ UNCHANGED <<req, arrived>>
      BY <1>8 DEF delete_budget, AtOnce, Stays, LiveBudgets, TypeOK
    <2> QED
      BY <2>1, ArrivedFrame
  <1>9. ASSUME NEW r \in Requests, NEW c \in Cats, LoadForCategoryDelete(r, c)
        PROVE  BudgetsArrived'
    BY <1>2, <1>9 DEF LoadForCategoryDelete
  <1>10. ASSUME NEW r \in Requests, NEW s \in Subs, LoadForSubcategoryDelete(r, s)
         PROVE  BudgetsArrived'
    BY <1>2, <1>10 DEF LoadForSubcategoryDelete
  <1>11. ASSUME NEW r \in Requests, NEW b \in Budgets, NEW body \in BudgetBody,
                LoadForBudgetUpdate(r, b, body)
         PROVE  BudgetsArrived'
    BY <1>2, <1>11 DEF LoadForBudgetUpdate
  <1>12. ASSUME NEW r \in Requests, NEW t \in Txs, NEW body \in TxBody,
                LoadForExpenseUpdate(r, t, body)
         PROVE  BudgetsArrived'
    BY <1>2, <1>12 DEF LoadForExpenseUpdate
  <1>13. ASSUME NEW r \in Requests, CommitSubcategoryDelete(r) PROVE BudgetsArrived'
    BY <1>3, <1>13 DEF CommitSubcategoryDelete, Unhandled, rows
  <1>14. ASSUME NEW r \in Requests, CommitExpenseUpdate(r) PROVE BudgetsArrived'
    BY <1>3, <1>14 DEF CommitExpenseUpdate, Unhandled, rows
  <1>15. ASSUME NEW c \in Cats, create_category(c) \/ SeveralForCategory(c)
         PROVE  BudgetsArrived'
    BY <1>1, <1>15 DEF create_category, SeveralForCategory, SeveralBudgets, Create, AtOnce, rows
  <1>16. ASSUME NEW s \in Subs, create_subcategory(s) \/ SeveralForSubcategory(s)
         PROVE  BudgetsArrived'
    BY <1>1, <1>16 DEF create_subcategory, SeveralForSubcategory, SeveralBudgets, Create,
                       AtOnce, rows
  <1>17. ASSUME NEW t \in Txs, NEW cat \in Cats \cup {Null}, NEW sub \in Subs \cup {Null},
                create_expense(t, cat, sub) \/ delete_expense(t)
         PROVE  BudgetsArrived'
    BY <1>1, <1>17 DEF create_expense, delete_expense, Create, AtOnce
  <1>18. CASE UNCHANGED vars
    BY <1>1, <1>18 DEF vars
  <1> QED
    BY <1>4, <1>5, <1>6, <1>7, <1>8, <1>9, <1>10, <1>11, <1>12, <1>13, <1>14, <1>15, <1>16,
       <1>17, <1>18 DEF Next

LEMMA Invariants == Spec => [](Coherent /\ Alone /\ BudgetsArrived)
  <1>1. Init => Coherent /\ Alone /\ BudgetsArrived
    <2>1. Init => BudgetsArrived
      BY DEF Init, BudgetsArrived, LiveBudgets
    <2> QED
      BY <2>1, InitCoherent, InitAlone
  <1>2. Coherent /\ Alone /\ BudgetsArrived /\ [Next]_vars
            => (Coherent /\ Alone /\ BudgetsArrived)'
    BY NextCoherent, NextAlone, NextArrived DEF Coherent
  <1> QED
    BY <1>1, <1>2, PTL DEF Spec

(* A budget is on an expense category that is there and on a subcategory of *)
(* that category (routers/budgets.py, validate_scope), whatever is deleted  *)
(* between an update's load and its commit; only two updates of the same    *)
(* budget at once can part them.                                            *)
THEOREM ScopeCoherent == Spec => []BudgetScopeCoherent
  <1>1. Coherent => BudgetScopeCoherent
    BY DEF Coherent, RowsCoherent
  <1> QED
    BY <1>1, Invariants, PTL

(* The same of the category and subcategory of a transaction                *)
(* (routers/expenses.py), which deletions set to NULL one by one.           *)
THEOREM CategoryCoherent == Spec => []TxCategoryCoherent
  <1>1. Coherent => TxCategoryCoherent
    BY DEF Coherent, RowsCoherent
  <1> QED
    BY <1>1, Invariants, PTL

(* A user who does one thing at a time never sees a foreign key fail or a   *)
(* row vanish: what the handlers check is all their commit needs.           *)
THEOREM NoErrorAlone == Spec => []No500WithoutOverlap
  <1>1. Alone => No500WithoutOverlap
    BY DEF Alone, No500WithoutOverlap
  <1> QED
    BY <1>1, Invariants, PTL

(* A budget that delete_category takes with the category was created there, *)
(* or moved there, after the handler had found none (routers/categories.py  *)
(* 84-91), and has no subcategory but by two updates of it at once.         *)
THEOREM BudgetsLost == Spec => BudgetLostOnlyToOverlap
  <1> DEFINE Lost ==
                 \A b \in LiveBudgets :
                     budget'[b] = Gone =>
                         \/ delete_budget(b)
                         \/ \E r \in Requests :
                               /\ req[r].op = "delete_category" /\ req[r].id = budget[b].cat
                               /\ req'[r] = Idle
                               /\ b \in arrived[r]
                               /\ budget[b].sub = Null \/ b \in raced
  <1>1. ASSUME Coherent, BudgetsArrived, NEW b \in LiveBudgets, budget'[b] = Gone,
               NEW r \in Requests, CommitCategoryDelete(r)
        PROVE  /\ req[r].op = "delete_category" /\ req[r].id = budget[b].cat
               /\ req'[r] = Idle
               /\ b \in arrived[r]
               /\ budget[b].sub = Null \/ b \in raced
    <2> DEFINE children == {s \in subs : Parent[s] = req[r].id}
    <2>1. b \in Budgets /\ budget[b] \in BudgetRow /\ budget'[b] # budget[b]
      BY <1>1 DEF Coherent, TypeOK, LiveBudgets
    <2>2. /\ req[r].op = "delete_category" /\ req'[r] = Idle
          /\ budget[b].cat = req[r].id /\ budget[b].sub \notin children
      BY <1>1, <2>1 DEF CommitCategoryDelete, Unhandled, End, rows, Coherent, TypeOK
    <2>3. b \in arrived[r]
      BY <1>1, <2>2 DEF BudgetsArrived
    <2>4. budget[b].sub = Null \/ b \in raced
      BY <1>1, <2>2 DEF Coherent, RowsCoherent, BudgetScopeCoherent
    <2> QED
      BY <2>2, <2>3, <2>4
  <1>2. Coherent /\ BudgetsArrived /\ [Next]_vars => [Lost]_vars
    <2> SUFFICES ASSUME Coherent, BudgetsArrived, [Next]_vars, NEW b \in LiveBudgets,
                        budget'[b] = Gone, ~delete_budget(b)
                 PROVE  \E r \in Requests : CommitCategoryDelete(r)
      BY <1>1
    <2>b. b \in Budgets /\ budget[b] \in BudgetRow /\ budget'[b] # budget[b]
      BY DEF Coherent, TypeOK, LiveBudgets
    <2>1. ASSUME NEW a \in Budgets, NEW row \in BudgetRow, create_budget(a, row) PROVE FALSE
      BY <2>b, <2>1, RowAssumption DEF create_budget, Coherent, TypeOK
    <2>2. ASSUME NEW a \in Budgets, delete_budget(a) PROVE FALSE
      BY <2>b, <2>2 DEF delete_budget, Coherent, TypeOK
    <2>3. ASSUME NEW r \in Requests, CommitBudgetUpdate(r) PROVE FALSE
      <3>1. req[r].op = "update_budget" /\ req[r].id \in Budgets /\ req[r].write \in BudgetBody
        BY <2>3, HandlerKinds DEF CommitBudgetUpdate, Coherent, TypeOK
      <3>2. budget[req[r].id] # Gone => Over(budget[req[r].id], req[r].write) \in BudgetRow
        BY <3>1, OverBudget DEF Coherent, TypeOK
      <3> QED
        BY <2>b, <2>3, <3>1, <3>2, RowAssumption
        DEF CommitBudgetUpdate, Unhandled, rows, Coherent, TypeOK
    <2>4. CASE UNCHANGED budget
      BY <2>b, <2>4
    <2>5. \/ \E r \in Requests : CommitCategoryDelete(r)
          \/ \E a \in Budgets, row \in BudgetRow : create_budget(a, row)
          \/ \E a \in Budgets : delete_budget(a)
          \/ \E r \in Requests : CommitBudgetUpdate(r)
          \/ UNCHANGED budget
      <3>1. \A r \in Requests :
                /\ \A c \in Cats : LoadForCategoryDelete(r, c) => UNCHANGED budget
                /\ \A s \in Subs : LoadForSubcategoryDelete(r, s) => UNCHANGED budget
                /\ CommitSubcategoryDelete(r) => UNCHANGED budget
                /\ \A t \in Txs : DeleteMeetsGoneExpense(r, t) => UNCHANGED budget
                /\ \A a \in Budgets, body \in BudgetBody :
                      LoadForBudgetUpdate(r, a, body) => UNCHANGED budget
                /\ \A t \in Txs, body \in TxBody :
                      LoadForExpenseUpdate(r, t, body) => UNCHANGED budget
                /\ CommitExpenseUpdate(r) => UNCHANGED budget
        BY DEF LoadForCategoryDelete, LoadForSubcategoryDelete, CommitSubcategoryDelete,
               DeleteMeetsGoneExpense, LoadForBudgetUpdate, LoadForExpenseUpdate,
               CommitExpenseUpdate, Begin, Unhandled, rows
      <3>2. /\ \A c \in Cats : create_category(c) \/ SeveralForCategory(c) => UNCHANGED budget
            /\ \A s \in Subs :
                  create_subcategory(s) \/ SeveralForSubcategory(s) => UNCHANGED budget
            /\ \A t \in Txs, cat \in Cats \cup {Null}, sub \in Subs \cup {Null} :
                  create_expense(t, cat, sub) => UNCHANGED budget
            /\ \A t \in Txs : delete_expense(t) => UNCHANGED budget
        BY DEF create_category, create_subcategory, SeveralForCategory, SeveralForSubcategory,
               SeveralBudgets, create_expense, delete_expense, rows
      <3> QED
        BY <3>1, <3>2 DEF Next, vars
    <2> QED
      BY <2>1, <2>2, <2>3, <2>4, <2>5
  <1> QED
    BY <1>2, Invariants, PTL DEF Spec, BudgetLostOnlyToOverlap
===============================================================================
