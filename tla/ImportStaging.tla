---------------------------- MODULE ImportStaging -----------------------------
(***************************************************************************)
(* The CSV import, routers/import_csv.py: a file is parsed and staged in   *)
(* the memory of the process under a token; confirming the token creates   *)
(* its accounts, categories and transactions in one commit, and only then  *)
(* takes the token away.                                                   *)
(*                                                                         *)
(* Names stand for themselves; dates, amounts and descriptions are carried *)
(* along and left out.  A file is a set of rows, and what a request maps   *)
(* the categories of a file to is a function of their names.               *)
(***************************************************************************)
EXTENDS CsvFile

CONSTANTS Tokens,
          Files,       \* bound: the files uploaded, each a set of rows
          Currencies,
          Labels,      \* category and subcategory names of a file
          Cats, Subs,  \* ids of the categories and subcategories the user has
          Parent,      \* [Subs -> Cats]
          Requests,    \* confirm handlers that can be running at once
          MaxImports,  \* bound: imports of one token
          New,         \* a category or subcategory created by the import
          Gone         \* no such token

(* A row; its date and amounts are left out: of to_amount the parser asks   *)
(* only that it is above 0, or empty, beside whatever to_currency.          *)
FileRow == [type : {"expense", "income", "transfer"}, currency : Currencies,
            account_name : Names, account_destination_name : Names \cup {Null},
            to_currency : Currencies \cup {Null},
            category_name : Labels \cup {Null}, subcategory_name : Labels \cup {Null}]

ASSUME ImportAssumption ==
    /\ Files \subseteq SUBSET FileRow
    /\ \A file \in Files : IsFiniteSet(file)
    /\ Parent \in [Subs -> Cats]
    /\ {New, Null} \cap (Cats \cup Subs \cup Names \cup Currencies \cup Labels) = {}
    /\ New # Null
    /\ MaxImports \in Nat

ASSUME RowAssumption == Gone \notin Files \cup [rows : Files, old : BOOLEAN]

VARIABLES
    store,       \* _staging_store: [Tokens -> the rows and whether too old, or Gone]
    cats, subs,  \* the categories and subcategories the user had, as far as they exist
    accounts,    \* the accounts imports created, by token
    txs,         \* the transactions imports created
    req,         \* the running confirm handlers
    staged,      \* history: [Tokens -> the file a preview accepted, or Gone]
    imports,     \* history: [Tokens -> how often its file was imported]
    doubtful,    \* history: tokens with two confirms at once, or a COMMIT without an answer
    lost         \* history: tokens that grew old, or were staged before a restart

vars == <<store, cats, subs, accounts, txs, req, staged, imports, doubtful, lost>>

Target == [cat : Cats \cup {New}, sub : Subs \cup {New, Null}]

(* pc: "resolve" has the staged rows in hand and looks the mapping up,      *)
(* "commit" has added everything to its session, "pop" is after the commit. *)
Idle == [pc |-> "idle"]
Active(r) == req[r].pc # "idle"

Pairs(file) == {<<x.category_name, x.subcategory_name>> : x \in {y \in file : y.category_name # Null}}

-------------------------------------------------------------------------------
Init ==
    /\ store = [t \in Tokens |-> Gone]
    /\ cats = Cats
    /\ subs = Subs
    /\ accounts = [t \in Tokens |-> <<>>]
    /\ txs = {}
    /\ req = [r \in Requests |-> Idle]
    /\ staged = [t \in Tokens |-> Gone]
    /\ imports = [t \in Tokens |-> 0]
    /\ doubtful = {}
    /\ lost = {}

preview_import(t, file) ==
    /\ staged[t] = Gone
    /\ Acceptable(file)
    /\ store' = [store EXCEPT ![t] = [rows |-> file, old |-> FALSE]]
    /\ staged' = [staged EXCEPT ![t] = file]
    /\ UNCHANGED <<cats, subs, accounts, txs, req, imports, doubtful, lost>>

(* _clean_expired_staging *)
Cleaned == [t \in Tokens |-> IF store[t] # Gone /\ store[t].old THEN Gone ELSE store[t]]

(* The token is looked up; what is too old is removed, whatever comes of it. *)
ConfirmStarts(r, t, mapping) ==
    /\ ~Active(r)
    /\ imports[t] < MaxImports
    /\ store' = Cleaned
    /\ IF Cleaned[t] = Gone THEN UNCHANGED <<req, doubtful>>   \* 400
       ELSE /\ req' = [req EXCEPT ![r] = [pc |-> "resolve", token |-> t,
                                          rows |-> Cleaned[t].rows, mapping |-> mapping]]
            /\ doubtful' = IF \E q \in Requests : Active(q) /\ req[q].token = t
                             THEN doubtful \cup {t} ELSE doubtful
    /\ UNCHANGED <<cats, subs, accounts, txs, staged, imports, lost>>

Resolvable(target) ==
    /\ target.cat \in cats \cup {New}
    /\ \/ target.sub \in {New, Null}
       \/ target.sub \in subs /\ Parent[target.sub] = target.cat

(* 400 where the mapping names what is not there: nothing was written. *)
ResolveMapping(r) ==
    /\ req[r].pc = "resolve"
    /\ req' = [req EXCEPT ![r] = IF \A p \in DOMAIN req[r].mapping : Resolvable(req[r].mapping[p])
                                 THEN [req[r] EXCEPT !.pc = "commit"] ELSE Idle]
    /\ UNCHANGED <<store, cats, subs, accounts, txs, staged, imports, doubtful, lost>>

(* A row whose category has no mapping, or has no category, gets neither. *)
Imported(r, x) ==
    LET pair == <<x.category_name, x.subcategory_name>>
        target == IF pair \in DOMAIN req[r].mapping THEN req[r].mapping[pair]
                  ELSE [cat |-> Null, sub |-> Null]
    IN  [token |-> req[r].token, row |-> x, cat |-> target.cat, sub |-> target.sub]

(* The foreign keys refuse a category deleted since it was looked up: 500,  *)
(* and nothing of the file is written.                                      *)
ReferencesHold(r) ==
    \A p \in DOMAIN req[r].mapping :
        /\ req[r].mapping[p].cat \in cats \cup {New}
        /\ req[r].mapping[p].sub \in subs \cup {New, Null}

Write(r) ==
    LET t == req[r].token IN
    /\ accounts' = [accounts EXCEPT ![t] = AccountCurrencies(req[r].rows)]
    /\ txs' = txs \cup {Imported(r, x) : x \in req[r].rows}
    /\ imports' = [imports EXCEPT ![t] = @ + 1]

(* Mutant: the token is taken away whether the commit succeeds or not. *)
CommitImportFinally(r) ==
    /\ req[r].pc = "commit"
    /\ store' = [store EXCEPT ![req[r].token] = Gone]
    /\ IF ReferencesHold(r) THEN Write(r) ELSE UNCHANGED <<accounts, txs, imports>>
    /\ req' = [req EXCEPT ![r] = Idle]
    /\ UNCHANGED <<cats, subs, staged, doubtful, lost>>

CommitImport(r) ==
    /\ req[r].pc = "commit"
    /\ IF ReferencesHold(r)
       THEN Write(r) /\ req' = [req EXCEPT ![r].pc = "pop"]
       ELSE UNCHANGED <<accounts, txs, imports>> /\ req' = [req EXCEPT ![r] = Idle]
    /\ UNCHANGED <<store, cats, subs, staged, doubtful, lost>>

(* The commit fails for another reason: rolled back. *)
CommitFails(r) ==
    /\ req[r].pc = "commit"
    /\ req' = [req EXCEPT ![r] = Idle]
    /\ UNCHANGED <<store, cats, subs, accounts, txs, staged, imports, doubtful, lost>>

(* The database commits, the connection is gone before it says so: 500. *)
CommitUnanswered(r) ==
    /\ req[r].pc = "commit"
    /\ ReferencesHold(r)
    /\ Write(r)
    /\ req' = [req EXCEPT ![r] = Idle]
    /\ doubtful' = doubtful \cup {req[r].token}
    /\ UNCHANGED <<store, cats, subs, staged, lost>>

(* Mutant: the answer is sent with the token still there. *)
PopNothing(r) ==
    /\ req[r].pc = "pop"
    /\ req' = [req EXCEPT ![r] = Idle]
    /\ UNCHANGED <<store, cats, subs, accounts, txs, staged, imports, doubtful, lost>>

PopToken(r) ==
    /\ req[r].pc = "pop"
    /\ store' = [store EXCEPT ![req[r].token] = Gone]
    /\ req' = [req EXCEPT ![r] = Idle]
    /\ UNCHANGED <<cats, subs, accounts, txs, staged, imports, doubtful, lost>>

-------------------------------------------------------------------------------
(* What happens meanwhile: half an hour passes, the process restarts, the   *)
(* user deletes a category (routers/categories.py) or a subcategory.        *)
GrowOld(t) ==
    /\ store[t] # Gone
    /\ ~store[t].old
    /\ store' = [store EXCEPT ![t].old = TRUE]
    /\ lost' = lost \cup {t}
    /\ UNCHANGED <<cats, subs, accounts, txs, req, staged, imports, doubtful>>

Restart ==
    /\ \E t \in Tokens : store[t] # Gone
    /\ store' = [t \in Tokens |-> Gone]
    /\ req' = [r \in Requests |-> Idle]
    /\ lost' = lost \cup {t \in Tokens : store[t] # Gone}
    /\ UNCHANGED <<cats, subs, accounts, txs, staged, imports, doubtful>>

delete_category(c) ==
    /\ c \in cats
    /\ cats' = cats \ {c}
    /\ subs' = {s \in subs : Parent[s] # c}
    /\ txs' = {IF x.cat = c THEN [x EXCEPT !.cat = Null, !.sub = Null] ELSE x : x \in txs}
    /\ UNCHANGED <<store, accounts, req, staged, imports, doubtful, lost>>

delete_subcategory(s) ==
    /\ s \in subs
    /\ subs' = subs \ {s}
    /\ txs' = {IF x.sub = s THEN [x EXCEPT !.sub = Null] ELSE x : x \in txs}
    /\ UNCHANGED <<store, cats, accounts, req, staged, imports, doubtful, lost>>

(* A request maps some of the pairs; a pair gets a subcategory iff it names *)
(* one.                                                                     *)
Mappings(t) ==
    IF Cleaned[t] = Gone THEN {<<>>}
    ELSE {mapping \in UNION {[some -> Target] : some \in SUBSET Pairs(Cleaned[t].rows)} :
            \A p \in DOMAIN mapping : mapping[p].sub = Null <=> p[2] = Null}

Next ==
    \/ \E t \in Tokens, file \in Files : preview_import(t, file)
    \/ \E r \in Requests, t \in Tokens : \E mapping \in Mappings(t) : ConfirmStarts(r, t, mapping)
    \/ \E r \in Requests : ResolveMapping(r)
    \/ \E r \in Requests : CommitImport(r)
    \/ \E r \in Requests : CommitFails(r)
    \/ \E r \in Requests : CommitUnanswered(r)
    \/ \E r \in Requests : PopToken(r)
    \/ \E t \in Tokens : GrowOld(t)
    \/ Restart
    \/ \E c \in Cats : delete_category(c)
    \/ \E s \in Subs : delete_subcategory(s)

Spec == Init /\ [][Next]_vars

-------------------------------------------------------------------------------
(* A client that waits for each answer imports a file at most once, though  *)
(* it tries again after every failure, unless the COMMIT was not answered   *)
(* (test_confirm_staging_token_invalidated_after_use).                      *)
ImportedOnce == \A t \in Tokens \ doubtful : imports[t] <= 1

(* A confirm that fails costs nothing: the file can be confirmed again      *)
(* until it is too old or the process restarts.                             *)
FileStaysUntilImported ==
    \A t \in Tokens \ lost : staged[t] # Gone /\ imports[t] = 0 => store[t] # Gone

(* What is imported fits what it refers to: a transaction is in the         *)
(* currency of its account, what it sends arrives in the currency of the    *)
(* destination, and category and subcategory exist and belong together,     *)
(* whatever is deleted while the file is confirmed.  The amount is not in   *)
(* question: without a to_amount, a transfer to another currency credits    *)
(* the amount of its source.                                                *)
ImportedRowsCoherent ==
    \A x \in txs :
        LET created == accounts[x.token] IN
        /\ created[x.row.account_name] = x.row.currency
        /\ x.row.account_destination_name # Null =>
              created[x.row.account_destination_name] = DestinationCurrency(x.row)
        /\ x.cat \in cats \cup {New, Null}
        /\ x.sub \in Subs => x.sub \in subs /\ x.cat = Parent[x.sub]
===============================================================================
