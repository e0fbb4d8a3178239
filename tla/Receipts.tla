------------------------------- MODULE Receipts -------------------------------
(***************************************************************************)
(* The receipts of one user's transactions: the receipt endpoints and the  *)
(* delete endpoint of routers/expenses.py, services/upload_rate_limit.py   *)
(* and services/r2.py, over two stores nothing keeps in step: the database *)
(* (transactions.receipt_url, upload_usage) and the R2 bucket.             *)
(*                                                                         *)
(* An upload reads the transaction, increments upload_usage by an upsert   *)
(* that stays uncommitted (and keeps the row locked) until the end of the  *)
(* handler, deletes the old object, puts the new one and commits.  An      *)
(* error rolls the database back and leaves the bucket as it is.           *)
(***************************************************************************)
EXTENDS Naturals

CONSTANTS Txs,                  \* the user's transactions
          Exts,                 \* jpg, png, webp: an object key is <<tx, ext>>
          NoReceipt,            \* receipt_url is NULL
          Requests,             \* the handlers that can be running at once
          RECEIPT_DAILY_LIMIT,
          MaxDay,               \* bound: the calendar stops at this day
          MaxFaults             \* bound: failed calls and restarts, in all

ASSUME ReceiptsAssumption ==
    /\ NoReceipt \notin Txs \X Exts
    /\ RECEIPT_DAILY_LIMIT \in Nat
    /\ MaxDay \in Nat \ {0}
    /\ MaxFaults \in Nat

VARIABLES
    day,          \* date.today()
    rows,         \* the transactions whose row exists
    receipt_url,  \* [Txs -> object key or NoReceipt]
    objects,      \* the object keys in the bucket
    upload_count, \* upload_usage: [Days -> Nat], committed, 0 where there is no row
    req,          \* the running handlers
    faults,       \* how many calls failed
    stored,       \* history: uploads answered 200, by date
    overlap,      \* history: how far the handlers of a transaction overlapped
    hurt,         \* history: transactions with an upload or removal cut short since the last that ended
    leaked        \* history: transactions that lost a delete, or a put whose commit failed

vars == <<day, rows, receipt_url, objects, upload_count, req, faults,
          stored, overlap, hurt, leaked>>
history == <<stored, overlap, hurt, leaked>>

Days == 1 .. MaxDay
ObjectKeys == Txs \X Exts
Urls == ObjectKeys \cup {NoReceipt}

(* pc: "quota" waits for the upload_usage row, "locked" holds it, "put" and *)
(* "commit" are the rest of an upload; "remove" and "clear" a removal.      *)
Idle == [pc |-> "idle"]
Upload  == [pc : {"quota", "locked", "put", "commit"}, op : {"upload"},
            tx : Txs, seen : Urls, ext : Exts, date : Days, count : Nat]
Removal == [pc : {"remove", "clear"}, op : {"receipt", "expense"},
            tx : Txs, seen : Urls]

Active(r)   == req[r].pc # "idle"
On(r, t)    == Active(r) /\ req[r].tx = t
Holds(r, d) == req[r].pc \in {"locked", "put", "commit"} /\ req[r].date = d
UploadsOf(d) == {q \in Requests : Active(q) /\ req[q].op = "upload" /\ req[q].date = d}
NewKey(r)   == <<req[r].tx, req[r].ext>>

Init ==
    /\ day = 1
    /\ rows = Txs
    /\ receipt_url = [t \in Txs |-> NoReceipt]
    /\ objects = {}
    /\ upload_count = [d \in Days |-> 0]
    /\ req = [r \in Requests |-> Idle]
    /\ faults = 0
    /\ stored = [d \in Days |-> 0]
    /\ overlap = [t \in Txs |-> "none"]
    /\ hurt = {}
    /\ leaked = {}

(* What a new handler adds to the history of overlaps: "uploads" while only *)
(* uploads of one date overlap, "mixed" once anything else does.            *)
Meets(r, t, alike) ==
    LET others == {q \in Requests \ {r} : On(q, t)} IN
    overlap' = [overlap EXCEPT ![t] =
        IF others = {} THEN @
        ELSE IF @ # "mixed" /\ others \subseteq alike THEN "uploads" ELSE "mixed"]

(* The handler is over, answered or not: its session and its locks are gone. *)
End(r) == req' = [req EXCEPT ![r] = Idle]

Fault == faults < MaxFaults /\ faults' = faults + 1

(* The call of delete_receipt, whose exception the handlers swallow. *)
DeleteObject(r) ==
    \/ /\ objects' = objects \ {req[r].seen}
       /\ UNCHANGED <<faults, leaked>>
    \/ /\ Fault
       /\ leaked' = leaked \cup {req[r].tx}
       /\ UNCHANGED objects

-------------------------------------------------------------------------------
(* upload_transaction_receipt *)

(* Lines 629-631 and date.today(): 404 where the row is gone. *)
StartUpload(r, t, e) ==
    /\ ~Active(r)
    /\ t \in rows
    /\ req' = [req EXCEPT ![r] = [pc |-> "quota", op |-> "upload", tx |-> t, ext |-> e,
                                  seen |-> receipt_url[t], date |-> day, count |-> 0]]
    /\ Meets(r, t, UploadsOf(day))
    /\ UNCHANGED <<day, rows, receipt_url, objects, upload_count, faults, stored, hurt, leaked>>

(* Mutants: the count is read and written without the lock of an upsert, or *)
(* under a lock all of the uploads that are about to write share already.   *)
UsageNeverLocked(r) == TRUE
UsageSharedLock(r) == UploadsOf(req[r].date) = {r}

(* The upsert waits while another handler's increment of the row is neither *)
(* committed nor rolled back.                                               *)
UsageUnlocked(r) == \A q \in Requests : ~Holds(q, req[r].date)

(* Mutant: the count before the increment is compared with the limit. *)
CountUploadOffByOne(r) ==
    /\ req[r].pc = "quota"
    /\ UsageUnlocked(r)
    /\ upload_count[req[r].date] <= RECEIPT_DAILY_LIMIT
    /\ req' = [req EXCEPT ![r].pc = "locked", ![r].count = upload_count[req[r].date] + 1]
    /\ UNCHANGED <<day, rows, receipt_url, objects, upload_count, faults, history>>

CountUpload(r) ==
    /\ req[r].pc = "quota"
    /\ UsageUnlocked(r)
    /\ upload_count[req[r].date] + 1 <= RECEIPT_DAILY_LIMIT
    /\ req' = [req EXCEPT ![r].pc = "locked", ![r].count = upload_count[req[r].date] + 1]
    /\ UNCHANGED <<day, rows, receipt_url, objects, upload_count, faults, history>>

(* 429: the exception rolls the increment back. *)
LimitReached(r) ==
    /\ req[r].pc = "quota"
    /\ UsageUnlocked(r)
    /\ upload_count[req[r].date] + 1 > RECEIPT_DAILY_LIMIT
    /\ End(r)
    /\ UNCHANGED <<day, rows, receipt_url, objects, upload_count, faults, history>>

(* 413 and 422, after the increment and before the bucket is touched. *)
RejectFile(r) ==
    /\ req[r].pc = "locked"
    /\ End(r)
    /\ UNCHANGED <<day, rows, receipt_url, objects, upload_count, faults, history>>

DeletePrevious(r) ==
    /\ req[r].pc = "locked"
    /\ req[r].seen # NoReceipt
    /\ DeleteObject(r)
    /\ req' = [req EXCEPT ![r].pc = "put"]
    /\ UNCHANGED <<day, rows, receipt_url, upload_count, stored, overlap, hurt>>

(* Mutant: the old object is deleted after the put, not before. *)
PutThenDelete(r) ==
    /\ \/ req[r].pc = "put"
       \/ req[r].pc = "locked" /\ req[r].seen = NoReceipt
    /\ objects' = (objects \cup {NewKey(r)}) \ {req[r].seen}
    /\ req' = [req EXCEPT ![r].pc = "commit"]
    /\ UNCHANGED <<day, rows, receipt_url, upload_count, faults, history>>

(* upload_receipt *)
PutObject(r) ==
    /\ \/ req[r].pc = "put"
       \/ req[r].pc = "locked" /\ req[r].seen = NoReceipt
    /\ objects' = objects \cup {NewKey(r)}
    /\ req' = [req EXCEPT ![r].pc = "commit"]
    /\ UNCHANGED <<day, rows, receipt_url, upload_count, faults, history>>

(* put_object raises (500); a call that timed out may have stored it. *)
PutFails(r) ==
    /\ \/ req[r].pc = "put"
       \/ req[r].pc = "locked" /\ req[r].seen = NoReceipt
    /\ Fault
    /\ objects' \in {objects, objects \cup {NewKey(r)}}
    /\ hurt' = hurt \cup {req[r].tx}
    /\ leaked' = leaked \cup {req[r].tx}
    /\ End(r)
    /\ UNCHANGED <<day, rows, receipt_url, upload_count, stored, overlap>>

(* An UPDATE is emitted only when the new key differs from the one loaded.  *)
(* The commit makes the increment visible and unlocks the usage row.        *)
CommitUpload(r) ==
    /\ req[r].pc = "commit"
    /\ NewKey(r) # req[r].seen => req[r].tx \in rows
    /\ receipt_url' = IF NewKey(r) = req[r].seen THEN receipt_url
                      ELSE [receipt_url EXCEPT ![req[r].tx] = NewKey(r)]
    /\ upload_count' = [upload_count EXCEPT ![req[r].date] = req[r].count]
    /\ stored' = [stored EXCEPT ![req[r].date] = @ + 1]
    /\ hurt' = IF overlap[req[r].tx] = "none" THEN hurt \ {req[r].tx} ELSE hurt
    /\ End(r)
    /\ UNCHANGED <<day, rows, objects, faults, overlap, leaked>>

(* The UPDATE of a row deleted meanwhile (StaleDataError), answered 500. *)
CommitUploadStale(r) ==
    /\ req[r].pc = "commit"
    /\ NewKey(r) # req[r].seen
    /\ req[r].tx \notin rows
    /\ End(r)
    /\ UNCHANGED <<day, rows, receipt_url, objects, upload_count, faults, history>>

-------------------------------------------------------------------------------
(* delete_transaction_receipt (op "receipt") and delete_expense ("expense") *)

(* Mutant: deleting a transaction leaves its object in the bucket. *)
StartRemovalOfRowOnly(r, t, op) ==
    /\ ~Active(r)
    /\ t \in rows
    /\ op = "receipt" => receipt_url[t] # NoReceipt
    /\ req' = [req EXCEPT ![r] = [pc |-> IF op = "receipt" THEN "remove" ELSE "clear",
                                  op |-> op, tx |-> t, seen |-> receipt_url[t]]]
    /\ Meets(r, t, {})
    /\ UNCHANGED <<day, rows, receipt_url, objects, upload_count, faults, stored, hurt, leaked>>

(* 404 where the row is gone, or where there is no receipt to remove. *)
StartRemoval(r, t, op) ==
    /\ ~Active(r)
    /\ t \in rows
    /\ op = "receipt" => receipt_url[t] # NoReceipt
    /\ req' = [req EXCEPT ![r] = [pc |-> IF receipt_url[t] = NoReceipt THEN "clear" ELSE "remove",
                                  op |-> op, tx |-> t, seen |-> receipt_url[t]]]
    /\ Meets(r, t, {})
    /\ UNCHANGED <<day, rows, receipt_url, objects, upload_count, faults, stored, hurt, leaked>>

RemoveObject(r) ==
    /\ req[r].pc = "remove"
    /\ DeleteObject(r)
    /\ req' = [req EXCEPT ![r].pc = "clear"]
    /\ UNCHANGED <<day, rows, receipt_url, upload_count, stored, overlap, hurt>>

(* The UPDATE to NULL needs the row (500 otherwise); the DELETE does not. *)
CommitRemoval(r) ==
    /\ req[r].pc = "clear"
    /\ IF req[r].op = "receipt"
       THEN /\ receipt_url' = IF req[r].tx \in rows
                              THEN [receipt_url EXCEPT ![req[r].tx] = NoReceipt]
                              ELSE receipt_url
            /\ UNCHANGED rows
       ELSE /\ rows' = rows \ {req[r].tx}
            /\ receipt_url' = [receipt_url EXCEPT ![req[r].tx] = NoReceipt]
    /\ hurt' = IF overlap[req[r].tx] = "none" THEN hurt \ {req[r].tx} ELSE hurt
    /\ End(r)
    /\ UNCHANGED <<day, objects, upload_count, faults, stored, overlap, leaked>>

-------------------------------------------------------------------------------
(* The database refuses the commit, or the connection is lost: rolled back. *)
CommitFails(r) ==
    /\ req[r].pc \in {"commit", "clear"}
    /\ Fault
    /\ hurt' = hurt \cup {req[r].tx}
    /\ leaked' = leaked \cup {req[r].tx}
    /\ End(r)
    /\ UNCHANGED <<day, rows, receipt_url, objects, upload_count, stored, overlap>>

(* The process stops: every handler is gone and the database rolls back. *)
Restart ==
    /\ \E r \in Requests : Active(r)
    /\ Fault
    /\ LET cut == {t \in Txs : \E r \in Requests : On(r, t)} IN
        /\ hurt' = hurt \cup cut
        /\ leaked' = leaked \cup cut
    /\ req' = [r \in Requests |-> Idle]
    /\ UNCHANGED <<day, rows, receipt_url, objects, upload_count, stored, overlap>>

Midnight ==
    /\ day < MaxDay
    /\ day' = day + 1
    /\ UNCHANGED <<rows, receipt_url, objects, upload_count, req, faults, history>>

Step(r) ==
    \/ CountUpload(r)    \/ LimitReached(r)  \/ RejectFile(r)
    \/ DeletePrevious(r) \/ PutObject(r)     \/ PutFails(r)
    \/ CommitUpload(r)   \/ CommitUploadStale(r)
    \/ RemoveObject(r)   \/ CommitRemoval(r) \/ CommitFails(r)

Next ==
    \/ \E r \in Requests, t \in Txs, e \in Exts : StartUpload(r, t, e)
    \/ \E r \in Requests, t \in Txs, op \in {"receipt", "expense"} : StartRemoval(r, t, op)
    \/ \E r \in Requests : Step(r)
    \/ Restart
    \/ Midnight

(* A handler that runs goes on to its next await: the event loop is fair,   *)
(* R2 calls time out, and PostgreSQL serves a row lock in the order it was  *)
(* asked for.                                                               *)
Spec == Init /\ [][Next]_vars
FairSpec == Spec /\ \A r \in Requests : SF_vars(Step(r))

-------------------------------------------------------------------------------
TypeOK ==
    /\ day \in Days
    /\ rows \subseteq Txs
    /\ receipt_url \in [Txs -> Urls]
    /\ objects \subseteq ObjectKeys
    /\ upload_count \in [Days -> Nat]
    /\ req \in [Requests -> {Idle} \cup Upload \cup Removal]
    /\ faults \in Nat
    /\ stored \in [Days -> Nat]
    /\ overlap \in [Txs -> {"none", "uploads", "mixed"}]
    /\ hurt \subseteq Txs
    /\ leaked \subseteq Txs

Quiet(t) == \A r \in Requests : ~On(r, t)

(* The daily limit on receipts (upload_rate_limit.py:13) holds however the  *)
(* uploads overlap and fail: no more than the limit is stored on any date.  *)
UploadLimit == \A d \in Days : stored[d] <= RECEIPT_DAILY_LIMIT

(* Every upload stored is charged, and one that was refused, failed or was  *)
(* cut short is not: the counter that is committed is the number stored.    *)
ChargesWhatWasStored == upload_count = stored

(* While nobody works on a transaction its receipt_url leads to an object,  *)
(* as long as no upload or removal was cut short, and no two handlers       *)
(* overlapped other than uploads of one date: these the usage row orders,   *)
(* though each has read receipt_url before it holds that row.               *)
NoDanglingUrl ==
    \A t \in Txs : Quiet(t) /\ t \notin hurt /\ overlap[t] # "mixed"
                    => receipt_url[t] \in objects \cup {NoReceipt}

(* Nothing else of the transaction stays in the bucket, also after its row  *)
(* is deleted, when handlers did not overlap and no call failed.            *)
NoOrphanObject ==
    \A t \in Txs : Quiet(t) /\ t \notin leaked /\ overlap[t] = "none"
                    => \A k \in objects : k[1] = t => k = receipt_url[t]

(* Every upload and removal is answered: none waits for ever for the usage  *)
(* row, whichever way the one that holds it ends (lines 631-661).           *)
EveryRequestEnds == \A r \in Requests : Active(r) ~> ~Active(r)
===============================================================================
