----------------------------- MODULE Receipts_proofs -----------------------------
(***************************************************************************)
(* Proofs about Receipts, for any transactions, extensions, limit and      *)
(* number of handlers, and any number of failed calls and restarts.        *)
(***************************************************************************)
EXTENDS Receipts, TLAPS

ReqType == {Idle} \cup Upload \cup Removal

(* What a running handler holds. *)
LEMMA HandlerFacts ==
    ASSUME TypeOK, NEW r \in Requests
    PROVE  /\ req[r].pc \in {"quota", "locked", "put", "commit"} => req[r] \in Upload
           /\ req[r].pc \in {"remove", "clear"} => req[r] \in Removal
           /\ Active(r) => req[r] \in Upload \cup Removal /\ req[r].tx \in Txs
           /\ req[r].pc \in {"idle", "quota", "locked", "put", "commit", "remove", "clear"}
  BY DEF TypeOK, Active, Idle, Upload, Removal

(* The end of a handler, which leaves the other handlers alone. *)
LEMMA EndFacts ==
    ASSUME TypeOK, NEW r \in Requests, End(r)
    PROVE  /\ req' \in [Requests -> ReqType]
           /\ req'[r] = Idle
           /\ \A q \in Requests : q # r => req'[q] = req[q]
  BY DEF TypeOK, End, ReqType

LEMMA MeetsFacts ==
    ASSUME TypeOK, NEW r \in Requests, NEW t \in Txs, NEW alike, Meets(r, t, alike)
    PROVE  overlap' \in [Txs -> {"none", "uploads", "mixed"}]
  BY DEF TypeOK, Meets

LEMMA DeleteFacts ==
    ASSUME TypeOK, NEW r \in Requests, Active(r), DeleteObject(r)
    PROVE  objects' \subseteq ObjectKeys /\ leaked' \subseteq Txs /\ faults' \in Nat
  BY HandlerFacts DEF TypeOK, DeleteObject, Fault

LEMMA TypeInit == ASSUME Init PROVE TypeOK
  BY ReceiptsAssumption DEF ReceiptsAssumption, Init, TypeOK, Days, Urls, Idle

LEMMA TypeStep == ASSUME TypeOK, [Next]_vars PROVE TypeOK'
  <1> USE DEF history, ReqType
  <1>1. ASSUME NEW r \in Requests, NEW t \in Txs, NEW e \in Exts, StartUpload(r, t, e)
        PROVE  TypeOK'
    <2> DEFINE h == [pc |-> "quota", op |-> "upload", tx |-> t, ext |-> e,
                     seen |-> receipt_url[t], date |-> day, count |-> 0]
    <2>1. h \in Upload
      BY DEF Upload, TypeOK
    <2>2. req' = [req EXCEPT ![r] = h]
      BY <1>1 DEF StartUpload
    <2>3. req' \in [Requests -> ReqType]
      BY <2>1, <2>2 DEF TypeOK
    <2>4. overlap' \in [Txs -> {"none", "uploads", "mixed"}]
      BY <1>1, MeetsFacts DEF StartUpload
    <2> QED
      BY <1>1, <2>3, <2>4 DEF StartUpload, TypeOK
  <1>2. ASSUME NEW r \in Requests, NEW t \in Txs, NEW op \in {"receipt", "expense"},
               StartRemoval(r, t, op)
        PROVE  TypeOK'
    <2> DEFINE h == [pc |-> IF receipt_url[t] = NoReceipt THEN "clear" ELSE "remove",
                     op |-> op, tx |-> t, seen |-> receipt_url[t]]
    <2>1. h \in Removal
      BY DEF Removal, TypeOK
    <2>2. req' = [req EXCEPT ![r] = h]
      BY <1>2 DEF StartRemoval
    <2>3. req' \in [Requests -> ReqType]
      BY <2>1, <2>2 DEF TypeOK
    <2>4. overlap' \in [Txs -> {"none", "uploads", "mixed"}]
      BY <1>2, MeetsFacts DEF StartRemoval
    <2> QED
      BY <1>2, <2>3, <2>4 DEF StartRemoval, TypeOK
  <1>3. ASSUME NEW r \in Requests, CountUpload(r)
        PROVE  TypeOK'
    <2>1. req[r] \in Upload /\ upload_count[req[r].date] \in Nat
      BY <1>3, HandlerFacts DEF CountUpload, Upload, TypeOK
    <2> DEFINE next == upload_count[req[r].date] + 1
    <2>2. /\ req'[r] = [req[r] EXCEPT !.pc = "locked", !.count = next]
          /\ \A q \in Requests : q # r => req'[q] = req[q]
      BY <1>3 DEF CountUpload, TypeOK
    <2>3. next \in Nat
      BY <2>1
    <2>4. req'[r] \in Upload
      BY <2>1, <2>2, <2>3 DEF Upload
    <2> QED
      BY <1>3, <2>2, <2>4 DEF CountUpload, TypeOK
  <1>4. ASSUME NEW r \in Requests, LimitReached(r) \/ RejectFile(r) \/ CommitUploadStale(r)
        PROVE  TypeOK'
    BY <1>4, EndFacts DEF LimitReached, RejectFile, CommitUploadStale, TypeOK
  <1>5. ASSUME NEW r \in Requests, DeletePrevious(r)
        PROVE  TypeOK'
    <2>1. req[r] \in Upload /\ Active(r)
      BY <1>5, HandlerFacts DEF DeletePrevious, Active
    <2>2. req'[r] \in Upload /\ \A q \in Requests : q # r => req'[q] = req[q]
      BY <1>5, <2>1 DEF DeletePrevious, Upload, TypeOK
    <2>3. objects' \subseteq ObjectKeys /\ leaked' \subseteq Txs /\ faults' \in Nat
      BY <1>5, <2>1, DeleteFacts DEF DeletePrevious
    <2> QED
      BY <1>5, <2>2, <2>3 DEF DeletePrevious, TypeOK
  <1>6. ASSUME NEW r \in Requests, PutObject(r)
        PROVE  TypeOK'
    <2>1. req[r] \in Upload
      BY <1>6, HandlerFacts DEF PutObject
    <2>2. req'[r] \in Upload /\ \A q \in Requests : q # r => req'[q] = req[q]
      BY <1>6, <2>1 DEF PutObject, Upload, TypeOK
    <2>3. NewKey(r) \in ObjectKeys
      BY <2>1 DEF NewKey, ObjectKeys, Upload
    <2> QED
      BY <1>6, <2>2, <2>3 DEF PutObject, TypeOK
  <1>7. ASSUME NEW r \in Requests, PutFails(r)
        PROVE  TypeOK'
    <2>1. req[r] \in Upload
      BY <1>7, HandlerFacts DEF PutFails
    <2>2. NewKey(r) \in ObjectKeys /\ req[r].tx \in Txs
      BY <2>1 DEF NewKey, ObjectKeys, Upload
    <2> QED
      BY <1>7, <2>2, EndFacts DEF PutFails, Fault, TypeOK
  <1>8. ASSUME NEW r \in Requests, CommitUpload(r)
        PROVE  TypeOK'
    <2>1. req[r] \in Upload
      BY <1>8, HandlerFacts DEF CommitUpload
    <2>2. NewKey(r) \in Urls /\ req[r].count \in Nat /\ req[r].date \in Days
      BY <2>1 DEF NewKey, ObjectKeys, Urls, Upload
    <2>3. receipt_url' \in [Txs -> Urls]
      BY <1>8, <2>2 DEF CommitUpload, TypeOK
    <2>4. upload_count' \in [Days -> Nat] /\ stored' \in [Days -> Nat]
      BY <1>8, <2>2 DEF CommitUpload, TypeOK
    <2>5. hurt' \subseteq Txs
      BY <1>8 DEF CommitUpload, TypeOK
    <2> QED
      BY <1>8, <2>3, <2>4, <2>5, EndFacts DEF CommitUpload, TypeOK
  <1>9. ASSUME NEW r \in Requests, RemoveObject(r)
        PROVE  TypeOK'
    <2>1. req[r] \in Removal /\ Active(r)
      BY <1>9, HandlerFacts DEF RemoveObject, Active
    <2>2. req'[r] \in Removal /\ \A q \in Requests : q # r => req'[q] = req[q]
      BY <1>9, <2>1 DEF RemoveObject, Removal, TypeOK
    <2>3. objects' \subseteq ObjectKeys /\ leaked' \subseteq Txs /\ faults' \in Nat
      BY <1>9, <2>1, DeleteFacts DEF RemoveObject
    <2> QED
      BY <1>9, <2>2, <2>3 DEF RemoveObject, TypeOK
  <1>10. ASSUME NEW r \in Requests, CommitRemoval(r)
         PROVE  TypeOK'
    <2>1. receipt_url' \in [Txs -> Urls] /\ rows' \subseteq Txs
      BY <1>10 DEF CommitRemoval, TypeOK, Urls
    <2>2. hurt' \subseteq Txs
      BY <1>10 DEF CommitRemoval, TypeOK
    <2> QED
      BY <1>10, <2>1, <2>2, EndFacts DEF CommitRemoval, TypeOK
  <1>11. ASSUME NEW r \in Requests, CommitFails(r)
         PROVE  TypeOK'
    <2>1. req[r].tx \in Txs
      BY <1>11, HandlerFacts DEF CommitFails, Active
    <2> QED
      BY <1>11, <2>1, EndFacts DEF CommitFails, Fault, TypeOK
  <1>12. CASE Restart
    BY <1>12 DEF Restart, Fault, TypeOK
  <1>13. CASE Midnight
    BY <1>13, ReceiptsAssumption DEF ReceiptsAssumption, Midnight, TypeOK, Days
  <1>14. CASE UNCHANGED vars
    BY <1>14 DEF vars, TypeOK
  <1> QED
    BY <1>1, <1>2, <1>3, <1>4, <1>5, <1>6, <1>7, <1>8, <1>9, <1>10, <1>11, <1>12, <1>13, <1>14
       DEF Next, Step

(* Every state is well typed; objects are named after transactions.         *)
THEOREM TypeCorrect == Spec => []TypeOK
  BY TypeInit, TypeStep, PTL DEF Spec

-------------------------------------------------------------------------------
(* The usage row of a date has at most one holder, and what that holder     *)
(* will commit is the committed count plus one, within the limit.           *)
QuotaInv ==
    /\ ChargesWhatWasStored
    /\ \A d \in Days : upload_count[d] <= RECEIPT_DAILY_LIMIT
    /\ \A r \in Requests, d \in Days : Holds(r, d) =>
        /\ req[r].count = upload_count[d] + 1
        /\ req[r].count <= RECEIPT_DAILY_LIMIT
        /\ \A q \in Requests : Holds(q, d) => q = r

(* Of the steps that leave the counts alone, none but CountUpload gives a   *)
(* handler the row.                                                         *)
LEMMA QuotaFrame ==
    ASSUME TypeOK, QuotaInv, upload_count' = upload_count, stored' = stored,
           \A q \in Requests, d \in Days :
               Holds(q, d)' => Holds(q, d) /\ req'[q].count = req[q].count
    PROVE  QuotaInv'
  BY DEF QuotaInv, ChargesWhatWasStored

LEMMA QuotaStep ==
    ASSUME TypeOK, QuotaInv, [Next]_vars
    PROVE  QuotaInv'
  <1> USE ReceiptsAssumption DEF ReceiptsAssumption, history
  <1>1. ASSUME NEW r \in Requests, CountUpload(r)
        PROVE  QuotaInv'
    <2> DEFINE date == req[r].date
    <2>1. req[r] \in Upload /\ date \in Days /\ upload_count[date] \in Nat
      BY <1>1, HandlerFacts DEF CountUpload, Upload, TypeOK
    <2>2. /\ req'[r] = [req[r] EXCEPT !.pc = "locked", !.count = upload_count[date] + 1]
          /\ \A q \in Requests : q # r => req'[q] = req[q]
          /\ upload_count' = upload_count /\ stored' = stored
      BY <1>1 DEF CountUpload, TypeOK
    <2>3. /\ req'[r].pc = "locked"
          /\ req'[r].date = date
          /\ req'[r].count = upload_count[date] + 1
      BY <2>1, <2>2 DEF Upload
    <2>4. ASSUME NEW d \in Days
          PROVE  /\ Holds(r, d)' => d = date
                 /\ \A q \in Requests : q # r => (Holds(q, d)' <=> Holds(q, d))
      BY <2>2, <2>3 DEF Holds
    <2>5. \A q \in Requests : ~Holds(q, date)
      BY <1>1 DEF CountUpload, UsageUnlocked
    <2>6. upload_count[date] + 1 <= RECEIPT_DAILY_LIMIT
      BY <1>1 DEF CountUpload
    <2>7. ASSUME NEW q \in Requests, NEW d \in Days, Holds(q, d)'
          PROVE  /\ req'[q].count = upload_count'[d] + 1
                 /\ req'[q].count <= RECEIPT_DAILY_LIMIT
                 /\ \A p \in Requests : Holds(p, d)' => p = q
      <3>1. CASE q = r
        BY <2>2, <2>3, <2>4, <2>5, <2>6, <2>7, <3>1
      <3>2. CASE q # r
        <4>1. Holds(q, d) /\ d # date /\ req'[q] = req[q]
          BY <2>2, <2>4, <2>5, <2>7, <3>2
        <4>2. \A p \in Requests : Holds(p, d)' => Holds(p, d)
          BY <2>4, <4>1
        <4> QED
          BY <2>2, <4>1, <4>2 DEF QuotaInv
      <3> QED
        BY <3>1, <3>2
    <2> QED
      BY <2>2, <2>7 DEF QuotaInv, ChargesWhatWasStored
  <1>2. ASSUME NEW r \in Requests, CommitUpload(r)
        PROVE  QuotaInv'
    <2> DEFINE date == req[r].date
    <2>1. req[r] \in Upload /\ date \in Days /\ Holds(r, date)
      BY <1>2, HandlerFacts DEF CommitUpload, Upload, Holds
    <2>2. /\ req[r].count = upload_count[date] + 1
          /\ req[r].count <= RECEIPT_DAILY_LIMIT
          /\ upload_count = stored
          /\ \A q \in Requests : Holds(q, date) => q = r
      BY <2>1 DEF QuotaInv, ChargesWhatWasStored
    <2>3. /\ upload_count' = [upload_count EXCEPT ![date] = req[r].count]
          /\ stored' = [stored EXCEPT ![date] = stored[date] + 1]
      BY <1>2 DEF CommitUpload
    <2>4. upload_count' = stored'
      BY <2>2, <2>3
    <2>5. \A d \in Days : /\ upload_count'[d] <= RECEIPT_DAILY_LIMIT
                          /\ d # date => upload_count'[d] = upload_count[d]
      BY <2>1, <2>2, <2>3 DEF QuotaInv, TypeOK
    <2>6. ASSUME NEW q \in Requests, NEW d \in Days, Holds(q, d)'
          PROVE  q # r /\ Holds(q, d) /\ req'[q] = req[q] /\ d # date
      <3>1. q # r
        BY <1>2, <2>6, EndFacts DEF CommitUpload, Holds, Idle
      <3>2. req'[q] = req[q]
        BY <1>2, <3>1, EndFacts DEF CommitUpload
      <3> QED
        BY <2>2, <2>6, <3>1, <3>2 DEF Holds
    <2> QED
      BY <2>4, <2>5, <2>6 DEF QuotaInv, ChargesWhatWasStored
  <1>3. ASSUME NEW r \in Requests, End(r), upload_count' = upload_count, stored' = stored
        PROVE  QuotaInv'
    <2>1. ASSUME NEW q \in Requests, NEW d \in Days, Holds(q, d)'
          PROVE  Holds(q, d) /\ req'[q].count = req[q].count
      BY <1>3, <2>1, EndFacts DEF Holds, Idle
    <2> QED
      BY <1>3, <2>1, QuotaFrame
  <1>4. ASSUME NEW r \in Requests,
               LimitReached(r) \/ RejectFile(r) \/ PutFails(r) \/ CommitUploadStale(r)
               \/ CommitRemoval(r) \/ CommitFails(r)
        PROVE  QuotaInv'
    BY <1>3, <1>4 DEF LimitReached, RejectFile, PutFails, CommitUploadStale, CommitRemoval,
                      CommitFails
  <1>5. ASSUME NEW r \in Requests, NEW pc \in {"put", "commit", "clear"},
               req[r].pc \in {"locked", "put", "remove"},
               req[r].pc = "remove" => pc = "clear",
               req' = [req EXCEPT ![r].pc = pc],
               upload_count' = upload_count, stored' = stored
        PROVE  QuotaInv'
    <2>1. req[r] \in Upload \cup Removal /\ (req[r].pc # "remove" => req[r] \in Upload)
      BY <1>5, HandlerFacts
    <2>2. req'[r].pc = pc /\ req'[r] = [req[r] EXCEPT !.pc = pc]
      BY <1>5, <2>1 DEF TypeOK, Upload, Removal
    <2>3. \A q \in Requests : q # r => req'[q] = req[q]
      BY <1>5 DEF TypeOK
    <2>4. ASSUME NEW q \in Requests, NEW d \in Days, Holds(q, d)'
          PROVE  Holds(q, d) /\ req'[q].count = req[q].count
      <3>1. CASE q = r
        <4>1. req[r].pc # "remove"
          BY <1>5, <2>2, <2>4, <3>1 DEF Holds
        <4>2. req'[r].date = req[r].date /\ req'[r].count = req[r].count
          BY <2>1, <2>2, <4>1 DEF Upload
        <4> QED
          BY <1>5, <2>4, <3>1, <4>1, <4>2 DEF Holds
      <3>2. CASE q # r
        BY <2>3, <2>4, <3>2 DEF Holds
      <3> QED
        BY <3>1, <3>2
    <2> QED
      BY <1>5, <2>4, QuotaFrame
  <1>6. ASSUME NEW r \in Requests, DeletePrevious(r) \/ PutObject(r) \/ RemoveObject(r)
        PROVE  QuotaInv'
    BY <1>5, <1>6 DEF DeletePrevious, PutObject, RemoveObject
  <1>7. ASSUME NEW r \in Requests, req'[r].pc \in {"quota", "remove", "clear"},
               \A q \in Requests : q # r => req'[q] = req[q],
               upload_count' = upload_count, stored' = stored
        PROVE  QuotaInv'
    <2>1. ASSUME NEW q \in Requests, NEW d \in Days, Holds(q, d)'
          PROVE  Holds(q, d) /\ req'[q].count = req[q].count
      BY <1>7, <2>1 DEF Holds
    <2> QED
      BY <1>7, <2>1, QuotaFrame
  <1>8. ASSUME NEW r \in Requests, NEW t \in Txs, NEW e \in Exts, StartUpload(r, t, e)
        PROVE  QuotaInv'
    <2>1. req'[r].pc = "quota" /\ \A q \in Requests : q # r => req'[q] = req[q]
      BY <1>8 DEF StartUpload, TypeOK
    <2> QED
      BY <1>7, <1>8, <2>1 DEF StartUpload
  <1>9. ASSUME NEW r \in Requests, NEW t \in Txs, NEW op \in {"receipt", "expense"},
               StartRemoval(r, t, op)
        PROVE  QuotaInv'
    <2>1. /\ req'[r].pc \in {"remove", "clear"}
          /\ \A q \in Requests : q # r => req'[q] = req[q]
      BY <1>9 DEF StartRemoval, TypeOK
    <2> QED
      BY <1>7, <1>9, <2>1 DEF StartRemoval
  <1>10. CASE Restart
    <2>1. upload_count' = upload_count /\ stored' = stored
      BY <1>10 DEF Restart
    <2>2. \A q \in Requests, d \in Days : ~Holds(q, d)'
      BY <1>10 DEF Restart, Holds, Idle
    <2> QED
      BY <2>1, <2>2, QuotaFrame
  <1>11. CASE Midnight \/ UNCHANGED vars
    <2>1. upload_count' = upload_count /\ stored' = stored /\ req' = req
      BY <1>11 DEF Midnight, vars
    <2>2. \A q \in Requests, d \in Days : Holds(q, d)' => Holds(q, d)
      BY <2>1 DEF Holds
    <2> QED
      BY <2>1, <2>2, QuotaFrame
  <1> QED
    BY <1>1, <1>2, <1>4, <1>6, <1>8, <1>9, <1>10, <1>11 DEF Next, Step

LEMMA QuotaInductive == Spec => [](TypeOK /\ QuotaInv)
  <1>1. Init => QuotaInv
    BY ReceiptsAssumption
       DEF ReceiptsAssumption, Init, QuotaInv, ChargesWhatWasStored, Holds, Idle
  <1>2. TypeOK /\ QuotaInv /\ [Next]_vars => (TypeOK /\ QuotaInv)'
    BY TypeStep, QuotaStep
  <1> QED
    BY <1>1, <1>2, TypeInit, PTL DEF Spec

(* The committed counter is the number of uploads stored, whichever         *)
(* handlers overlap, fail or are cut short (upload_rate_limit.py 12-38).    *)
THEOREM CounterIsExact == Spec => []ChargesWhatWasStored
  BY QuotaInductive, PTL DEF QuotaInv

(* At most RECEIPT_DAILY_LIMIT uploads are stored on any date. *)
THEOREM UploadLimitHolds == Spec => []UploadLimit
  <1>1. QuotaInv => UploadLimit
    BY DEF QuotaInv, ChargesWhatWasStored, UploadLimit
  <1> QED
    BY <1>1, QuotaInductive, PTL

-------------------------------------------------------------------------------
(* Where receipt_url leads and what is in the bucket, transaction by        *)
(* transaction: what one does is nothing to another, since an object is     *)
(* named after its transaction.                                             *)
OwnKeys(t) ==
    /\ receipt_url[t] # NoReceipt => receipt_url[t][1] = t
    /\ \A r \in Requests : On(r, t) /\ req[r].seen # NoReceipt => req[r].seen[1] = t

(* Short of "mixed", handlers of t overlap only where they are uploads that *)
(* the usage row of one date puts in order.                                 *)
Company(t) ==
    \A q, r \in Requests : On(q, t) /\ On(r, t) /\ q # r /\ overlap[t] # "mixed" =>
        /\ overlap[t] = "uploads"
        /\ req[q].op = "upload" /\ req[r].op = "upload" /\ req[q].date = req[r].date

SeenStill(t) ==
    \A r \in Requests : On(r, t) =>
        /\ overlap[t] # "mixed" => t \in rows
        /\ overlap[t] = "none" => req[r].seen = receipt_url[t]

(* The object receipt_url leads to is missing only while the handler that   *)
(* removed it goes on, and an upload about to commit has put its own.       *)
Busy == {"put", "commit", "clear"}
UrlLeads(t) ==
    overlap[t] # "mixed" =>
        /\ \A r \in Requests : On(r, t) /\ req[r].pc = "commit" => NewKey(r) \in objects
        /\ t \notin hurt =>
             \/ receipt_url[t] \in objects \cup {NoReceipt}
             \/ \E r \in Requests : On(r, t) /\ req[r].pc \in Busy /\ receipt_url[t] = req[r].seen

(* An object of t is the one receipt_url leads to, until it is removed, and *)
(* then the one that is put in its place.                                   *)
Known(t, k) ==
    \/ k = receipt_url[t] /\ \A r \in Requests : On(r, t) => req[r].pc \notin Busy
    \/ \E r \in Requests : On(r, t) /\ req[r].pc = "commit" /\ k = NewKey(r)

NothingElse(t) ==
    t \notin leaked /\ overlap[t] = "none" => \A k \in objects : k[1] = t => Known(t, k)

Fine(t) == OwnKeys(t) /\ Company(t) /\ SeenStill(t) /\ UrlLeads(t) /\ NothingElse(t)

-------------------------------------------------------------------------------
(* Nothing of u changes. *)
Untouched(u) ==
    /\ receipt_url'[u] = receipt_url[u] /\ overlap'[u] = overlap[u]
    /\ u \in rows' <=> u \in rows
    /\ u \in hurt' <=> u \in hurt
    /\ u \in leaked' <=> u \in leaked
    /\ \A k \in ObjectKeys : k[1] = u => (k \in objects' <=> k \in objects)
    /\ \A q \in Requests : On(q, u) \/ On(q, u)' => req'[q] = req[q]

LEMMA UntouchedFine ==
    ASSUME TypeOK, TypeOK', NEW u \in Txs, Fine(u), Untouched(u)
    PROVE  Fine(u)'
  <1>1. \A q \in Requests : On(q, u)' => On(q, u) /\ req'[q] = req[q]
    BY DEF Untouched, On, Active
  <1>2. \A q \in Requests : On(q, u) => On(q, u)' /\ req'[q] = req[q]
    BY DEF Untouched, On, Active
  <1>3. \A k \in ObjectKeys : k[1] = u => (k \in objects' <=> k \in objects)
    BY DEF Untouched
  <1>4. OwnKeys(u)' /\ Company(u)' /\ SeenStill(u)'
    BY <1>1 DEF Fine, OwnKeys, Company, SeenStill, Untouched
  <1>5. UrlLeads(u)'
    <2> SUFFICES ASSUME overlap'[u] # "mixed" PROVE UrlLeads(u)'
      BY DEF UrlLeads
    <2>1. ASSUME NEW r \in Requests, On(r, u)', req'[r].pc = "commit" PROVE NewKey(r)' \in objects'
      <3>1. On(r, u) /\ req'[r] = req[r] /\ NewKey(r)' = NewKey(r)
        BY <1>1, <2>1 DEF NewKey
      <3>2. NewKey(r) \in objects /\ NewKey(r)[1] = u
        BY <2>1, <3>1 DEF Fine, UrlLeads, NewKey, Untouched, On
      <3> QED
        BY <1>3, <3>1, <3>2 DEF TypeOK
    <2>2. ASSUME u \notin hurt', receipt_url'[u] \notin objects' \cup {NoReceipt}
          PROVE  \E r \in Requests : On(r, u)' /\ req'[r].pc \in Busy /\ receipt_url'[u] = req'[r].seen
      <3>1. /\ receipt_url'[u] = receipt_url[u] /\ u \notin hurt /\ overlap[u] # "mixed"
            /\ receipt_url[u] \in ObjectKeys /\ receipt_url[u][1] = u
        BY <2>2 DEF Untouched, Fine, OwnKeys, TypeOK, Urls
      <3>2. receipt_url[u] \notin objects \cup {NoReceipt}
        BY <1>3, <2>2, <3>1
      <3>3. PICK r \in Requests : On(r, u) /\ req[r].pc \in Busy /\ receipt_url[u] = req[r].seen
        BY <3>1, <3>2 DEF Fine, UrlLeads
      <3> QED
        BY <1>2, <3>1, <3>3
    <2> QED
      BY <2>1, <2>2 DEF UrlLeads
  <1>6. NothingElse(u)'
    <2> SUFFICES ASSUME u \notin leaked', overlap'[u] = "none", NEW k \in objects', k[1] = u
                 PROVE  Known(u, k)'
      BY DEF NothingElse
    <2>1. k \in objects /\ Known(u, k)
      BY <1>3 DEF TypeOK, Untouched, Fine, NothingElse
    <2>2. CASE k = receipt_url[u] /\ \A r \in Requests : On(r, u) => req[r].pc \notin Busy
      BY <1>1, <2>2 DEF Known, Untouched
    <2>3. CASE \E r \in Requests : On(r, u) /\ req[r].pc = "commit" /\ k = NewKey(r)
      BY <1>2, <2>3 DEF Known, NewKey
    <2> QED
      BY <2>1, <2>2, <2>3 DEF Known
  <1> QED
    BY <1>4, <1>5, <1>6 DEF Fine

(* The handler r goes on to pc, or ends: the others stay. *)
Goes(r, pc) ==
    /\ \A q \in Requests \ {r} : req'[q] = req[q]
    /\ \/ req'[r] = Idle
       \/ /\ req'[r].pc = pc /\ req'[r].tx = req[r].tx /\ req'[r].seen = req[r].seen
          /\ req'[r].op = req[r].op
          /\ req[r].op = "upload" => req'[r].ext = req[r].ext /\ req'[r].date = req[r].date

LEMMA GoesFacts ==
    ASSUME TypeOK, NEW r \in Requests, Step(r)
    PROVE  \E pc \in {"locked", "put", "commit", "clear"} : Goes(r, pc)
  <1>1. Active(r)
    BY DEF Step, CountUpload, LimitReached, RejectFile, DeletePrevious, PutObject, PutFails,
           CommitUpload, CommitUploadStale, RemoveObject, CommitRemoval, CommitFails, Active
  <1>2. CASE End(r)
    BY <1>2, EndFacts DEF Goes
  <1>3. CASE CountUpload(r)
    <2>1. req[r] \in Upload
      BY <1>3, HandlerFacts DEF CountUpload
    <2>2. PICK n : /\ req'[r] = [req[r] EXCEPT !.pc = "locked", !.count = n]
                   /\ \A q \in Requests : q # r => req'[q] = req[q]
      BY <1>3 DEF CountUpload, TypeOK
    <2>3. Goes(r, "locked")
      BY <2>1, <2>2 DEF Upload, Goes
    <2> QED
      BY <2>3
  <1>4. ASSUME NEW pc \in {"put", "commit", "clear"}, req' = [req EXCEPT ![r].pc = pc]
        PROVE  Goes(r, pc)
    <2>1. /\ req'[r] = [req[r] EXCEPT !.pc = pc]
          /\ \A q \in Requests : q # r => req'[q] = req[q]
      BY <1>4 DEF TypeOK
    <2>2. req[r] \in Upload \cup Removal
      BY <1>1, HandlerFacts
    <2>3. CASE req[r] \in Upload
      BY <2>1, <2>3 DEF Upload, Goes
    <2>4. CASE req[r] \in Removal
      BY <2>1, <2>4 DEF Removal, Goes
    <2> QED
      BY <2>2, <2>3, <2>4
  <1>5. \/ CountUpload(r) \/ End(r)
        \/ \E pc \in {"put", "commit", "clear"} : req' = [req EXCEPT ![r].pc = pc]
    BY DEF Step, CountUpload, LimitReached, RejectFile, DeletePrevious, PutObject, PutFails,
           CommitUpload, CommitUploadStale, RemoveObject, CommitRemoval, CommitFails
  <1> QED
    BY <1>2, <1>3, <1>4, <1>5

(* A step of r concerns no transaction but its own. *)
LEMMA StepUntouched ==
    ASSUME TypeOK, NEW r \in Requests, Step(r), NEW t \in Txs, On(r, t), OwnKeys(t),
           NEW u \in Txs \ {t}
    PROVE  Untouched(u)
  <1>1. Active(r) /\ req[r].tx = t
    BY DEF On
  <1>2. \A q \in Requests : On(q, u) \/ On(q, u)' => req'[q] = req[q]
    BY <1>1, GoesFacts DEF Goes, On, Active, Idle
  <1>3. /\ receipt_url'[u] = receipt_url[u] /\ overlap'[u] = overlap[u]
        /\ u \in rows' <=> u \in rows
    BY <1>1 DEF Step, CountUpload, LimitReached, RejectFile, DeletePrevious, PutObject, PutFails,
           CommitUpload, CommitUploadStale, RemoveObject, CommitRemoval, CommitFails, TypeOK,
           history
  <1>4. /\ u \in hurt' <=> u \in hurt
        /\ u \in leaked' <=> u \in leaked
    BY <1>1 DEF Step, CountUpload, LimitReached, RejectFile, DeletePrevious, PutObject, PutFails,
           CommitUpload, CommitUploadStale, RemoveObject, CommitRemoval, CommitFails, history,
           DeleteObject
  <1>5. ASSUME NEW k \in ObjectKeys, k[1] = u PROVE k \in objects' <=> k \in objects
    <2>1. k # NewKey(r)
      BY <1>1, <1>5 DEF NewKey
    <2>2. k # req[r].seen
      BY <1>1, <1>5, ReceiptsAssumption DEF OwnKeys, ObjectKeys
    <2> QED
      BY <2>1, <2>2
         DEF Step, CountUpload, LimitReached, RejectFile, DeletePrevious, PutObject, PutFails,
             CommitUpload, CommitUploadStale, RemoveObject, CommitRemoval, CommitFails, history,
             DeleteObject
  <1> QED
    BY <1>2, <1>3, <1>4, <1>5 DEF Untouched

(* Of the handlers of t that hold a usage row or remove, there is one. *)
LEMMA OneWorks ==
    ASSUME TypeOK, QuotaInv, NEW t \in Txs, Company(t), overlap[t] # "mixed",
           NEW q \in Requests, NEW r \in Requests, On(q, t), On(r, t),
           req[q].pc # "quota", req[r].pc # "quota"
    PROVE  q = r
  <1> SUFFICES ASSUME q # r PROVE FALSE
    OBVIOUS
  <1>1. req[q].op = "upload" /\ req[r].op = "upload" /\ req[q].date = req[r].date
    BY DEF Company
  <1>2. req[q] \in Upload /\ req[r] \in Upload
    BY <1>1, HandlerFacts DEF On, Removal
  <1>3. Holds(q, req[r].date) /\ Holds(r, req[r].date) /\ req[r].date \in Days
    BY <1>1, <1>2 DEF Holds, Upload
  <1> QED
    BY <1>3 DEF QuotaInv

(* The handlers of t stay alike, and what they read stays so while nothing  *)
(* of it is written.                                                        *)
LEMMA StepCompany ==
    ASSUME TypeOK, TypeOK', NEW r \in Requests, Step(r), NEW t \in Txs, On(r, t), Fine(t)
    PROVE  OwnKeys(t)' /\ Company(t)' /\ SeenStill(t)'
  <1>1. PICK pc : Goes(r, pc)
    BY GoesFacts
  <1>2. \A q \in Requests : On(q, t)' =>
            /\ On(q, t) /\ req'[q].seen = req[q].seen /\ req'[q].op = req[q].op
            /\ req[q].op = "upload" => req'[q].date = req[q].date
    BY <1>1 DEF Goes, On, Active, Idle
  <1>3. overlap' = overlap
    BY DEF Step, CountUpload, LimitReached, RejectFile, DeletePrevious, PutObject, PutFails,
           CommitUpload, CommitUploadStale, RemoveObject, CommitRemoval, CommitFails, history
  <1>4. Company(t)'
    BY <1>2, <1>3 DEF Fine, Company
  <1>5. OwnKeys(t)'
    <2>1. receipt_url'[t] \in {receipt_url[t], NoReceipt, NewKey(r)}
      BY DEF Step, CountUpload, LimitReached, RejectFile, DeletePrevious, PutObject, PutFails,
             CommitUpload, CommitUploadStale, RemoveObject, CommitRemoval, CommitFails, history,
             On, TypeOK
    <2>2. NewKey(r)[1] = t
      BY DEF NewKey, On
    <2> QED
      BY <1>2, <2>1, <2>2 DEF Fine, OwnKeys
  <1>6. ASSUME NEW q \in Requests, On(q, t)', overlap[t] # "mixed"
        PROVE  /\ t \in rows'
               /\ overlap[t] = "none" => req'[q].seen = receipt_url'[t]
    <2>1. t \in rows /\ (overlap[t] = "none" => req[q].seen = receipt_url[t])
      BY <1>2, <1>6 DEF Fine, SeenStill
    <2>2. q # r => overlap[t] # "none" /\ req[r].op = "upload"
      BY <1>2, <1>6 DEF Fine, Company
    <2>3. CASE CommitUpload(r) \/ CommitRemoval(r)
      <3>1. q # r
        BY <1>6, <2>3, EndFacts DEF CommitUpload, CommitRemoval, On, Active, Idle
      <3>2. ~CommitRemoval(r)
        BY <2>2, <3>1, HandlerFacts DEF CommitRemoval, Removal
      <3> QED
        BY <2>1, <2>2, <2>3, <3>1, <3>2 DEF CommitUpload
    <2>4. CASE ~(CommitUpload(r) \/ CommitRemoval(r))
      <3>1. UNCHANGED <<rows, receipt_url>>
        BY <2>4 DEF Step, CountUpload, LimitReached, RejectFile, DeletePrevious, PutObject,
               PutFails, CommitUploadStale, RemoveObject, CommitFails
      <3> QED
        BY <1>2, <1>6, <2>1, <3>1
    <2> QED
      BY <2>3, <2>4
  <1>7. SeenStill(t)'
    BY <1>2, <1>3, <1>6 DEF SeenStill
  <1> QED
    BY <1>4, <1>5, <1>7

LEMMA StepUrl ==
    ASSUME TypeOK, TypeOK', QuotaInv, NEW r \in Requests, Step(r), NEW t \in Txs, On(r, t), Fine(t)
    PROVE  UrlLeads(t)'
  <1>1. PICK pc : Goes(r, pc)
    BY GoesFacts
  <1>2. overlap' = overlap
    BY DEF Step, CountUpload, LimitReached, RejectFile, DeletePrevious, PutObject, PutFails,
           CommitUpload, CommitUploadStale, RemoveObject, CommitRemoval, CommitFails, history
  <1> SUFFICES ASSUME overlap[t] # "mixed" PROVE UrlLeads(t)'
    BY <1>2 DEF UrlLeads
  <1>3. /\ t \in rows /\ req[r].tx = t /\ Active(r)
        /\ overlap[t] = "none" => req[r].seen = receipt_url[t]
    BY DEF Fine, SeenStill, On
  <1>4. ASSUME NEW q \in Requests, On(q, t), req[q].pc # "quota", req[r].pc # "quota"
        PROVE  q = r
    BY <1>4, OneWorks DEF Fine
  <1>5. ASSUME NEW q \in Requests, On(q, t)', req'[q].pc = "commit" PROVE NewKey(q)' \in objects'
    <2>1. CASE q = r
      <3>1. PutObject(r)
        BY <1>3, <1>5, <2>1, EndFacts, HandlerFacts
           DEF Step, CountUpload, LimitReached, RejectFile, DeletePrevious, PutFails,
               CommitUpload, CommitUploadStale, RemoveObject, CommitRemoval, CommitFails,
               Idle, TypeOK, Upload, Removal, On, Active
      <3>2. req[r] \in Upload
        BY <3>1, HandlerFacts DEF PutObject
      <3>3. NewKey(r)' = NewKey(r)
        BY <1>1, <1>5, <2>1, <3>2 DEF Goes, NewKey, Idle, Upload
      <3> QED
        BY <2>1, <3>1, <3>3 DEF PutObject
    <2>2. CASE q # r
      <3>1. On(q, t) /\ req'[q] = req[q] /\ req[q].pc = "commit"
        BY <1>1, <1>5, <2>2 DEF Goes, On, Active
      <3>2. req[r].pc = "quota"
        BY <1>4, <2>2, <3>1
      <3>3. UNCHANGED objects
        BY <3>2 DEF Step, CountUpload, LimitReached, RejectFile, DeletePrevious, PutObject,
               PutFails, CommitUpload, CommitUploadStale, RemoveObject, CommitRemoval, CommitFails
      <3>4. NewKey(q)' = NewKey(q)
        BY <3>1 DEF NewKey
      <3> QED
        BY <3>1, <3>3, <3>4 DEF Fine, UrlLeads
    <2> QED
      BY <2>1, <2>2
  <1> DEFINE Leads == receipt_url[t] \in objects \cup {NoReceipt}
             Witness(q) == On(q, t) /\ req[q].pc \in Busy /\ receipt_url[t] = req[q].seen
             Goal == t \notin hurt' => \/ receipt_url'[t] \in objects' \cup {NoReceipt}
                                       \/ \E q \in Requests : /\ On(q, t)' /\ req'[q].pc \in Busy
                                                              /\ receipt_url'[t] = req'[q].seen
  <1>6. t \notin hurt => Leads \/ \E q \in Requests : Witness(q)
    BY DEF Fine, UrlLeads
  <1>7. ASSUME CountUpload(r) \/ LimitReached(r) \/ RejectFile(r) PROVE Goal
    <2>1. UNCHANGED <<receipt_url, objects, hurt>> /\ req[r].pc \in {"quota", "locked"}
      BY <1>7 DEF CountUpload, LimitReached, RejectFile, history
    <2>2. ASSUME NEW q \in Requests, Witness(q)
          PROVE  On(q, t)' /\ req'[q].pc \in Busy /\ receipt_url'[t] = req'[q].seen
      BY <1>1, <2>1, <2>2 DEF Goes, Busy, On, Active
    <2> QED
      BY <1>6, <2>1, <2>2
  <1>8. ASSUME DeletePrevious(r) \/ RemoveObject(r) PROVE Goal
    <2>1. /\ UNCHANGED <<receipt_url, hurt>> /\ req[r].pc \in {"locked", "remove"}
          /\ objects' \in {objects, objects \ {req[r].seen}}
      BY <1>8 DEF DeletePrevious, RemoveObject, DeleteObject
    <2>2. ~\E q \in Requests : Witness(q)
      BY <1>4, <2>1 DEF Busy
    <2>3. On(r, t)' /\ req'[r].pc \in Busy /\ req'[r].seen = req[r].seen
      <3>1. req'[r].pc \in {"put", "clear"}
        BY <1>3, <1>8, HandlerFacts DEF DeletePrevious, RemoveObject, TypeOK, Upload, Removal
      <3> QED
        BY <1>1, <1>3, <3>1 DEF Goes, Idle, Busy, On, Active
    <2> QED
      BY <1>6, <2>1, <2>2, <2>3
  <1>9. ASSUME PutObject(r) PROVE Goal
    <2>1. /\ UNCHANGED <<receipt_url, hurt>> /\ req[r].pc \in {"locked", "put"}
          /\ objects \subseteq objects'
      BY <1>9 DEF PutObject, history
    <2>2. On(r, t)' /\ req'[r].pc \in Busy /\ req'[r].seen = req[r].seen
      <3>1. req'[r].pc = "commit"
        BY <1>9, HandlerFacts DEF PutObject, TypeOK, Upload
      <3> QED
        BY <1>1, <1>3, <3>1 DEF Goes, Idle, Busy, On, Active
    <2>3. \A q \in Requests : Witness(q) => q = r
      BY <1>4, <2>1 DEF Busy
    <2> QED
      BY <1>6, <2>1, <2>2, <2>3
  <1>10. ASSUME PutFails(r) \/ CommitFails(r) PROVE Goal
    BY <1>3, <1>10 DEF PutFails, CommitFails
  <1>11. ASSUME CommitUpload(r) PROVE Goal
    <2>1. /\ req[r].pc = "commit" /\ UNCHANGED objects
          /\ receipt_url' = IF NewKey(r) = req[r].seen THEN receipt_url
                            ELSE [receipt_url EXCEPT ![t] = NewKey(r)]
          /\ hurt' = IF overlap[t] = "none" THEN hurt \ {t} ELSE hurt
      BY <1>3, <1>11 DEF CommitUpload
    <2>2. NewKey(r) \in objects
      BY <2>1 DEF Fine, UrlLeads
    <2>3. CASE NewKey(r) # req[r].seen
      BY <2>1, <2>2, <2>3 DEF TypeOK
    <2>4. CASE NewKey(r) = req[r].seen
      <3>1. \A q \in Requests : Witness(q) => q = r
        BY <1>4, <2>1 DEF Busy
      <3>2. t \notin hurt' => Leads
        BY <1>3, <1>6, <2>1, <2>2, <2>4, <3>1
      <3> QED
        BY <2>1, <2>4, <3>2
    <2> QED
      BY <2>3, <2>4
  <1>12. ASSUME CommitUploadStale(r) PROVE Goal
    BY <1>3, <1>12 DEF CommitUploadStale
  <1>13. ASSUME CommitRemoval(r) PROVE Goal
    BY <1>3, <1>13 DEF CommitRemoval, TypeOK
  <1>14. Goal
    BY <1>7, <1>8, <1>9, <1>10, <1>11, <1>12, <1>13 DEF Step
  <1> QED
    BY <1>5, <1>14 DEF UrlLeads

LEMMA StepObjects ==
    ASSUME TypeOK, TypeOK', NEW r \in Requests, Step(r), NEW t \in Txs, On(r, t), Fine(t)
    PROVE  NothingElse(t)'
  <1>1. PICK pc : Goes(r, pc)
    BY GoesFacts
  <1>2. overlap' = overlap /\ leaked \subseteq leaked'
    BY DEF Step, CountUpload, LimitReached, RejectFile, DeletePrevious, PutObject, PutFails,
           CommitUpload, CommitUploadStale, RemoveObject, CommitRemoval, CommitFails, history,
           DeleteObject
  <1> SUFFICES ASSUME t \notin leaked', overlap[t] = "none", NEW k \in objects', k[1] = t
               PROVE  Known(t, k)'
    BY <1>2 DEF NothingElse
  <1>3. /\ t \in rows /\ req[r].seen = receipt_url[t] /\ req[r].tx = t /\ Active(r)
        /\ \A q \in Requests : On(q, t) => q = r
    BY DEF Fine, SeenStill, Company, On
  <1>4. \A q \in Requests : On(q, t)' => q = r
    BY <1>1, <1>3 DEF Goes, On, Active
  <1>5. k \in objects => Known(t, k)
    BY <1>2 DEF Fine, NothingElse
  <1>6. k \in objects /\ req[r].pc # "commit" => k = receipt_url[t] /\ req[r].pc \notin Busy
    BY <1>3, <1>5 DEF Known
  <1>7. CASE CountUpload(r) \/ LimitReached(r) \/ RejectFile(r)
    <2>1. UNCHANGED <<receipt_url, objects>> /\ req[r].pc \in {"quota", "locked"}
      BY <1>7 DEF CountUpload, LimitReached, RejectFile
    <2>2. req'[r].pc \in {"locked", "idle"}
      BY <1>7, HandlerFacts, EndFacts
         DEF CountUpload, LimitReached, RejectFile, TypeOK, Upload, Idle
    <2> QED
      BY <1>4, <1>6, <2>1, <2>2 DEF Known, Busy
  <1>8. CASE DeletePrevious(r) \/ RemoveObject(r)
    <2>1. req[r].pc \in {"locked", "remove"} /\ objects' = objects \ {req[r].seen}
      BY <1>3, <1>8 DEF DeletePrevious, RemoveObject, DeleteObject
    <2> QED
      BY <1>3, <1>6, <2>1
  <1>9. CASE PutObject(r)
    <2>1. /\ objects' = objects \cup {NewKey(r)}
          /\ req[r].pc = "put" \/ (req[r].pc = "locked" /\ req[r].seen = NoReceipt)
          /\ req[r] \in Upload
      BY <1>9, HandlerFacts DEF PutObject
    <2>2. req'[r].pc = "commit" /\ On(r, t)' /\ NewKey(r)' = NewKey(r)
      <3>1. req'[r] = [req[r] EXCEPT !.pc = "commit"]
        BY <1>9 DEF PutObject, TypeOK
      <3> QED
        BY <1>3, <2>1, <3>1 DEF Upload, NewKey, On, Active
    <2>3. k = NewKey(r)
      <3>1. k # NoReceipt
        BY ReceiptsAssumption DEF TypeOK, ObjectKeys
      <3> QED
        BY <1>3, <1>6, <2>1, <3>1 DEF Busy
    <2> QED
      BY <2>2, <2>3 DEF Known
  <1>10. CASE PutFails(r) \/ CommitFails(r)
    BY <1>3, <1>10 DEF PutFails, CommitFails
  <1>11. CASE CommitUpload(r)
    <2>1. /\ req[r].pc = "commit" /\ UNCHANGED objects
          /\ receipt_url' = IF NewKey(r) = req[r].seen THEN receipt_url
                            ELSE [receipt_url EXCEPT ![t] = NewKey(r)]
      BY <1>3, <1>11 DEF CommitUpload
    <2>2. k = NewKey(r)
      BY <1>3, <1>5, <2>1 DEF Known, Busy
    <2>3. receipt_url'[t] = k
      BY <1>3, <2>1, <2>2 DEF TypeOK
    <2>4. ~Active(r)'
      BY <1>11, EndFacts DEF CommitUpload, Active, Idle
    <2> QED
      BY <1>4, <2>3, <2>4 DEF Known, On
  <1>12. CASE CommitUploadStale(r)
    BY <1>3, <1>12 DEF CommitUploadStale
  <1>13. CASE CommitRemoval(r)
    <2>1. req[r].pc = "clear" /\ UNCHANGED objects
      BY <1>13 DEF CommitRemoval
    <2> QED
      BY <1>6, <2>1 DEF Busy
  <1> QED
    BY <1>7, <1>8, <1>9, <1>10, <1>11, <1>12, <1>13 DEF Step

(* A handler of t begins, and what it meets is written down. *)
LEMMA BeginFine ==
    ASSUME TypeOK, TypeOK', NEW r \in Requests, ~Active(r), NEW t \in rows, Fine(t),
           NEW h, req' = [req EXCEPT ![r] = h], h.tx = t, h.seen = receipt_url[t],
           h.pc \in {"quota", "remove", "clear"}, h.pc = "clear" => h.seen = NoReceipt,
           NEW alike, Meets(r, t, alike),
           \A q \in alike : h.op = "upload" /\ req[q].op = "upload" /\ req[q].date = h.date,
           UNCHANGED <<rows, receipt_url, objects, hurt, leaked>>
    PROVE  Fine(t)'
  <1>1. req'[r] = h /\ \A q \in Requests \ {r} : req'[q] = req[q]
    BY DEF TypeOK
  <1>2. t \in Txs /\ \A q \in Requests \ {r} : On(q, t)' <=> On(q, t)
    BY <1>1 DEF On, Active, TypeOK
  <1>3. /\ overlap'[t] # "mixed" => overlap[t] # "mixed"
        /\ overlap'[t] = "none" => overlap[t] = "none" /\ \A q \in Requests : On(q, t)' => q = r
        /\ overlap'[t] # "mixed" => \A q \in Requests \ {r} : On(q, t) =>
              /\ q \in alike
              /\ overlap'[t] = "uploads"
    BY <1>2 DEF Meets, TypeOK
  <1>4. OwnKeys(t)'
    BY <1>1, <1>2 DEF Fine, OwnKeys
  <1>5. Company(t)'
    <2> SUFFICES ASSUME NEW p \in Requests, NEW q \in Requests, On(p, t)', On(q, t)', p # q,
                        overlap'[t] # "mixed"
                 PROVE  /\ overlap'[t] = "uploads"
                        /\ req'[p].op = "upload" /\ req'[q].op = "upload"
                        /\ req'[p].date = req'[q].date
      BY DEF Company
    <2>1. CASE p # r /\ q # r
      BY <1>1, <1>2, <1>3, <2>1 DEF Fine, Company
    <2>2. CASE p = r \/ q = r
      BY <1>1, <1>2, <1>3, <2>2
    <2> QED
      BY <2>1, <2>2
  <1>6. SeenStill(t)'
    BY <1>1, <1>2, <1>3 DEF Fine, SeenStill
  <1>7. UrlLeads(t)'
    <2> SUFFICES ASSUME overlap'[t] # "mixed" PROVE UrlLeads(t)'
      BY DEF UrlLeads
    <2>1. ASSUME NEW q \in Requests, On(q, t)', req'[q].pc = "commit" PROVE NewKey(q)' \in objects'
      <3>1. q # r /\ On(q, t) /\ req'[q] = req[q]
        BY <1>1, <1>2, <2>1
      <3>2. NewKey(q)' = NewKey(q)
        BY <3>1 DEF NewKey
      <3> QED
        BY <1>3, <2>1, <3>1, <3>2 DEF Fine, UrlLeads
    <2>2. ASSUME NEW q \in Requests, On(q, t) PROVE On(q, t)' /\ req'[q] = req[q]
      BY <1>1, <1>2, <2>2 DEF On
    <2> QED
      BY <1>3, <2>1, <2>2 DEF Fine, UrlLeads
  <1>8. NothingElse(t)'
    <2> SUFFICES ASSUME t \notin leaked, overlap'[t] = "none", NEW k \in objects, k[1] = t
                 PROVE  Known(t, k)'
      BY DEF NothingElse
    <2>1. Known(t, k) /\ \A q \in Requests : ~On(q, t)
      BY <1>2, <1>3 DEF Fine, NothingElse, On
    <2>2. k = receipt_url[t] /\ k # NoReceipt
      BY <2>1, ReceiptsAssumption DEF Known, TypeOK, ObjectKeys
    <2>3. \A q \in Requests : On(q, t)' => req'[q].pc \notin Busy
      BY <1>1, <1>3, <2>2 DEF Busy
    <2> QED
      BY <2>2, <2>3 DEF Known
  <1> QED
    BY <1>4, <1>5, <1>6, <1>7, <1>8 DEF Fine

LEMMA BeginUntouched ==
    ASSUME TypeOK, NEW r \in Requests, ~Active(r), NEW t \in rows,
           NEW h, req' = [req EXCEPT ![r] = h], h.tx = t, NEW alike, Meets(r, t, alike),
           UNCHANGED <<rows, receipt_url, objects, hurt, leaked>>,
           NEW u \in Txs \ {t}
    PROVE  Untouched(u)
  <1>1. req'[r] = h /\ \A q \in Requests \ {r} : req'[q] = req[q]
    BY DEF TypeOK
  <1>2. overlap'[u] = overlap[u]
    BY DEF Meets, TypeOK
  <1> QED
    BY <1>1, <1>2 DEF Untouched, On, Active

UrlInv == \A t \in Txs : Fine(t)

LEMMA UrlStep ==
    ASSUME TypeOK, QuotaInv, UrlInv, [Next]_vars
    PROVE  UrlInv'
  <1>0. TypeOK'
    BY TypeStep
  <1>1. ASSUME NEW r \in Requests, NEW t \in Txs, NEW e \in Exts, StartUpload(r, t, e)
        PROVE  UrlInv'
    <2> DEFINE h == [pc |-> "quota", op |-> "upload", tx |-> t, ext |-> e,
                     seen |-> receipt_url[t], date |-> day, count |-> 0]
    <2>1. /\ ~Active(r) /\ t \in rows /\ req' = [req EXCEPT ![r] = h] /\ Meets(r, t, UploadsOf(day))
          /\ UNCHANGED <<rows, receipt_url, objects, hurt, leaked>>
      BY <1>1 DEF StartUpload
    <2>2. h.tx = t /\ h.seen = receipt_url[t] /\ h.pc = "quota" /\ h.op = "upload" /\ h.date = day
      OBVIOUS
    <2>3. \A q \in UploadsOf(day) : req[q].op = "upload" /\ req[q].date = day
      BY DEF UploadsOf
    <2> HIDE DEF h
    <2>4. Fine(t)'
      BY <1>0, <2>1, <2>2, <2>3, BeginFine DEF UrlInv
    <2>5. ASSUME NEW u \in Txs \ {t} PROVE Fine(u)'
      BY <1>0, <2>1, <2>2, BeginUntouched, UntouchedFine DEF UrlInv
    <2> QED
      BY <2>4, <2>5 DEF UrlInv
  <1>2. ASSUME NEW r \in Requests, NEW t \in Txs, NEW op \in {"receipt", "expense"},
               StartRemoval(r, t, op)
        PROVE  UrlInv'
    <2> DEFINE h == [pc |-> IF receipt_url[t] = NoReceipt THEN "clear" ELSE "remove",
                     op |-> op, tx |-> t, seen |-> receipt_url[t]]
    <2>1. /\ ~Active(r) /\ t \in rows /\ req' = [req EXCEPT ![r] = h] /\ Meets(r, t, {})
          /\ UNCHANGED <<rows, receipt_url, objects, hurt, leaked>>
      BY <1>2 DEF StartRemoval
    <2>2. /\ h.tx = t /\ h.seen = receipt_url[t] /\ h.pc \in {"clear", "remove"}
          /\ h.pc = "clear" => h.seen = NoReceipt
      OBVIOUS
    <2> HIDE DEF h
    <2>3. Fine(t)'
      <3>1. PICK none : none = {}
        OBVIOUS
      <3>2. /\ Meets(r, t, none)
            /\ \A q \in none : h.op = "upload" /\ req[q].op = "upload" /\ req[q].date = h.date
        BY <2>1, <3>1
      <3>3. Fine(t)
        BY <2>1 DEF UrlInv, TypeOK
      <3> QED
        BY <1>0, <2>1, <2>2, <3>2, <3>3, BeginFine
    <2>4. ASSUME NEW u \in Txs \ {t} PROVE Fine(u)'
      BY <1>0, <2>1, <2>2, BeginUntouched, UntouchedFine DEF UrlInv
    <2> QED
      BY <2>3, <2>4 DEF UrlInv
  <1>3. ASSUME NEW r \in Requests, Step(r) PROVE UrlInv'
    <2>1. Active(r)
      BY <1>3 DEF Step, CountUpload, LimitReached, RejectFile, DeletePrevious, PutObject, PutFails,
             CommitUpload, CommitUploadStale, RemoveObject, CommitRemoval, CommitFails, Active
    <2>2. PICK t \in Txs : On(r, t)
      BY <2>1, HandlerFacts DEF On
    <2>3. Fine(t)'
      BY <1>0, <1>3, <2>2, StepCompany, StepUrl, StepObjects DEF UrlInv, Fine
    <2>4. ASSUME NEW u \in Txs \ {t} PROVE Fine(u)'
      BY <1>0, <1>3, <2>2, StepUntouched, UntouchedFine DEF UrlInv, Fine
    <2> QED
      BY <2>3, <2>4 DEF UrlInv
  <1>4. CASE Restart
    <2> SUFFICES ASSUME NEW t \in Txs PROVE Fine(t)'
      BY DEF UrlInv
    <2>1. /\ \A r \in Requests : ~On(r, t)'
          /\ UNCHANGED <<rows, receipt_url, objects, overlap>>
          /\ t \in hurt' <=> t \in hurt \/ \E r \in Requests : On(r, t)
          /\ t \in leaked' <=> t \in leaked \/ \E r \in Requests : On(r, t)
      BY <1>4 DEF Restart, On, Active, Idle
    <2>2. OwnKeys(t)' /\ Company(t)' /\ SeenStill(t)'
      BY <2>1 DEF UrlInv, Fine, OwnKeys, Company, SeenStill
    <2>3. UrlLeads(t)'
      BY <2>1 DEF UrlInv, Fine, UrlLeads
    <2>4. NothingElse(t)'
      BY <2>1 DEF UrlInv, Fine, NothingElse, Known
    <2> QED
      BY <2>2, <2>3, <2>4 DEF Fine
  <1>5. CASE Midnight \/ UNCHANGED vars
    <2>1. \A t \in Txs : Untouched(t)
      BY <1>5 DEF Midnight, vars, history, Untouched
    <2> QED
      BY <1>0, <2>1, UntouchedFine DEF UrlInv
  <1> QED
    BY <1>1, <1>2, <1>3, <1>4, <1>5 DEF Next

LEMMA UrlInductive == Spec => []UrlInv
  <1>1. Init => UrlInv
    <2> SUFFICES ASSUME Init, NEW t \in Txs PROVE Fine(t)
      BY DEF UrlInv
    <2>1. /\ \A r \in Requests : ~On(r, t)
          /\ receipt_url[t] = NoReceipt /\ objects = {}
      BY DEF Init, On, Active, Idle
    <2> QED
      BY <2>1 DEF Fine, OwnKeys, Company, SeenStill, UrlLeads, NothingElse
  <1>2. TypeOK /\ QuotaInv /\ UrlInv /\ [Next]_vars => UrlInv'
    BY UrlStep
  <1> QED
    BY <1>1, <1>2, QuotaInductive, PTL DEF Spec

(* The receipt_url of a transaction nobody works on leads to an object of   *)
(* the bucket, unless an upload or a removal was cut short, or overlapped   *)
(* with another that the usage row does not put in order (the old object is *)
(* deleted before the new one is put: expenses.py 641-661).                 *)
THEOREM UrlsLead == Spec => []NoDanglingUrl
  <1>1. TypeOK /\ UrlInv => NoDanglingUrl
    BY DEF UrlInv, Fine, UrlLeads, NoDanglingUrl, Quiet
  <1> QED
    BY <1>1, UrlInductive, TypeCorrect, PTL

(* And the bucket keeps nothing else of it, deleted or not, when no two of  *)
(* its handlers overlapped and no call failed.                              *)
THEOREM NothingIsLeft == Spec => []NoOrphanObject
  <1>1. TypeOK /\ UrlInv => NoOrphanObject
    BY DEF UrlInv, Fine, NothingElse, Known, NoOrphanObject, Quiet
  <1> QED
    BY <1>1, UrlInductive, TypeCorrect, PTL
===============================================================================
