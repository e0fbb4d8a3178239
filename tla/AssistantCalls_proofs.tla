------------------------- MODULE AssistantCalls_proofs -------------------------
(***************************************************************************)
(* Proofs about FreeQuota, for any users, limit and number of requests,    *)
(* and then about AssistantCalls, for any keys and providers as well: the  *)
(* handlers around the quota keep to it, so that what is shown of the      *)
(* quota holds of them, and what its rows count pays for all that is asked *)
(* with the server's key.                                                  *)
(***************************************************************************)
EXTENDS AssistantCalls, TLAPS

-------------------------------------------------------------------------------
(* The quota *)

(* The type invariant, with what makes it inductive: a handler works for a  *)
(* pair of Keys, and the row it has loaded is never deleted.                *)
CallersUsed == \A r \in Requests : Active(r) => Caller(r) \in Keys
RowsStay == \A r \in Requests :
    req[r].pc = "loaded" /\ req[r].seen # NoRow => row[UsageKey(r)] # NoRow
TypeInv == TypeOK /\ CallersUsed /\ RowsStay

ReqType == {Idle} \cup {Failed(k) : k \in Keys} \cup Handler

(* What a running handler holds. *)
LEMMA HandlerFacts ==
    ASSUME TypeInv, NEW r \in Requests, Active(r)
    PROVE  /\ req[r] \in Handler
           /\ req[r].today \in Days
           /\ req[r].seen \in Row
           /\ Caller(r) \in Keys
           /\ UsageKey(r) = Caller(r)
           /\ Caller(r)[1] = req[r].user
           /\ Caller(r)[2] = req[r].type
  <1>1. req[r] \in ReqType
    BY DEF TypeInv, TypeOK, ReqType
  <1>2. req[r] # Idle /\ \A k \in Keys : req[r] # Failed(k)
    BY DEF Active, Idle, Failed
  <1>3. req[r] \in Handler
    BY <1>1, <1>2 DEF ReqType
  <1> QED
    BY <1>3 DEF Handler, TypeInv, CallersUsed, Caller, UsageKey

(* Every date is a positive number, every row but NoRow has one. *)
LEMMA RowFacts ==
    ASSUME NEW x \in Row
    PROVE  /\ x.count \in Nat
           /\ x.date \in Nat
           /\ x.date <= MaxDay
           /\ x # NoRow => x \in [date : Days, count : Nat] /\ x.date >= 1
  BY QuotaAssumption DEF QuotaAssumption, Row, NoRow, Days

LEMMA TypeInit == ASSUME Init PROVE TypeInv
  <1>1. TypeOK
    BY QuotaAssumption DEF QuotaAssumption, Init, TypeOK, Days, Row
  <1>2. CallersUsed /\ RowsStay
    BY DEF Init, CallersUsed, RowsStay, Active, Idle
  <1> QED
    BY <1>1, <1>2 DEF TypeInv

(* A write of a row, the common part of the three actions that serve a      *)
(* request: the row it leaves has a date.                                   *)
LEMMA GrantType ==
    ASSUME TypeInv, NEW r \in Requests, Active(r), Grant(r),
           NEW new \in [date : Days, count : Nat],
           row' = [row EXCEPT ![UsageKey(r)] = new]
    PROVE  TypeInv'
  <1>1. /\ Caller(r) \in Keys
        /\ UsageKey(r) = Caller(r)
        /\ req[r].today \in Days
    BY HandlerFacts
  <1>3. granted' \in [Keys -> [Days -> Nat]]
    BY <1>1 DEF Grant, TypeInv, TypeOK
  <1>4. new \in Row /\ new # NoRow
    BY DEF Row, NoRow, Days
  <1>5. row' \in [Keys -> Row]
    BY <1>1, <1>4 DEF TypeInv, TypeOK
  <1>6. \A q \in Requests : req'[q] = IF q = r THEN Idle ELSE req[q]
    BY DEF Grant, TypeInv, TypeOK
  <1>7. TypeOK'
    BY <1>3, <1>5 DEF Grant, TypeInv, TypeOK
  <1>8. CallersUsed'
    BY <1>6 DEF TypeInv, CallersUsed, Active, Caller, Idle
  <1>9. RowsStay'
    <2> SUFFICES ASSUME NEW q \in Requests, req'[q].pc = "loaded", req'[q].seen # NoRow
                 PROVE  row'[UsageKey(q)'] # NoRow
      BY DEF RowsStay
    <2>1. req'[q] = req[q] /\ Active(q)
      BY <1>6 DEF Idle, Active
    <2>2. UsageKey(q)' = UsageKey(q) /\ UsageKey(q) \in Keys /\ row[UsageKey(q)] # NoRow
      BY <2>1, HandlerFacts DEF UsageKey, TypeInv, RowsStay
    <2> QED
      BY <1>1, <1>4, <2>2 DEF TypeInv, TypeOK
  <1> QED
    BY <1>7, <1>8, <1>9 DEF TypeInv

LEMMA TypeStep == ASSUME TypeInv, [Next]_vars PROVE TypeInv'
  <1>1. ASSUME NEW r \in Requests, NEW u \in Users, NEW t \in Types,
               resolve_api_credentials(r, u, t)
        PROVE  TypeInv'
    <2> DEFINE h == [pc |-> "today", user |-> u, type |-> t, today |-> day, seen |-> NoRow]
    <2>1. h \in Handler
      BY DEF Handler, TypeInv, TypeOK, Row
    <2>2. req' = [req EXCEPT ![r] = h]
      BY <1>1 DEF resolve_api_credentials
    <2>3. TypeOK'
      BY <1>1, <2>1, <2>2 DEF resolve_api_credentials, TypeInv, TypeOK
    <2>4. req'[r] = h /\ \A q \in Requests : q # r => req'[q] = req[q]
      BY <2>2 DEF TypeInv, TypeOK
    <2>5. CallersUsed'
      <3>1. \A q \in Requests : q # r /\ Active(q)' => Active(q) /\ Caller(q)' = Caller(q)
        BY <2>4 DEF Active, Caller
      <3>2. Caller(r)' \in Keys
        <4>1. Caller(r)' = <<u, t>>
          BY <2>4 DEF Caller
        <4> QED
          BY <1>1, <4>1 DEF resolve_api_credentials
      <3> QED
        BY <3>1, <3>2 DEF TypeInv, CallersUsed
    <2>6. RowsStay'
      <3>1. \A q \in Requests : q # r => req'[q] = req[q] /\ UsageKey(q)' = UsageKey(q)
        BY <2>4 DEF UsageKey
      <3>2. req'[r].pc # "loaded"
        BY <2>4
      <3>3. row' = row
        BY <1>1 DEF resolve_api_credentials
      <3> QED
        BY <3>1, <3>2, <3>3 DEF TypeInv, RowsStay
    <2> QED
      BY <2>3, <2>5, <2>6 DEF TypeInv
  <1>2. ASSUME NEW r \in Requests, LoadUsage(r)
        PROVE  TypeInv'
    <2>1. Active(r)
      BY <1>2 DEF LoadUsage, Active
    <2>2. row[UsageKey(r)] \in Row
      BY <2>1, HandlerFacts DEF TypeInv, TypeOK
    <2>3. /\ req'[r] \in Handler
          /\ Caller(r)' = Caller(r)
          /\ UsageKey(r)' = UsageKey(r)
          /\ req'[r].seen = row[UsageKey(r)]
      BY <1>2, <2>1, <2>2, HandlerFacts
         DEF LoadUsage, Handler, TypeInv, TypeOK, Caller, UsageKey
    <2>4. \A q \in Requests : q # r => req'[q] = req[q]
      BY <1>2 DEF LoadUsage, TypeInv, TypeOK
    <2>5. TypeOK'
      BY <1>2, <2>3, <2>4 DEF LoadUsage, TypeInv, TypeOK
    <2>6. CallersUsed'
      BY <2>1, <2>3, <2>4 DEF TypeInv, CallersUsed, Active, Caller
    <2>7. RowsStay'
      BY <1>2, <2>3, <2>4 DEF LoadUsage, TypeInv, RowsStay, UsageKey
    <2> QED
      BY <2>5, <2>6, <2>7 DEF TypeInv
  <1>3. ASSUME NEW r \in Requests, InsertUsage(r)
        PROVE  TypeInv'
    <2>1. Active(r) /\ Grant(r)
      BY <1>3 DEF InsertUsage, Active
    <2>2. [date |-> req[r].today, count |-> 1] \in [date : Days, count : Nat]
      BY <2>1, HandlerFacts
    <2> QED
      BY <1>3, <2>1, <2>2, GrantType DEF InsertUsage
  <1>4. ASSUME NEW r \in Requests, InsertConflict(r)
        PROVE  TypeInv'
    <2>1. Active(r) /\ Caller(r) \in Keys
      BY <1>4, HandlerFacts DEF InsertConflict, Active
    <2>2. TypeOK'
      BY <1>4, <2>1 DEF InsertConflict, TypeInv, TypeOK
    <2>3. CallersUsed' /\ RowsStay'
      BY <1>4 DEF InsertConflict, TypeInv, TypeOK, CallersUsed, RowsStay, Active, Caller,
                  UsageKey, Failed
    <2> QED
      BY <2>2, <2>3 DEF TypeInv
  <1>5. ASSUME NEW r \in Requests, RolloverUsage(r)
        PROVE  TypeInv'
    <2> DEFINE new == [date  |-> req[r].today,
                       count |-> IF req[r].seen.count = 1 THEN row[UsageKey(r)].count ELSE 1]
    <2>1. Active(r) /\ Grant(r)
      BY <1>5 DEF RolloverUsage, Active
    <2>2. row[UsageKey(r)].count \in Nat
      BY <2>1, HandlerFacts, RowFacts DEF TypeInv, TypeOK
    <2>3. new \in [date : Days, count : Nat]
      BY <2>1, <2>2, HandlerFacts
    <2>4. row' = [row EXCEPT ![UsageKey(r)] = new]
      BY <1>5, <2>1, HandlerFacts DEF RolloverUsage, TypeInv, TypeOK
    <2> QED
      BY <2>1, <2>3, <2>4, GrantType
  <1>6. ASSUME NEW r \in Requests, IncrementUsage(r)
        PROVE  TypeInv'
    <2> DEFINE old == row[UsageKey(r)]
               new == [date |-> old.date, count |-> req[r].seen.count + 1]
    <2>1. Active(r) /\ Grant(r)
      BY <1>6 DEF IncrementUsage, Active
    <2>2. old # NoRow
      BY <1>6 DEF IncrementUsage, TypeInv, RowsStay
    <2>3. old \in [date : Days, count : Nat] /\ req[r].seen.count \in Nat
      BY <2>1, <2>2, HandlerFacts, RowFacts DEF TypeInv, TypeOK
    <2>4. [old EXCEPT !.count = req[r].seen.count + 1] = new
      BY <2>3
    <2>5. row' = [row EXCEPT ![UsageKey(r)] = new]
      BY <1>6, <2>4 DEF IncrementUsage
    <2>6. new \in [date : Days, count : Nat]
      BY <2>3
    <2> QED
      BY <2>1, <2>5, <2>6, GrantType
  <1>7. ASSUME NEW r \in Requests, RefuseUsage(r)
        PROVE  TypeInv'
    <2>1. /\ Active(r)
          /\ Caller(r) \in Keys
          /\ req[r].today \in Days
      BY <1>7, HandlerFacts DEF RefuseUsage, Active
    <2>2. TypeOK'
      BY <1>7, <2>1 DEF RefuseUsage, TypeInv, TypeOK
    <2>3. CallersUsed' /\ RowsStay'
      BY <1>7 DEF RefuseUsage, TypeInv, TypeOK, CallersUsed, RowsStay, Active, Caller,
                  UsageKey, Idle
    <2> QED
      BY <2>2, <2>3 DEF TypeInv
  <1>8. ASSUME Midnight
        PROVE  TypeInv'
    <2>1. TypeOK'
      BY <1>8, QuotaAssumption DEF QuotaAssumption, Midnight, TypeInv, TypeOK, Days
    <2>2. CallersUsed' /\ RowsStay'
      BY <1>8 DEF Midnight, TypeInv, CallersUsed, RowsStay, Active, Caller, UsageKey
    <2> QED
      BY <2>1, <2>2 DEF TypeInv
  <1>9. ASSUME UNCHANGED vars
        PROVE  TypeInv'
    BY <1>9 DEF vars, TypeInv, TypeOK, CallersUsed, RowsStay, Active, Caller, UsageKey
  <1> QED
    BY <1>1, <1>2, <1>3, <1>4, <1>5, <1>6, <1>7, <1>8, <1>9 DEF Next

LEMMA Typing == Spec => []TypeInv
  BY TypeInit, TypeStep, PTL DEF Spec

(* Every state is well typed (agent_usage.py 15-41): in particular a row    *)
(* always has a date of the calendar, and a count.                          *)
THEOREM TypeCorrect == Spec => []TypeOK
  BY Typing, PTL DEF TypeInv

-------------------------------------------------------------------------------
(* The three actions that serve a request all end in Grant, and differ in   *)
(* the row they leave.                                                      *)
Serves(r) == InsertUsage(r) \/ RolloverUsage(r) \/ IncrementUsage(r)

LEMMA ServeFacts ==
    ASSUME TypeInv, NEW r \in Requests, Serves(r)
    PROVE  /\ Active(r)
           /\ req[r].pc = "loaded"
           /\ req'[r] = Idle
           /\ \A q \in Requests : q # r => req'[q] = req[q]
           /\ granted' \in [Keys -> [Days -> Nat]]
           /\ granted'[Caller(r)][req[r].today] = granted[Caller(r)][req[r].today] + 1
           /\ \A k \in Keys, d \in Days :
                 k # Caller(r) \/ d # req[r].today => granted'[k][d] = granted[k][d]
           /\ \A k \in Keys : k # Caller(r) => row'[k] = row[k]
           /\ day' = day /\ refused' = refused /\ crossed' = crossed
  <1>1. Active(r) /\ req[r].pc = "loaded" /\ Grant(r)
    BY DEF Serves, InsertUsage, RolloverUsage, IncrementUsage, Active
  <1>2. req'[r] = Idle /\ \A q \in Requests : q # r => req'[q] = req[q]
    BY <1>1 DEF Grant, TypeInv, TypeOK
  <1>3. \A k \in Keys : k # Caller(r) => row'[k] = row[k]
    BY <1>1, HandlerFacts
       DEF Serves, InsertUsage, RolloverUsage, IncrementUsage, TypeInv, TypeOK
  <1>4. Caller(r) \in Keys /\ req[r].today \in Days
    BY <1>1, HandlerFacts
  <1>5. granted' \in [Keys -> [Days -> Nat]]
    BY <1>1, <1>4 DEF Grant, TypeInv, TypeOK
  <1>6. /\ granted'[Caller(r)][req[r].today] = granted[Caller(r)][req[r].today] + 1
        /\ \A k \in Keys, d \in Days :
              k # Caller(r) \/ d # req[r].today => granted'[k][d] = granted[k][d]
    BY <1>1, <1>4 DEF Grant, TypeInv, TypeOK
  <1> QED
    BY <1>1, <1>2, <1>3, <1>5, <1>6 DEF Grant

(* The row each of them leaves. *)
LEMMA ServedRow ==
    ASSUME TypeInv, NEW r \in Requests, Serves(r),
           NEW old, old = row[Caller(r)],
           NEW new, new = row'[Caller(r)],
           NEW seen, seen = req[r].seen
    PROVE  /\ seen = NoRow \/ old # NoRow
           /\ \/ /\ old = NoRow
                 /\ new.date = req[r].today
                 /\ new.count = 1
              \/ /\ old # NoRow
                 /\ seen.date # req[r].today
                 /\ new.date = req[r].today
                 /\ new.count = 1 \/ (seen.count = 1 /\ new.count = old.count)
              \/ /\ old # NoRow
                 /\ seen.date = req[r].today
                 /\ new.date = old.date
                 /\ seen.count < FREE_DAILY_LIMIT
                 /\ new.count = seen.count + 1
  <1>1. Active(r) /\ req[r].pc = "loaded"
    BY ServeFacts
  <1>2. Caller(r) \in Keys /\ UsageKey(r) = Caller(r)
    BY <1>1, HandlerFacts
  <1>3. old \in Row /\ (seen # NoRow => old # NoRow)
    BY <1>1, <1>2 DEF TypeInv, TypeOK, RowsStay
  <1>4. CASE InsertUsage(r)
    <2>1. seen = NoRow /\ old = NoRow /\ new = [date |-> req[r].today, count |-> 1]
      BY <1>2, <1>4 DEF InsertUsage, TypeInv, TypeOK
    <2> QED
      BY <2>1
  <1>5. CASE RolloverUsage(r)
    <2>1. /\ seen # NoRow /\ seen.date # req[r].today
          /\ new = [date  |-> req[r].today,
                    count |-> IF seen.count = 1 THEN old.count ELSE 1]
      BY <1>2, <1>5 DEF RolloverUsage, TypeInv, TypeOK
    <2> QED
      BY <1>3, <2>1
  <1>6. CASE IncrementUsage(r)
    <2>1. /\ seen # NoRow /\ seen.date = req[r].today /\ seen.count < FREE_DAILY_LIMIT
          /\ new = [old EXCEPT !.count = seen.count + 1]
      BY <1>2, <1>6 DEF IncrementUsage, TypeInv, TypeOK
    <2>2. old \in [date : Days, count : Nat]
      BY <1>3, <2>1, RowFacts
    <2> QED
      BY <1>3, <2>1, <2>2
  <1> QED
    BY <1>4, <1>5, <1>6 DEF Serves

-------------------------------------------------------------------------------
(* No count above the limit is stored, nor held by a handler about to write *)
(* one back.                                                                *)
CountInv ==
    /\ CountWithinLimit
    /\ \A r \in Requests : req[r].pc = "loaded" => req[r].seen.count <= FREE_DAILY_LIMIT

LEMMA CountStep ==
    ASSUME TypeInv, CountInv, [Next]_vars
    PROVE  CountInv'
  <1> USE QuotaAssumption DEF QuotaAssumption
  <1>1. ASSUME NEW r \in Requests, Serves(r)
        PROVE  CountInv'
    <2>1. Active(r) /\ Caller(r) \in Keys /\ req[r].seen \in Row /\ row[Caller(r)] \in Row
      BY <1>1, ServeFacts, HandlerFacts DEF TypeInv, TypeOK
    <2>2. req[r].seen.count \in Nat /\ row[Caller(r)].count <= FREE_DAILY_LIMIT
      BY <2>1, RowFacts DEF CountInv, CountWithinLimit
    <2>3. row'[Caller(r)].count <= FREE_DAILY_LIMIT
      <3>1. \/ row'[Caller(r)].count \in {1, row[Caller(r)].count}
            \/ /\ req[r].seen.count < FREE_DAILY_LIMIT
               /\ row'[Caller(r)].count = req[r].seen.count + 1
        BY <1>1, ServedRow
      <3> QED
        BY <2>2, <3>1
    <2>4. CountWithinLimit'
      BY <1>1, <2>3, ServeFacts DEF CountInv, CountWithinLimit
    <2> QED
      BY <1>1, <2>4, ServeFacts DEF CountInv, Idle
  <1>2. ASSUME NEW r \in Requests, LoadUsage(r)
        PROVE  CountInv'
    <2>1. UsageKey(r) \in Keys
      BY <1>2, HandlerFacts DEF LoadUsage, Active
    <2>2. \A q \in Requests :
             req'[q] = req[q] \/ req'[q].seen = row[UsageKey(r)]
      BY <1>2, HandlerFacts DEF LoadUsage, TypeInv, TypeOK, Active, Handler
    <2> QED
      BY <1>2, <2>1, <2>2 DEF LoadUsage, CountInv, CountWithinLimit
  <1>3. ASSUME row' = row,
               \A q \in Requests : req'[q] = req[q] \/ req'[q].pc # "loaded"
        PROVE  CountInv'
    BY <1>3 DEF CountInv, CountWithinLimit
  <1>4. ASSUME NEW r \in Requests, NEW u \in Users, NEW t \in Types,
               resolve_api_credentials(r, u, t)
        PROVE  CountInv'
    <2>1. row' = row
      BY <1>4 DEF resolve_api_credentials
    <2>2. \A q \in Requests : req'[q] = req[q] \/ req'[q].pc # "loaded"
      BY <1>4 DEF resolve_api_credentials, TypeInv, TypeOK
    <2> QED
      BY <1>3, <2>1, <2>2
  <1>5. ASSUME NEW r \in Requests, InsertConflict(r) \/ RefuseUsage(r)
        PROVE  CountInv'
    BY <1>3, <1>5 DEF InsertConflict, RefuseUsage, TypeInv, TypeOK, Idle, Failed
  <1>6. CASE Midnight \/ UNCHANGED vars
    BY <1>3, <1>6 DEF Midnight, vars
  <1> QED
    BY <1>1, <1>2, <1>4, <1>5, <1>6 DEF Next, Serves

(* The stored count never exceeds the limit, however the handlers of one    *)
(* user interleave and whatever midnight does (ai_access.py 87-91).         *)
THEOREM CountBounded == Spec => []CountWithinLimit
  <1>1. Init => CountInv
    BY QuotaAssumption DEF QuotaAssumption, Init, CountInv, CountWithinLimit, NoRow, Idle
  <1>2. TypeInv /\ CountInv /\ [Next]_vars => CountInv'
    BY CountStep
  <1> QED
    BY <1>1, <1>2, Typing, PTL DEF Spec, CountInv

-------------------------------------------------------------------------------
(* What holds of a pair k whose client waits for each answer.  The row says *)
(* how many requests of its date were granted, later dates have none, and   *)
(* the one handler there can be holds the row as it still is.  Its date may *)
(* be yesterday's (midnight passed since), but not before the row's.        *)
WorksFor(r, k) == Active(r) /\ Caller(r) = k

RowCounts(k) ==
    /\ row[k].date <= day
    /\ row[k] # NoRow => granted[k][row[k].date] = row[k].count
    /\ \A d \in Days : d > row[k].date => granted[k][d] = 0
    /\ \A d \in Days : granted[k][d] <= FREE_DAILY_LIMIT

HandlerCurrent(k) ==
    \A r \in Requests : WorksFor(r, k) =>
        /\ row[k].date <= req[r].today
        /\ req[r].today <= day
        /\ req[r].pc = "loaded" => req[r].seen = row[k]
        /\ \A q \in Requests : WorksFor(q, k) => q = r

NoConflict(k) == \A r \in Requests : req[r].pc = "error" => req[r].key # k

SerialAt(k) == RowCounts(k) /\ HandlerCurrent(k) /\ NoConflict(k)
SerialInv == \A k \in SerialKeys : SerialAt(k)

(* A step that leaves the row and the grants of k alone, and starts nothing *)
(* for k.                                                                   *)
LEMMA SerialFrame ==
    ASSUME TypeInv, NEW k \in SerialKeys, SerialAt(k),
           row'[k] = row[k], granted'[k] = granted[k], day' \in Days, day <= day',
           \A q \in Requests :
               \/ req'[q] = req[q]
               \/ ~WorksFor(q, k)' /\ (req'[q].pc = "error" => req'[q].key # k)
    PROVE  SerialAt(k)'
  <1> USE QuotaAssumption DEF QuotaAssumption
  <1>1. k \in Keys /\ row[k] \in Row /\ day \in Days
    BY DEF TypeInv, TypeOK
  <1>2. row[k].date \in Nat /\ day \in Nat /\ day' \in Nat
    BY <1>1, RowFacts DEF Days
  <1>3. RowCounts(k)'
    BY <1>2 DEF SerialAt, RowCounts
  <1>4. \A q \in Requests : WorksFor(q, k)' => WorksFor(q, k) /\ req'[q] = req[q]
    BY DEF WorksFor, Active, Caller
  <1>5. HandlerCurrent(k)'
    <2> SUFFICES ASSUME NEW r \in Requests, WorksFor(r, k)'
                 PROVE  /\ row'[k].date <= req'[r].today
                        /\ req'[r].today <= day'
                        /\ req'[r].pc = "loaded" => req'[r].seen = row'[k]
                        /\ \A q \in Requests : WorksFor(q, k)' => q = r
      BY DEF HandlerCurrent
    <2>1. WorksFor(r, k) /\ req'[r] = req[r]
      BY <1>4
    <2>2. req[r].today \in Nat
      BY <2>1, HandlerFacts DEF WorksFor, Days
    <2> QED
      BY <1>2, <1>4, <2>1, <2>2 DEF SerialAt, HandlerCurrent
  <1>6. NoConflict(k)'
    BY DEF SerialAt, NoConflict
  <1> QED
    BY <1>3, <1>5, <1>6 DEF SerialAt

(* The request of a waiting client is served: the row it leaves counts it.  *)
LEMMA SerialServe ==
    ASSUME TypeInv, CountInv, NEW r \in Requests, Serves(r),
           NEW k \in SerialKeys, Caller(r) = k, SerialAt(k)
    PROVE  /\ row[k].date <= row'[k].date
           /\ granted[k][req[r].today] < FREE_DAILY_LIMIT
           /\ SerialAt(k)'
  <1> USE QuotaAssumption DEF QuotaAssumption
  <1> DEFINE old == row[k]
             new == row'[k]
             today == req[r].today
  <1>1. /\ k \in Keys /\ today \in Days /\ today \in Nat
        /\ old \in Row /\ new \in Row
        /\ old.date \in Nat /\ old.count \in Nat
        /\ day \in Nat
    <2>1. k \in Keys /\ today \in Days
      BY ServeFacts, HandlerFacts
    <2>2. new \in Row
      BY <2>1, TypeStep DEF Serves, Next, TypeInv, TypeOK
    <2> QED
      BY <2>1, <2>2, RowFacts DEF TypeInv, TypeOK, Days
  <1>2. /\ WorksFor(r, k)
        /\ req[r].seen = old
        /\ old.date <= today
        /\ today <= day
        /\ \A q \in Requests : WorksFor(q, k) => q = r
    BY ServeFacts DEF SerialAt, HandlerCurrent, WorksFor
  <1>3. \/ /\ old.date < today
           /\ new.date = today
           /\ new.count = 1
           /\ granted[k][today] = 0
        \/ /\ old # NoRow /\ old.date = today
           /\ new.date = today
           /\ new.count = old.count + 1
           /\ old.count < FREE_DAILY_LIMIT
           /\ granted[k][today] = old.count
    <2>1. CASE old = NoRow
      BY <1>1, <1>2, <2>1, ServedRow DEF NoRow, SerialAt, RowCounts, Days
    <2>2. CASE old # NoRow
      BY <1>1, <1>2, <2>2, ServedRow DEF SerialAt, RowCounts
    <2> QED
      BY <2>1, <2>2
  <1>4. /\ granted'[k] \in [Days -> Nat]
        /\ granted[k] \in [Days -> Nat]
        /\ granted'[k][today] = granted[k][today] + 1
        /\ \A d \in Days : d # today => granted'[k][d] = granted[k][d]
        /\ day' = day
    BY <1>1, ServeFacts DEF TypeInv, TypeOK
  <1>5. granted'[k][today] = new.count /\ new.count <= FREE_DAILY_LIMIT
    BY <1>1, <1>3, <1>4
  <1>6. RowCounts(k)'
    <2>1. new.date <= day'
      BY <1>1, <1>2, <1>3, <1>4
    <2>2. granted'[k][new.date] = new.count
      BY <1>3, <1>5
    <2>3. ASSUME NEW d \in Days, d > new.date
          PROVE  granted'[k][d] = 0
      <3>1. new.date = today /\ old.date <= today
        BY <1>2, <1>3
      <3>2. d > today /\ d # today /\ d > old.date
        BY <1>1, <2>3, <3>1 DEF Days
      <3> QED
        BY <1>4, <3>2 DEF SerialAt, RowCounts
    <2>4. ASSUME NEW d \in Days
          PROVE  granted'[k][d] <= FREE_DAILY_LIMIT
      BY <1>4, <1>5 DEF SerialAt, RowCounts
    <2> QED
      BY <2>1, <2>2, <2>3, <2>4 DEF RowCounts
  <1>7. \A q \in Requests : ~WorksFor(q, k)'
    <2>1. ~WorksFor(r, k)'
      BY ServeFacts DEF WorksFor, Active, Idle
    <2>2. ASSUME NEW q \in Requests, q # r
          PROVE  ~WorksFor(q, k)'
      BY <1>2, <2>2, ServeFacts DEF WorksFor, Active, Caller
    <2> QED
      BY <2>1, <2>2
  <1>8. NoConflict(k)'
    BY ServeFacts DEF SerialAt, NoConflict, Idle
  <1> QED
    BY <1>1, <1>3, <1>6, <1>7, <1>8 DEF SerialAt, HandlerCurrent

LEMMA SerialStep ==
    ASSUME TypeInv, CountInv, SerialInv, [Next]_vars
    PROVE  SerialInv'
  <1> USE QuotaAssumption DEF QuotaAssumption
  <1> SUFFICES ASSUME NEW k \in SerialKeys
               PROVE  SerialAt(k)'
    BY DEF SerialInv
  <1>1. SerialAt(k) /\ k \in Keys /\ day \in Days /\ day \in Nat
    BY DEF SerialInv, TypeInv, TypeOK, Days
  <1>2. ASSUME NEW r \in Requests, NEW u \in Users, NEW t \in Types,
               resolve_api_credentials(r, u, t)
        PROVE  SerialAt(k)'
    <2> DEFINE h == [pc |-> "today", user |-> u, type |-> t, today |-> day, seen |-> NoRow]
    <2>1. /\ req'[r] = h
          /\ \A q \in Requests : q # r => req'[q] = req[q]
          /\ row' = row /\ granted' = granted /\ day' = day
      BY <1>2 DEF resolve_api_credentials, TypeInv, TypeOK
    <2>2. Caller(r)' = <<u, t>>
      BY <2>1 DEF Caller
    <2>3. req'[r].pc = "today" /\ req'[r].today = day
      BY <2>1
    <2>4. CASE k # <<u, t>>
      <3>1. ~WorksFor(r, k)'
        BY <2>2, <2>4 DEF WorksFor
      <3> QED
        BY <1>1, <2>1, <2>3, <3>1, SerialFrame
    <2>5. CASE k = <<u, t>>
      <3>1. \A q \in Requests : ~WorksFor(q, k)
        BY <1>2, <2>5 DEF resolve_api_credentials, Runs, WorksFor, Caller
      <3>2. \A q \in Requests : WorksFor(q, k)' => q = r
        BY <2>1, <3>1 DEF WorksFor, Active, Caller
      <3>3. HandlerCurrent(k)'
        BY <1>1, <2>1, <2>3, <3>2 DEF SerialAt, RowCounts, HandlerCurrent
      <3>4. RowCounts(k)'
        BY <1>1, <2>1 DEF SerialAt, RowCounts
      <3>5. NoConflict(k)'
        BY <1>1, <2>1, <2>3 DEF SerialAt, NoConflict
      <3> QED
        BY <3>3, <3>4, <3>5 DEF SerialAt
    <2> QED
      BY <2>4, <2>5
  <1>3. ASSUME NEW r \in Requests, LoadUsage(r)
        PROVE  SerialAt(k)'
    <2>1. Active(r) /\ req[r].pc = "today"
      BY <1>3 DEF LoadUsage, Active
    <2>2. /\ req'[r] = [req[r] EXCEPT !.pc = "loaded", !.seen = row[Caller(r)]]
          /\ \A q \in Requests : q # r => req'[q] = req[q]
          /\ row' = row /\ granted' = granted /\ day' = day
      BY <1>3, <2>1, HandlerFacts DEF LoadUsage, TypeInv, TypeOK
    <2>3. /\ req'[r].pc = "loaded"
          /\ req'[r].seen = row[Caller(r)]
          /\ req'[r].today = req[r].today
          /\ Caller(r)' = Caller(r)
      BY <2>1, <2>2, HandlerFacts DEF Handler, Caller
    <2>4. CASE k # Caller(r)
      <3>1. ~WorksFor(r, k)'
        BY <2>3, <2>4 DEF WorksFor
      <3>2. row'[k] = row[k] /\ granted'[k] = granted[k] /\ day' = day
        BY <2>2
      <3>3. \A q \in Requests : q # r => req'[q] = req[q]
        BY <2>2
      <3>4. req'[r].pc # "error"
        BY <2>3
      <3> QED
        BY <1>1, <3>1, <3>2, <3>3, <3>4, SerialFrame
    <2>5. CASE k = Caller(r)
      <3>1. \A q \in Requests : WorksFor(q, k)' => WorksFor(q, k)
        BY <2>1, <2>2, <2>3 DEF WorksFor, Active, Caller
      <3>2. HandlerCurrent(k)'
        BY <1>1, <2>2, <2>3, <2>5, <3>1 DEF SerialAt, HandlerCurrent
      <3>3. RowCounts(k)'
        BY <1>1, <2>2 DEF SerialAt, RowCounts
      <3>4. NoConflict(k)'
        BY <1>1, <2>2, <2>3 DEF SerialAt, NoConflict
      <3> QED
        BY <3>2, <3>3, <3>4 DEF SerialAt
    <2> QED
      BY <2>4, <2>5
  <1>4. ASSUME NEW r \in Requests, Serves(r)
        PROVE  SerialAt(k)'
    <2>1. CASE k = Caller(r)
      BY <1>1, <1>4, <2>1, SerialServe
    <2>2. CASE k # Caller(r)
      <3>1. row'[k] = row[k] /\ day' = day
        BY <1>1, <1>4, <2>2, ServeFacts
      <3>2. granted'[k] = granted[k]
        <4>1. granted'[k] \in [Days -> Nat] /\ granted[k] \in [Days -> Nat]
          BY <1>1, <1>4, ServeFacts DEF TypeInv, TypeOK
        <4>2. \A d \in Days : granted'[k][d] = granted[k][d]
          BY <1>1, <1>4, <2>2, ServeFacts
        <4> QED
          BY <4>1, <4>2
      <3>3. req'[r] = Idle /\ \A q \in Requests : q # r => req'[q] = req[q]
        BY <1>4, ServeFacts
      <3>4. ~WorksFor(r, k)' /\ req'[r].pc # "error"
        BY <3>3 DEF WorksFor, Active, Idle
      <3> QED
        BY <1>1, <3>1, <3>2, <3>3, <3>4, SerialFrame
    <2> QED
      BY <2>1, <2>2
  <1>5. ASSUME NEW r \in Requests, InsertConflict(r)
        PROVE  SerialAt(k)'
    <2>1. Active(r)
      BY <1>5 DEF InsertConflict, Active
    <2>2. Caller(r) # k
      BY <1>1, <1>5, <2>1, HandlerFacts
         DEF InsertConflict, SerialAt, HandlerCurrent, WorksFor
    <2>3. /\ req'[r] = Failed(Caller(r))
          /\ \A q \in Requests : q # r => req'[q] = req[q]
          /\ row' = row /\ granted' = granted /\ day' = day
      BY <1>5 DEF InsertConflict, TypeInv, TypeOK
    <2>4. ~WorksFor(r, k)' /\ req'[r].key # k
      BY <2>2, <2>3 DEF WorksFor, Active, Failed
    <2> QED
      BY <1>1, <2>3, <2>4, SerialFrame
  <1>6. ASSUME NEW r \in Requests, RefuseUsage(r)
        PROVE  SerialAt(k)'
    <2>1. /\ req'[r] = Idle
          /\ \A q \in Requests : q # r => req'[q] = req[q]
          /\ row' = row /\ granted' = granted /\ day' = day
      BY <1>6 DEF RefuseUsage, TypeInv, TypeOK
    <2>2. ~WorksFor(r, k)' /\ req'[r].pc # "error"
      BY <2>1 DEF WorksFor, Active, Idle
    <2> QED
      BY <1>1, <2>1, <2>2, SerialFrame
  <1>7. CASE Midnight
    <2>1. day' \in Days /\ day <= day' /\ row' = row /\ granted' = granted /\ req' = req
      BY <1>1, <1>7 DEF Midnight, Days
    <2> QED
      BY <1>1, <2>1, SerialFrame
  <1>8. CASE UNCHANGED vars
    <2>1. day' = day /\ row' = row /\ granted' = granted /\ req' = req
      BY <1>8 DEF vars
    <2> QED
      BY <1>1, <2>1, SerialFrame
  <1> QED
    BY <1>2, <1>3, <1>4, <1>5, <1>6, <1>7, <1>8 DEF Next, Serves

LEMMA Inductive == Spec => [](TypeInv /\ CountInv /\ SerialInv)
  <1>1. Init => TypeInv /\ CountInv /\ SerialInv
    <2> SUFFICES ASSUME Init PROVE TypeInv /\ CountInv /\ SerialInv
      OBVIOUS
    <2> USE QuotaAssumption DEF QuotaAssumption
    <2>1. CountInv
      BY DEF Init, CountInv, CountWithinLimit, NoRow, Idle
    <2>2. SerialInv
      BY DEF Init, SerialInv, SerialAt, RowCounts, HandlerCurrent, NoConflict, WorksFor,
             Active, NoRow, Idle, Days
    <2> QED
      BY <2>1, <2>2, TypeInit
  <1>2. TypeInv /\ CountInv /\ SerialInv /\ [Next]_vars => (TypeInv /\ CountInv /\ SerialInv)'
    BY TypeStep, CountStep, SerialStep
  <1> QED
    BY <1>1, <1>2, PTL DEF Spec

(* A client that waits for each answer is never granted more than the limit *)
(* on a date, for any limit, number of users and running handlers, and      *)
(* wherever midnight falls (_consume_free_quota, ai_access.py 55-92).       *)
THEOREM SerialLimitHolds == Spec => []SerialDailyLimit
  <1>1. SerialInv => SerialDailyLimit
    BY DEF SerialInv, SerialAt, RowCounts, SerialDailyLimit
  <1> QED
    BY <1>1, Inductive, PTL

(* Such a client never loses the race for the first INSERT (lines 70-79). *)
THEOREM SerialInsertWins == Spec => []SerialNoConflict
  <1>1. SerialInv => SerialNoConflict
    BY DEF SerialInv, SerialAt, NoConflict, SerialNoConflict
  <1> QED
    BY <1>1, Inductive, PTL

-------------------------------------------------------------------------------
(* Of a waiting client's row, every step leaves the date or moves it on.    *)
LEMMA DateStep ==
    ASSUME TypeInv, CountInv, SerialInv, [Next]_vars, NEW k \in SerialKeys
    PROVE  row'[k].date >= row[k].date
  <1>1. k \in Keys /\ SerialAt(k) /\ row[k] \in Row /\ row'[k] \in Row
    BY QuotaAssumption, TypeStep DEF QuotaAssumption, SerialInv, TypeInv, TypeOK
  <1>2. row[k].date \in Nat /\ row'[k].date \in Nat
    BY <1>1, RowFacts
  <1>3. ASSUME NEW r \in Requests, Serves(r)
        PROVE  row'[k].date >= row[k].date
    <2>1. CASE k = Caller(r)
      BY <1>1, <1>2, <1>3, <2>1, SerialServe
    <2>2. CASE k # Caller(r)
      BY <1>1, <1>2, <1>3, <2>2, ServeFacts
    <2> QED
      BY <2>1, <2>2
  <1>4. CASE row' = row
    BY <1>2, <1>4
  <1> QED
    BY <1>3, <1>4 DEF Next, Serves, vars, resolve_api_credentials, LoadUsage,
                      InsertConflict, RefuseUsage, Midnight

(* The date of a waiting client's row never goes back, so that no day's     *)
(* allowance starts again (lines 81-85).                                    *)
THEOREM SerialDateGoesOn == Spec => SerialDateMonotonic
  <1>1. TypeInv /\ CountInv /\ SerialInv /\ [Next]_vars
            => [\A k \in SerialKeys : row'[k].date >= row[k].date]_vars
    BY DateStep
  <1> QED
    BY <1>1, Inductive, PTL DEF Spec, SerialDateMonotonic

-------------------------------------------------------------------------------
(* The refinement: a served request of a waiting client is a Spend of its   *)
(* own date, a refused one a Refuse, and every other step changes nothing   *)
(* the promise is about.                                                    *)
LEMMA ServeSpends ==
    ASSUME TypeInv, CountInv, SerialInv, NEW r \in Requests, Serves(r)
    PROVE  [SerialPromise!Next]_(SerialPromise!vars)
  <1> USE QuotaAssumption DEF QuotaAssumption
  <1> DEFINE spent == [k \in SerialKeys |-> granted[k]]
             c == Caller(r)
             today == req[r].today
  <1>1. /\ c \in Keys /\ today \in Days
        /\ granted \in [Keys -> [Days -> Nat]]
        /\ granted' \in [Keys -> [Days -> Nat]]
        /\ granted'[c][today] = granted[c][today] + 1
        /\ \A k \in Keys, d \in Days :
              k # c \/ d # today => granted'[k][d] = granted[k][d]
        /\ refused' = refused
    BY ServeFacts, HandlerFacts DEF TypeInv, TypeOK
  <1>2. ASSUME NEW k \in SerialKeys, k # c
        PROVE  granted'[k] = granted[k]
    <2>1. granted'[k] \in [Days -> Nat] /\ granted[k] \in [Days -> Nat]
      BY <1>1
    <2>2. \A d \in Days : granted'[k][d] = granted[k][d]
      BY <1>1, <1>2
    <2> QED
      BY <2>1, <2>2
  <1>3. CASE c \in SerialKeys
    <2>1. granted[c][today] < FREE_DAILY_LIMIT
      BY <1>3, SerialServe DEF SerialInv
    <2>2. granted'[c] = [granted[c] EXCEPT ![today] = @ + 1]
      <3>1. granted'[c] \in [Days -> Nat] /\ granted[c] \in [Days -> Nat]
        BY <1>1
      <3>2. \A d \in Days : d # today => granted'[c][d] = granted[c][d]
        BY <1>1
      <3> QED
        BY <1>1, <3>1, <3>2
    <2>3. [k \in SerialKeys |-> granted'[k]] = [spent EXCEPT ![c] = granted'[c]]
      BY <1>2, <1>3
    <2>4. [k \in SerialKeys |-> granted'[k]] = [spent EXCEPT ![c][today] = @ + 1]
      BY <1>3, <2>2, <2>3
    <2>5. PICK k \in SerialKeys, d \in Days : k = c /\ d = today
      BY <1>1, <1>3
    <2>6. SerialPromise!Spend(k, d)
      BY <1>1, <1>3, <2>1, <2>4, <2>5 DEF SerialPromise!Spend
    <2> QED
      BY <2>6 DEF SerialPromise!Next
  <1>4. CASE c \notin SerialKeys
    <2>1. [k \in SerialKeys |-> granted'[k]] = spent
      BY <1>2, <1>4
    <2>2. UNCHANGED SerialPromise!vars
      BY <1>1, <2>1 DEF SerialPromise!vars
    <2> QED
      BY <2>2
  <1> QED
    BY <1>3, <1>4

LEMMA RefuseRefuses ==
    ASSUME TypeInv, CountInv, SerialInv, NEW r \in Requests, RefuseUsage(r)
    PROVE  [SerialPromise!Next]_(SerialPromise!vars)
  <1> USE QuotaAssumption DEF QuotaAssumption
  <1> DEFINE c == Caller(r)
             today == req[r].today
  <1>1. /\ Active(r) /\ req[r].pc = "loaded"
        /\ c \in Keys /\ today \in Days /\ row[c] \in Row
        /\ granted' = granted
        /\ refused' = refused \cup {<<c, today>>}
    BY HandlerFacts DEF RefuseUsage, Active, TypeInv, TypeOK
  <1>2. CASE c \in SerialKeys
    <2>1. req[r].seen = row[c]
      BY <1>1, <1>2 DEF SerialInv, SerialAt, HandlerCurrent, WorksFor
    <2>2. row[c] # NoRow /\ row[c].date = today /\ row[c].count >= FREE_DAILY_LIMIT
      BY <2>1 DEF RefuseUsage
    <2>3. granted[c][today] = row[c].count
      BY <1>2, <2>2 DEF SerialInv, SerialAt, RowCounts
    <2>4. granted[c][today] = FREE_DAILY_LIMIT
      BY <1>1, <2>2, <2>3, RowFacts DEF CountInv, CountWithinLimit
    <2>5. {a \in refused' : a[1] \in SerialKeys}
            = {a \in refused : a[1] \in SerialKeys} \cup {<<c, today>>}
      BY <1>1, <1>2
    <2>6. PICK k \in SerialKeys, d \in Days : k = c /\ d = today
      BY <1>1, <1>2
    <2>7. SerialPromise!Refuse(k, d)
      BY <1>1, <1>2, <2>4, <2>5, <2>6 DEF SerialPromise!Refuse
    <2> QED
      BY <2>7 DEF SerialPromise!Next
  <1>3. CASE c \notin SerialKeys
    <2>1. {a \in refused' : a[1] \in SerialKeys} = {a \in refused : a[1] \in SerialKeys}
      BY <1>1, <1>3
    <2>2. [k \in SerialKeys |-> granted'[k]] = [k \in SerialKeys |-> granted[k]]
      BY <1>1
    <2>3. UNCHANGED SerialPromise!vars
      BY <2>1, <2>2 DEF SerialPromise!vars
    <2> QED
      BY <2>3
  <1> QED
    BY <1>2, <1>3

(* For clients that wait for each answer the three steps of the handler     *)
(* implement one atomic check-and-spend, whatever the other clients do.     *)
THEOREM QuotaRefinement == Spec => ImplementsPromise
  <1>1. Init => SerialPromise!Init
    BY QuotaAssumption DEF QuotaAssumption, Init, SerialPromise!Init
  <1>2. ASSUME TypeInv, CountInv, SerialInv, [Next]_vars
        PROVE  [SerialPromise!Next]_(SerialPromise!vars)
    <2>1. CASE \E r \in Requests : Serves(r)
      BY <1>2, <2>1, ServeSpends
    <2>2. CASE \E r \in Requests : RefuseUsage(r)
      BY <1>2, <2>2, RefuseRefuses
    <2>3. CASE granted' = granted /\ refused' = refused
      BY <2>3 DEF SerialPromise!vars
    <2> QED
      BY <1>2, <2>1, <2>2, <2>3
         DEF Next, Serves, vars, resolve_api_credentials, LoadUsage, InsertConflict, Midnight
  <1>3. TypeInv /\ CountInv /\ SerialInv /\ [Next]_vars
            => [SerialPromise!Next]_(SerialPromise!vars)
    BY <1>2
  <1> QED
    BY <1>1, <1>3, Inductive, PTL DEF Spec, ImplementsPromise, SerialPromise!Spec

-------------------------------------------------------------------------------
(* What holds of a pair no handler of which has met midnight, waiting or    *)
(* not: counts may fall behind the requests granted, as overlapping writes  *)
(* are lost, but never run ahead of them.                                   *)
UncrossedAt(k) ==
    /\ row[k].date <= day
    /\ row[k] # NoRow => row[k].count <= granted[k][row[k].date]
    /\ \A r \in Requests : WorksFor(r, k) =>
        /\ req[r].today = day
        /\ req[r].pc = "loaded" /\ req[r].seen # NoRow =>
            /\ req[r].seen.count <= granted[k][req[r].seen.date]
            /\ req[r].seen.date <= day
            /\ req[r].seen = row[k] \/ row[k].date = day

EarlyInv ==
    /\ \A k \in Keys \ crossed : UncrossedAt(k)
    /\ NoEarlyRefusal

(* A request is refused: by then the limit was granted. *)
LEMMA RefusedLate ==
    ASSUME TypeInv, CountInv, SerialInv, EarlyInv, NEW r \in Requests, RefuseUsage(r)
    PROVE  \/ granted[Caller(r)][req[r].today] >= FREE_DAILY_LIMIT
           \/ Caller(r) \in crossed \ SerialKeys
  <1> USE QuotaAssumption DEF QuotaAssumption
  <1>1. /\ Active(r) /\ req[r].pc = "loaded"
        /\ req[r].seen # NoRow /\ req[r].seen.date = req[r].today
        /\ req[r].seen.count >= FREE_DAILY_LIMIT
        /\ Caller(r) \in Keys /\ req[r].today \in Days /\ req[r].seen \in Row
        /\ WorksFor(r, Caller(r))
    BY HandlerFacts DEF RefuseUsage, Active, WorksFor
  <1>2. /\ req[r].seen.count \in Nat
        /\ granted[Caller(r)][req[r].today] \in Nat
    BY <1>1, RowFacts DEF TypeInv, TypeOK
  <1>3. CASE Caller(r) \in SerialKeys
    <2>1. req[r].seen = row[Caller(r)]
      BY <1>1, <1>3 DEF SerialInv, SerialAt, HandlerCurrent
    <2>2. granted[Caller(r)][req[r].today] = req[r].seen.count
      BY <1>1, <1>3, <2>1 DEF SerialInv, SerialAt, RowCounts
    <2> QED
      BY <1>1, <1>2, <2>2
  <1>4. CASE Caller(r) \notin crossed
    <2>1. req[r].seen.count <= granted[Caller(r)][req[r].today]
      BY <1>1, <1>4 DEF EarlyInv, UncrossedAt
    <2> QED
      BY <1>1, <1>2, <2>1
  <1> QED
    BY <1>3, <1>4

(* A step that leaves the row and the grants of k alone, and in which every *)
(* handler that works for k stays as it is, starts today or loads the row.  *)
LEMMA UncrossedFrame ==
    ASSUME TypeInv, NEW k \in Keys, UncrossedAt(k),
           row'[k] = row[k], granted'[k] = granted[k], day' = day,
           \A q \in Requests : WorksFor(q, k)' =>
               \/ WorksFor(q, k) /\ req'[q] = req[q]
               \/ /\ req'[q].today = day
                  /\ req'[q].pc = "loaded" => req'[q].seen = row[k]
    PROVE  UncrossedAt(k)'
  <1> SUFFICES ASSUME NEW q \in Requests, WorksFor(q, k)'
               PROVE  /\ req'[q].today = day'
                      /\ req'[q].pc = "loaded" /\ req'[q].seen # NoRow =>
                          /\ req'[q].seen.count <= granted'[k][req'[q].seen.date]
                          /\ req'[q].seen.date <= day'
                          /\ req'[q].seen = row'[k] \/ row'[k].date = day'
    BY DEF UncrossedAt
  <1>1. CASE WorksFor(q, k) /\ req'[q] = req[q]
    BY <1>1 DEF UncrossedAt
  <1>2. CASE req'[q].today = day /\ (req'[q].pc = "loaded" => req'[q].seen = row[k])
    BY <1>2 DEF UncrossedAt
  <1> QED
    BY <1>1, <1>2

(* A request of an uncrossed pair is served: the row it leaves is today's.  *)
LEMMA UncrossedServe ==
    ASSUME TypeInv, NEW r \in Requests, Serves(r),
           NEW k \in Keys, Caller(r) = k, UncrossedAt(k)
    PROVE  UncrossedAt(k)'
  <1> USE QuotaAssumption DEF QuotaAssumption
  <1> DEFINE old == row[k]
             new == row'[k]
             seen == req[r].seen
  <1>1. /\ Active(r) /\ WorksFor(r, k)
        /\ old \in Row /\ seen \in Row
        /\ day \in Days /\ day \in Nat /\ day >= 1
        /\ req[r].today = day
        /\ req[r].pc = "loaded"
    <2>1. Active(r) /\ req[r].pc = "loaded" /\ seen \in Row
      BY ServeFacts, HandlerFacts
    <2>2. WorksFor(r, k)
      BY <2>1 DEF WorksFor
    <2>3. req[r].today = day
      BY <2>2 DEF UncrossedAt
    <2>4. old \in Row /\ day \in Days
      BY DEF TypeInv, TypeOK
    <2> QED
      BY <2>1, <2>2, <2>3, <2>4 DEF Days
  <1>2. /\ old.count \in Nat /\ old.date \in Nat
        /\ seen.count \in Nat /\ seen.date \in Nat
        /\ old # NoRow => old.date \in Days
        /\ seen # NoRow => seen.date \in Days
    BY <1>1, RowFacts
  <1>3. /\ granted[k] \in [Days -> Nat] /\ granted'[k] \in [Days -> Nat]
        /\ granted'[k][day] = granted[k][day] + 1
        /\ \A d \in Days : d # day => granted'[k][d] = granted[k][d]
        /\ day' = day
    BY <1>1, ServeFacts DEF TypeInv, TypeOK
  <1>4. \A d \in Days : granted[k][d] \in Nat /\ granted[k][d] <= granted'[k][d]
    <2> TAKE d \in Days
    <2>1. granted[k][d] \in Nat
      BY <1>3
    <2>2. CASE d = day
      BY <1>3, <2>1, <2>2
    <2>3. CASE d # day
      <3>1. granted'[k][d] = granted[k][d]
        BY <1>3, <2>3
      <3> QED
        BY <2>1, <3>1
    <2> QED
      BY <2>1, <2>2, <2>3
  <1>5. new.date = day /\ new.count <= granted'[k][day]
    <2>1. CASE old = NoRow \/ seen = NoRow
      BY <1>1, <1>3, <2>1, ServedRow DEF NoRow
    <2>2. CASE old # NoRow /\ seen # NoRow
      <3>1. /\ seen.count <= granted[k][seen.date]
            /\ seen = old \/ old.date = day
            /\ old.count <= granted[k][old.date]
        BY <1>1, <2>2 DEF UncrossedAt
      <3>2. CASE /\ seen.date # day /\ new.date = day
                 /\ new.count = 1 \/ (seen.count = 1 /\ new.count = old.count)
        BY <1>1, <1>2, <1>3, <3>1, <3>2
      <3>3. CASE seen.date = day /\ new.date = old.date /\ new.count = seen.count + 1
        BY <1>1, <1>2, <1>3, <3>1, <3>3
      <3> QED
        BY <1>1, <2>2, <3>2, <3>3, ServedRow
    <2> QED
      BY <2>1, <2>2
  <1>6. ASSUME NEW q \in Requests, WorksFor(q, k)'
        PROVE  /\ req'[q].today = day'
               /\ req'[q].pc = "loaded" /\ req'[q].seen # NoRow =>
                   /\ req'[q].seen.count <= granted'[k][req'[q].seen.date]
                   /\ req'[q].seen.date <= day'
                   /\ req'[q].seen = row'[k] \/ row'[k].date = day'
    <2>1. q # r
      BY <1>6, ServeFacts DEF WorksFor, Active, Idle
    <2>2. req'[q] = req[q] /\ WorksFor(q, k)
      BY <1>6, <2>1, ServeFacts DEF WorksFor, Active, Caller
    <2>3. req[q].today = day /\ req[q].seen \in Row
      BY <2>2, HandlerFacts DEF UncrossedAt, WorksFor
    <2>4. ASSUME req[q].pc = "loaded", req[q].seen # NoRow
          PROVE  /\ req[q].seen.count <= granted'[k][req[q].seen.date]
                 /\ req[q].seen.date <= day
      <3>1. /\ req[q].seen.count <= granted[k][req[q].seen.date]
            /\ req[q].seen.date <= day
        BY <2>2, <2>4 DEF UncrossedAt
      <3>2. req[q].seen.date \in Days /\ req[q].seen.count \in Nat
        BY <2>3, <2>4, RowFacts
      <3>3. /\ granted[k][req[q].seen.date] \in Nat
            /\ granted'[k][req[q].seen.date] \in Nat
            /\ granted[k][req[q].seen.date] <= granted'[k][req[q].seen.date]
        BY <1>3, <1>4, <3>2
      <3> QED
        BY <3>1, <3>2, <3>3
    <2> QED
      BY <1>3, <1>5, <2>2, <2>3, <2>4
  <1> QED
    BY <1>1, <1>3, <1>5, <1>6 DEF UncrossedAt

LEMMA EarlyStep ==
    ASSUME TypeInv, CountInv, SerialInv, EarlyInv, [Next]_vars
    PROVE  EarlyInv'
  <1> USE QuotaAssumption DEF QuotaAssumption
  <1>1. ASSUME NEW r \in Requests, Serves(r)
        PROVE  EarlyInv'
    <2>1. ASSUME NEW k \in Keys \ crossed'
          PROVE  UncrossedAt(k)'
      <3>1. UncrossedAt(k)
        BY <1>1, <2>1, ServeFacts DEF EarlyInv
      <3>2. CASE k = Caller(r)
        BY <1>1, <3>1, <3>2, UncrossedServe
      <3>3. CASE k # Caller(r)
        <4>1. row'[k] = row[k] /\ day' = day
          BY <1>1, <3>3, ServeFacts
        <4>2. granted'[k] = granted[k]
          <5>1. granted'[k] \in [Days -> Nat] /\ granted[k] \in [Days -> Nat]
            BY <1>1, ServeFacts DEF TypeInv, TypeOK
          <5>2. \A d \in Days : granted'[k][d] = granted[k][d]
            BY <1>1, <3>3, ServeFacts
          <5> QED
            BY <5>1, <5>2
        <4>3. req'[r] = Idle /\ \A q \in Requests : q # r => req'[q] = req[q]
          BY <1>1, ServeFacts
        <4>4. \A q \in Requests : WorksFor(q, k)' => WorksFor(q, k) /\ req'[q] = req[q]
          BY <4>3 DEF WorksFor, Active, Caller, Idle
        <4> QED
          BY <3>1, <4>1, <4>2, <4>4, UncrossedFrame
      <3> QED
        BY <3>2, <3>3
    <2>2. NoEarlyRefusal'
      <3> SUFFICES ASSUME NEW a \in refused, a \notin {b \in refused : b[1] \in crossed \ SerialKeys}
                   PROVE  granted'[a[1]][a[2]] >= FREE_DAILY_LIMIT
        BY <1>1, ServeFacts DEF NoEarlyRefusal
      <3>1. granted[a[1]][a[2]] >= FREE_DAILY_LIMIT /\ a[1] \in Keys /\ a[2] \in Days
        BY DEF EarlyInv, NoEarlyRefusal, TypeInv, TypeOK
      <3>2. /\ granted[a[1]][a[2]] \in Nat
            /\ granted'[a[1]][a[2]] \in {granted[a[1]][a[2]], granted[a[1]][a[2]] + 1}
        BY <1>1, <3>1, ServeFacts DEF TypeInv, TypeOK
      <3> QED
        BY <3>1, <3>2
    <2> QED
      BY <2>1, <2>2 DEF EarlyInv
  <1>2. ASSUME NEW r \in Requests, RefuseUsage(r)
        PROVE  EarlyInv'
    <2>1. /\ req'[r] = Idle
          /\ \A q \in Requests : q # r => req'[q] = req[q]
          /\ row' = row /\ granted' = granted /\ day' = day /\ crossed' = crossed
          /\ refused' = refused \cup {<<Caller(r), req[r].today>>}
      BY <1>2 DEF RefuseUsage, TypeInv, TypeOK
    <2>2. \A k \in Keys : \A q \in Requests :
              WorksFor(q, k)' => WorksFor(q, k) /\ req'[q] = req[q]
      BY <2>1 DEF WorksFor, Active, Caller, Idle
    <2>3. \A k \in Keys \ crossed' : UncrossedAt(k)'
      BY <2>1, <2>2, UncrossedFrame DEF EarlyInv
    <2>4. NoEarlyRefusal'
      BY <1>2, <2>1, RefusedLate DEF EarlyInv, NoEarlyRefusal
    <2> QED
      BY <2>3, <2>4 DEF EarlyInv
  <1>3. ASSUME NEW r \in Requests, NEW u \in Users, NEW t \in Types,
               resolve_api_credentials(r, u, t)
        PROVE  EarlyInv'
    <2>1. /\ req'[r].pc = "today" /\ req'[r].today = day
          /\ \A q \in Requests : q # r => req'[q] = req[q]
          /\ row' = row /\ granted' = granted /\ day' = day /\ crossed' = crossed
          /\ refused' = refused
      BY <1>3 DEF resolve_api_credentials, TypeInv, TypeOK
    <2>2. \A k \in Keys : \A q \in Requests : WorksFor(q, k)' =>
              \/ WorksFor(q, k) /\ req'[q] = req[q]
              \/ req'[q].today = day /\ req'[q].pc # "loaded"
      BY <2>1 DEF WorksFor, Active, Caller
    <2>3. \A k \in Keys \ crossed' : UncrossedAt(k)'
      BY <2>1, <2>2, UncrossedFrame DEF EarlyInv
    <2> QED
      BY <2>1, <2>3 DEF EarlyInv, NoEarlyRefusal
  <1>4. ASSUME NEW r \in Requests, LoadUsage(r)
        PROVE  EarlyInv'
    <2>1. Active(r) /\ req[r].pc = "today"
      BY <1>4 DEF LoadUsage, Active
    <2>2. /\ req'[r] = [req[r] EXCEPT !.pc = "loaded", !.seen = row[Caller(r)]]
          /\ \A q \in Requests : q # r => req'[q] = req[q]
          /\ row' = row /\ granted' = granted /\ day' = day /\ crossed' = crossed
          /\ refused' = refused
      BY <1>4, <2>1, HandlerFacts DEF LoadUsage, TypeInv, TypeOK
    <2>3. /\ req'[r].seen = row[Caller(r)]
          /\ req'[r].today = req[r].today
          /\ Caller(r)' = Caller(r)
      BY <2>1, <2>2, HandlerFacts DEF Handler, Caller
    <2>4. ASSUME NEW k \in Keys \ crossed'
          PROVE  UncrossedAt(k)'
      <3>1. UncrossedAt(k)
        BY <2>2, <2>4 DEF EarlyInv
      <3>2. WorksFor(r, k)' => WorksFor(r, k) /\ req'[r].today = day /\ req'[r].seen = row[k]
        BY <2>1, <2>3, <3>1 DEF WorksFor, UncrossedAt
      <3>3. \A q \in Requests : q # r /\ WorksFor(q, k)' => WorksFor(q, k) /\ req'[q] = req[q]
        BY <2>2 DEF WorksFor, Active, Caller
      <3> QED
        BY <2>2, <3>1, <3>2, <3>3, UncrossedFrame
    <2> QED
      BY <2>2, <2>4 DEF EarlyInv, NoEarlyRefusal
  <1>5. ASSUME NEW r \in Requests, InsertConflict(r)
        PROVE  EarlyInv'
    <2>1. /\ req'[r] = Failed(Caller(r))
          /\ \A q \in Requests : q # r => req'[q] = req[q]
          /\ row' = row /\ granted' = granted /\ day' = day /\ crossed' = crossed
          /\ refused' = refused
      BY <1>5 DEF InsertConflict, TypeInv, TypeOK
    <2>2. \A k \in Keys : \A q \in Requests :
              WorksFor(q, k)' => WorksFor(q, k) /\ req'[q] = req[q]
      BY <2>1 DEF WorksFor, Active, Caller, Failed
    <2>3. \A k \in Keys \ crossed' : UncrossedAt(k)'
      BY <2>1, <2>2, UncrossedFrame DEF EarlyInv
    <2> QED
      BY <2>1, <2>3 DEF EarlyInv, NoEarlyRefusal
  <1>6. CASE Midnight
    <2>1. /\ day \in Nat /\ day' = day + 1
          /\ row' = row /\ granted' = granted /\ req' = req /\ refused' = refused
          /\ crossed' = crossed \cup {k \in Keys : \E r \in Requests : Runs(r, k[1], k[2])}
      BY <1>6 DEF Midnight, TypeInv, TypeOK, Days
    <2>2. ASSUME NEW k \in Keys \ crossed'
          PROVE  UncrossedAt(k)'
      <3>1. UncrossedAt(k) /\ row[k].date \in Nat
        BY <2>1, <2>2, RowFacts DEF EarlyInv, TypeInv, TypeOK
      <3>2. \A r \in Requests : ~WorksFor(r, k)
        BY <2>1, <2>2, HandlerFacts DEF WorksFor, Runs
      <3>3. \A r \in Requests : ~WorksFor(r, k)'
        BY <2>1, <3>2 DEF WorksFor, Active, Caller
      <3> QED
        BY <2>1, <3>1, <3>3 DEF UncrossedAt
    <2> QED
      BY <2>1, <2>2 DEF EarlyInv, NoEarlyRefusal
  <1>7. CASE UNCHANGED vars
    BY <1>7 DEF vars, EarlyInv, NoEarlyRefusal, UncrossedAt, WorksFor, Active, Caller
  <1> QED
    BY <1>1, <1>2, <1>3, <1>4, <1>5, <1>6, <1>7 DEF Next, Serves

(* No client is refused early (lines 87-88): the limit was granted on that  *)
(* date, unless overlapping requests of the client met midnight.            *)
THEOREM RefusalsAreLate == Spec => []NoEarlyRefusal
  <1>1. Init => EarlyInv
    BY QuotaAssumption DEF QuotaAssumption, Init, EarlyInv, NoEarlyRefusal, UncrossedAt,
                           WorksFor, Active, Idle, NoRow
  <1>2. TypeInv /\ CountInv /\ SerialInv /\ EarlyInv /\ [Next]_vars => EarlyInv'
    BY EarlyStep
  <1> QED
    BY <1>1, <1>2, Inductive, PTL DEF Spec, EarlyInv

-------------------------------------------------------------------------------
(* The handlers around it *)

(* Every step of the handlers is a step of the quota, or leaves it alone. *)
LEMMA StepImplements ==
    ASSUME [CNext]_allVars
    PROVE  [Next]_vars
  <1>1. CASE \E u \in Users, p \in Providers : save_api_key(u, p)
    BY <1>1 DEF save_api_key
  <1>2. CASE \E u \in Users : delete_api_key(u)
    BY <1>2 DEF delete_api_key
  <1>3. CASE \E r \in Requests, k \in Keys : StartWithOwnKey(r, k)
    BY <1>3 DEF StartWithOwnKey
  <1>4. CASE \E r \in Requests, k \in Keys : StartWithQuota(r, k)
    <2>1. PICK r \in Requests, k \in Keys : resolve_api_credentials(r, k[1], k[2])
      BY <1>4 DEF StartWithQuota
    <2>2. k[1] \in Users /\ k[2] \in Types
      BY QuotaAssumption DEF QuotaAssumption
    <2> QED
      BY <2>1, <2>2 DEF Next
  <1>5. CASE \E r \in Requests : QuotaStep(r)
    BY <1>5 DEF QuotaStep, Next
  <1>6. CASE \E r \in Requests : Retry(r)
    BY <1>6 DEF Retry
  <1>7. CASE \E r \in Requests : FallBack(r)
    BY <1>7 DEF FallBack
  <1>8. CASE \E r \in Requests : EndCall(r)
    BY <1>8 DEF EndCall
  <1>9. CASE Midnight
    BY <1>9 DEF Next
  <1>10. CASE UNCHANGED allVars
    BY <1>10 DEF allVars
  <1> QED
    BY <1>1, <1>2, <1>3, <1>4, <1>5, <1>6, <1>7, <1>8, <1>9, <1>10 DEF CNext

(* The handlers implement the quota of services/ai_access.py: neither a     *)
(* stored key nor what becomes of a call touches it.                        *)
THEOREM CallsImplementQuota == CSpec => Spec
  <1>1. CInit => Init
    BY DEF CInit
  <1>2. [CNext]_allVars => [Next]_vars
    BY StepImplements
  <1> QED
    BY <1>1, <1>2, PTL DEF CSpec, Spec

(* What holds of the quota holds with everything around it: the limit of a  *)
(* client that waits for each answer, and that no 429 comes early.          *)
THEOREM CallsKeepTheLimit ==
    CSpec => [](CountWithinLimit /\ SerialDailyLimit /\ NoEarlyRefusal)
  BY CallsImplementQuota, CountBounded, SerialLimitHolds, RefusalsAreLate, PTL

(* And they keep the promise to such a client, the abstract DailyQuota.     *)
THEOREM CallsKeepThePromise == CSpec => ImplementsPromise
  BY CallsImplementQuota, QuotaRefinement, PTL

-------------------------------------------------------------------------------
(* What the attempts of a call in hand may still ask of its model. *)
Left(c) == AsksEach(c.key[2]) - c.attempt

Waiting(r, k) == call[r] # NoCall /\ call[r].key = k
Busy(r, k) == WorksFor(r, k) \/ Waiting(r, k)

(* Of a pair k whose client waits: what was asked, with what a call in hand *)
(* may still ask, is paid by what was granted, and one handler is busy.     *)
AsksAt(k) ==
    /\ \A d \in Days : asks[k][d] <= AsksEach(k[2]) * granted[k][d]
    /\ \A r \in Requests : Waiting(r, k) /\ call[r].paid # ByUser =>
          asks[k][call[r].paid] + Left(call[r]) <= AsksEach(k[2]) * granted[k][call[r].paid]
    /\ \A q, r \in Requests : Busy(q, k) /\ Busy(r, k) => q = r

CallInv(c) ==
    \/ c = NoCall
    \/ c \in Call /\ (c.key[2] # Chat => c.attempt = 1)

CallsTyped ==
    /\ stored \in [Users -> Providers \cup {NoKey}]
    /\ DOMAIN call = Requests
    /\ asks \in [Keys -> [Days -> Nat]]
    /\ \A r \in Requests : CallInv(call[r]) /\ (call[r] # NoCall => ~Active(r))

CallsInv == CallsTyped /\ \A k \in SerialKeys : AsksAt(k)

LEMMA CallsInit == ASSUME CInit PROVE CallsInv
  <1> USE QuotaAssumption DEF QuotaAssumption
  <1>1. CallsTyped
    BY DEF CInit, Init, CallsTyped, CallInv, Active, Idle
  <1>2. ASSUME NEW k \in SerialKeys
        PROVE  AsksAt(k)
    <2>1. AsksEach(k[2]) * 0 = 0
      BY DEF AsksEach
    <2> QED
      BY <2>1 DEF CInit, Init, AsksAt, Busy, Waiting, WorksFor, Active, Idle
  <1> QED
    BY <1>1, <1>2 DEF CallsInv

LEMMA CallFacts ==
    ASSUME NEW c, CallInv(c), c # NoCall
    PROVE  /\ c \in Call
           /\ c.key \in Keys /\ c.paid \in Days \cup {ByUser} /\ c.attempt \in {1, 2}
           /\ c.fallback \in BOOLEAN
           /\ c.key[2] # Chat => c.attempt = 1
  BY DEF CallInv, Call

LEMMA FirstCallInv ==
    ASSUME NEW k \in Keys, NEW d \in Days \cup {ByUser}, NEW p \in Providers
    PROVE  /\ CallInv(FirstCall(k, d, p))
           /\ FirstCall(k, d, p) # NoCall
           /\ FirstCall(k, d, p).key = k /\ FirstCall(k, d, p).paid = d
           /\ FirstCall(k, d, p).attempt = 1
  BY DEF CallInv, FirstCall, Call, NoCall

(* Asking: what it does to the calls and to the count of what was asked. *)
LEMMA AskFacts ==
    ASSUME CallsTyped, NEW r \in Requests, NEW c, CallInv(c), c # NoCall, Ask(r, c)
    PROVE  /\ call'[r] = c /\ \A q \in Requests : q # r => call'[q] = call[q]
           /\ DOMAIN call' = Requests
           /\ asks' \in [Keys -> [Days -> Nat]]
           /\ \A k \in Keys : k # c.key \/ c.paid = ByUser => asks'[k] = asks[k]
           /\ c.paid # ByUser =>
                 /\ asks'[c.key][c.paid] = asks[c.key][c.paid] + 1
                 /\ \A d \in Days : d # c.paid => asks'[c.key][d] = asks[c.key][d]
           /\ stored' = stored
  <1>1. /\ call'[r] = c /\ \A q \in Requests : q # r => call'[q] = call[q]
        /\ DOMAIN call' = Requests /\ stored' = stored
    BY DEF Ask, CallsTyped
  <1>2. CASE c.paid = ByUser
    BY <1>1, <1>2 DEF Ask, CallsTyped
  <1>3. CASE c.paid # ByUser
    <2>1. c.key \in Keys /\ c.paid \in Days
      BY <1>3, CallFacts
    <2>2. asks' = [asks EXCEPT ![c.key] = [asks[c.key] EXCEPT ![c.paid] = asks[c.key][c.paid] + 1]]
      BY <1>3 DEF Ask
    <2>3. asks[c.key] \in [Days -> Nat] /\ asks[c.key][c.paid] \in Nat
      BY <2>1 DEF CallsTyped
    <2>4. /\ asks'[c.key] = [asks[c.key] EXCEPT ![c.paid] = asks[c.key][c.paid] + 1]
          /\ \A k \in Keys : k # c.key => asks'[k] = asks[k]
      BY <2>1, <2>2 DEF CallsTyped
    <2>5. asks' \in [Keys -> [Days -> Nat]]
      BY <2>1, <2>2, <2>3 DEF CallsTyped
    <2> QED
      BY <1>1, <1>3, <2>1, <2>3, <2>4, <2>5
  <1> QED
    BY <1>2, <1>3

(* A step that grants nothing to k, asks nothing for it, and leaves no other *)
(* call of k on the server's key and no other handler busy for it.           *)
LEMMA AsksFrame ==
    ASSUME NEW k \in SerialKeys, AsksAt(k),
           granted'[k] = granted[k], asks'[k] = asks[k],
           \A q \in Requests :
               /\ Busy(q, k)' => Busy(q, k)
               /\ Waiting(q, k)' /\ call'[q].paid # ByUser =>
                      Waiting(q, k) /\ call'[q] = call[q]
    PROVE  AsksAt(k)'
  <1>1. \A d \in Days : asks'[k][d] <= AsksEach(k[2]) * granted'[k][d]
    BY DEF AsksAt
  <1>2. ASSUME NEW r \in Requests, Waiting(r, k)', call'[r].paid # ByUser
        PROVE  asks'[k][call'[r].paid] + Left(call'[r])
                   <= AsksEach(k[2]) * granted'[k][call'[r].paid]
    BY <1>2 DEF AsksAt
  <1>3. \A q, r \in Requests : Busy(q, k)' /\ Busy(r, k)' => q = r
    BY DEF AsksAt
  <1> QED
    BY <1>1, <1>2, <1>3 DEF AsksAt

(* The request of a waiting client is served: what it may ask is paid for. *)
LEMMA AsksServe ==
    ASSUME TypeInv, CallsInv, NEW r \in Requests, Serves(r),
           NEW k \in SerialKeys, Caller(r) = k,
           Ask(r, FirstCall(k, req[r].today, ServerProvider))
    PROVE  AsksAt(k)'
  <1> USE QuotaAssumption, CallsAssumption DEF QuotaAssumption, CallsAssumption
  <1> DEFINE c == FirstCall(k, req[r].today, ServerProvider)
             d0 == req[r].today
             m == AsksEach(k[2])
  <1>1. k \in Keys /\ d0 \in Days /\ d0 # ByUser /\ Active(r)
    BY ServeFacts, HandlerFacts DEF ByUser, Days
  <1>2. CallInv(c) /\ c # NoCall /\ c.key = k /\ c.paid = d0 /\ c.attempt = 1
    BY <1>1, FirstCallInv
  <1>3. /\ call'[r] = c /\ \A q \in Requests : q # r => call'[q] = call[q]
        /\ asks' \in [Keys -> [Days -> Nat]] /\ asks \in [Keys -> [Days -> Nat]]
        /\ asks'[k][d0] = asks[k][d0] + 1
        /\ \A d \in Days : d # d0 => asks'[k][d] = asks[k][d]
    <2>1. Ask(r, c)
      OBVIOUS
    <2> HIDE DEF c
    <2> QED
      BY <1>1, <1>2, <2>1, AskFacts DEF CallsInv, CallsTyped
  <1>4. /\ granted \in [Keys -> [Days -> Nat]]
        /\ granted'[k][d0] = granted[k][d0] + 1
        /\ \A d \in Days : d # d0 => granted'[k][d] = granted[k][d]
        /\ req'[r] = Idle /\ \A q \in Requests : q # r => req'[q] = req[q]
    BY <1>1, ServeFacts DEF TypeInv, TypeOK
  <1>5. m \in {1, 2}
    BY DEF AsksEach
  <1>6. granted[k][d0] \in Nat /\ asks[k][d0] \in Nat /\ asks[k][d0] <= m * granted[k][d0]
    BY <1>1, <1>3, <1>4 DEF CallsInv, AsksAt
  <1>7. asks'[k][d0] + (m - 1) <= m * granted'[k][d0]
    <2>1. CASE m = 1
      BY <1>3, <1>4, <1>6, <2>1
    <2>2. CASE m = 2
      BY <1>3, <1>4, <1>6, <2>2
    <2> QED
      BY <1>5, <2>1, <2>2
  <1>8. \A q \in Requests : Busy(q, k)' => q = r
    <2>1. WorksFor(r, k)
      BY <1>1 DEF WorksFor
    <2>2. \A q \in Requests : q # r => ~Busy(q, k)
      BY <2>1 DEF CallsInv, AsksAt, Busy
    <2> QED
      BY <1>3, <1>4, <2>2 DEF Busy, WorksFor, Waiting, Active, Caller
  <1>9. ASSUME NEW d \in Days
        PROVE  asks'[k][d] <= m * granted'[k][d]
    <2>1. CASE d = d0
      <3>1. asks'[k][d0] \in Nat /\ m - 1 >= 0
        BY <1>1, <1>3, <1>5
      <3>2. granted'[k][d0] \in Nat
        BY <1>4, <1>6
      <3>3. CASE m = 1
        BY <1>7, <2>1, <3>1, <3>2, <3>3
      <3>4. CASE m = 2
        BY <1>7, <2>1, <3>1, <3>2, <3>4
      <3> QED
        BY <1>5, <3>3, <3>4
    <2>2. CASE d # d0
      BY <1>3, <1>4, <2>2 DEF CallsInv, AsksAt
    <2> QED
      BY <2>1, <2>2
  <1>10. ASSUME NEW q \in Requests, Waiting(q, k)'
         PROVE  asks'[k][call'[q].paid] + Left(call'[q]) <= m * granted'[k][call'[q].paid]
    <2>1. q = r /\ call'[q] = c
      BY <1>3, <1>8, <1>10 DEF Busy
    <2>2. call'[q].paid = d0 /\ Left(call'[q]) = m - 1
      <3> HIDE DEF c
      <3> QED
        BY <1>2, <2>1 DEF Left
    <2> QED
      BY <1>7, <2>2
  <1> HIDE DEF c, m
  <1> QED
    BY <1>8, <1>9, <1>10 DEF AsksAt, m

LEMMA CallsStep ==
    ASSUME CallsInv, TypeInv, [CNext]_allVars
    PROVE  CallsInv'
  <1> USE QuotaAssumption, CallsAssumption DEF QuotaAssumption, CallsAssumption
  <1>0. CallsTyped /\ granted \in [Keys -> [Days -> Nat]] /\ \A k \in SerialKeys : AsksAt(k)
    BY DEF CallsInv, TypeInv, TypeOK
  <1>1. CASE UNCHANGED <<vars, call, asks>> /\ stored' \in [Users -> Providers \cup {NoKey}]
    <2>1. CallsTyped'
      BY <1>0, <1>1 DEF vars, CallsTyped, Active
    <2>2. ASSUME NEW k \in SerialKeys
          PROVE  AsksAt(k)'
      BY <1>0, <1>1, AsksFrame DEF vars, Busy, Waiting, WorksFor, Active, Caller
    <2> QED
      BY <2>1, <2>2 DEF CallsInv
  <1>2. ASSUME NEW r \in Requests, NEW k0 \in Keys, StartWithOwnKey(r, k0)
        PROVE  CallsInv'
    <2> DEFINE c == FirstCall(k0, ByUser, stored[k0[1]])
    <2>1. stored[k0[1]] \in Providers
      BY <1>0, <1>2 DEF StartWithOwnKey, CallsTyped
    <2>2. CallInv(c) /\ c # NoCall /\ c.key = k0 /\ c.paid = ByUser
      BY <2>1, FirstCallInv
    <2>3. Ask(r, c) /\ Free(r) /\ row' = row /\ req' = req /\ granted' = granted
      BY <1>2 DEF StartWithOwnKey, vars
    <2> HIDE DEF c
    <2>4. /\ call'[r] = c /\ \A q \in Requests : q # r => call'[q] = call[q]
          /\ DOMAIN call' = Requests /\ stored' = stored
          /\ asks' \in [Keys -> [Days -> Nat]]
          /\ \A k \in Keys : asks'[k] = asks[k]
      BY <1>0, <2>2, <2>3, AskFacts
    <2>5. CallsTyped'
      BY <1>0, <2>2, <2>3, <2>4 DEF CallsTyped, Free, Active
    <2>6. ASSUME NEW k \in SerialKeys
          PROVE  AsksAt(k)'
      <3>1. CASE k # k0
        <4>1. \A q \in Requests :
                  /\ Busy(q, k)' => Busy(q, k)
                  /\ Waiting(q, k)' => Waiting(q, k) /\ call'[q] = call[q]
          BY <2>2, <2>3, <2>4, <3>1 DEF Busy, Waiting, WorksFor, Active, Caller
        <4> QED
          BY <1>0, <2>3, <2>4, <4>1, AsksFrame
      <3>2. CASE k = k0
        <4>1. \A q \in Requests : ~Busy(q, k)
          BY <1>2, <3>2 DEF StartWithOwnKey, Busy, Waiting, Waits, WorksFor, Runs, Caller
        <4>2. \A q \in Requests : Busy(q, k)' => q = r
          BY <2>3, <2>4, <4>1 DEF Busy, Waiting, WorksFor, Active, Caller
        <4>3. \A q \in Requests : Waiting(q, k)' => call'[q].paid = ByUser
          BY <2>2, <2>4, <4>2 DEF Busy
        <4>4. asks'[k] = asks[k] /\ granted'[k] = granted[k]
          BY <2>3, <2>4
        <4> QED
          BY <1>0, <4>2, <4>3, <4>4 DEF AsksAt
      <3> QED
        BY <3>1, <3>2
    <2> QED
      BY <2>5, <2>6 DEF CallsInv
  <1>3. ASSUME NEW r \in Requests, NEW k0 \in Keys, StartWithQuota(r, k0)
        PROVE  CallsInv'
    <2>1. /\ Free(r) /\ UNCHANGED callVars /\ granted' = granted
          /\ req' = [req EXCEPT ![r] = [pc |-> "today", user |-> k0[1], type |-> k0[2],
                                        today |-> day, seen |-> NoRow]]
      BY <1>3 DEF StartWithQuota, resolve_api_credentials
    <2>2. /\ call' = call /\ asks' = asks /\ stored' = stored
          /\ \A q \in Requests : q # r => req'[q] = req[q]
          /\ Caller(r)' = k0 /\ call[r] = NoCall
      <3>1. k0 = <<k0[1], k0[2]>>
        OBVIOUS
      <3> QED
        BY <2>1, <3>1 DEF callVars, Caller, Free, TypeInv, TypeOK
    <2>3. CallsTyped'
      BY <1>0, <2>2 DEF CallsTyped, Active
    <2>4. ASSUME NEW k \in SerialKeys
          PROVE  AsksAt(k)'
      <3>1. CASE k # k0
        <4>1. \A q \in Requests :
                  /\ Busy(q, k)' => Busy(q, k)
                  /\ Waiting(q, k)' => Waiting(q, k) /\ call'[q] = call[q]
          BY <2>2, <3>1 DEF Busy, Waiting, WorksFor, Active, Caller
        <4> QED
          BY <1>0, <2>1, <2>2, <4>1, AsksFrame
      <3>2. CASE k = k0
        <4>1. \A q \in Requests : ~Busy(q, k)
          BY <1>3, <3>2 DEF StartWithQuota, resolve_api_credentials, Busy, Waiting, Waits,
                            WorksFor, Runs, Caller
        <4>2. \A q \in Requests : (Busy(q, k)' => q = r) /\ ~Waiting(q, k)'
          BY <2>2, <4>1 DEF Busy, Waiting, WorksFor, Active, Caller
        <4> QED
          BY <1>0, <2>1, <2>2, <4>2 DEF AsksAt
      <3> QED
        BY <3>1, <3>2
    <2> QED
      BY <2>3, <2>4 DEF CallsInv
  <1>4. ASSUME NEW r \in Requests, QuotaStep(r)
        PROVE  CallsInv'
    <2>1. CASE (LoadUsage(r) \/ InsertConflict(r) \/ RefuseUsage(r)) /\ UNCHANGED callVars
      <3>1. call' = call /\ asks' = asks /\ stored' = stored /\ granted' = granted
        BY <2>1 DEF LoadUsage, InsertConflict, RefuseUsage, callVars
      <3>2. Active(r) /\ \A q \in Requests : q # r => req'[q] = req[q]
        BY <2>1 DEF LoadUsage, InsertConflict, RefuseUsage, Active, TypeInv, TypeOK
      <3>3. ~Active(r)' \/ Caller(r)' = Caller(r)
        <4>1. CASE LoadUsage(r)
          BY <3>2, <4>1, HandlerFacts DEF LoadUsage, Caller, Handler, TypeInv, TypeOK
        <4>2. CASE InsertConflict(r)
          BY <4>2 DEF InsertConflict, Active, Failed, TypeInv, TypeOK
        <4>3. CASE RefuseUsage(r)
          BY <4>3 DEF RefuseUsage, Active, Idle, TypeInv, TypeOK
        <4> QED
          BY <2>1, <4>1, <4>2, <4>3
      <3>4. CallsTyped'
        BY <1>0, <3>1, <3>2 DEF CallsTyped, Active
      <3>5. ASSUME NEW k \in SerialKeys
            PROVE  AsksAt(k)'
        <4>1. \A q \in Requests :
                  /\ Busy(q, k)' => Busy(q, k)
                  /\ Waiting(q, k)' => Waiting(q, k) /\ call'[q] = call[q]
          BY <3>1, <3>2, <3>3 DEF Busy, Waiting, WorksFor, Active, Caller
        <4> QED
          BY <1>0, <3>1, <4>1, AsksFrame
      <3> QED
        BY <3>4, <3>5 DEF CallsInv
    <2>2. CASE /\ InsertUsage(r) \/ RolloverUsage(r) \/ IncrementUsage(r)
               /\ Ask(r, FirstCall(Caller(r), req[r].today, ServerProvider))
      <3> DEFINE c == FirstCall(Caller(r), req[r].today, ServerProvider)
      <3>1. Serves(r) /\ Active(r)
        BY <2>2 DEF Serves, InsertUsage, RolloverUsage, IncrementUsage, Active
      <3>2. Caller(r) \in Keys /\ req[r].today \in Days /\ req[r].today # ByUser
        BY <3>1, HandlerFacts DEF TypeInv, CallersUsed, ByUser, Days
      <3>3. CallInv(c) /\ c # NoCall /\ c.key = Caller(r) /\ Ask(r, c)
        BY <2>2, <3>2, FirstCallInv
      <3> HIDE DEF c
      <3>4. /\ call'[r] = c /\ \A q \in Requests : q # r => call'[q] = call[q]
            /\ DOMAIN call' = Requests /\ stored' = stored
            /\ asks' \in [Keys -> [Days -> Nat]]
            /\ \A k \in Keys : k # Caller(r) => asks'[k] = asks[k]
        BY <1>0, <3>3, AskFacts
      <3>5. /\ req'[r] = Idle /\ \A q \in Requests : q # r => req'[q] = req[q]
            /\ ~Active(r)'
        BY <3>1, ServeFacts DEF Active, Idle
      <3>6. CallsTyped'
        BY <1>0, <3>3, <3>4, <3>5 DEF CallsTyped, Active
      <3>7. ASSUME NEW k \in SerialKeys
            PROVE  AsksAt(k)'
        <4>1. CASE k = Caller(r)
          BY <2>2, <3>1, <4>1, AsksServe
        <4>2. CASE k # Caller(r)
          <5>1. \A q \in Requests :
                    /\ Busy(q, k)' => Busy(q, k)
                    /\ Waiting(q, k)' => Waiting(q, k) /\ call'[q] = call[q]
            BY <3>3, <3>4, <3>5, <4>2 DEF Busy, Waiting, WorksFor, Active, Caller
          <5>2. granted'[k] = granted[k]
            BY <2>2, <3>2, <4>2 DEF InsertUsage, RolloverUsage, IncrementUsage, Grant,
                                    TypeInv, TypeOK
          <5> QED
            BY <1>0, <3>4, <4>2, <5>1, <5>2, AsksFrame
        <4> QED
          BY <4>1, <4>2
      <3> QED
        BY <3>6, <3>7 DEF CallsInv
    <2> QED
      BY <1>4, <2>1, <2>2 DEF QuotaStep
  <1>5. ASSUME NEW r \in Requests, Retry(r)
        PROVE  CallsInv'
    <2> DEFINE c == [call[r] EXCEPT !.attempt = 2]
    <2>1. /\ call[r] # NoCall /\ call[r].key[2] = Chat /\ call[r].attempt = 1
          /\ Ask(r, c) /\ req' = req /\ granted' = granted
      BY <1>5 DEF Retry, vars
    <2>2. CallInv(call[r]) /\ call[r] \in Call /\ ~Active(r)
      BY <1>0, <2>1, CallFacts DEF CallsTyped
    <2>3. /\ c \in Call /\ c.key = call[r].key /\ c.paid = call[r].paid /\ c.attempt = 2
          /\ c.pc = "asking"
      BY <2>2 DEF Call
    <2> HIDE DEF c
    <2>4. CallInv(c) /\ c # NoCall
      BY <2>1, <2>3 DEF CallInv, NoCall
    <2>5. /\ call'[r] = c /\ \A q \in Requests : q # r => call'[q] = call[q]
          /\ DOMAIN call' = Requests /\ stored' = stored
          /\ asks' \in [Keys -> [Days -> Nat]]
          /\ \A k \in Keys : k # c.key \/ c.paid = ByUser => asks'[k] = asks[k]
          /\ c.paid # ByUser =>
                 /\ asks'[c.key][c.paid] = asks[c.key][c.paid] + 1
                 /\ \A d \in Days : d # c.paid => asks'[c.key][d] = asks[c.key][d]
      BY <1>0, <2>1, <2>4, AskFacts
    <2>6. CallsTyped'
      BY <1>0, <2>1, <2>2, <2>4, <2>5 DEF CallsTyped, Active
    <2>7. ASSUME NEW k \in SerialKeys
          PROVE  AsksAt(k)'
      <3>1. \A q \in Requests : Busy(q, k)' => Busy(q, k)
        BY <2>1, <2>3, <2>5 DEF Busy, Waiting, WorksFor, Active, Caller
      <3>2. CASE k # c.key \/ c.paid = ByUser
        <4>1. \A q \in Requests :
                  Waiting(q, k)' /\ call'[q].paid # ByUser => Waiting(q, k) /\ call'[q] = call[q]
          BY <2>5, <3>2 DEF Waiting
        <4> QED
          BY <1>0, <2>1, <2>5, <3>1, <3>2, <4>1, AsksFrame
      <3>3. CASE k = c.key /\ c.paid # ByUser
        <4> DEFINE d0 == c.paid
        <4>1. Waiting(r, k) /\ k[2] = Chat /\ d0 \in Days /\ AsksEach(k[2]) = 2
          BY <2>1, <2>3, <3>3 DEF Waiting, Call, AsksEach
        <4>2. Left(call[r]) = 1 /\ Left(c) = 0
          BY <2>1, <2>3 DEF Left, AsksEach
        <4>3. asks[k][d0] + 1 <= 2 * granted[k][d0]
          BY <1>0, <2>3, <3>3, <4>1, <4>2 DEF AsksAt
        <4>4. asks'[k][d0] + 0 <= 2 * granted'[k][d0]
          <5>1. asks'[k][d0] = asks[k][d0] + 1 /\ asks[k][d0] \in Nat /\ granted'[k] = granted[k]
            BY <1>0, <2>1, <2>5, <3>3, <4>1 DEF CallsTyped
          <5>2. granted[k][d0] \in Nat
            BY <1>0, <4>1
          <5> QED
            BY <4>3, <5>1, <5>2
        <4>5. ASSUME NEW d \in Days
              PROVE  asks'[k][d] <= 2 * granted'[k][d]
          <5>1. CASE d = d0
            <6>1. asks'[k][d0] \in Nat
              BY <2>5, <4>1
            <6> QED
              BY <4>4, <5>1, <6>1
          <5>2. CASE d # d0
            BY <1>0, <2>1, <2>5, <3>3, <4>1, <5>2 DEF AsksAt
          <5> QED
            BY <5>1, <5>2
        <4>6. ASSUME NEW q \in Requests, Waiting(q, k)'
              PROVE  asks'[k][call'[q].paid] + Left(call'[q]) <= 2 * granted'[k][call'[q].paid]
          <5>1. Busy(q, k) /\ Busy(r, k)
            BY <3>1, <4>1, <4>6 DEF Busy
          <5>2. q = r
            BY <1>0, <5>1 DEF AsksAt
          <5> QED
            BY <2>5, <4>2, <4>4, <5>2
        <4>7. \A q, s \in Requests : Busy(q, k)' /\ Busy(s, k)' => q = s
          BY <1>0, <3>1 DEF AsksAt
        <4> QED
          BY <4>1, <4>5, <4>6, <4>7 DEF AsksAt
      <3> QED
        BY <3>2, <3>3
    <2> QED
      BY <2>6, <2>7 DEF CallsInv
  <1>6. ASSUME NEW r \in Requests, FallBack(r)
        PROVE  CallsInv'
    <2> DEFINE c == [call[r] EXCEPT !.fallback = TRUE, !.attempt = 1]
    <2>1. /\ call[r] # NoCall /\ call[r].paid = ByUser
          /\ Ask(r, c) /\ req' = req /\ granted' = granted
      BY <1>6 DEF FallBack, vars
    <2>2. call[r] \in Call /\ ~Active(r)
      BY <1>0, <2>1, CallFacts DEF CallsTyped
    <2>3. c \in Call /\ c.key = call[r].key /\ c.paid = ByUser /\ c.attempt = 1 /\ c.pc = "asking"
      <3> DEFINE x == [call[r] EXCEPT !.fallback = TRUE]
      <3>1. x \in Call
        BY <2>2 DEF Call
      <3>2. c = [x EXCEPT !.attempt = 1]
        BY <2>2 DEF Call
      <3>3. c \in Call
        <4> HIDE DEF x
        <4> QED
          BY <3>1, <3>2 DEF Call
      <3> QED
        BY <2>1, <2>2, <3>3 DEF Call
    <2> HIDE DEF c
    <2>4. CallInv(c) /\ c # NoCall
      BY <2>3 DEF CallInv, NoCall
    <2>5. /\ call'[r] = c /\ \A q \in Requests : q # r => call'[q] = call[q]
          /\ DOMAIN call' = Requests /\ stored' = stored
          /\ asks' \in [Keys -> [Days -> Nat]]
          /\ \A k \in Keys : asks'[k] = asks[k]
      BY <1>0, <2>1, <2>3, <2>4, AskFacts
    <2>6. CallsTyped'
      BY <1>0, <2>1, <2>2, <2>4, <2>5 DEF CallsTyped, Active
    <2>7. ASSUME NEW k \in SerialKeys
          PROVE  AsksAt(k)'
      <3>1. \A q \in Requests :
                /\ Busy(q, k)' => Busy(q, k)
                /\ Waiting(q, k)' /\ call'[q].paid # ByUser => Waiting(q, k) /\ call'[q] = call[q]
        BY <2>1, <2>3, <2>5 DEF Busy, Waiting, WorksFor, Active, Caller
      <3> QED
        BY <1>0, <2>1, <2>5, <3>1, AsksFrame
    <2> QED
      BY <2>6, <2>7 DEF CallsInv
  <1>7. ASSUME NEW r \in Requests, EndCall(r)
        PROVE  CallsInv'
    <2>1. /\ call' = [call EXCEPT ![r] = NoCall]
          /\ asks' = asks /\ stored' = stored /\ req' = req /\ granted' = granted
      BY <1>7 DEF EndCall, vars
    <2>2. /\ call'[r] = NoCall /\ \A q \in Requests : q # r => call'[q] = call[q]
          /\ DOMAIN call' = Requests
      BY <1>0, <2>1 DEF CallsTyped
    <2>3. CallsTyped'
      BY <1>0, <2>1, <2>2 DEF CallsTyped, CallInv, Active
    <2>4. ASSUME NEW k \in SerialKeys
          PROVE  AsksAt(k)'
      <3>1. \A q \in Requests :
                /\ Busy(q, k)' => Busy(q, k)
                /\ Waiting(q, k)' => Waiting(q, k) /\ call'[q] = call[q]
        BY <2>1, <2>2 DEF Busy, Waiting, WorksFor, Active, Caller
      <3> QED
        BY <1>0, <2>1, <3>1, AsksFrame
    <2> QED
      BY <2>3, <2>4 DEF CallsInv
  <1>8. CASE Midnight /\ UNCHANGED callVars
    <2>1. call' = call /\ asks' = asks /\ stored' = stored /\ req' = req /\ granted' = granted
      BY <1>8 DEF Midnight, callVars
    <2>2. CallsTyped'
      BY <1>0, <2>1 DEF CallsTyped, Active
    <2>3. ASSUME NEW k \in SerialKeys
          PROVE  AsksAt(k)'
      BY <1>0, <2>1, AsksFrame DEF Busy, Waiting, WorksFor, Active, Caller
    <2> QED
      BY <2>2, <2>3 DEF CallsInv
  <1>9. ASSUME NEW u \in Users, NEW p \in Providers, save_api_key(u, p)
        PROVE  CallsInv'
    BY <1>0, <1>1, <1>9 DEF save_api_key, CallsTyped
  <1>10. ASSUME NEW u \in Users, delete_api_key(u)
         PROVE  CallsInv'
    BY <1>0, <1>1, <1>10 DEF delete_api_key, CallsTyped
  <1>11. CASE UNCHANGED allVars
    BY <1>0, <1>1, <1>11 DEF allVars, callVars, vars, CallsTyped
  <1> QED
    BY <1>2, <1>3, <1>4, <1>5, <1>6, <1>7, <1>8, <1>9, <1>10, <1>11 DEF CNext

(* With what the row counts (RowCounts), what is paid for is bounded. *)
LEMMA AsksFromInv == ASSUME CallsInv, TypeInv, SerialInv PROVE ServerAsksAreCounted
  <1> USE QuotaAssumption DEF QuotaAssumption
  <1> SUFFICES ASSUME NEW k \in SerialKeys
               PROVE  /\ row[k] # NoRow =>
                            asks[k][row[k].date] <= AsksEach(k[2]) * row[k].count
                      /\ \A d \in Days : asks[k][d] <= AsksEach(k[2]) * FREE_DAILY_LIMIT
    BY DEF ServerAsksAreCounted
  <1>1. AsksAt(k) /\ RowCounts(k) /\ k \in Keys /\ AsksEach(k[2]) \in {1, 2}
    BY DEF CallsInv, SerialInv, SerialAt, AsksEach
  <1>2. ASSUME row[k] # NoRow
        PROVE  asks[k][row[k].date] <= AsksEach(k[2]) * row[k].count
    <2>1. row[k].date \in Days
      BY <1>1, <1>2 DEF TypeInv, TypeOK, Row
    <2> QED
      BY <1>1, <1>2, <2>1 DEF AsksAt, RowCounts
  <1>3. ASSUME NEW d \in Days
        PROVE  asks[k][d] <= AsksEach(k[2]) * FREE_DAILY_LIMIT
    <2>1. /\ asks[k][d] \in Nat /\ granted[k][d] \in Nat /\ FREE_DAILY_LIMIT \in Nat
          /\ granted[k][d] <= FREE_DAILY_LIMIT
          /\ asks[k][d] <= AsksEach(k[2]) * granted[k][d]
      BY <1>1 DEF CallsInv, CallsTyped, TypeInv, TypeOK, AsksAt, RowCounts
    <2>2. CASE AsksEach(k[2]) = 1
      BY <2>1, <2>2
    <2>3. CASE AsksEach(k[2]) = 2
      BY <2>1, <2>3
    <2> QED
      BY <1>1, <2>2, <2>3
  <1> QED
    BY <1>2, <1>3

(* Whatever fails, is asked again or meets a rate limit, and whatever keys   *)
(* are saved and deleted while a call runs, the usage row of a client that  *)
(* waits for each answer pays for what the server's key was asked           *)
(* (ai_access.py 55-124, nodes.py 25-33, chat.py 234-339, transcribe.py     *)
(* 154-201).                                                                *)
THEOREM ServerAsksCounted == CSpec => []ServerAsksAreCounted
  <1>1. CSpec => [](TypeInv /\ CountInv /\ SerialInv)
    BY CallsImplementQuota, Inductive, PTL
  <1>2. CInit => CallsInv
    BY CallsInit
  <1>3. CallsInv /\ TypeInv /\ [CNext]_allVars => CallsInv'
    BY CallsStep
  <1>4. CallsInv /\ TypeInv /\ SerialInv => ServerAsksAreCounted
    BY AsksFromInv
  <1> QED
    BY <1>1, <1>2, <1>3, <1>4, PTL DEF CSpec
===============================================================================
