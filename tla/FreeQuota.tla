------------------------------ MODULE FreeQuota -------------------------------
(***************************************************************************)
(* The free daily quota of the assistant: services/ai_access.py, with the  *)
(* agent_usage table and the stored API keys of routers/settings.py.       *)
(*                                                                         *)
(* resolve_api_credentials runs inside the chat and transcribe handlers.   *)
(* Each request has its own database session, and it gives way to other    *)
(* requests at every await, so one call is three steps: look for a stored  *)
(* key and read today's date; SELECT the usage row; write it and COMMIT.   *)
(* The write is an UPDATE of the columns that changed in memory, to values *)
(* computed from the row as it was SELECTed, with no lock and no version   *)
(* check in between.                                                       *)
(***************************************************************************)
EXTENDS Naturals, FiniteSets

CONSTANTS Users,
          Types,             \* UsageType: chat, transcribe
          Keys,              \* the <<user, type>> pairs that are used at all
          Requests,          \* the handlers that can be running at once
          SerialKeys,        \* the pairs whose client waits for each answer
          FREE_DAILY_LIMIT,
          MaxDay,            \* bound: the calendar stops at this day
          MaxGrants          \* bound: no new request once a key was granted this often

ASSUME QuotaAssumption ==
    /\ Keys \subseteq Users \X Types
    /\ SerialKeys \subseteq Keys
    /\ FREE_DAILY_LIMIT \in Nat \ {0}
    /\ MaxDay \in Nat \ {0}
    /\ MaxGrants \in Nat

VARIABLES day,      \* date.today()
          row,      \* agent_usage: [Keys -> Row], NoRow where there is none
          req,      \* the running handlers
          granted,  \* history: requests served from the shared key, by key and date
          refused,  \* history: the <<key, date>> of the 429 answers
          crossed   \* history: the keys that had a request running at midnight

vars == <<day, row, req, granted, refused, crossed>>

Days == 1 .. MaxDay

NoRow == [date |-> 0, count |-> 0]
Row   == {NoRow} \cup [date : Days, count : Nat]

(* pc is where the handler is: "today" has read the date and waits for the *)
(* SELECT, "loaded" holds the row it read, "error" answered 500.           *)
Idle == [pc |-> "idle"]
Failed(k) == [pc |-> "error", key |-> k]
Handler == [pc : {"today", "loaded"},
            user : Users, type : Types, today : Days, seen : Row]

Active(r) == req[r].pc \in {"today", "loaded"}
Runs(r, u, t) == Active(r) /\ req[r].user = u /\ req[r].type = t

Caller(r) == <<req[r].user, req[r].type>>

(* Mutant: one row for each user, whatever the type of use. *)
UsageKeyOfUser(r) == <<req[r].user, CHOOSE t \in Types : TRUE>>

(* The row of agent_usage a handler works on: its primary key is the pair. *)
UsageKey(r) == <<req[r].user, req[r].type>>

Init ==
    /\ day = 1
    /\ row = [k \in Keys |-> NoRow]
    /\ req = [r \in Requests |-> Idle]
    /\ granted = [k \in Keys |-> [d \in Days |-> 0]]
    /\ refused = {}
    /\ crossed = {}

-------------------------------------------------------------------------------
(* resolve_api_credentials up to the SELECT of the usage row, for a user    *)
(* without a stored key.  One who has a key never gets here: the request    *)
(* uses that key, or answers 400 when it cannot be decrypted, and leaves    *)
(* the usage row alone.                                                     *)
resolve_api_credentials(r, u, t) ==
    /\ ~Active(r)
    /\ <<u, t>> \in Keys
    /\ granted[<<u, t>>][day] < MaxGrants
    /\ <<u, t>> \in SerialKeys => \A q \in Requests : ~Runs(q, u, t)
    /\ req' = [req EXCEPT ![r] = [pc |-> "today", user |-> u, type |-> t,
                                  today |-> day, seen |-> NoRow]]
    /\ UNCHANGED <<day, row, granted, refused, crossed>>

(* session.get(AgentUsage, ...) *)
LoadUsage(r) ==
    /\ req[r].pc = "today"
    /\ req' = [req EXCEPT ![r].pc = "loaded", ![r].seen = row[UsageKey(r)]]
    /\ UNCHANGED <<day, row, granted, refused, crossed>>

(* The commit went through: the request goes on with the shared key. *)
Grant(r) ==
    /\ granted' = [granted EXCEPT ![Caller(r)][req[r].today] = @ + 1]
    /\ req' = [req EXCEPT ![r] = Idle]
    /\ UNCHANGED <<day, refused, crossed>>

(* The first request ever: INSERT, unless another session inserted it first. *)
InsertUsage(r) ==
    /\ req[r].pc = "loaded"
    /\ req[r].seen = NoRow
    /\ row[UsageKey(r)] = NoRow
    /\ row' = [row EXCEPT ![UsageKey(r)] = [date |-> req[r].today, count |-> 1]]
    /\ Grant(r)

(* The primary key refuses the second INSERT: an IntegrityError nothing     *)
(* catches, answered 500.                                                  *)
InsertConflict(r) ==
    /\ req[r].pc = "loaded"
    /\ req[r].seen = NoRow
    /\ row[UsageKey(r)] # NoRow
    /\ req' = [req EXCEPT ![r] = Failed(Caller(r))]
    /\ UNCHANGED <<day, row, granted, refused, crossed>>

(* Mutant: the new day sets the date only. *)
RolloverKeepsCount(r) ==
    /\ req[r].pc = "loaded"
    /\ req[r].seen # NoRow
    /\ req[r].seen.date # req[r].today
    /\ row' = [row EXCEPT ![UsageKey(r)].date = req[r].today]
    /\ Grant(r)

(* The first request of a day: the UPDATE sets date, and request_count only *)
(* where the loaded value differs from 1.                                   *)
RolloverUsage(r) ==
    /\ req[r].pc = "loaded"
    /\ req[r].seen # NoRow
    /\ req[r].seen.date # req[r].today
    /\ row' = [row EXCEPT ![UsageKey(r)] =
                   [date  |-> req[r].today,
                    count |-> IF req[r].seen.count = 1 THEN @.count ELSE 1]]
    /\ Grant(r)

(* Mutant: one request too many, > for >= in line 87. *)
IncrementOffByOne(r) ==
    /\ req[r].pc = "loaded"
    /\ req[r].seen # NoRow
    /\ req[r].seen.date = req[r].today
    /\ req[r].seen.count <= FREE_DAILY_LIMIT
    /\ row' = [row EXCEPT ![UsageKey(r)].count = req[r].seen.count + 1]
    /\ Grant(r)

(* A later request of the day: the UPDATE sets request_count to the loaded  *)
(* value plus one.                                                          *)
IncrementUsage(r) ==
    /\ req[r].pc = "loaded"
    /\ req[r].seen # NoRow
    /\ req[r].seen.date = req[r].today
    /\ req[r].seen.count < FREE_DAILY_LIMIT
    /\ row' = [row EXCEPT ![UsageKey(r)].count = req[r].seen.count + 1]
    /\ Grant(r)

(* The loaded count is at the limit: 429. *)
RefuseUsage(r) ==
    /\ req[r].pc = "loaded"
    /\ req[r].seen # NoRow
    /\ req[r].seen.date = req[r].today
    /\ req[r].seen.count >= FREE_DAILY_LIMIT
    /\ req' = [req EXCEPT ![r] = Idle]
    /\ refused' = refused \cup {<<Caller(r), req[r].today>>}
    /\ UNCHANGED <<day, row, granted, crossed>>

Midnight ==
    /\ day < MaxDay
    /\ day' = day + 1
    /\ crossed' = crossed \cup {k \in Keys : \E r \in Requests : Runs(r, k[1], k[2])}
    /\ UNCHANGED <<row, req, granted, refused>>

Next ==
    \/ \E r \in Requests, u \in Users, t \in Types : resolve_api_credentials(r, u, t)
    \/ \E r \in Requests : LoadUsage(r)
    \/ \E r \in Requests : InsertUsage(r)
    \/ \E r \in Requests : InsertConflict(r)
    \/ \E r \in Requests : RolloverUsage(r)
    \/ \E r \in Requests : IncrementUsage(r)
    \/ \E r \in Requests : RefuseUsage(r)
    \/ Midnight

Spec == Init /\ [][Next]_vars

-------------------------------------------------------------------------------
TypeOK ==
    /\ day \in Days
    /\ row \in [Keys -> Row]
    /\ req \in [Requests -> {Idle} \cup {Failed(k) : k \in Keys} \cup Handler]
    /\ granted \in [Keys -> [Days -> Nat]]
    /\ refused \subseteq Keys \X Days
    /\ crossed \subseteq Keys

(* No interleaving of reads and writes ever stores a count above the limit, *)
(* whatever the requests overlap with (_consume_free_quota, lines 87-91).   *)
CountWithinLimit == \A k \in Keys : row[k].count <= FREE_DAILY_LIMIT

(* A client that waits for each answer gets at most FREE_DAILY_LIMIT free   *)
(* requests of a type on any date, midnight included.                       *)
SerialDailyLimit ==
    \A k \in SerialKeys, d \in Days : granted[k][d] <= FREE_DAILY_LIMIT

(* What README.md:13 says, of every client: a daily limit on the free use   *)
(* of each type.  Overlapping requests of one user break it.                *)
DailyLimit ==
    \A k \in Keys, d \in Days : granted[k][d] <= FREE_DAILY_LIMIT

(* 429 is never answered early: by then the day's allowance was really      *)
(* served, even to overlapping requests, unless one was caught by midnight  *)
(* (it may then carry yesterday's count into the new day's row).            *)
NoEarlyRefusal ==
    \A a \in refused :
        \/ granted[a[1]][a[2]] >= FREE_DAILY_LIMIT
        \/ a[1] \in crossed \ SerialKeys

(* The only 500 of this code, a lost race for the first INSERT, never meets *)
(* a client that waits for each answer.                                     *)
SerialNoConflict ==
    \A r \in Requests : req[r].pc = "error" => req[r].key \notin SerialKeys

(* The row never goes back to an earlier date for such a client, so that no *)
(* day's allowance starts again (lines 81-85).                              *)
SerialDateMonotonic ==
    [][\A k \in SerialKeys : row'[k].date >= row[k].date]_vars

(* For such clients the three-step handler implements the promise.          *)
SerialPromise == INSTANCE DailyQuota
    WITH Keys    <- SerialKeys,
         Limit   <- FREE_DAILY_LIMIT,
         spent   <- [k \in SerialKeys |-> granted[k]],
         refused <- {a \in refused : a[1] \in SerialKeys}

ImplementsPromise == SerialPromise!Spec
===============================================================================
