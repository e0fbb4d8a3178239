---------------------------- MODULE AssistantCalls -----------------------------
(***************************************************************************)
(* Whose key a message or a recording is sent with, and how often: the     *)
(* handlers of routers/chat.py and routers/transcribe.py around the free   *)
(* quota, with the keys users store (routers/settings.py) and the attempts *)
(* of agent/nodes.py.                                                      *)
(*                                                                         *)
(* A user's own key is used while one is stored; otherwise the server's,   *)
(* each use of it counted by FreeQuota.  A structured answer that does not *)
(* parse is asked for once more; a rate limit on a user's own key goes to  *)
(* the fallback model once.  Every step is one of FreeQuota, or leaves the *)
(* variables of the quota alone.                                           *)
(***************************************************************************)
EXTENDS FreeQuota

CONSTANTS Providers,      \* groq, google
          ServerProvider, \* the one of GROQ_API_KEY
          WithFallback,   \* the providers a fallback model is configured for
          Chat,           \* the usage type of a message; the other is a recording
          NoKey           \* no stored key

ASSUME CallsAssumption ==
    /\ ServerProvider \in Providers
    /\ WithFallback \subseteq Providers
    /\ Chat \in Types
    /\ NoKey \notin Providers

VARIABLES stored,   \* user_api_keys: [Users -> provider, or NoKey]
          call,     \* the calls of the language model that are running
          asks      \* history: how often the model was asked with the server's
                    \* key, by key and the date it was charged to

callVars == <<stored, call, asks>>
allVars == <<vars, callVars>>

(* paid is the date whose allowance a call was charged to, ByUser on the    *)
(* user's own key.                                                          *)
ByUser == 0
NoCall == [pc |-> "none"]
Call == [pc : {"asking"}, key : Keys, paid : Days \cup {ByUser}, provider : Providers,
         fallback : BOOLEAN, attempt : {1, 2}]

CInit ==
    /\ Init
    /\ stored = [u \in Users |-> NoKey]
    /\ call = [r \in Requests |-> NoCall]
    /\ asks = [k \in Keys |-> [d \in Days |-> 0]]

-------------------------------------------------------------------------------
(* routers/settings.py *)

save_api_key(u, provider) ==
    /\ stored' = [stored EXCEPT ![u] = provider]
    /\ UNCHANGED <<vars, call, asks>>

delete_api_key(u) ==
    /\ stored' = [stored EXCEPT ![u] = NoKey]
    /\ UNCHANGED <<vars, call, asks>>

-------------------------------------------------------------------------------
Free(r) == ~Active(r) /\ call[r] = NoCall
Waits(k) == \E r \in Requests : call[r] # NoCall /\ call[r].key = k

FirstCall(k, paid, provider) ==
    [pc |-> "asking", key |-> k, paid |-> paid, provider |-> provider,
     fallback |-> FALSE, attempt |-> 1]

(* The model is asked, for the first time or again: c is the call that then *)
(* runs.                                                                    *)
Ask(r, c) ==
    /\ call' = [call EXCEPT ![r] = c]
    /\ asks' = IF c.paid = ByUser THEN asks
                                  ELSE [asks EXCEPT ![c.key][c.paid] = @ + 1]
    /\ UNCHANGED stored

(* resolve_api_credentials for a user with a stored key: no quota.  A key   *)
(* that cannot be decrypted answers 400 here.                               *)
StartWithOwnKey(r, k) ==
    /\ Free(r)
    /\ stored[k[1]] # NoKey
    /\ k \in SerialKeys => ~Waits(k) /\ \A q \in Requests : ~Runs(q, k[1], k[2])
    /\ Ask(r, FirstCall(k, ByUser, stored[k[1]]))
    /\ UNCHANGED vars

(* Without one, the request goes on to the quota. *)
StartWithQuota(r, k) ==
    /\ Free(r)
    /\ stored[k[1]] = NoKey
    /\ k \in SerialKeys => ~Waits(k)
    /\ resolve_api_credentials(r, k[1], k[2])
    /\ UNCHANGED callVars

(* The quota is committed before the model is called. *)
QuotaStep(r) ==
    \/ /\ LoadUsage(r) \/ InsertConflict(r) \/ RefuseUsage(r)
       /\ UNCHANGED callVars
    \/ /\ InsertUsage(r) \/ RolloverUsage(r) \/ IncrementUsage(r)
       /\ Ask(r, FirstCall(Caller(r), req[r].today, ServerProvider))

(* _invoke_with_retry: an answer that does not parse is asked for again.    *)
Retry(r) ==
    /\ call[r] # NoCall
    /\ call[r].key[2] = Chat
    /\ call[r].attempt = 1
    /\ Ask(r, [call[r] EXCEPT !.attempt = 2])
    /\ UNCHANGED vars

(* Mutant: the fallback model is tried whoever pays. *)
FallBackForAll(r) ==
    /\ call[r] # NoCall
    /\ call[r].key[2] = Chat
    /\ ~call[r].fallback /\ call[r].provider \in WithFallback
    /\ Ask(r, [call[r] EXCEPT !.fallback = TRUE, !.attempt = 1])
    /\ UNCHANGED vars

(* A rate limit, on either attempt: the message is sent to the fallback     *)
(* model of a user's own provider, with two attempts of its own.            *)
FallBack(r) ==
    /\ call[r] # NoCall
    /\ call[r].key[2] = Chat
    /\ call[r].paid = ByUser
    /\ ~call[r].fallback /\ call[r].provider \in WithFallback
    /\ Ask(r, [call[r] EXCEPT !.fallback = TRUE, !.attempt = 1])
    /\ UNCHANGED vars

(* The message is answered: with what the model said, the apology for an    *)
(* answer that did not parse twice, a rate limit, or an error (400, 422,    *)
(* 500).  What was counted stays counted.                                   *)
EndCall(r) ==
    /\ call[r] # NoCall
    /\ call' = [call EXCEPT ![r] = NoCall]
    /\ UNCHANGED <<vars, stored, asks>>

CNext ==
    \/ \E u \in Users, p \in Providers : save_api_key(u, p)
    \/ \E u \in Users : delete_api_key(u)
    \/ \E r \in Requests, k \in Keys : StartWithOwnKey(r, k)
    \/ \E r \in Requests, k \in Keys : StartWithQuota(r, k)
    \/ \E r \in Requests : QuotaStep(r)
    \/ \E r \in Requests : Retry(r)
    \/ \E r \in Requests : FallBack(r)
    \/ \E r \in Requests : EndCall(r)
    \/ Midnight /\ UNCHANGED callVars

CSpec == CInit /\ [][CNext]_allVars

-------------------------------------------------------------------------------
(* What one counted request may ask of the model. *)
AsksEach(type) == IF type = Chat THEN 2 ELSE 1

(* Of a client that waits for each answer, the usage row pays for all that  *)
(* was asked with the server's key on its date, twice for a message, once   *)
(* for a recording, and no date sees more than the limit pays for: through  *)
(* retries, rate limits and failures, a key saved or deleted while a call   *)
(* runs, and calls that go on past midnight, into the row of the next day.  *)
ServerAsksAreCounted ==
    \A k \in SerialKeys :
        /\ row[k] # NoRow => asks[k][row[k].date] <= AsksEach(k[2]) * row[k].count
        /\ \A d \in Days : asks[k][d] <= AsksEach(k[2]) * FREE_DAILY_LIMIT
===============================================================================
