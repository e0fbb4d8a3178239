------------------------------ MODULE AuthTokens ------------------------------
(***************************************************************************)
(* Users, their passwords and the links that are mailed to them:           *)
(* routers/auth.py and services/auth_tokens.py, on PostgreSQL at READ      *)
(* COMMITTED.                                                              *)
(*                                                                         *)
(* A link is a row of auth_tokens with a purpose.  issue_token marks the   *)
(* unused links of its user and purpose used and inserts a new one;        *)
(* consume_token locks the row it finds.  A repeated register writes the   *)
(* password first (the UPDATE of issue_token flushes it), and so holds the *)
(* row of the user while it waits for rows of auth_tokens; whoever opens a *)
(* link takes the two in the other order.  A lock is held until the        *)
(* handler commits; PostgreSQL breaks a circle by aborting one of it.      *)
(*                                                                         *)
(* A user has one Google identity here, and a link is a model value.  What *)
(* only reads (login, me), the mail itself and dev_login are left out.     *)
(***************************************************************************)
EXTENDS Naturals, FiniteSets

CONSTANTS Users, Tokens, Passwords,
          Requests,   \* the handlers that can be running at once
          Null,       \* no password
          Gone        \* no such row

ASSUME AuthAssumption == Null \notin Passwords

VARIABLES
    user,         \* [Users -> a row, or Gone]: by e-mail
    token,        \* [Tokens -> a row, or Gone]: auth_tokens
    req,          \* the running handlers
    uses,         \* history: how often a link was used
    unconfirmed,  \* history: users whose password register set, and no link since confirmed
    reissued,     \* history: users for whom two issues of a link overlapped
    overlapped    \* history: users with any two handlers at once

vars == <<user, token, req, uses, unconfirmed, reissued, overlapped>>

UserRow == [password : Passwords \cup {Null}, email_verified : BOOLEAN, google : BOOLEAN]

Purposes == {"email_verification", "password_reset"}

(* password is history: the password the user had when the link was issued. *)
TokenRow == [user : Users, purpose : Purposes, used : BOOLEAN, expired : BOOLEAN,
             password : Passwords \cup {Null}]

ASSUME RowAssumption == Gone \notin UserRow \cup TokenRow

Issues == {"register", "resend", "forgot"}
Opens  == {"verify", "reset"}

(* pc: "hash" has read the user, "retire" is about to mark the old links,   *)
(* "wait" waits for one of them, "insert" has marked them; "write" is the   *)
(* commit of the handlers that issue no link.                               *)
Idle == [pc |-> "idle", op |-> "none"]
Handler ==
    {Idle}
    \cup [pc : {"hash"}, op : {"signup"}, user : Users, password : Passwords]
    \cup [pc : {"hash", "retire", "wait", "insert"}, op : Issues, user : Users,
          password : Passwords \cup {Null}, seen : SUBSET Tokens]
    \cup [pc : {"write"}, op : Opens, user : Users, token : Tokens,
          password : Passwords \cup {Null}, verified : BOOLEAN]
    \cup [pc : {"write"}, op : {"set"}, user : Users, password : Passwords]
    \cup [pc : {"write"}, op : {"google"}, user : Users, seen : UserRow \cup {Gone}]

Active(r) == req[r].pc # "idle"
LiveUsers == {u \in Users : user[u] # Gone}
Unverified(u) == u \in LiveUsers /\ ~user[u].email_verified

HoldsUser(r, u) ==
    req[r].op = "register" /\ req[r].pc # "hash" /\ req[r].user = u
HoldsToken(r, t) ==
    \/ req[r].op \in Opens /\ req[r].token = t
    \/ req[r].op \in Issues /\ req[r].pc = "insert" /\ t \in req[r].seen

UserFree(u)  == \A q \in Requests : ~HoldsUser(q, u)
TokenFree(t) == \A q \in Requests : ~HoldsToken(q, t)

Unused(u, purpose) ==
    {t \in Tokens : token[t] # Gone /\ token[t].user = u
                    /\ token[t].purpose = purpose /\ ~token[t].used}

Init ==
    /\ user = [u \in Users |-> Gone]
    /\ token = [t \in Tokens |-> Gone]
    /\ req = [r \in Requests |-> Idle]
    /\ uses = [t \in Tokens |-> 0]
    /\ unconfirmed = {}
    /\ reissued = {}
    /\ overlapped = {}

(* A handler starts; what it overlaps with is history. *)
Begin(r, h) ==
    /\ ~Active(r)
    /\ req' = [req EXCEPT ![r] = h]
    /\ overlapped' = IF \E q \in Requests : Active(q) /\ req[q].user = h.user
                     THEN overlapped \cup {h.user} ELSE overlapped
    /\ reissued' = IF /\ h.op \in Issues
                      /\ \E q \in Requests : req[q].op \in Issues /\ req[q].user = h.user
                   THEN reissued \cup {h.user} ELSE reissued

End(r) == req' = [req EXCEPT ![r] = Idle] /\ UNCHANGED <<reissued, overlapped>>

Goto(r, pc) == req' = [req EXCEPT ![r].pc = pc] /\ UNCHANGED <<reissued, overlapped>>

-------------------------------------------------------------------------------
(* register: what it does depends on the row it SELECTs. *)
register(r, u, p) ==
    /\ user[u] # Gone => Unverified(u)
    /\ Begin(r, IF user[u] = Gone
                THEN [pc |-> "hash", op |-> "signup", user |-> u, password |-> p]
                ELSE [pc |-> "hash", op |-> "register", user |-> u, password |-> p,
                      seen |-> {}])
    /\ UNCHANGED <<user, token, uses, unconfirmed>>

(* Nobody sees the new user before the commit; 500 where the address is     *)
(* taken by then.                                                           *)
CreateUser(r, t) ==
    /\ req[r].op = "signup"
    /\ LET u == req[r].user IN
        IF user[u] # Gone THEN UNCHANGED <<user, token, unconfirmed>>
        ELSE /\ token[t] = Gone
             /\ user' = [user EXCEPT ![u] = [password |-> req[r].password,
                                             email_verified |-> FALSE, google |-> FALSE]]
             /\ token' = [token EXCEPT ![t] =
                    [user |-> u, purpose |-> "email_verification", used |-> FALSE,
                     expired |-> FALSE, password |-> req[r].password]]
             /\ unconfirmed' = unconfirmed \cup {u}
    /\ End(r)
    /\ UNCHANGED uses

(* The password of a repeated register is flushed: the row is locked. *)
FlushPassword(r) ==
    /\ req[r].op = "register" /\ req[r].pc = "hash"
    /\ UserFree(req[r].user)
    /\ Goto(r, "retire")
    /\ UNCHANGED <<user, token, uses, unconfirmed>>

resend_verification(r, u) ==
    /\ Unverified(u)
    /\ Begin(r, [pc |-> "retire", op |-> "resend", user |-> u, password |-> Null, seen |-> {}])
    /\ UNCHANGED <<user, token, uses, unconfirmed>>

forgot_password(r, u) ==
    /\ u \in LiveUsers
    /\ Begin(r, [pc |-> "retire", op |-> "forgot", user |-> u, password |-> Null, seen |-> {}])
    /\ UNCHANGED <<user, token, uses, unconfirmed>>

PurposeOf(r) == IF req[r].op = "forgot" THEN "password_reset" ELSE "email_verification"

(* Mutant: the links of both purposes are retired. *)
RetirableOfUser(r) == UNION {Unused(req[r].user, p) : p \in Purposes}

Retirable(r) == Unused(req[r].user, PurposeOf(r))

(* issue_token: the UPDATE sees the links committed when it starts, and     *)
(* waits for one that another handler holds.  (While it waits it may hold   *)
(* some of them already; here it takes them all at once.)                   *)
RetireLinks(r) ==
    /\ req[r].pc = "retire"
    /\ req' = [req EXCEPT ![r].seen = Retirable(r),
                          ![r].pc = IF \A t \in Retirable(r) : TokenFree(t)
                                    THEN "insert" ELSE "wait"]
    /\ UNCHANGED <<user, token, uses, unconfirmed, reissued, overlapped>>

(* What is used by then is left alone; what was inserted since is not seen. *)
RetireAfterWait(r) ==
    /\ req[r].pc = "wait"
    /\ \A t \in req[r].seen : TokenFree(t)
    /\ req' = [req EXCEPT ![r].seen = {t \in @ : ~token[t].used}, ![r].pc = "insert"]
    /\ UNCHANGED <<user, token, uses, unconfirmed, reissued, overlapped>>

NewLink(r, password) ==
    [user |-> req[r].user, purpose |-> PurposeOf(r), used |-> FALSE, expired |-> FALSE,
     password |-> password]

(* Mutant: the links before the new one stay good. *)
CommitIssueOnly(r, t) ==
    /\ req[r].pc = "insert"
    /\ token[t] = Gone
    /\ LET u == req[r].user
           password == IF req[r].op = "register" THEN req[r].password ELSE user[u].password IN
        /\ user' = [user EXCEPT ![u].password = password]
        /\ token' = [token EXCEPT ![t] = NewLink(r, password)]
        /\ unconfirmed' = IF req[r].op = "register" THEN unconfirmed \cup {u} ELSE unconfirmed
    /\ End(r)
    /\ UNCHANGED uses

CommitIssue(r, t) ==
    /\ req[r].pc = "insert"
    /\ token[t] = Gone
    /\ LET u == req[r].user
           password == IF req[r].op = "register" THEN req[r].password ELSE user[u].password IN
        /\ user' = [user EXCEPT ![u].password = password]
        /\ token' = [x \in Tokens |-> IF x = t THEN NewLink(r, password)
                                      ELSE IF x \in req[r].seen
                                           THEN [token[x] EXCEPT !.used = TRUE]
                                           ELSE token[x]]
        /\ unconfirmed' = IF req[r].op = "register" THEN unconfirmed \cup {u} ELSE unconfirmed
    /\ End(r)
    /\ UNCHANGED uses

-------------------------------------------------------------------------------
Usable(t) == token[t] # Gone /\ ~token[t].used /\ ~token[t].expired

Opening(op, t, p) ==
    [pc |-> "write", op |-> op, user |-> token[t].user, token |-> t, password |-> p,
     verified |-> user[token[t].user].email_verified]

(* Mutant: the row is read without FOR UPDATE. *)
ConsumeUnlocked(r, op, t, p) ==
    /\ Usable(t)
    /\ token[t].purpose = IF op = "verify" THEN "email_verification" ELSE "password_reset"
    /\ Begin(r, Opening(op, t, p))

(* consume_token: SELECT ... FOR UPDATE; the user is read after it. *)
Consume(r, op, t, p) ==
    /\ TokenFree(t)
    /\ Usable(t)
    /\ token[t].purpose = IF op = "verify" THEN "email_verification" ELSE "password_reset"
    /\ Begin(r, Opening(op, t, p))

verify_email(r, t) ==
    /\ Consume(r, "verify", t, Null)
    /\ UNCHANGED <<user, token, uses, unconfirmed>>

reset_password(r, t, p) ==
    /\ Consume(r, "reset", t, p)
    /\ UNCHANGED <<user, token, uses, unconfirmed>>

(* The row of the user is written where it changes, which waits for it. *)
WritesUser(r) ==
    req[r].pc = "write" /\ (req[r].op = "verify" => ~req[r].verified)

CommitOpen(r) ==
    /\ req[r].op \in Opens
    /\ LET u == req[r].user
           t == req[r].token IN
        /\ WritesUser(r) => UserFree(u)
        /\ user' = [user EXCEPT ![u].email_verified = TRUE,
                                ![u].password = IF req[r].op = "reset" THEN req[r].password ELSE @]
        /\ token' = [token EXCEPT ![t].used = TRUE]
        /\ uses' = [uses EXCEPT ![t] = @ + 1]
        /\ unconfirmed' = unconfirmed \ {u}
    /\ End(r)

-------------------------------------------------------------------------------
set_password(r, u, p) ==
    /\ u \in LiveUsers
    /\ user[u].email_verified
    /\ user[u].password = Null
    /\ Begin(r, [pc |-> "write", op |-> "set", user |-> u, password |-> p])
    /\ UNCHANGED <<user, token, uses, unconfirmed>>

CommitSet(r) ==
    /\ req[r].op = "set"
    /\ LET u == req[r].user IN
        /\ UserFree(u)
        /\ user' = [user EXCEPT ![u].password = req[r].password]
        /\ unconfirmed' = unconfirmed \ {u}
    /\ End(r)
    /\ UNCHANGED <<token, uses>>

google_auth(r, u) ==
    /\ Begin(r, [pc |-> "write", op |-> "google", user |-> u, seen |-> user[u]])
    /\ UNCHANGED <<user, token, uses, unconfirmed>>

(* Mutant: the password of an unverified user is kept. *)
LinkedKeepingPassword(row, seen) ==
    [row EXCEPT !.google = TRUE, !.email_verified = TRUE]

(* Lines 97-101, over the row of the time of the commit. *)
Linked(row, seen) ==
    IF seen.email_verified THEN [row EXCEPT !.google = TRUE]
    ELSE [row EXCEPT !.google = TRUE, !.email_verified = TRUE,
                     !.password = IF seen.password = Null THEN @ ELSE Null]

(* 500 where a user to be inserted is there by then. *)
CommitGoogle(r) ==
    /\ req[r].op = "google"
    /\ LET u == req[r].user
           seen == req[r].seen IN
        IF seen # Gone
        THEN /\ UserFree(u)
             /\ user' = [user EXCEPT ![u] = Linked(@, seen)]
             /\ unconfirmed' = IF user'[u].password = Null THEN unconfirmed \ {u}
                               ELSE unconfirmed
        ELSE IF user[u] # Gone THEN UNCHANGED <<user, unconfirmed>>
        ELSE /\ user' = [user EXCEPT ![u] = [password |-> Null, email_verified |-> TRUE,
                                             google |-> TRUE]]
             /\ UNCHANGED unconfirmed
    /\ End(r)
    /\ UNCHANGED <<token, uses>>

-------------------------------------------------------------------------------
(* r waits for a row that q has locked. *)
WaitsFor(r, q) ==
    \/ req[r].op = "register" /\ req[r].pc = "hash" /\ HoldsUser(q, req[r].user)
    \/ WritesUser(r) /\ HoldsUser(q, req[r].user)
    \/ req[r].pc = "wait" /\ \E t \in req[r].seen : HoldsToken(q, t)

Circle(r, q) == WaitsFor(r, q) /\ WaitsFor(q, r)

(* PostgreSQL aborts one of the two: 500. *)
DeadlockAbort(r) ==
    /\ \E q \in Requests : Circle(r, q)
    /\ End(r)
    /\ UNCHANGED <<user, token, uses, unconfirmed>>

(* A link gets older than TOKEN_LIFETIMES says. *)
Expire(t) ==
    /\ Usable(t)
    /\ token' = [token EXCEPT ![t].expired = TRUE]
    /\ UNCHANGED <<user, req, uses, unconfirmed, reissued, overlapped>>

(* The process stops: the database rolls back. *)
Restart ==
    /\ \E r \in Requests : Active(r)
    /\ req' = [r \in Requests |-> Idle]
    /\ UNCHANGED <<user, token, uses, unconfirmed, reissued, overlapped>>

Next ==
    \/ \E r \in Requests, u \in Users, p \in Passwords : register(r, u, p)
    \/ \E r \in Requests, t \in Tokens : CreateUser(r, t)
    \/ \E r \in Requests : FlushPassword(r)
    \/ \E r \in Requests, u \in Users : resend_verification(r, u)
    \/ \E r \in Requests, u \in Users : forgot_password(r, u)
    \/ \E r \in Requests : RetireLinks(r)
    \/ \E r \in Requests : RetireAfterWait(r)
    \/ \E r \in Requests, t \in Tokens : CommitIssue(r, t)
    \/ \E r \in Requests, t \in Tokens : verify_email(r, t)
    \/ \E r \in Requests, t \in Tokens, p \in Passwords : reset_password(r, t, p)
    \/ \E r \in Requests : CommitOpen(r)
    \/ \E r \in Requests, u \in Users, p \in Passwords : set_password(r, u, p)
    \/ \E r \in Requests : CommitSet(r)
    \/ \E r \in Requests, u \in Users : google_auth(r, u)
    \/ \E r \in Requests : CommitGoogle(r)
    \/ \E r \in Requests : DeadlockAbort(r)
    \/ \E t \in Tokens : Expire(t)
    \/ Restart

Spec == Init /\ [][Next]_vars

-------------------------------------------------------------------------------
TypeOK ==
    /\ user \in [Users -> UserRow \cup {Gone}]
    /\ token \in [Tokens -> TokenRow \cup {Gone}]
    /\ req \in [Requests -> Handler]
    /\ uses \in [Tokens -> Nat]
    /\ {unconfirmed, reissued, overlapped} \subseteq SUBSET Users

(* A link works once, however often it is opened at the same time (README:  *)
(* "un link de un solo uso").                                               *)
LinkWorksOnce ==
    \A t \in Tokens : uses[t] <= 1 /\ (uses[t] = 1 => token[t].used)

(* Of the links of one user and purpose at most the last one works, unless  *)
(* two of them were asked for at the same time (auth_tokens.py 26-44).      *)
OneLiveLink ==
    \A u \in LiveUsers \ reissued, p \in Purposes : Cardinality(Unused(u, p)) <= 1

(* A link that would verify an address verifies the password it was mailed  *)
(* for, not one that was registered after it.                               *)
LinkConfirmsItsPassword ==
    \A t \in Tokens :
        Usable(t) /\ token[t].purpose = "email_verification"
            /\ Unverified(token[t].user) /\ token[t].user \notin reissued
        => token[t].password = user[token[t].user].password

(* Nobody logs in with a password that was registered before the address    *)
(* was verified by Google (tests/test_google_account_linking.py:51), nor    *)
(* with any other whose link was never opened.                              *)
VerifiedPasswordIsConfirmed ==
    \A u \in LiveUsers \ overlapped : user[u].email_verified => u \notin unconfirmed

(* Handlers take users and links in different orders, yet the only circle   *)
(* is that of a repeated register with the opening of the link before it.   *)
OnlyReregisterDeadlocks ==
    \A r, q \in Requests : Circle(r, q) => {req[r].op, req[q].op} = {"register", "verify"}
===============================================================================
