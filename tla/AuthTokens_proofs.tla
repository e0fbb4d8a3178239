--------------------------- MODULE AuthTokens_proofs ---------------------------
(***************************************************************************)
(* Proofs about AuthTokens, for any users, links, passwords and handlers.  *)
(*                                                                         *)
(* Four inductive invariants, each on top of the first.  Rooted: what a    *)
(* handler has in hand refers to rows there are.  Locked: the locks of     *)
(* links exclude, so a link is used once.  Issued: of a user for whom no   *)
(* two issues overlapped, a handler that retires links has them all in     *)
(* hand.  Solitary: of a user with one handler at a time, what the handler *)
(* read is still so.                                                       *)
(***************************************************************************)
EXTENDS AuthTokens, FiniteSetTheorems, TLAPS

PurposeFor(op) == IF op \in {"forgot", "reset"} THEN "password_reset" ELSE "email_verification"

(* The rows a handler has in hand are there, and are what it takes them for. *)
Grounded(h, users, tokens) ==
    /\ h.op \in Issues \cup Opens \cup {"set"} => users[h.user] # Gone
    /\ h.op = "google" /\ h.seen # Gone => users[h.user] # Gone
    /\ h.op = "set" => users[h.user].email_verified
    /\ h.op \in Issues => \A t \in h.seen :
            tokens[t] # Gone /\ tokens[t].user = h.user /\ tokens[t].purpose = PurposeFor(h.op)
    /\ h.op \in Opens =>
            /\ tokens[h.token] # Gone
            /\ tokens[h.token].user = h.user
            /\ tokens[h.token].purpose = PurposeFor(h.op)

Rooted ==
    /\ TypeOK
    /\ \A t \in Tokens : token[t] # Gone => user[token[t].user] # Gone
    /\ \A r \in Requests : Grounded(req[r], user, token)

-------------------------------------------------------------------------------
UsedOnce == \A t \in Tokens : uses[t] = 0 \/ (uses[t] = 1 /\ token[t] # Gone /\ token[t].used)

(* At most one handler holds a link, and one that opens it is the first. *)
Locked ==
    /\ \A t \in Tokens : \A q, r \in Requests : HoldsToken(q, t) /\ HoldsToken(r, t) => q = r
    /\ \A r \in Requests : req[r].op \in Opens => ~token[req[r].token].used
    /\ UsedOnce

-------------------------------------------------------------------------------
Issuing(r, u) == req[r].op \in Issues /\ req[r].user = u

AtMostOne(S) == \A x, y \in S : x = y

(* The link that would verify the address of u is for the password u has.   *)
ConfirmsItsPassword(t) ==
    /\ token[t] # Gone
    /\ ~token[t].used
    /\ token[t].purpose = "email_verification"
    /\ ~user[token[t].user].email_verified
    /\ token[t].user \notin reissued
    => token[t].password = user[token[t].user].password

(* Of a user, one handler issues links, or two have marked the user. *)
OneIssuer ==
    \A u \in Users \ reissued : \A q, r \in Requests : Issuing(q, u) /\ Issuing(r, u) => q = r

(* It knows all the links it is to retire. *)
KnowsLinks(r) ==
    /\ req[r].op \in Issues
    /\ req[r].pc \in {"wait", "insert"}
    /\ req[r].user \notin reissued
    => Retirable(r) \subseteq req[r].seen

OneLive == \A u \in Users \ reissued, p \in Purposes : AtMostOne(Unused(u, p))

Issued ==
    /\ OneIssuer
    /\ \A r \in Requests : KnowsLinks(r)
    /\ OneLive
    /\ \A t \in Tokens : ConfirmsItsPassword(t)

-------------------------------------------------------------------------------
(* What a handler read of its user, where no other came between. *)
StillSo(r) ==
    Active(r) /\ req[r].user \notin overlapped =>
        /\ req[r].op = "register" => Unverified(req[r].user)
        /\ req[r].op = "google" => req[r].seen = user[req[r].user]

Solitary ==
    /\ \A q, r \in Requests :
          Active(q) /\ Active(r) /\ req[q].user = req[r].user /\ req[q].user \notin overlapped
          => q = r
    /\ \A r \in Requests : StillSo(r)
    /\ \A u \in unconfirmed : user[u] # Gone
    /\ VerifiedPasswordIsConfirmed

-------------------------------------------------------------------------------
(* Handlers *)

(* Each kind of handler is a record of its kind. *)
LEMMA HandlerKinds ==
    ASSUME NEW h \in Handler
    PROVE  /\ h.op \in {"none", "signup", "set", "google"} \cup Issues \cup Opens
           /\ h.pc = "idle" <=> h.op = "none"
           /\ h.op = "none" => h = Idle
           /\ h.op # "none" => h.user \in Users
           /\ h.op = "signup" => h.pc = "hash" /\ h.password \in Passwords
           /\ h.op \in Issues => /\ h.pc \in {"hash", "retire", "wait", "insert"}
                                 /\ h.password \in Passwords \cup {Null}
                                 /\ h.seen \subseteq Tokens
           /\ h.op \in Opens => /\ h.pc = "write"
                                /\ h.token \in Tokens
                                /\ h.password \in Passwords \cup {Null}
           /\ h.op = "set" => h.pc = "write" /\ h.password \in Passwords
           /\ h.op = "google" => h.pc = "write" /\ h.seen \in UserRow \cup {Gone}
  BY DEF Handler, Idle, Issues, Opens

(* A handler that issues a link, one step further. *)
LEMMA IssueMoves ==
    ASSUME NEW h \in Handler, h.op \in Issues, NEW pc \in {"hash", "retire", "wait", "insert"},
           NEW seen \in SUBSET Tokens
    PROVE  /\ [h EXCEPT !.pc = pc] \in Handler
           /\ [h EXCEPT !.seen = seen, !.pc = pc] \in Handler
  <1> DEFINE Issue == [pc : {"hash", "retire", "wait", "insert"}, op : Issues, user : Users,
                       password : Passwords \cup {Null}, seen : SUBSET Tokens]
  <1>1. h \in Issue
    BY DEF Handler, Idle, Issues, Opens
  <1>2. [h EXCEPT !.pc = pc] \in Issue /\ [h EXCEPT !.seen = seen, !.pc = pc] \in Issue
    BY <1>1
  <1>3. Issue \subseteq Handler
    BY DEF Handler
  <1> QED
    BY <1>2, <1>3

LEMMA BeginReq ==
    ASSUME TypeOK, NEW r \in Requests, NEW h, Begin(r, h), h \in Handler, h.op # "none"
    PROVE  /\ req' \in [Requests -> Handler]
           /\ req'[r] = h /\ \A q \in Requests \ {r} : req'[q] = req[q]
           /\ reissued \subseteq reissued' /\ overlapped \subseteq overlapped'
           /\ {reissued', overlapped'} \subseteq SUBSET Users
  <1>1. h.user \in Users
    BY HandlerKinds
  <1> QED
    BY <1>1 DEF TypeOK, Begin

LEMMA EndReq ==
    ASSUME TypeOK, NEW r \in Requests, End(r)
    PROVE  /\ req' \in [Requests -> Handler]
           /\ req'[r] = Idle /\ \A q \in Requests \ {r} : req'[q] = req[q]
           /\ UNCHANGED <<reissued, overlapped>>
  <1>1. Idle \in Handler
    BY DEF Handler
  <1> QED
    BY <1>1 DEF TypeOK, End

-------------------------------------------------------------------------------
(* Rows are never deleted, and what is used or verified stays so. *)
Grows ==
    /\ \A u \in Users : user[u] # Gone =>
            user'[u] # Gone /\ (user[u].email_verified => user'[u].email_verified)
    /\ \A t \in Tokens : token[t] # Gone =>
            /\ token'[t] # Gone
            /\ token'[t].user = token[t].user
            /\ token'[t].purpose = token[t].purpose
            /\ token[t].used => token'[t].used

RowsOK ==
    /\ user \in [Users -> UserRow \cup {Gone}]
    /\ token \in [Tokens -> TokenRow \cup {Gone}]

(* What the step leaves of the rows, and that a new link is of a user.      *)
GoodRows ==
    /\ RowsOK'
    /\ Grows
    /\ \A t \in Tokens : token[t] = Gone /\ token'[t] # Gone => user'[token'[t].user] # Gone

LEMMA SameRows == ASSUME TypeOK, UNCHANGED <<user, token>> PROVE GoodRows
  BY DEF TypeOK, GoodRows, RowsOK, Grows

(* One row of each table is written at most. *)
LEMMA WriteUser ==
    ASSUME TypeOK, NEW u \in Users, NEW row \in UserRow, user' = [user EXCEPT ![u] = row],
           user[u] # Gone /\ user[u].email_verified => row.email_verified, UNCHANGED token
    PROVE  GoodRows
  BY RowAssumption DEF TypeOK, GoodRows, RowsOK, Grows

LEMMA CreateUserRows ==
    ASSUME Rooted, NEW r \in Requests, NEW t \in Tokens, CreateUser(r, t)
    PROVE  GoodRows /\ unconfirmed' \in SUBSET Users
  <1> DEFINE u == req[r].user
             row == [password |-> req[r].password, email_verified |-> FALSE, google |-> FALSE]
             link == [user |-> u, purpose |-> "email_verification", used |-> FALSE,
                      expired |-> FALSE, password |-> req[r].password]
  <1>1. u \in Users /\ req[r].password \in Passwords /\ TypeOK
    BY HandlerKinds DEF Rooted, TypeOK, CreateUser
  <1>2. CASE UNCHANGED <<user, token, unconfirmed>>
    BY <1>1, <1>2, SameRows DEF TypeOK
  <1>3. CASE /\ user[u] = Gone /\ token[t] = Gone
             /\ user' = [user EXCEPT ![u] = row] /\ token' = [token EXCEPT ![t] = link]
             /\ unconfirmed' = unconfirmed \cup {u}
    <2>1. row \in UserRow /\ link \in TokenRow /\ link.user = u
      BY <1>1 DEF UserRow, TokenRow, Purposes
    <2>2. row # Gone /\ link # Gone
      BY <2>1, RowAssumption
    <2> HIDE DEF row, link
    <2> QED
      BY <1>1, <1>3, <2>1, <2>2 DEF TypeOK, GoodRows, RowsOK, Grows
  <1> QED
    BY <1>2, <1>3 DEF CreateUser

LEMMA CommitIssueRows ==
    ASSUME Rooted, NEW r \in Requests, NEW t \in Tokens, CommitIssue(r, t)
    PROVE  GoodRows /\ unconfirmed' \in SUBSET Users /\ req[r].op \in Issues
  <1> DEFINE u == req[r].user
             seen == req[r].seen
             password == IF req[r].op = "register" THEN req[r].password ELSE user[u].password
             row == [user[u] EXCEPT !.password = password]
             link == NewLink(r, password)
             Used(x) == [token[x] EXCEPT !.used = TRUE]
  <1>1. /\ TypeOK /\ req[r] \in Handler /\ req[r].pc = "insert" /\ token[t] = Gone
        /\ user' = [user EXCEPT ![u] = row]
        /\ token' = [x \in Tokens |-> IF x = t THEN link
                                      ELSE IF x \in seen THEN Used(x) ELSE token[x]]
    BY DEF Rooted, TypeOK, CommitIssue
  <1>2. /\ req[r].op \in Issues /\ u \in Users /\ seen \subseteq Tokens
        /\ req[r].password \in Passwords \cup {Null}
    BY <1>1, HandlerKinds
  <1>3. /\ user[u] \in UserRow /\ user[u] # Gone
        /\ \A x \in seen : token[x] \in TokenRow
    BY <1>1, <1>2 DEF Rooted, Grounded, TypeOK
  <1>4. password \in Passwords \cup {Null}
    BY <1>2, <1>3 DEF UserRow
  <1> HIDE DEF password
  <1>5. row \in UserRow /\ row.email_verified = user[u].email_verified
    BY <1>3, <1>4 DEF UserRow
  <1>6. link \in TokenRow /\ link.user = u
    BY <1>2, <1>4 DEF NewLink, TokenRow, PurposeOf, Purposes
  <1>7. \A x \in seen : /\ Used(x) \in TokenRow /\ Used(x).user = token[x].user
                        /\ Used(x).purpose = token[x].purpose /\ Used(x).used
    BY <1>3 DEF TokenRow
  <1>8. row # Gone /\ link # Gone /\ \A x \in seen : Used(x) # Gone
    BY <1>5, <1>6, <1>7, RowAssumption
  <1> HIDE DEF row, link, Used
  <1>9. RowsOK'
    BY <1>1, <1>5, <1>6, <1>7 DEF TypeOK, RowsOK
  <1>10. Grows
    <2>1. \A x \in Tokens : token[x] # Gone =>
            /\ token'[x] # Gone
            /\ token'[x].user = token[x].user
            /\ token'[x].purpose = token[x].purpose
            /\ token[x].used => token'[x].used
      BY <1>1, <1>7, <1>8
    <2>2. \A v \in Users : user[v] # Gone =>
            user'[v] # Gone /\ (user[v].email_verified => user'[v].email_verified)
      BY <1>1, <1>2, <1>5, <1>8 DEF TypeOK
    <2> QED
      BY <2>1, <2>2 DEF Grows
  <1>11. \A x \in Tokens : token[x] = Gone /\ token'[x] # Gone => user'[token'[x].user] # Gone
    <2> SUFFICES ASSUME NEW x \in Tokens, token[x] = Gone, token'[x] # Gone
                 PROVE  user'[token'[x].user] # Gone
      OBVIOUS
    <2>1. x = t
      BY <1>1, <1>2 DEF Rooted, Grounded
    <2> QED
      BY <1>1, <1>2, <1>6, <1>8, <2>1 DEF TypeOK
  <1>12. unconfirmed' \in SUBSET Users
    BY <1>1, <1>2 DEF CommitIssue, TypeOK
  <1> QED
    BY <1>2, <1>9, <1>10, <1>11, <1>12 DEF GoodRows

LEMMA CommitOpenRows ==
    ASSUME Rooted, NEW r \in Requests, CommitOpen(r)
    PROVE  /\ GoodRows /\ unconfirmed' \in SUBSET Users /\ uses' \in [Tokens -> Nat]
           /\ user'[req[r].user].email_verified
  <1> DEFINE u == req[r].user
             t == req[r].token
             password == IF req[r].op = "reset" THEN req[r].password ELSE user[u].password
             row == [user[u] EXCEPT !.email_verified = TRUE, !.password = password]
             link == [token[t] EXCEPT !.used = TRUE]
  <1>1. /\ TypeOK /\ req[r] \in Handler /\ req[r].op \in Opens
        /\ user' = [user EXCEPT ![u] = row] /\ token' = [token EXCEPT ![t] = link]
        /\ uses' = [uses EXCEPT ![t] = @ + 1] /\ unconfirmed' = unconfirmed \ {u}
    BY DEF Rooted, TypeOK, CommitOpen
  <1>2. u \in Users /\ t \in Tokens /\ req[r].password \in Passwords \cup {Null}
    BY <1>1, HandlerKinds
  <1>3. /\ user[u] \in UserRow /\ user[u] # Gone /\ token[t] \in TokenRow /\ token[t] # Gone
        /\ token[t].user = u
    BY <1>1, <1>2 DEF Rooted, Grounded, TypeOK
  <1>4. password \in Passwords \cup {Null}
    BY <1>2, <1>3 DEF UserRow
  <1> HIDE DEF password
  <1>5. row \in UserRow /\ row.email_verified
    BY <1>3, <1>4 DEF UserRow
  <1>6. /\ link \in TokenRow /\ link.user = u /\ link.used
        /\ link.purpose = token[t].purpose
    BY <1>3 DEF TokenRow
  <1>7. row # Gone /\ link # Gone
    BY <1>5, <1>6, RowAssumption
  <1> HIDE DEF row, link
  <1>8. GoodRows
    BY <1>1, <1>2, <1>3, <1>5, <1>6, <1>7 DEF TypeOK, GoodRows, RowsOK, Grows
  <1> QED
    BY <1>1, <1>2, <1>5, <1>8 DEF TypeOK

LEMMA CommitSetRows ==
    ASSUME Rooted, NEW r \in Requests, CommitSet(r)
    PROVE  GoodRows /\ unconfirmed' \in SUBSET Users
  <1> DEFINE u == req[r].user
             row == [user[u] EXCEPT !.password = req[r].password]
  <1>1. /\ TypeOK /\ req[r] \in Handler /\ req[r].op = "set" /\ UNCHANGED token
        /\ user' = [user EXCEPT ![u] = row] /\ unconfirmed' = unconfirmed \ {u}
    BY DEF Rooted, TypeOK, CommitSet
  <1>2. u \in Users /\ req[r].password \in Passwords
    BY <1>1, HandlerKinds
  <1>3. user[u] \in UserRow
    BY <1>1, <1>2 DEF Rooted, Grounded, TypeOK
  <1>4. row \in UserRow /\ row.email_verified = user[u].email_verified
    BY <1>2, <1>3 DEF UserRow
  <1> HIDE DEF row
  <1> QED
    BY <1>1, <1>2, <1>4, WriteUser DEF TypeOK

LEMMA LinkedRow ==
    ASSUME NEW row \in UserRow, NEW seen \in UserRow
    PROVE  /\ Linked(row, seen) \in UserRow
           /\ row.email_verified => Linked(row, seen).email_verified
           /\ seen.email_verified => Linked(row, seen).password = row.password
           /\ ~seen.email_verified => Linked(row, seen).email_verified
           /\ ~seen.email_verified /\ (row = seen \/ seen.password # Null) =>
                  Linked(row, seen).password = Null
  BY DEF Linked, UserRow

LEMMA CommitGoogleRows ==
    ASSUME Rooted, NEW r \in Requests, CommitGoogle(r)
    PROVE  GoodRows /\ unconfirmed' \in SUBSET Users
  <1> DEFINE u == req[r].user
             seen == req[r].seen
             row == Linked(user[u], seen)
             new == [password |-> Null, email_verified |-> TRUE, google |-> TRUE]
  <1>1. TypeOK /\ req[r] \in Handler /\ req[r].op = "google" /\ UNCHANGED token
    BY DEF Rooted, TypeOK, CommitGoogle
  <1>2. u \in Users /\ seen \in UserRow \cup {Gone}
    BY <1>1, HandlerKinds
  <1>3. CASE seen # Gone
    <2>1. /\ user' = [user EXCEPT ![u] = row]
          /\ unconfirmed' \in {unconfirmed, unconfirmed \ {u}}
      BY <1>3 DEF CommitGoogle
    <2>2. user[u] \in UserRow
      BY <1>1, <1>2, <1>3 DEF Rooted, Grounded, TypeOK
    <2>3. row \in UserRow /\ (user[u].email_verified => row.email_verified)
      BY <1>2, <1>3, <2>2, LinkedRow
    <2> HIDE DEF row
    <2> QED
      BY <1>1, <1>2, <2>1, <2>3, WriteUser DEF TypeOK
  <1>4. CASE seen = Gone /\ user[u] # Gone
    BY <1>1, <1>4, SameRows DEF CommitGoogle, TypeOK
  <1>5. CASE seen = Gone /\ user[u] = Gone
    <2>1. new \in UserRow
      BY DEF UserRow
    <2>2. user' = [user EXCEPT ![u] = new] /\ UNCHANGED unconfirmed
      BY <1>5 DEF CommitGoogle
    <2> HIDE DEF new
    <2> QED
      BY <1>1, <1>2, <1>5, <2>1, <2>2, WriteUser DEF TypeOK
  <1> QED
    BY <1>3, <1>4, <1>5

LEMMA ExpireRows ==
    ASSUME Rooted, NEW t \in Tokens, Expire(t) PROVE GoodRows
  <1> DEFINE link == [token[t] EXCEPT !.expired = TRUE]
  <1>1. /\ TypeOK /\ token[t] # Gone /\ token' = [token EXCEPT ![t] = link] /\ UNCHANGED user
    BY DEF Rooted, Expire, Usable
  <1>2. token[t] \in TokenRow
    BY <1>1 DEF TypeOK
  <1>3. /\ link \in TokenRow /\ link.user = token[t].user /\ link.purpose = token[t].purpose
        /\ link.used = token[t].used
    BY <1>2 DEF TokenRow
  <1>4. link # Gone
    BY <1>3, RowAssumption
  <1> HIDE DEF link
  <1> QED
    BY <1>1, <1>3, <1>4 DEF TypeOK, GoodRows, RowsOK, Grows

-------------------------------------------------------------------------------
(* Rooted, one step per action. *)

(* What is grounded stays so while the rows grow. *)
LEMMA StaysGrounded ==
    ASSUME Rooted, Grows, NEW h \in Handler, Grounded(h, user, token)
    PROVE  Grounded(h, user', token')
  <1>1. h.op \in Issues \cup Opens \cup {"set", "google"} => h.user \in Users
    BY HandlerKinds DEF Issues, Opens
  <1>2. /\ h.op \in Issues => h.seen \subseteq Tokens
        /\ h.op \in Opens => h.token \in Tokens
    BY HandlerKinds
  <1> QED
    BY <1>1, <1>2 DEF Grounded, Grows

(* A handler moves on, and another one or none begins. *)
LEMMA StepRooted ==
    ASSUME Rooted, GoodRows, req' \in [Requests -> Handler], uses' \in [Tokens -> Nat],
           {unconfirmed', reissued', overlapped'} \subseteq SUBSET Users,
           \A r \in Requests : req'[r] \in {req[r], Idle} \/ Grounded(req'[r], user', token')
    PROVE  Rooted'
  <1>1. TypeOK'
    BY DEF GoodRows, RowsOK, TypeOK
  <1>2. \A t \in Tokens : token'[t] # Gone => user'[token'[t].user] # Gone
    <2> SUFFICES ASSUME NEW t \in Tokens, token'[t] # Gone, token[t] # Gone
                 PROVE  user'[token'[t].user] # Gone
      BY DEF GoodRows
    <2>1. token[t].user \in Users
      BY DEF Rooted, TypeOK, TokenRow
    <2> QED
      BY <2>1 DEF Rooted, GoodRows, Grows
  <1>3. ASSUME NEW r \in Requests PROVE Grounded(req'[r], user', token')
    <2>1. Grounded(Idle, user', token')
      BY DEF Grounded, Idle, Issues, Opens
    <2>2. Grounded(req[r], user', token')
      BY StaysGrounded DEF Rooted, TypeOK, GoodRows
    <2> QED
      BY <2>1, <2>2
  <1> QED
    BY <1>1, <1>2, <1>3 DEF Rooted

(* The request begins: it writes no row. *)
LEMMA BeginRooted ==
    ASSUME Rooted, NEW r \in Requests, NEW h \in Handler, Begin(r, h), h.op # "none",
           Grounded(h, user, token), UNCHANGED <<user, token, uses, unconfirmed>>
    PROVE  Rooted'
  <1>1. TypeOK
    BY DEF Rooted
  <1>2. /\ req' \in [Requests -> Handler]
        /\ req'[r] = h /\ \A q \in Requests \ {r} : req'[q] = req[q]
        /\ {reissued', overlapped'} \subseteq SUBSET Users
    BY <1>1, BeginReq
  <1> QED
    BY <1>1, <1>2, SameRows, StepRooted DEF TypeOK

LEMMA EndRooted ==
    ASSUME Rooted, NEW r \in Requests, End(r), GoodRows, uses' \in [Tokens -> Nat],
           unconfirmed' \in SUBSET Users
    PROVE  Rooted'
  <1>1. TypeOK
    BY DEF Rooted
  <1>2. /\ req' \in [Requests -> Handler]
        /\ req'[r] = Idle /\ \A q \in Requests \ {r} : req'[q] = req[q]
        /\ UNCHANGED <<reissued, overlapped>>
    BY <1>1, EndReq
  <1> QED
    BY <1>1, <1>2, StepRooted DEF TypeOK

(* A handler that issues a link moves on. *)
LEMMA MoveRooted ==
    ASSUME Rooted, NEW r \in Requests, NEW h \in Handler, req' = [req EXCEPT ![r] = h],
           Grounded(h, user, token),
           UNCHANGED <<user, token, uses, unconfirmed, reissued, overlapped>>
    PROVE  Rooted'
  <1>1. TypeOK
    BY DEF Rooted
  <1>2. /\ req' \in [Requests -> Handler]
        /\ req'[r] = h /\ \A q \in Requests \ {r} : req'[q] = req[q]
    BY <1>1 DEF TypeOK
  <1> QED
    BY <1>1, <1>2, SameRows, StepRooted DEF TypeOK

LEMMA InitRooted == Init => Rooted
  BY DEF Init, Rooted, TypeOK, Handler, Grounded, Idle, Issues, Opens

LEMMA RegisterBegins ==
    ASSUME Rooted, NEW r \in Requests, NEW u \in Users, NEW p \in Passwords, register(r, u, p)
    PROVE  \E h \in Handler :
              /\ Begin(r, h) /\ h.op \in {"signup", "register"} /\ h.user = u /\ h.pc = "hash"
              /\ Grounded(h, user, token)
              /\ h.op = "register" => Unverified(u)
  <1> DEFINE new == [pc |-> "hash", op |-> "signup", user |-> u, password |-> p]
             again == [pc |-> "hash", op |-> "register", user |-> u, password |-> p,
                       seen |-> {}]
  <1>1. CASE user[u] = Gone
    <2>1. new \in Handler
      BY DEF Handler
    <2>2. Grounded(new, user, token)
      BY DEF Grounded, Issues, Opens
    <2>3. Begin(r, new)
      BY <1>1 DEF register
    <2>4. new.op = "signup" /\ new.user = u /\ new.pc = "hash"
      OBVIOUS
    <2> HIDE DEF new
    <2> QED
      BY <2>1, <2>2, <2>3, <2>4
  <1>2. CASE user[u] # Gone
    <2>1. again \in Handler
      BY DEF Handler, Issues
    <2>2. Grounded(again, user, token)
      BY <1>2 DEF Grounded, Issues, Opens
    <2>3. Begin(r, again) /\ Unverified(u)
      BY <1>2 DEF register
    <2>4. again.op = "register" /\ again.user = u /\ again.pc = "hash"
      OBVIOUS
    <2> HIDE DEF again
    <2> QED
      BY <2>1, <2>2, <2>3, <2>4
  <1> QED
    BY <1>1, <1>2

LEMMA AskBegins ==
    ASSUME Rooted, NEW r \in Requests, NEW u \in Users,
           resend_verification(r, u) \/ forgot_password(r, u)
    PROVE  \E h \in Handler :
              /\ Begin(r, h) /\ h.op \in {"resend", "forgot"} /\ h.user = u /\ h.pc = "retire"
              /\ Grounded(h, user, token)
  <1> DEFINE Ask(op) == [pc |-> "retire", op |-> op, user |-> u, password |-> Null, seen |-> {}]
  <1>1. PICK op \in {"resend", "forgot"} : Begin(r, Ask(op)) /\ user[u] # Gone
    BY DEF resend_verification, forgot_password, Unverified, LiveUsers
  <1>2. Ask(op) \in Handler
    BY DEF Handler, Issues
  <1>3. Grounded(Ask(op), user, token)
    BY <1>1 DEF Grounded, Issues, Opens
  <1>4. Ask(op).op = op /\ Ask(op).user = u /\ Ask(op).pc = "retire"
    OBVIOUS
  <1> HIDE DEF Ask
  <1> QED
    BY <1>1, <1>2, <1>3, <1>4

LEMMA OpenBegins ==
    ASSUME Rooted, NEW r \in Requests, NEW op \in Opens, NEW t \in Tokens,
           NEW p \in Passwords \cup {Null}, Consume(r, op, t, p)
    PROVE  LET h == Opening(op, t, p) IN
              /\ h \in Handler /\ Begin(r, h) /\ h.op = op /\ h.token = t /\ h.pc = "write"
              /\ h.user = token[t].user
              /\ Grounded(h, user, token)
  <1> DEFINE h == Opening(op, t, p)
             u == token[t].user
  <1>1. /\ token[t] # Gone /\ Begin(r, h)
        /\ token[t].purpose = IF op = "verify" THEN "email_verification" ELSE "password_reset"
    BY DEF Consume, Usable
  <1>2. token[t] \in TokenRow /\ user[u] # Gone
    BY <1>1 DEF Rooted, TypeOK
  <1>3. u \in Users /\ user[u].email_verified \in BOOLEAN
    BY <1>2 DEF Rooted, TypeOK, TokenRow, UserRow
  <1>4. h = [pc |-> "write", op |-> op, user |-> u, token |-> t, password |-> p,
             verified |-> user[u].email_verified]
    BY DEF Opening
  <1>5. h \in Handler
    BY <1>3, <1>4 DEF Handler
  <1>6. Grounded(h, user, token)
    BY <1>1, <1>2, <1>4 DEF Grounded, PurposeFor, Issues, Opens
  <1> QED
    BY <1>1, <1>4, <1>5, <1>6

LEMMA SetBegins ==
    ASSUME Rooted, NEW r \in Requests, NEW u \in Users, NEW p \in Passwords,
           set_password(r, u, p)
    PROVE  \E h \in Handler : Begin(r, h) /\ h.op = "set" /\ h.user = u /\ Grounded(h, user, token)
  <1> DEFINE h == [pc |-> "write", op |-> "set", user |-> u, password |-> p]
  <1>1. h \in Handler
    BY DEF Handler
  <1>2. Grounded(h, user, token)
    BY DEF set_password, LiveUsers, Grounded, Issues, Opens
  <1>3. Begin(r, h)
    BY DEF set_password
  <1>4. h.op = "set" /\ h.user = u
    OBVIOUS
  <1> HIDE DEF h
  <1> QED
    BY <1>1, <1>2, <1>3, <1>4

LEMMA GoogleBegins ==
    ASSUME Rooted, NEW r \in Requests, NEW u \in Users, google_auth(r, u)
    PROVE  \E h \in Handler : /\ Begin(r, h) /\ h.op = "google" /\ h.user = u
                              /\ h.seen = user[u] /\ Grounded(h, user, token)
  <1> DEFINE h == [pc |-> "write", op |-> "google", user |-> u, seen |-> user[u]]
  <1>1. h \in Handler
    BY DEF Handler, Rooted, TypeOK
  <1>2. Grounded(h, user, token)
    BY DEF Grounded, Issues, Opens
  <1>3. Begin(r, h)
    BY DEF google_auth
  <1>4. h.op = "google" /\ h.user = u /\ h.seen = user[u]
    OBVIOUS
  <1> HIDE DEF h
  <1> QED
    BY <1>1, <1>2, <1>3, <1>4

LEMMA PurposeIs ==
    ASSUME NEW r, req[r].op \in Issues PROVE PurposeOf(r) = PurposeFor(req[r].op)
  BY DEF PurposeOf, PurposeFor, Issues

(* A link in hand to be retired, and the handler with the links it found.  *)
LEMMA RetireMoves ==
    ASSUME Rooted, NEW r \in Requests, RetireLinks(r) \/ RetireAfterWait(r)
    PROVE  \E pc \in {"wait", "insert"}, seen \in SUBSET Tokens :
              LET h == [req[r] EXCEPT !.seen = seen, !.pc = pc] IN
              /\ req[r].op \in Issues /\ h \in Handler /\ req' = [req EXCEPT ![r] = h]
              /\ Grounded(h, user, token)
              /\ seen \in {Retirable(r), {t \in req[r].seen : ~token[t].used}}
              /\ req[r].pc = "retire" => seen = Retirable(r)
              /\ pc = "insert" => \A t \in seen : TokenFree(t)
  <1>0. req[r] \in Handler /\ req[r].pc \in {"retire", "wait"} /\ Grounded(req[r], user, token)
    BY DEF Rooted, TypeOK, RetireLinks, RetireAfterWait
  <1>1. req[r].op \in Issues
    BY <1>0, HandlerKinds
  <1>2. PICK pc \in {"wait", "insert"}, seen \in SUBSET Tokens :
            /\ req' = [req EXCEPT ![r] = [req[r] EXCEPT !.seen = seen, !.pc = pc]]
            /\ seen \in {Retirable(r), {t \in req[r].seen : ~token[t].used}}
            /\ req[r].pc = "retire" => seen = Retirable(r)
            /\ pc = "insert" => \A t \in seen : TokenFree(t)
    <2>1. CASE RetireLinks(r)
      <3>1. Retirable(r) \in SUBSET Tokens
        BY DEF Retirable, Unused
      <3> QED
        BY <2>1, <3>1 DEF RetireLinks
    <2>2. CASE RetireAfterWait(r)
      <3> DEFINE rest == {t \in req[r].seen : ~token[t].used}
      <3>1. rest \in SUBSET Tokens
        BY <1>0, <1>1, HandlerKinds
      <3>2. /\ req' = [req EXCEPT ![r] = [req[r] EXCEPT !.seen = rest, !.pc = "insert"]]
            /\ req[r].pc = "wait" /\ \A t \in req[r].seen : TokenFree(t)
        BY <2>2 DEF RetireAfterWait
      <3>3. \A t \in rest : TokenFree(t)
        BY <3>2
      <3> HIDE DEF rest
      <3>4. req[r].pc # "retire" /\ "insert" \in {"wait", "insert"}
        BY <3>2
      <3> QED
        BY <3>1, <3>2, <3>3, <3>4 DEF rest
    <2> QED
      BY <2>1, <2>2
  <1> DEFINE h == [req[r] EXCEPT !.seen = seen, !.pc = pc]
  <1>3. h \in Handler
    BY <1>0, <1>1, IssueMoves
  <1>4. h.op = req[r].op /\ h.user = req[r].user /\ h.seen = seen
    BY <1>0, <1>1 DEF Handler, Idle, Issues, Opens
  <1>5. \A t \in seen : /\ token[t] # Gone /\ token[t].user = req[r].user
                        /\ token[t].purpose = PurposeFor(req[r].op)
    BY <1>0, <1>1, <1>2, PurposeIs DEF Retirable, Unused, Grounded
  <1> HIDE DEF h
  <1>6. Grounded(h, user, token)
    BY <1>0, <1>1, <1>4, <1>5 DEF Grounded, Issues, Opens
  <1> QED
    BY <1>1, <1>2, <1>3, <1>6 DEF h

LEMMA FlushMoves ==
    ASSUME Rooted, NEW r \in Requests, FlushPassword(r)
    PROVE  LET h == [req[r] EXCEPT !.pc = "retire"] IN
              /\ h \in Handler /\ req' = [req EXCEPT ![r] = h] /\ Grounded(h, user, token)
              /\ req[r].op = "register" /\ h.op = "register" /\ h.user = req[r].user
              /\ h.pc = "retire"
              /\ UNCHANGED <<user, token, uses, unconfirmed, reissued, overlapped>>
  <1> DEFINE h == [req[r] EXCEPT !.pc = "retire"]
  <1>1. req[r] \in Handler /\ req[r].op = "register" /\ Grounded(req[r], user, token)
    BY DEF Rooted, TypeOK, FlushPassword
  <1>2. h \in Handler
    BY <1>1, IssueMoves DEF Issues
  <1>3. h.op = req[r].op /\ h.user = req[r].user /\ h.seen = req[r].seen /\ h.pc = "retire"
    BY <1>1 DEF Handler, Idle, Issues, Opens
  <1>4. Grounded(h, user, token)
    <2> HIDE DEF h
    <2> QED
      BY <1>1, <1>3 DEF Grounded, Issues, Opens
  <1> QED
    BY <1>1, <1>2, <1>3, <1>4 DEF FlushPassword, Goto

LEMMA NextRooted == Rooted /\ [Next]_vars => Rooted'
  <1> SUFFICES ASSUME Rooted, [Next]_vars PROVE Rooted'
    OBVIOUS
  <1>0. TypeOK
    BY DEF Rooted
  <1>1. ASSUME NEW r \in Requests, NEW u \in Users, NEW p \in Passwords, register(r, u, p)
        PROVE  Rooted'
    BY <1>1, RegisterBegins, BeginRooted DEF register
  <1>2. ASSUME NEW r \in Requests, NEW t \in Tokens, CreateUser(r, t) PROVE Rooted'
    BY <1>0, <1>2, CreateUserRows, EndRooted DEF CreateUser, TypeOK
  <1>3. ASSUME NEW r \in Requests, FlushPassword(r) PROVE Rooted'
    BY <1>3, FlushMoves, MoveRooted
  <1>4. ASSUME NEW r \in Requests, NEW u \in Users,
               resend_verification(r, u) \/ forgot_password(r, u)
        PROVE  Rooted'
    BY <1>4, AskBegins, BeginRooted DEF resend_verification, forgot_password
  <1>5. ASSUME NEW r \in Requests, RetireLinks(r) \/ RetireAfterWait(r) PROVE Rooted'
    <2>1. UNCHANGED <<user, token, uses, unconfirmed, reissued, overlapped>>
      BY <1>5 DEF RetireLinks, RetireAfterWait
    <2> QED
      BY <1>5, <2>1, RetireMoves, MoveRooted
  <1>6. ASSUME NEW r \in Requests, NEW t \in Tokens, CommitIssue(r, t) PROVE Rooted'
    BY <1>0, <1>6, CommitIssueRows, EndRooted DEF CommitIssue, TypeOK
  <1>7. ASSUME NEW r \in Requests, NEW op \in Opens, NEW t \in Tokens,
               NEW p \in Passwords \cup {Null}, Consume(r, op, t, p),
               UNCHANGED <<user, token, uses, unconfirmed>>
        PROVE  Rooted'
    <2> DEFINE h == Opening(op, t, p)
    <2>1. h \in Handler /\ Begin(r, h) /\ h.op = op /\ Grounded(h, user, token)
      BY <1>7, OpenBegins
    <2> HIDE DEF h
    <2> QED
      BY <1>7, <2>1, BeginRooted DEF Opens
  <1>8. ASSUME NEW r \in Requests, CommitOpen(r) PROVE Rooted'
    BY <1>8, CommitOpenRows, EndRooted DEF CommitOpen
  <1>9. ASSUME NEW r \in Requests, NEW u \in Users, NEW p \in Passwords, set_password(r, u, p)
        PROVE  Rooted'
    BY <1>9, SetBegins, BeginRooted DEF set_password
  <1>10. ASSUME NEW r \in Requests, CommitSet(r) PROVE Rooted'
    BY <1>0, <1>10, CommitSetRows, EndRooted DEF CommitSet, TypeOK
  <1>11. ASSUME NEW r \in Requests, NEW u \in Users, google_auth(r, u) PROVE Rooted'
    BY <1>11, GoogleBegins, BeginRooted DEF google_auth
  <1>12. ASSUME NEW r \in Requests, CommitGoogle(r) PROVE Rooted'
    BY <1>0, <1>12, CommitGoogleRows, EndRooted DEF CommitGoogle, TypeOK
  <1>13. ASSUME NEW r \in Requests, DeadlockAbort(r) PROVE Rooted'
    BY <1>0, <1>13, SameRows, EndRooted DEF DeadlockAbort, TypeOK
  <1>14. ASSUME NEW t \in Tokens, Expire(t) PROVE Rooted'
    BY <1>0, <1>14, ExpireRows, StepRooted DEF Expire, TypeOK
  <1>15. CASE Restart
    BY <1>0, <1>15, SameRows, StepRooted DEF Restart, TypeOK, Handler
  <1>16. CASE UNCHANGED vars
    BY <1>0, <1>16, SameRows, StepRooted DEF vars, TypeOK
  <1>17. \A r \in Requests, t \in Tokens :
            /\ verify_email(r, t) => Rooted'
            /\ \A p \in Passwords : reset_password(r, t, p) => Rooted'
    BY <1>7 DEF verify_email, reset_password, Opens
  <1> QED
    BY <1>1, <1>2, <1>3, <1>4, <1>5, <1>6, <1>8, <1>9, <1>10, <1>11, <1>12, <1>13, <1>14,
       <1>15, <1>16, <1>17 DEF Next

LEMMA AlwaysRooted == Spec => []Rooted
  <1> QED
    BY InitRooted, NextRooted, PTL DEF Spec

(* Users, links and handlers have the types the tables give them, and no    *)
(* handler writes to a user or link that is not there (models.py,           *)
(* routers/auth.py).                                                        *)
THEOREM TypeCorrect == Spec => []TypeOK
  <1>1. Rooted => TypeOK
    BY DEF Rooted
  <1> QED
    BY <1>1, AlwaysRooted, PTL

(* Whoever waits for whom, two handlers wait for each other only where one  *)
(* registers an address again and the other opens the link before it: the   *)
(* links to reset a password are not those a register retires.              *)
THEOREM OnlyOneCircle == Spec => []OnlyReregisterDeadlocks
  <1>1. ASSUME Rooted, NEW r \in Requests, NEW q \in Requests, Circle(r, q)
        PROVE  {req[r].op, req[q].op} = {"register", "verify"}
    <2>0. /\ req[r] \in Handler /\ req[q] \in Handler
          /\ Grounded(req[r], user, token) /\ Grounded(req[q], user, token)
      BY <1>1 DEF Rooted, TypeOK
    <2>1. ASSUME NEW x \in Requests, NEW y \in Requests, req[x] \in Handler, req[y] \in Handler,
                 Grounded(req[x], user, token), Grounded(req[y], user, token),
                 req[x].pc = "write", HoldsUser(y, req[x].user), WaitsFor(y, x)
          PROVE  req[y].op = "register" /\ req[x].op = "verify"
      <3>1. req[y].op = "register" /\ req[y].pc # "hash"
        BY <2>1 DEF HoldsUser
      <3>2. req[y].pc = "wait" /\ \E t \in req[y].seen : HoldsToken(x, t)
        BY <2>1, <3>1, HandlerKinds DEF WaitsFor, WritesUser, Issues
      <3>3. PICK t \in req[y].seen : req[x].op \in Opens /\ req[x].token = t
        BY <2>1, <3>2, HandlerKinds DEF HoldsToken
      <3>4. token[t].purpose = "email_verification" /\ token[t].purpose = PurposeFor(req[x].op)
        BY <2>1, <3>1, <3>3 DEF Grounded, PurposeFor, Issues
      <3> QED
        BY <3>1, <3>3, <3>4 DEF PurposeFor, Opens
    <2>2. CASE req[r].op = "register" /\ req[r].pc = "hash"
      BY <1>1, <2>0, <2>2, HandlerKinds
      DEF Circle, WaitsFor, WritesUser, HoldsUser, HoldsToken, Issues, Opens
    <2>3. CASE req[q].op = "register" /\ req[q].pc = "hash"
      BY <1>1, <2>0, <2>3, HandlerKinds
      DEF Circle, WaitsFor, WritesUser, HoldsUser, HoldsToken, Issues, Opens
    <2>4. CASE WritesUser(r) /\ HoldsUser(q, req[r].user)
      BY <1>1, <2>0, <2>1, <2>4 DEF Circle, WritesUser
    <2>5. CASE WritesUser(q) /\ HoldsUser(r, req[q].user)
      BY <1>1, <2>0, <2>1, <2>5 DEF Circle, WritesUser
    <2>6. CASE req[r].pc = "wait" /\ req[q].pc = "wait"
      BY <1>1, <2>0, <2>6, HandlerKinds
      DEF Circle, WaitsFor, WritesUser, HoldsToken, Issues, Opens
    <2> QED
      BY <1>1, <2>2, <2>3, <2>4, <2>5, <2>6 DEF Circle, WaitsFor
  <1>2. Rooted => OnlyReregisterDeadlocks
    BY <1>1 DEF OnlyReregisterDeadlocks
  <1> QED
    BY <1>2, AlwaysRooted, PTL

-------------------------------------------------------------------------------
(* Locked *)

LEMMA StillUsedOnce == ASSUME Rooted, Locked, Grows, UNCHANGED uses PROVE UsedOnce'
  BY DEF Locked, UsedOnce, Grows

(* Handlers only give up links, and those that open one find it unused.     *)
LEMMA KeptLocked ==
    ASSUME Rooted, Locked, UsedOnce',
           \A q \in Requests : req'[q] = req[q] \/ \A t \in Tokens : ~HoldsToken(q, t)',
           \A q \in Requests : req'[q].op \in Opens =>
                req'[q] = req[q] /\ token'[req[q].token].used = token[req[q].token].used
    PROVE  Locked'
  <1>1. \A t \in Tokens, q \in Requests : HoldsToken(q, t)' => HoldsToken(q, t)
    BY DEF HoldsToken
  <1>2. \A t \in Tokens : \A q, r \in Requests : HoldsToken(q, t)' /\ HoldsToken(r, t)' => q = r
    BY <1>1 DEF Locked
  <1>3. \A q \in Requests : req'[q].op \in Opens => ~token'[req'[q].token].used
    BY DEF Locked
  <1> QED
    BY <1>2, <1>3 DEF Locked, UsedOnce

(* A request begins that holds no link. *)
LEMMA BeginLocked ==
    ASSUME Rooted, Locked, NEW r \in Requests, NEW h \in Handler, Begin(r, h), h.op # "none",
           h.op \notin Opens, h.pc # "insert", UNCHANGED <<user, token, uses>>
    PROVE  Locked'
  <1>1. TypeOK
    BY DEF Rooted
  <1>2. req'[r] = h /\ \A q \in Requests \ {r} : req'[q] = req[q]
    BY <1>1, BeginReq
  <1>3. UsedOnce'
    BY DEF Locked, UsedOnce
  <1>4. \A t \in Tokens : ~HoldsToken(r, t)'
    BY <1>2 DEF HoldsToken
  <1> QED
    BY <1>2, <1>3, <1>4, KeptLocked

(* A handler ends that used no link of another. *)
LEMMA EndLocked ==
    ASSUME Rooted, Locked, NEW r \in Requests, End(r), UsedOnce',
           \A q \in Requests \ {r} : req[q].op \in Opens =>
                token'[req[q].token].used = token[req[q].token].used
    PROVE  Locked'
  <1>1. TypeOK
    BY DEF Rooted
  <1>2. req'[r] = Idle /\ \A q \in Requests \ {r} : req'[q] = req[q]
    BY <1>1, EndReq
  <1>3. \A t \in Tokens : ~HoldsToken(r, t)'
    BY <1>2 DEF HoldsToken, Idle, Issues, Opens
  <1>4. req'[r].op \notin Opens
    BY <1>2 DEF Idle, Opens
  <1> QED
    BY <1>2, <1>3, <1>4, KeptLocked

(* What a handler that opens a link has in hand is a link. *)
LEMMA OpensLinks ==
    ASSUME Rooted, NEW q \in Requests, req[q].op \in Opens
    PROVE  req[q].token \in Tokens /\ token[req[q].token] # Gone
  BY HandlerKinds DEF Rooted, TypeOK, Grounded

(* A handler takes links that are free. *)
LEMMA TakesLocked ==
    ASSUME Rooted, Locked, NEW r \in Requests, UNCHANGED <<token, uses>>,
           \A q \in Requests \ {r} : req'[q] = req[q],
           \A t \in Tokens : HoldsToken(r, t)' => TokenFree(t),
           req'[r].op \in Opens => ~token[req'[r].token].used
    PROVE  Locked'
  <1>1. \A t \in Tokens, q \in Requests \ {r} : HoldsToken(q, t)' => HoldsToken(q, t)
    BY DEF HoldsToken
  <1>2. \A t \in Tokens : \A q \in Requests \ {r} : ~(HoldsToken(q, t)' /\ HoldsToken(r, t)')
    BY <1>1 DEF TokenFree
  <1>3. \A t \in Tokens : \A p, q \in Requests : HoldsToken(p, t)' /\ HoldsToken(q, t)' => p = q
    BY <1>1, <1>2 DEF Locked
  <1>4. \A q \in Requests : req'[q].op \in Opens => ~token'[req'[q].token].used
    BY DEF Locked
  <1> QED
    BY <1>3, <1>4 DEF Locked, UsedOnce

LEMMA InitLocked == Init => Locked
  BY DEF Init, Locked, UsedOnce, HoldsToken, Idle, Issues, Opens

LEMMA NextLocked == Rooted /\ Locked /\ [Next]_vars => Locked'
  <1> SUFFICES ASSUME Rooted, Locked, [Next]_vars PROVE Locked'
    OBVIOUS
  <1>0. TypeOK
    BY DEF Rooted
  <1>1. ASSUME NEW r \in Requests, NEW u \in Users, NEW p \in Passwords, register(r, u, p)
        PROVE  Locked'
    BY <1>1, RegisterBegins, BeginLocked DEF register, Opens
  <1>2. ASSUME NEW r \in Requests, NEW t \in Tokens, CreateUser(r, t) PROVE Locked'
    <2>1. End(r) /\ \A x \in Tokens : token[x] # Gone => token'[x].used = token[x].used
      <3>1. CASE UNCHANGED token
        BY <1>2, <3>1 DEF CreateUser
      <3>2. CASE token[t] = Gone /\ \E link : token' = [token EXCEPT ![t] = link]
        BY <1>0, <1>2, <3>2 DEF CreateUser, TypeOK
      <3> QED
        BY <1>2, <3>1, <3>2 DEF CreateUser
    <2>2. UsedOnce'
      BY <1>2, CreateUserRows, StillUsedOnce DEF CreateUser, GoodRows
    <2> QED
      BY <2>1, <2>2, OpensLinks, EndLocked
  <1>3. ASSUME NEW r \in Requests, FlushPassword(r) PROVE Locked'
    <2> DEFINE h == [req[r] EXCEPT !.pc = "retire"]
    <2>1. /\ h.op = "register" /\ h.pc = "retire" /\ req' = [req EXCEPT ![r] = h]
          /\ UNCHANGED <<token, uses>>
      BY <1>3, FlushMoves
    <2> HIDE DEF h
    <2>2. req'[r] = h /\ \A q \in Requests \ {r} : req'[q] = req[q]
      BY <1>0, <2>1 DEF TypeOK
    <2> QED
      BY <2>1, <2>2, TakesLocked DEF HoldsToken, Opens
  <1>4. ASSUME NEW r \in Requests, NEW u \in Users,
               resend_verification(r, u) \/ forgot_password(r, u)
        PROVE  Locked'
    BY <1>4, AskBegins, BeginLocked DEF resend_verification, forgot_password, Opens
  <1>5. ASSUME NEW r \in Requests, RetireLinks(r) \/ RetireAfterWait(r) PROVE Locked'
    <2>1. PICK pc \in {"wait", "insert"}, seen \in SUBSET Tokens :
            LET h == [req[r] EXCEPT !.seen = seen, !.pc = pc] IN
            /\ req[r].op \in Issues /\ h \in Handler /\ req' = [req EXCEPT ![r] = h]
            /\ pc = "insert" => \A t \in seen : TokenFree(t)
      BY <1>5, RetireMoves
    <2> DEFINE h == [req[r] EXCEPT !.seen = seen, !.pc = pc]
    <2>2. h.op = req[r].op /\ h.seen = seen /\ h.pc = pc
      <3>1. req[r] \in Handler
        BY <1>0 DEF TypeOK
      <3> QED
        BY <2>1, <3>1 DEF Handler, Idle, Issues, Opens
    <2> HIDE DEF h
    <2>3. req'[r] = h /\ \A q \in Requests \ {r} : req'[q] = req[q]
      BY <1>0, <2>1 DEF TypeOK, h
    <2>4. \A t \in Tokens : HoldsToken(r, t)' => TokenFree(t)
      BY <2>1, <2>2, <2>3 DEF HoldsToken, Issues, Opens
    <2>5. req'[r].op \notin Opens /\ UNCHANGED <<token, uses>>
      BY <1>5, <2>1, <2>2, <2>3 DEF Issues, Opens, RetireLinks, RetireAfterWait
    <2> QED
      BY <2>3, <2>4, <2>5, TakesLocked
  <1>6. ASSUME NEW r \in Requests, NEW t \in Tokens, CommitIssue(r, t) PROVE Locked'
    <2>1. /\ End(r) /\ req[r].pc = "insert" /\ token[t] = Gone /\ UNCHANGED uses
          /\ \A x \in Tokens \ {t} : x \notin req[r].seen => token'[x] = token[x]
      BY <1>6 DEF CommitIssue
    <2>2. req[r].op \in Issues /\ GoodRows
      BY <1>6, CommitIssueRows
    <2>3. UsedOnce'
      BY <2>1, <2>2, StillUsedOnce DEF GoodRows
    <2>4. ASSUME NEW q \in Requests \ {r}, req[q].op \in Opens
          PROVE  token'[req[q].token] = token[req[q].token]
      <3>1. req[q].token \in Tokens \ {t}
        BY <2>1, <2>4, OpensLinks
      <3>2. HoldsToken(q, req[q].token)
        BY <2>4 DEF HoldsToken
      <3>3. req[q].token \notin req[r].seen
        BY <2>1, <2>2, <3>1, <3>2 DEF Locked, HoldsToken
      <3> QED
        BY <2>1, <3>1, <3>3
    <2> QED
      BY <2>1, <2>3, <2>4, EndLocked
  <1>7. ASSUME NEW r \in Requests, NEW op \in Opens, NEW t \in Tokens,
               NEW p \in Passwords \cup {Null}, Consume(r, op, t, p),
               UNCHANGED <<user, token, uses, unconfirmed>>
        PROVE  Locked'
    <2> DEFINE h == Opening(op, t, p)
    <2>1. h \in Handler /\ Begin(r, h) /\ h.op = op /\ h.token = t /\ h.pc = "write"
      BY <1>7, OpenBegins
    <2> HIDE DEF h
    <2>2. req'[r] = h /\ \A q \in Requests \ {r} : req'[q] = req[q]
      BY <1>0, <2>1, BeginReq DEF Opens
    <2>3. TokenFree(t) /\ ~token[t].used
      BY <1>7 DEF Consume, Usable
    <2>4. \A x \in Tokens : HoldsToken(r, x)' => x = t
      BY <2>1, <2>2 DEF HoldsToken, Issues, Opens
    <2> QED
      BY <1>7, <2>1, <2>2, <2>3, <2>4, TakesLocked
  <1>8. ASSUME NEW r \in Requests, CommitOpen(r) PROVE Locked'
    <2> DEFINE t == req[r].token
    <2>1. /\ End(r) /\ req[r].op \in Opens
          /\ token' = [token EXCEPT ![t].used = TRUE] /\ uses' = [uses EXCEPT ![t] = @ + 1]
      BY <1>8 DEF CommitOpen
    <2>2. t \in Tokens /\ token[t] # Gone /\ ~token[t].used
      BY <2>1, OpensLinks DEF Locked
    <2>3. /\ token[t] \in TokenRow /\ uses[t] = 0
          /\ \A x \in Tokens \ {t} : token'[x] = token[x] /\ uses'[x] = uses[x]
      BY <1>0, <2>1, <2>2 DEF TypeOK, Locked, UsedOnce
    <2>4. token'[t].used /\ token'[t] # Gone /\ uses'[t] = 1
      <3>1. GoodRows
        BY <1>8, CommitOpenRows
      <3> QED
        BY <1>0, <2>1, <2>2, <2>3, <3>1 DEF TypeOK, TokenRow, GoodRows, Grows
    <2>5. UsedOnce'
      BY <2>3, <2>4 DEF Locked, UsedOnce
    <2>6. ASSUME NEW q \in Requests \ {r}, req[q].op \in Opens
          PROVE  token'[req[q].token] = token[req[q].token]
      <3>1. req[q].token \in Tokens /\ HoldsToken(q, req[q].token)
        BY <2>6, OpensLinks DEF HoldsToken
      <3>2. req[q].token # t
        BY <2>1, <3>1 DEF Locked, HoldsToken
      <3> QED
        BY <2>3, <3>1, <3>2
    <2> QED
      BY <2>1, <2>5, <2>6, EndLocked
  <1>9. ASSUME NEW r \in Requests, NEW u \in Users, NEW p \in Passwords, set_password(r, u, p)
        PROVE  Locked'
    BY <1>9, SetBegins, BeginLocked, HandlerKinds DEF set_password, Opens
  <1>10. ASSUME NEW r \in Requests, NEW u \in Users, google_auth(r, u) PROVE Locked'
    BY <1>10, GoogleBegins, BeginLocked, HandlerKinds DEF google_auth, Opens
  <1>11. ASSUME NEW r \in Requests, End(r), UNCHANGED <<token, uses>> PROVE Locked'
    <2>1. UsedOnce'
      BY <1>11 DEF Locked, UsedOnce
    <2> QED
      BY <1>11, <2>1, EndLocked
  <1>12. ASSUME NEW t \in Tokens, Expire(t) PROVE Locked'
    <2>1. \A x \in Tokens : token[x] # Gone => token'[x].used = token[x].used
      BY <1>0, <1>12 DEF Expire, TypeOK, TokenRow
    <2>2. UsedOnce'
      BY <1>12, ExpireRows, StillUsedOnce DEF Expire, GoodRows
    <2> QED
      BY <1>12, <2>1, <2>2, OpensLinks, KeptLocked DEF Expire
  <1>13. CASE Restart
    <2>1. /\ \A r \in Requests : req'[r] = Idle /\ req'[r].op \notin Opens \cup Issues
          /\ UNCHANGED <<token, uses>>
      BY <1>13 DEF Restart, Idle, Issues, Opens
    <2>2. UsedOnce'
      BY <2>1 DEF Locked, UsedOnce
    <2> QED
      BY <2>1, <2>2, KeptLocked DEF HoldsToken
  <1>14. CASE UNCHANGED vars
    <2>1. UNCHANGED <<req, token, uses>>
      BY <1>14 DEF vars
    <2>2. UsedOnce'
      BY <2>1 DEF Locked, UsedOnce
    <2> QED
      BY <2>1, <2>2, KeptLocked
  <1>15. \A r \in Requests :
            /\ CommitSet(r) => Locked'
            /\ CommitGoogle(r) => Locked'
            /\ DeadlockAbort(r) => Locked'
    BY <1>11 DEF CommitSet, CommitGoogle, DeadlockAbort
  <1>16. \A r \in Requests, t \in Tokens :
            /\ verify_email(r, t) => Locked'
            /\ \A p \in Passwords : reset_password(r, t, p) => Locked'
    BY <1>7 DEF verify_email, reset_password, Opens
  <1> QED
    BY <1>1, <1>2, <1>3, <1>4, <1>5, <1>6, <1>8, <1>9, <1>10, <1>12, <1>13, <1>14, <1>15,
       <1>16 DEF Next

(* A link works once, whatever is opened, mailed again or restarted at the  *)
(* same time: consume_token locks the row before it looks (auth_tokens.py   *)
(* 47-75), and issue_token waits for it.                                    *)
THEOREM OneUse == Spec => []LinkWorksOnce
  <1>1. Locked => LinkWorksOnce
    BY DEF Locked, UsedOnce, LinkWorksOnce
  <1>2. Spec => []Locked
    BY InitLocked, NextLocked, AlwaysRooted, PTL DEF Spec
  <1> QED
    BY <1>1, <1>2, PTL

-------------------------------------------------------------------------------
(* Issued *)

(* No link is new, and a password that changes is one of a verified user.   *)
Quiet ==
    /\ Grows
    /\ \A t \in Tokens : token'[t] # Gone =>
            token[t] # Gone /\ token'[t].password = token[t].password
    /\ \A u \in Users : user[u] # Gone =>
            user'[u].email_verified \/ user'[u].password = user[u].password

LEMMA SameRowsQuiet == ASSUME Rooted, UNCHANGED <<user, token>> PROVE Quiet
  BY DEF Quiet, Grows

LEMMA StillIssuers ==
    ASSUME Issued, reissued' = reissued,
           \A q \in Requests : req'[q].op \in Issues =>
                req[q].op \in Issues /\ req'[q].user = req[q].user
    PROVE  OneIssuer'
  BY DEF Issued, OneIssuer, Issuing

LEMMA BeginIssuers ==
    ASSUME Rooted, Issued, NEW r \in Requests, NEW h \in Handler, Begin(r, h), h.op # "none"
    PROVE  OneIssuer'
  <1>1. /\ req'[r] = h /\ \A q \in Requests \ {r} : req'[q] = req[q]
        /\ reissued \subseteq reissued'
    BY BeginReq DEF Rooted
  <1>2. h.op \in Issues =>
            \A q \in Requests : req[q].op \in Issues /\ req[q].user = h.user => h.user \in reissued'
    BY DEF Begin
  <1> QED
    BY <1>1, <1>2 DEF Issued, OneIssuer, Issuing

LEMMA QuietIssued ==
    ASSUME Rooted, Issued, Quiet, OneIssuer', reissued \subseteq reissued',
           \A q \in Requests : req'[q] = req[q] \/ KnowsLinks(q)'
    PROVE  Issued'
  <1>1. \A u, p : Unused(u, p)' \subseteq Unused(u, p)
    BY DEF Unused, Quiet, Grows
  <1>2. ASSUME NEW q \in Requests, req'[q] = req[q] PROVE KnowsLinks(q)'
    <2>1. KnowsLinks(q)
      BY DEF Issued
    <2>2. PurposeOf(q)' = PurposeOf(q) /\ Retirable(q)' \subseteq Retirable(q)
      BY <1>1, <1>2 DEF PurposeOf, Retirable
    <2> QED
      BY <1>2, <2>1, <2>2 DEF KnowsLinks
  <1>3. OneLive'
    BY <1>1 DEF Issued, OneLive, AtMostOne
  <1>4. ASSUME NEW t \in Tokens PROVE ConfirmsItsPassword(t)'
    <2> SUFFICES ASSUME token'[t] # Gone, ~token'[t].used,
                        token'[t].purpose = "email_verification",
                        ~user'[token'[t].user].email_verified, token'[t].user \notin reissued'
                 PROVE  token'[t].password = user'[token'[t].user].password
      BY DEF ConfirmsItsPassword
    <2>1. /\ token[t] # Gone /\ ~token[t].used /\ token[t].purpose = "email_verification"
          /\ token'[t].user = token[t].user /\ token'[t].password = token[t].password
      BY DEF Quiet, Grows
    <2>2. token[t].user \in Users /\ user[token[t].user] # Gone
      BY <2>1 DEF Rooted, TypeOK, TokenRow
    <2>3. ~user[token[t].user].email_verified
          /\ user'[token[t].user].password = user[token[t].user].password
      BY <2>1, <2>2 DEF Quiet, Grows
    <2>4. ConfirmsItsPassword(t)
      BY DEF Issued
    <2> QED
      BY <2>1, <2>3, <2>4 DEF ConfirmsItsPassword
  <1> QED
    BY <1>2, <1>3, <1>4 DEF Issued

LEMMA BeginIssued ==
    ASSUME Rooted, Issued, NEW r \in Requests, NEW h \in Handler, Begin(r, h), h.op # "none",
           h.pc \notin {"wait", "insert"}, UNCHANGED <<user, token>>
    PROVE  Issued'
  <1>1. /\ req'[r] = h /\ \A q \in Requests \ {r} : req'[q] = req[q]
        /\ reissued \subseteq reissued'
    BY BeginReq DEF Rooted
  <1>2. KnowsLinks(r)'
    BY <1>1 DEF KnowsLinks
  <1> QED
    BY <1>1, <1>2, BeginIssuers, SameRowsQuiet, QuietIssued

LEMMA EndIssued ==
    ASSUME Rooted, Issued, NEW r \in Requests, End(r), Quiet PROVE Issued'
  <1>1. /\ req'[r] = Idle /\ \A q \in Requests \ {r} : req'[q] = req[q]
        /\ UNCHANGED <<reissued, overlapped>>
    BY EndReq DEF Rooted
  <1>2. Idle.op \notin Issues
    BY DEF Idle, Issues
  <1>3. OneIssuer'
    BY <1>1, <1>2, StillIssuers
  <1>4. KnowsLinks(r)'
    BY <1>1, <1>2 DEF KnowsLinks
  <1> QED
    BY <1>1, <1>3, <1>4, QuietIssued

LEMMA CreateUserIssued ==
    ASSUME Rooted, Issued, NEW r \in Requests, NEW t \in Tokens, CreateUser(r, t)
    PROVE  Issued'
  <1>0. TypeOK /\ req[r].user \in Users
    BY HandlerKinds DEF Rooted, TypeOK, CreateUser
  <1>u. PICK u \in Users : u = req[r].user
    BY <1>0
  <1> DEFINE row == [password |-> req[r].password, email_verified |-> FALSE, google |-> FALSE]
             link == [user |-> u, purpose |-> "email_verification", used |-> FALSE,
                      expired |-> FALSE, password |-> req[r].password]
  <1>1. CASE UNCHANGED <<user, token>>
    BY <1>1, SameRowsQuiet, EndIssued DEF CreateUser
  <1>2. CASE /\ user[u] = Gone /\ token[t] = Gone
             /\ user' = [user EXCEPT ![u] = row] /\ token' = [token EXCEPT ![t] = link]
    <2>1. /\ req'[r] = Idle /\ \A q \in Requests \ {r} : req'[q] = req[q]
          /\ UNCHANGED reissued
      BY <1>0, EndReq DEF CreateUser
    <2>2. /\ link.user = u /\ link.password = row.password
          /\ user'[u] = row /\ token'[t] = link
          /\ \A v \in Users \ {u} : user'[v] = user[v]
          /\ \A x \in Tokens \ {t} : token'[x] = token[x]
      BY <1>0, <1>2 DEF TypeOK
    <2> HIDE DEF row, link
    <2>3. Idle.op \notin Issues
      BY DEF Idle, Issues
    <2>4. \A x \in Tokens : token[x] # Gone => token[x].user \in Users \ {u}
      BY <1>0, <1>2 DEF Rooted, TypeOK, TokenRow
    <2>5. \A p : Unused(u, p)' \subseteq {t}
      BY <2>2, <2>4 DEF Unused
    <2>6. \A p : \A v \in Users \ {u} : Unused(v, p)' \subseteq Unused(v, p)
      BY <1>2, <2>2 DEF Unused
    <2>7. OneIssuer'
      BY <2>1, <2>3, StillIssuers
    <2>8. ASSUME NEW q \in Requests PROVE KnowsLinks(q)'
      <3> SUFFICES ASSUME req'[q].op \in Issues, req'[q].pc \in {"wait", "insert"},
                          req'[q].user \notin reissued'
                   PROVE  Retirable(q)' \subseteq req'[q].seen
        BY DEF KnowsLinks
      <3>1. req'[q] = req[q]
        BY <2>1, <2>3
      <3>2. req[q].user \in Users \ {u}
        BY <1>0, <1>2, <3>1, HandlerKinds DEF Rooted, Grounded, TypeOK, Issues, Opens
      <3>3. PurposeOf(q)' = PurposeOf(q) /\ Retirable(q)' \subseteq Retirable(q)
        BY <2>6, <3>1, <3>2 DEF PurposeOf, Retirable
      <3> QED
        BY <2>1, <3>1, <3>3 DEF Issued, KnowsLinks
    <2>9. OneLive'
      BY <2>1, <2>5, <2>6 DEF Issued, OneLive, AtMostOne
    <2>10. ASSUME NEW x \in Tokens PROVE ConfirmsItsPassword(x)'
      <3>1. CASE x = t
        BY <2>2, <3>1 DEF ConfirmsItsPassword
      <3>2. CASE x # t
        BY <2>1, <2>2, <2>4, <3>2 DEF Issued, ConfirmsItsPassword
      <3> QED
        BY <3>1, <3>2
    <2> QED
      BY <2>7, <2>8, <2>9, <2>10 DEF Issued
  <1> QED
    BY <1>u, <1>1, <1>2 DEF CreateUser

LEMMA CommitIssueIssued ==
    ASSUME Rooted, Issued, NEW r \in Requests, NEW t \in Tokens, CommitIssue(r, t)
    PROVE  Issued'
  <1>a. TypeOK /\ req[r] \in Handler /\ req[r].op \in Issues /\ req[r].user \in Users
    <2>1. TypeOK /\ req[r] \in Handler /\ req[r].pc = "insert"
      BY DEF Rooted, TypeOK, CommitIssue
    <2> QED
      BY <2>1, HandlerKinds
  <1>u. PICK u \in Users : u = req[r].user
    BY <1>a
  <1>p. PICK purpose : purpose = PurposeOf(r)
    OBVIOUS
  <1> DEFINE seen == req[r].seen
             password == IF req[r].op = "register" THEN req[r].password ELSE user[u].password
             row == [user[u] EXCEPT !.password = password]
             link == NewLink(r, password)
             Used(x) == [token[x] EXCEPT !.used = TRUE]
  <1>0. /\ TypeOK /\ req[r] \in Handler /\ req[r].pc = "insert" /\ token[t] = Gone
        /\ req[r].user = u
        /\ user' = [user EXCEPT ![u] = row]
        /\ token' = [x \in Tokens |-> IF x = t THEN link
                                      ELSE IF x \in seen THEN Used(x) ELSE token[x]]
    BY <1>a, <1>u DEF CommitIssue
  <1>1. req[r].op \in Issues /\ u \in Users /\ seen \subseteq Tokens
    BY <1>0, HandlerKinds
  <1>2. /\ req'[r] = Idle /\ \A q \in Requests \ {r} : req'[q] = req[q]
        /\ UNCHANGED reissued
    BY <1>0, EndReq DEF CommitIssue
  <1>3. Idle.op \notin Issues
    BY DEF Idle, Issues
  <1>4. /\ \A x \in seen : token[x] # Gone /\ token[x].user = u
        /\ user[u] \in UserRow
    BY <1>0, <1>1 DEF Rooted, Grounded, TypeOK
  <1>5. /\ link.user = u /\ link.purpose = purpose /\ link.password = password
        /\ row.password = password /\ row.email_verified = user[u].email_verified
    BY <1>p, <1>u, <1>4 DEF NewLink, UserRow
  <1>6. \A x \in seen : Used(x).used
    BY <1>0, <1>1, <1>4 DEF TypeOK, TokenRow
  <1> HIDE DEF link, row, Used
  <1>7. /\ token'[t] = link /\ user'[u] = row
        /\ \A v \in Users \ {u} : user'[v] = user[v]
        /\ \A x \in Tokens \ {t} : token'[x] = token[x] \/ (x \in seen /\ token'[x].used)
    BY <1>0, <1>1, <1>6 DEF TypeOK
  <1>8. u \notin reissued => Retirable(r) \subseteq seen
    BY <1>0, <1>1 DEF Issued, KnowsLinks
  <1>9. \A v \in Users : \A p : v # u \/ p # purpose => Unused(v, p)' \subseteq Unused(v, p)
    BY <1>5, <1>7 DEF Unused
  <1>10. u \notin reissued => Unused(u, purpose)' \subseteq {t}
    <2> SUFFICES ASSUME u \notin reissued, NEW x \in Tokens \ {t},
                        x \in Unused(u, purpose)'
                 PROVE  FALSE
      BY DEF Unused
    <2>1. ~token'[x].used /\ token'[x] # Gone /\ token'[x].user = u
          /\ token'[x].purpose = purpose
      BY DEF Unused
    <2>2. token'[x] = token[x] /\ x \in Retirable(r)
      BY <1>0, <1>p, <1>7, <2>1 DEF Retirable, Unused
    <2>3. x \in seen
      BY <1>8, <2>2
    <2> QED
      BY <1>0, <1>6, <2>1, <2>3
  <1>11. OneIssuer'
    BY <1>2, <1>3, StillIssuers
  <1>12. ASSUME NEW q \in Requests PROVE KnowsLinks(q)'
    <2> SUFFICES ASSUME req'[q].op \in Issues, req'[q].pc \in {"wait", "insert"},
                        req'[q].user \notin reissued'
                 PROVE  Retirable(q)' \subseteq req'[q].seen
      BY DEF KnowsLinks
    <2>1. q # r /\ req'[q] = req[q]
      BY <1>2, <1>3
    <2>2. req[q].user \in Users \ {u}
      <3>1. req[q].user \in Users
        BY <1>0, <2>1, HandlerKinds DEF TypeOK, Issues
      <3> QED
        BY <1>0, <1>1, <1>2, <2>1, <3>1 DEF Issued, OneIssuer, Issuing
    <2>3. PurposeOf(q)' = PurposeOf(q) /\ Retirable(q)' \subseteq Retirable(q)
      BY <1>9, <2>1, <2>2 DEF PurposeOf, Retirable
    <2> QED
      BY <1>2, <2>1, <2>3 DEF Issued, KnowsLinks
  <1>13. OneLive'
    BY <1>2, <1>9, <1>10 DEF Issued, OneLive, AtMostOne
  <1>14. ASSUME NEW x \in Tokens PROVE ConfirmsItsPassword(x)'
    <2> SUFFICES ASSUME token'[x] # Gone, ~token'[x].used,
                        token'[x].purpose = "email_verification",
                        ~user'[token'[x].user].email_verified, token'[x].user \notin reissued
                 PROVE  token'[x].password = user'[token'[x].user].password
      BY <1>2 DEF ConfirmsItsPassword
    <2>1. CASE x = t
      BY <1>5, <1>7, <2>1
    <2>2. CASE x # t
      <3>1. token'[x] = token[x] /\ token[x].user \in Users
        BY <1>0, <1>7, <2>2 DEF TypeOK, TokenRow
      <3>2. token[x].user # u => user'[token[x].user] = user[token[x].user]
        BY <1>7, <3>1
      <3>3. ASSUME token[x].user = u PROVE user'[u].password = user[u].password
        <4>1. purpose # "email_verification"
          BY <1>10, <2>2, <3>1, <3>3 DEF Unused
        <4>2. req[r].op = "forgot"
          BY <1>p, <4>1 DEF PurposeOf
        <4> QED
          BY <1>5, <1>7, <4>2
      <3>4. ~user[token[x].user].email_verified
        BY <1>5, <1>7, <3>1, <3>2
      <3>5. ConfirmsItsPassword(x)
        BY DEF Issued
      <3> QED
        BY <3>1, <3>2, <3>3, <3>4, <3>5 DEF ConfirmsItsPassword
    <2> QED
      BY <2>1, <2>2
  <1> QED
    BY <1>11, <1>12, <1>13, <1>14 DEF Issued

LEMMA InitIssued == Init => Issued
  BY DEF Init, Issued, OneIssuer, Issuing, KnowsLinks, OneLive, AtMostOne, Unused,
         ConfirmsItsPassword, Idle, Issues

LEMMA NextIssued == Rooted /\ Issued /\ [Next]_vars => Issued'
  <1> SUFFICES ASSUME Rooted, Issued, [Next]_vars PROVE Issued'
    OBVIOUS
  <1>0. TypeOK
    BY DEF Rooted
  <1>1. ASSUME NEW r \in Requests, NEW u \in Users, NEW p \in Passwords, register(r, u, p)
        PROVE  Issued'
    BY <1>1, RegisterBegins, BeginIssued DEF register
  <1>2. ASSUME NEW r \in Requests, NEW t \in Tokens, CreateUser(r, t) PROVE Issued'
    BY <1>2, CreateUserIssued
  <1>3. ASSUME NEW r \in Requests, FlushPassword(r) PROVE Issued'
    <2> DEFINE h == [req[r] EXCEPT !.pc = "retire"]
    <2>1. /\ h.op = "register" /\ h.pc = "retire" /\ req' = [req EXCEPT ![r] = h]
          /\ h.user = req[r].user /\ req[r].op = "register"
          /\ UNCHANGED <<user, token, uses, unconfirmed, reissued, overlapped>>
      BY <1>3, FlushMoves
    <2> HIDE DEF h
    <2>2. req'[r] = h /\ \A q \in Requests \ {r} : req'[q] = req[q]
      BY <1>0, <2>1 DEF TypeOK
    <2>3. OneIssuer'
      BY <2>1, <2>2, StillIssuers
    <2>4. KnowsLinks(r)'
      BY <2>1, <2>2 DEF KnowsLinks
    <2> QED
      BY <2>1, <2>2, <2>3, <2>4, SameRowsQuiet, QuietIssued
  <1>4. ASSUME NEW r \in Requests, NEW u \in Users,
               resend_verification(r, u) \/ forgot_password(r, u)
        PROVE  Issued'
    BY <1>4, AskBegins, BeginIssued DEF resend_verification, forgot_password
  <1>5. ASSUME NEW r \in Requests, RetireLinks(r) \/ RetireAfterWait(r) PROVE Issued'
    <2>1. PICK pc \in {"wait", "insert"}, seen \in SUBSET Tokens :
            LET h == [req[r] EXCEPT !.seen = seen, !.pc = pc] IN
            /\ req[r].op \in Issues /\ h \in Handler /\ req' = [req EXCEPT ![r] = h]
            /\ seen \in {Retirable(r), {t \in req[r].seen : ~token[t].used}}
            /\ req[r].pc = "retire" => seen = Retirable(r)
      BY <1>5, RetireMoves
    <2> DEFINE h == [req[r] EXCEPT !.seen = seen, !.pc = pc]
    <2>2. h.op = req[r].op /\ h.user = req[r].user /\ h.seen = seen
      <3>1. req[r] \in Handler
        BY <1>0 DEF TypeOK
      <3> QED
        BY <2>1, <3>1 DEF Handler, Idle, Issues, Opens
    <2> HIDE DEF h
    <2>3. req'[r] = h /\ \A q \in Requests \ {r} : req'[q] = req[q]
      BY <1>0, <2>1 DEF TypeOK, h
    <2>4. UNCHANGED <<user, token, uses, unconfirmed, reissued, overlapped>>
          /\ req[r].pc \in {"retire", "wait"}
      BY <1>5 DEF RetireLinks, RetireAfterWait
    <2>5. req[r].user \notin reissued => Retirable(r) \subseteq seen
      <3>1. req[r].pc = "wait" /\ req[r].user \notin reissued => Retirable(r) \subseteq req[r].seen
        BY <2>1 DEF Issued, KnowsLinks
      <3> QED
        BY <2>1, <2>4, <3>1 DEF Retirable, Unused
    <2>6. Retirable(r)' = Retirable(r)
      BY <2>2, <2>3, <2>4 DEF Retirable, Unused, PurposeOf
    <2>7. KnowsLinks(r)'
      BY <2>2, <2>3, <2>4, <2>5, <2>6 DEF KnowsLinks
    <2>8. OneIssuer'
      BY <2>1, <2>2, <2>3, <2>4, StillIssuers
    <2> QED
      BY <2>3, <2>4, <2>7, <2>8, SameRowsQuiet, QuietIssued
  <1>6. ASSUME NEW r \in Requests, NEW t \in Tokens, CommitIssue(r, t) PROVE Issued'
    BY <1>6, CommitIssueIssued
  <1>7. ASSUME NEW r \in Requests, NEW op \in Opens, NEW t \in Tokens,
               NEW p \in Passwords \cup {Null}, Consume(r, op, t, p),
               UNCHANGED <<user, token, uses, unconfirmed>>
        PROVE  Issued'
    <2> DEFINE h == Opening(op, t, p)
    <2>1. h \in Handler /\ Begin(r, h) /\ h.op = op /\ h.pc = "write"
      BY <1>7, OpenBegins
    <2> HIDE DEF h
    <2> QED
      BY <1>7, <2>1, BeginIssued DEF Opens
  <1>8. ASSUME NEW r \in Requests, CommitOpen(r) PROVE Issued'
    <2> DEFINE u == req[r].user
               t == req[r].token
    <2>1. GoodRows /\ user'[u].email_verified /\ End(r)
      BY <1>8, CommitOpenRows DEF CommitOpen
    <2>2. /\ \A v \in Users \ {u} : user'[v] = user[v]
          /\ \A x \in Tokens \ {t} : token'[x] = token[x]
      BY <1>0, <1>8 DEF CommitOpen, TypeOK
    <2>3. /\ t \in Tokens /\ token[t] # Gone /\ token'[t].password = token[t].password
      <3>1. t \in Tokens /\ token[t] # Gone
        BY <1>8, OpensLinks DEF CommitOpen
      <3>2. token[t] \in TokenRow /\ token' = [token EXCEPT ![t] = [token[t] EXCEPT !.used = TRUE]]
        BY <1>0, <1>8, <3>1 DEF CommitOpen, TypeOK
      <3> QED
        BY <1>0, <3>1, <3>2 DEF TypeOK, TokenRow
    <2>4. Quiet
      BY <2>1, <2>2, <2>3 DEF Quiet, GoodRows
    <2> QED
      BY <2>1, <2>4, EndIssued
  <1>9. ASSUME NEW r \in Requests, NEW u \in Users, NEW p \in Passwords, set_password(r, u, p)
        PROVE  Issued'
    BY <1>9, SetBegins, BeginIssued, HandlerKinds DEF set_password
  <1>10. ASSUME NEW r \in Requests, CommitSet(r) PROVE Issued'
    <2>1. GoodRows /\ UNCHANGED token /\ End(r)
      BY <1>10, CommitSetRows DEF CommitSet
    <2>2. /\ \A v \in Users \ {req[r].user} : user'[v] = user[v]
          /\ user[req[r].user] # Gone => user[req[r].user].email_verified
      BY <1>0, <1>10 DEF CommitSet, TypeOK, Rooted, Grounded
    <2>3. Quiet
      BY <2>1, <2>2 DEF Quiet, GoodRows, Grows
    <2> QED
      BY <2>1, <2>3, EndIssued
  <1>11. ASSUME NEW r \in Requests, NEW u \in Users, google_auth(r, u) PROVE Issued'
    BY <1>11, GoogleBegins, BeginIssued, HandlerKinds DEF google_auth
  <1>12. ASSUME NEW r \in Requests, CommitGoogle(r) PROVE Issued'
    <2> DEFINE u == req[r].user
               seen == req[r].seen
    <2>1. GoodRows /\ UNCHANGED token /\ End(r) /\ req[r].op = "google"
      BY <1>12, CommitGoogleRows DEF CommitGoogle
    <2>2. u \in Users /\ seen \in UserRow \cup {Gone}
      BY <1>0, <2>1, HandlerKinds DEF TypeOK
    <2>3. \A v \in Users \ {u} : user'[v] = user[v]
      BY <1>0, <1>12 DEF CommitGoogle, TypeOK
    <2>4. user[u] # Gone => user'[u].email_verified \/ user'[u].password = user[u].password
      <3>1. CASE seen # Gone
        <4>1. user[u] # Gone /\ user'[u] = Linked(user[u], seen)
          BY <1>0, <1>12, <2>1, <2>2, <3>1 DEF CommitGoogle, TypeOK, Rooted, Grounded
        <4>2. user[u] \in UserRow
          BY <1>0, <2>2, <4>1 DEF TypeOK
        <4> QED
          BY <2>2, <3>1, <4>1, <4>2, LinkedRow DEF UserRow
      <3>2. CASE seen = Gone
        BY <1>12, <3>2 DEF CommitGoogle
      <3> QED
        BY <3>1, <3>2
    <2>5. Quiet
      BY <2>1, <2>3, <2>4 DEF Quiet, GoodRows
    <2> QED
      BY <2>1, <2>5, EndIssued
  <1>13. ASSUME NEW r \in Requests, DeadlockAbort(r) PROVE Issued'
    BY <1>13, SameRowsQuiet, EndIssued DEF DeadlockAbort
  <1>14. ASSUME NEW t \in Tokens, Expire(t) PROVE Issued'
    <2>1. /\ GoodRows /\ UNCHANGED <<user, req, reissued>>
          /\ token' = [token EXCEPT ![t] = [token[t] EXCEPT !.expired = TRUE]]
          /\ token[t] # Gone
      BY <1>14, ExpireRows DEF Expire, Usable
    <2>2. token[t] \in TokenRow
      BY <1>0, <2>1 DEF TypeOK
    <2>3. \A x \in Tokens : token'[x] # Gone =>
            token[x] # Gone /\ token'[x].password = token[x].password
      BY <1>0, <2>1, <2>2 DEF TypeOK, TokenRow
    <2>4. Quiet
      BY <2>1, <2>3 DEF Quiet, GoodRows
    <2>5. OneIssuer'
      BY <2>1, StillIssuers
    <2> QED
      BY <2>1, <2>4, <2>5, QuietIssued
  <1>15. CASE Restart
    <2>1. /\ \A r \in Requests : req'[r] = Idle /\ req'[r].op \notin Issues
          /\ UNCHANGED <<user, token, reissued>>
      BY <1>15 DEF Restart, Idle, Issues
    <2>2. OneIssuer' /\ \A r \in Requests : KnowsLinks(r)'
      BY <2>1, StillIssuers DEF KnowsLinks
    <2> QED
      BY <2>1, <2>2, SameRowsQuiet, QuietIssued
  <1>16. CASE UNCHANGED vars
    <2>1. UNCHANGED <<user, token, req, reissued>>
      BY <1>16 DEF vars
    <2>2. OneIssuer'
      BY <2>1, StillIssuers
    <2> QED
      BY <2>1, <2>2, SameRowsQuiet, QuietIssued
  <1>17. \A r \in Requests, t \in Tokens :
            /\ verify_email(r, t) => Issued'
            /\ \A p \in Passwords : reset_password(r, t, p) => Issued'
    BY <1>7 DEF verify_email, reset_password, Opens
  <1> QED
    BY <1>1, <1>2, <1>3, <1>4, <1>5, <1>6, <1>8, <1>9, <1>10, <1>11, <1>12, <1>13, <1>14,
       <1>15, <1>16, <1>17 DEF Next

LEMMA AlwaysIssued == Spec => []Issued
  <1> QED
    BY InitIssued, NextIssued, AlwaysRooted, PTL DEF Spec

LEMMA OneAtMost == ASSUME NEW S, AtMostOne(S) PROVE Cardinality(S) <= 1
  <1>1. CASE S = {}
    <2>1. Cardinality(S) = 0
      BY <1>1, FS_EmptySet
    <2> QED
      BY <2>1
  <1>2. CASE S # {}
    <2>1. PICK x : S = {x}
      BY <1>2 DEF AtMostOne
    <2>2. Cardinality({x}) = 1
      BY FS_Singleton
    <2> QED
      BY <2>1, <2>2
  <1> QED
    BY <1>1, <1>2

(* Of the links of one user and purpose at most one is unused, however      *)
(* registrations, resends and openings are interleaved: only two issues for *)
(* the same user at once leave two (issue_token, auth_tokens.py 26-44).     *)
THEOREM OneUnusedLink == Spec => []OneLiveLink
  <1>1. Rooted /\ Issued => OneLiveLink
    <2> SUFFICES ASSUME Issued, NEW u \in LiveUsers \ reissued, NEW p \in Purposes
                 PROVE  Cardinality(Unused(u, p)) <= 1
      BY DEF OneLiveLink
    <2>1. AtMostOne(Unused(u, p))
      BY DEF Issued, OneLive, LiveUsers
    <2> QED
      BY <2>1, OneAtMost
  <1> QED
    BY <1>1, AlwaysRooted, AlwaysIssued, PTL

(* Opening a link never verifies an address with a password that was        *)
(* registered after the link was mailed, again two issues at once apart:    *)
(* the repeated register retires the link before it (register, auth.py).    *)
THEOREM LinksConfirmTheirPassword == Spec => []LinkConfirmsItsPassword
  <1>1. Issued => LinkConfirmsItsPassword
    BY DEF Issued, ConfirmsItsPassword, LinkConfirmsItsPassword, Usable, Unverified, LiveUsers
  <1> QED
    BY <1>1, AlwaysIssued, PTL
-------------------------------------------------------------------------------
(* Solitary, one step per action. *)

(* What holds of the users alone, whatever the handlers do. *)
UsersSolitary ==
    /\ \A u \in unconfirmed : user[u] # Gone
    /\ VerifiedPasswordIsConfirmed

LEMMA SameUsersSolitary ==
    ASSUME UsersSolitary, UNCHANGED <<user, unconfirmed>>, overlapped \subseteq overlapped'
    PROVE  UsersSolitary'
  BY DEF UsersSolitary, VerifiedPasswordIsConfirmed, LiveUsers

LEMMA BeginSolitary ==
    ASSUME Rooted, Solitary, NEW r \in Requests, NEW h \in Handler, Begin(r, h), h.op # "none",
           UNCHANGED <<user, unconfirmed>>,
           h.op = "register" => Unverified(h.user),
           h.op = "google" => h.seen = user[h.user]
    PROVE  Solitary'
  <1>1. /\ req'[r] = h /\ \A q \in Requests \ {r} : req'[q] = req[q]
        /\ overlapped \subseteq overlapped'
        /\ ~Active(r)
        /\ \A q \in Requests : Active(q) /\ req[q].user = h.user => h.user \in overlapped'
    BY BeginReq DEF Rooted, Begin
  <1>2. UsersSolitary'
    BY <1>1, SameUsersSolitary DEF Solitary, UsersSolitary
  <1>3. ASSUME NEW q \in Requests PROVE StillSo(q)'
    <2>1. CASE q = r
      BY <1>1, <2>1 DEF StillSo, Unverified, LiveUsers
    <2>2. CASE q # r
      BY <1>1, <2>2 DEF Solitary, StillSo, Active, Unverified, LiveUsers
    <2> QED
      BY <2>1, <2>2
  <1>4. ASSUME NEW q1 \in Requests, NEW q2 \in Requests,
               Active(q1)', Active(q2)', req'[q1].user = req'[q2].user,
               req'[q1].user \notin overlapped'
        PROVE  q1 = q2
    BY <1>1, <1>4 DEF Solitary, Active
  <1> QED
    BY <1>2, <1>3, <1>4 DEF Solitary, UsersSolitary

(* Handlers move on, or end and write nothing. *)
LEMMA MoveSolitary ==
    ASSUME Solitary, UNCHANGED <<user, unconfirmed, overlapped>>,
           \A q \in Requests : \/ req'[q].pc = "idle"
                               \/ req'[q] = req[q]
                               \/ /\ Active(q) /\ req'[q].op = req[q].op
                                  /\ req'[q].user = req[q].user /\ req[q].op \in Issues
    PROVE  Solitary'
  <1>1. UsersSolitary'
    BY SameUsersSolitary DEF Solitary, UsersSolitary
  <1>2. ASSUME NEW q \in Requests PROVE StillSo(q)'
    BY DEF Solitary, StillSo, Active, Unverified, LiveUsers, Issues
  <1>3. \A q \in Requests : req'[q].pc # "idle" => Active(q) /\ req'[q].user = req[q].user
    BY DEF Active
  <1>4. ASSUME NEW q1 \in Requests, NEW q2 \in Requests,
               Active(q1)', Active(q2)', req'[q1].user = req'[q2].user,
               req'[q1].user \notin overlapped'
        PROVE  q1 = q2
    BY <1>3, <1>4 DEF Solitary, Active
  <1> QED
    BY <1>1, <1>2, <1>4 DEF Solitary, UsersSolitary

(* A handler commits what it does to its user. *)
LEMMA EndSolitary ==
    ASSUME Rooted, Solitary, NEW r \in Requests, NEW u \in Users, req[r].user = u, Active(r),
           End(r), unconfirmed' \in SUBSET Users,
           \A v \in Users \ {u} : user'[v] = user[v] /\ (v \in unconfirmed' => v \in unconfirmed),
           u \in unconfirmed' => user'[u] # Gone,
           u \notin overlapped /\ user'[u] # Gone /\ user'[u].email_verified
               => u \notin unconfirmed'
    PROVE  Solitary'
  <1>1. /\ req'[r].pc = "idle" /\ \A q \in Requests \ {r} : req'[q] = req[q]
        /\ overlapped' = overlapped
    BY EndReq DEF Rooted, Idle
  <1>2. \A v \in unconfirmed' : user'[v] # Gone
    BY DEF Solitary
  <1>3. VerifiedPasswordIsConfirmed'
    <2> SUFFICES ASSUME NEW v \in Users, user'[v] # Gone, v \notin overlapped,
                        user'[v].email_verified
                 PROVE  v \notin unconfirmed'
      BY <1>1 DEF VerifiedPasswordIsConfirmed, LiveUsers
    <2> QED
      BY DEF Solitary, VerifiedPasswordIsConfirmed, LiveUsers
  <1>4. ASSUME NEW q \in Requests, Active(q)' PROVE Active(q) /\ req'[q] = req[q] /\ q # r
    BY <1>1, <1>4 DEF Active
  <1>5. ASSUME NEW q \in Requests PROVE StillSo(q)'
    <2> SUFFICES ASSUME Active(q)', req'[q].user \notin overlapped
                 PROVE  StillSo(q)'
      BY <1>1 DEF StillSo
    <2>1. Active(q) /\ req'[q] = req[q] /\ req[q].user # u
      BY <1>4 DEF Solitary
    <2>2. req[q].user \in Users
      BY <2>1, HandlerKinds DEF Rooted, TypeOK, Active
    <2> QED
      BY <1>1, <2>1, <2>2 DEF Solitary, StillSo, Active, Unverified, LiveUsers
  <1>6. ASSUME NEW q1 \in Requests, NEW q2 \in Requests,
               Active(q1)', Active(q2)', req'[q1].user = req'[q2].user,
               req'[q1].user \notin overlapped'
        PROVE  q1 = q2
    BY <1>1, <1>4, <1>6 DEF Solitary
  <1> QED
    BY <1>2, <1>3, <1>5, <1>6 DEF Solitary

LEMMA InitSolitary == Init => Solitary
  BY DEF Init, Solitary, StillSo, Active, Idle, VerifiedPasswordIsConfirmed

LEMMA NextSolitary == Rooted /\ Solitary /\ [Next]_vars => Solitary'
  <1> SUFFICES ASSUME Rooted, Solitary, [Next]_vars PROVE Solitary'
    OBVIOUS
  <1>0. TypeOK /\ \A r \in Requests : req[r] \in Handler
    BY DEF Rooted, TypeOK
  <1>a. ASSUME NEW r \in Requests, req[r].op # "none"
        PROVE  Active(r) /\ req[r].user \in Users
    BY <1>0, <1>a, HandlerKinds DEF Active
  <1>1. ASSUME NEW r \in Requests, NEW u \in Users, NEW p \in Passwords, register(r, u, p)
        PROVE  Solitary'
    BY <1>1, RegisterBegins, BeginSolitary DEF register
  <1>2. ASSUME NEW r \in Requests, NEW t \in Tokens, CreateUser(r, t) PROVE Solitary'
    <2>1. req[r].op = "signup" /\ End(r) /\ GoodRows /\ unconfirmed' \in SUBSET Users
      BY <1>2, CreateUserRows DEF CreateUser
    <2>2. PICK u \in Users : req[r].user = u /\ Active(r)
      BY <1>a, <2>1
    <2>3. CASE UNCHANGED <<user, unconfirmed>>
      BY <2>1, <2>2, <2>3, EndSolitary DEF Solitary, VerifiedPasswordIsConfirmed, LiveUsers
    <2>4. CASE /\ user' = [user EXCEPT ![u] = [password |-> req[r].password,
                                               email_verified |-> FALSE, google |-> FALSE]]
               /\ unconfirmed' = unconfirmed \cup {u}
               /\ token' = [token EXCEPT ![t] =
                    [user |-> u, purpose |-> "email_verification", used |-> FALSE,
                     expired |-> FALSE, password |-> req[r].password]]
               /\ token[t] = Gone
      <3>1. user'[u].email_verified = FALSE /\ \A v \in Users \ {u} : user'[v] = user[v]
        BY <1>0, <2>4 DEF TypeOK
      <3>2. user'[u] # Gone
        <4>1. [password |-> req[r].password, email_verified |-> FALSE, google |-> FALSE] \in UserRow
          BY <1>0, <2>1, HandlerKinds DEF UserRow
        <4>2. user'[u] \in UserRow
          BY <1>0, <2>4, <4>1 DEF TypeOK
        <4> QED
          BY <4>2, RowAssumption
      <3> QED
        BY <2>1, <2>2, <2>4, <3>1, <3>2, EndSolitary
    <2> QED
      BY <1>2, <2>2, <2>3, <2>4 DEF CreateUser
  <1>3. ASSUME NEW r \in Requests, FlushPassword(r) PROVE Solitary'
    <2> DEFINE h == [req[r] EXCEPT !.pc = "retire"]
    <2>1. /\ h.op = req[r].op /\ req' = [req EXCEPT ![r] = h] /\ req[r].op = "register"
          /\ h.user = req[r].user
          /\ UNCHANGED <<user, token, uses, unconfirmed, reissued, overlapped>>
      BY <1>3, FlushMoves
    <2> HIDE DEF h
    <2>2. req'[r] = h /\ \A q \in Requests \ {r} : req'[q] = req[q]
      BY <1>0, <2>1 DEF TypeOK
    <2> QED
      BY <1>a, <2>1, <2>2, MoveSolitary DEF Issues
  <1>4. ASSUME NEW r \in Requests, NEW u \in Users,
               resend_verification(r, u) \/ forgot_password(r, u)
        PROVE  Solitary'
    BY <1>4, AskBegins, BeginSolitary DEF resend_verification, forgot_password
  <1>5. ASSUME NEW r \in Requests, RetireLinks(r) \/ RetireAfterWait(r) PROVE Solitary'
    <2>1. PICK pc \in {"wait", "insert"}, seen \in SUBSET Tokens :
            /\ req[r].op \in Issues
            /\ req' = [req EXCEPT ![r] = [req[r] EXCEPT !.seen = seen, !.pc = pc]]
      BY <1>5, RetireMoves
    <2> DEFINE h == [req[r] EXCEPT !.seen = seen, !.pc = pc]
    <2>2. h.op = req[r].op /\ h.user = req[r].user
      BY <1>0, <2>1 DEF Handler, Idle, Issues, Opens
    <2> HIDE DEF h
    <2>3. req'[r] = h /\ \A q \in Requests \ {r} : req'[q] = req[q]
      BY <1>0, <2>1 DEF TypeOK, h
    <2>4. UNCHANGED <<user, unconfirmed, overlapped>>
      BY <1>5 DEF RetireLinks, RetireAfterWait
    <2>5. Active(r)
      BY <1>a, <2>1 DEF Issues
    <2> QED
      BY <2>1, <2>2, <2>3, <2>4, <2>5, MoveSolitary
  <1>6. ASSUME NEW r \in Requests, NEW t \in Tokens, CommitIssue(r, t) PROVE Solitary'
    <2>1. req[r].op \in Issues /\ End(r) /\ GoodRows /\ unconfirmed' \in SUBSET Users
      BY <1>6, CommitIssueRows DEF CommitIssue
    <2>2. PICK u \in Users : req[r].user = u /\ Active(r)
      BY <1>a, <2>1 DEF Issues
    <2>3. /\ \A v \in Users \ {u} : user'[v] = user[v]
          /\ unconfirmed' = IF req[r].op = "register" THEN unconfirmed \cup {u} ELSE unconfirmed
      BY <1>0, <1>6, <2>2 DEF CommitIssue, TypeOK
    <2>4. user[u] # Gone /\ user'[u] # Gone
      BY <2>1, <2>2 DEF Rooted, Grounded, GoodRows, Grows
    <2>5. user'[u].email_verified = user[u].email_verified
      <3>1. PICK p : user' = [user EXCEPT ![u] = [user[u] EXCEPT !.password = p]]
        BY <1>6, <2>2 DEF CommitIssue
      <3>2. user[u] \in UserRow
        BY <1>0, <2>4 DEF TypeOK
      <3> QED
        BY <1>0, <3>1, <3>2 DEF TypeOK, UserRow
    <2>6. u \notin overlapped /\ user'[u].email_verified => u \notin unconfirmed'
      <3>1. u \notin overlapped /\ req[r].op = "register" => ~user[u].email_verified
        BY <2>2 DEF Solitary, StillSo, Unverified
      <3> QED
        BY <2>3, <2>4, <2>5, <3>1 DEF Solitary, VerifiedPasswordIsConfirmed, LiveUsers
    <2> QED
      BY <2>1, <2>2, <2>3, <2>4, <2>6, EndSolitary
  <1>7. ASSUME NEW r \in Requests, NEW op \in Opens, NEW t \in Tokens,
               NEW p \in Passwords \cup {Null}, Consume(r, op, t, p),
               UNCHANGED <<user, token, uses, unconfirmed>>
        PROVE  Solitary'
    <2> DEFINE h == Opening(op, t, p)
    <2>1. h \in Handler /\ Begin(r, h) /\ h.op = op
      BY <1>7, OpenBegins
    <2> HIDE DEF h
    <2> QED
      BY <1>7, <2>1, BeginSolitary DEF Opens
  <1>8. ASSUME NEW r \in Requests, CommitOpen(r) PROVE Solitary'
    <2>1. req[r].op \in Opens /\ End(r) /\ unconfirmed' \in SUBSET Users
      BY <1>8, CommitOpenRows DEF CommitOpen
    <2>2. PICK u \in Users : req[r].user = u /\ Active(r)
      BY <1>a, <2>1 DEF Opens
    <2>3. /\ \A v \in Users \ {u} : user'[v] = user[v]
          /\ unconfirmed' = unconfirmed \ {u}
      BY <1>0, <1>8, <2>2 DEF CommitOpen, TypeOK
    <2> QED
      BY <2>1, <2>2, <2>3, EndSolitary
  <1>9. ASSUME NEW r \in Requests, NEW u \in Users, NEW p \in Passwords, set_password(r, u, p)
        PROVE  Solitary'
    BY <1>9, SetBegins, BeginSolitary DEF set_password
  <1>10. ASSUME NEW r \in Requests, CommitSet(r) PROVE Solitary'
    <2>1. req[r].op = "set" /\ End(r) /\ unconfirmed' \in SUBSET Users
      BY <1>10, CommitSetRows DEF CommitSet
    <2>2. PICK u \in Users : req[r].user = u /\ Active(r)
      BY <1>a, <2>1
    <2>3. /\ \A v \in Users \ {u} : user'[v] = user[v]
          /\ unconfirmed' = unconfirmed \ {u}
      BY <1>0, <1>10, <2>2 DEF CommitSet, TypeOK
    <2> QED
      BY <2>1, <2>2, <2>3, EndSolitary
  <1>11. ASSUME NEW r \in Requests, NEW u \in Users, google_auth(r, u) PROVE Solitary'
    BY <1>11, GoogleBegins, BeginSolitary DEF google_auth
  <1>12. ASSUME NEW r \in Requests, CommitGoogle(r) PROVE Solitary'
    <2> DEFINE seen == req[r].seen
    <2>1. req[r].op = "google" /\ End(r) /\ unconfirmed' \in SUBSET Users
      BY <1>12, CommitGoogleRows DEF CommitGoogle
    <2>2. PICK u \in Users : req[r].user = u /\ Active(r)
      BY <1>a, <2>1
    <2>3. \A v \in Users \ {u} : user'[v] = user[v]
      BY <1>0, <1>12, <2>2 DEF CommitGoogle, TypeOK
    <2>4. u \notin overlapped => user[u] = seen
      BY <2>1, <2>2 DEF Solitary, StillSo
    <2>5. CASE seen # Gone
      <3>1. /\ user[u] # Gone /\ user[u] \in UserRow /\ seen \in UserRow
            /\ user'[u] = Linked(user[u], seen)
            /\ unconfirmed' = IF user'[u].password = Null THEN unconfirmed \ {u} ELSE unconfirmed
        <4>1. user[u] # Gone
          BY <2>1, <2>2, <2>5 DEF Rooted, Grounded
        <4>2. user[u] \in UserRow /\ seen \in UserRow
          BY <1>0, <2>1, <2>5, <4>1, HandlerKinds DEF TypeOK
        <4> QED
          BY <1>0, <1>12, <2>2, <2>5, <4>1, <4>2 DEF CommitGoogle, TypeOK
      <3>2. user'[u] # Gone
        BY <3>1, LinkedRow, RowAssumption
      <3>3. u \notin overlapped => u \notin unconfirmed' \/ ~user'[u].email_verified
        <4> SUFFICES ASSUME u \notin overlapped
                     PROVE  u \notin unconfirmed' \/ ~user'[u].email_verified
          OBVIOUS
        <4>1. CASE seen.email_verified
          BY <2>4, <3>1, <4>1 DEF Solitary, VerifiedPasswordIsConfirmed, LiveUsers
        <4>2. CASE ~seen.email_verified
          BY <2>4, <3>1, <4>2, LinkedRow
        <4> QED
          BY <4>1, <4>2
      <3> QED
        BY <2>1, <2>2, <2>3, <3>1, <3>2, <3>3, EndSolitary
    <2>6. CASE seen = Gone /\ user[u] # Gone
      <3>1. UNCHANGED <<user, unconfirmed>>
        BY <1>12, <2>2, <2>6 DEF CommitGoogle
      <3> QED
        BY <2>1, <2>2, <3>1, EndSolitary DEF Solitary, VerifiedPasswordIsConfirmed, LiveUsers
    <2>7. CASE seen = Gone /\ user[u] = Gone
      <3>1. unconfirmed' = unconfirmed /\ u \notin unconfirmed
        BY <1>12, <2>2, <2>7 DEF CommitGoogle, Solitary
      <3> QED
        BY <2>1, <2>2, <2>3, <3>1, EndSolitary
    <2> QED
      BY <2>5, <2>6, <2>7
  <1>13. ASSUME NEW r \in Requests, DeadlockAbort(r) PROVE Solitary'
    <2>1. /\ req'[r].pc = "idle" /\ \A q \in Requests \ {r} : req'[q] = req[q]
          /\ UNCHANGED <<user, unconfirmed, overlapped>>
      BY <1>0, <1>13, EndReq DEF DeadlockAbort, Idle
    <2> QED
      BY <2>1, MoveSolitary
  <1>14. ASSUME NEW t \in Tokens, Expire(t) PROVE Solitary'
    BY <1>14, MoveSolitary DEF Expire
  <1>15. CASE Restart
    BY <1>15, MoveSolitary DEF Restart, Idle
  <1>16. CASE UNCHANGED vars
    BY <1>16, MoveSolitary DEF vars
  <1>17. \A r \in Requests, t \in Tokens :
            /\ verify_email(r, t) => Solitary'
            /\ \A p \in Passwords : reset_password(r, t, p) => Solitary'
    BY <1>7 DEF verify_email, reset_password, Opens
  <1> QED
    BY <1>1, <1>2, <1>3, <1>4, <1>5, <1>6, <1>8, <1>9, <1>10, <1>11, <1>12, <1>13, <1>14,
       <1>15, <1>16, <1>17 DEF Next

(* Nobody logs in with a password whose link was never opened: not after    *)
(* Google verified the address, which takes an unconfirmed password away    *)
(* (google_auth, auth.py 97-101), nor after a repeated register.  Handlers  *)
(* of the same user at once are the exception the model keeps count of.     *)
THEOREM ConfirmedPasswords == Spec => []VerifiedPasswordIsConfirmed
  <1>1. Solitary => VerifiedPasswordIsConfirmed
    BY DEF Solitary
  <1> QED
    BY <1>1, InitSolitary, NextSolitary, AlwaysRooted, PTL DEF Spec
===============================================================================
