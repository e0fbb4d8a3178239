------------------------- MODULE ImportStaging_proofs -------------------------
(***************************************************************************)
(* Proofs about ImportStaging, for any files, tokens, categories and       *)
(* confirm handlers.                                                       *)
(*                                                                         *)
(* Kept: what a handler has in hand and what is staged is the file the     *)
(* preview accepted, and the accounts of a token are those of its file.    *)
(* Once: of a token that is not doubtful, one handler runs, and the file   *)
(* is not yet imported or about to be taken away.  Fitting: what is        *)
(* imported fits the file and the categories that are left.                *)
(***************************************************************************)
EXTENDS ImportStaging, FiniteSetTheorems, TLAPS

Name == Labels \cup {Null}
Mapping == UNION {[some -> Target] : some \in SUBSET (Name \X Name)}
Handler == [pc : {"resolve", "commit", "pop"}, token : Tokens, rows : Files, mapping : Mapping]
Transaction == [token : Tokens, row : FileRow, cat : Cats \cup {New, Null},
                sub : Subs \cup {New, Null}]

TypeOK ==
    /\ store \in [Tokens -> [rows : Files, old : BOOLEAN] \cup {Gone}]
    /\ cats \subseteq Cats /\ subs \subseteq Subs
    /\ txs \subseteq Transaction
    /\ req \in [Requests -> Handler \cup {Idle}]
    /\ staged \in [Tokens -> Files \cup {Gone}]
    /\ imports \in [Tokens -> Nat]
    /\ doubtful \subseteq Tokens /\ lost \subseteq Tokens

StoredIsStaged ==
    \A t \in Tokens : store[t] # Gone =>
        staged[t] # Gone /\ store[t].rows = staged[t] /\ (store[t].old => t \in lost)

HandlersKnow ==
    \A r \in Requests : Active(r) =>
        /\ staged[req[r].token] # Gone /\ req[r].rows = staged[req[r].token]
        /\ req[r].pc = "pop" => imports[req[r].token] # 0

StagedIsAccepted ==
    \A t \in Tokens :
        /\ staged[t] # Gone => Acceptable(staged[t])
        /\ imports[t] # 0 => staged[t] # Gone

AccountsAreOfFile ==
    accounts = [t \in Tokens |-> IF imports[t] = 0 THEN <<>> ELSE AccountCurrencies(staged[t])]

Kept == TypeOK /\ StoredIsStaged /\ HandlersKnow /\ StagedIsAccepted /\ AccountsAreOfFile

-------------------------------------------------------------------------------
(* The one handler of a token, and how far its file is. *)
Single(t) ==
    /\ \A q, r \in Requests :
          Active(q) /\ Active(r) /\ req[q].token = t /\ req[r].token = t => q = r
    /\ imports[t] <= 1
    /\ \A r \in Requests : req[r].pc \in {"resolve", "commit"} /\ req[r].token = t => imports[t] = 0
    /\ imports[t] # 0 => \/ store[t] = Gone
                         \/ \E r \in Requests : req[r].pc = "pop" /\ req[r].token = t

Once == \A t \in Tokens \ doubtful : Single(t)

-------------------------------------------------------------------------------
ParentIs(cat, sub) == sub \in Subs => cat = Parent[sub]

Fitting ==
    /\ \A r \in Requests : req[r].pc = "commit" =>
          \A p \in DOMAIN req[r].mapping : ParentIs(req[r].mapping[p].cat, req[r].mapping[p].sub)
    /\ \A x \in txs :
          /\ imports[x.token] # 0 /\ x.row \in staged[x.token]
          /\ x.cat \in cats \cup {New, Null}
          /\ ParentIs(x.cat, x.sub) /\ (x.sub \in Subs => x.sub \in subs)
-------------------------------------------------------------------------------
(* Handlers, mappings and the store *)

LEMMA HandlerFacts ==
    ASSUME TypeOK, NEW r \in Requests, Active(r)
    PROVE  /\ req[r] \in Handler
           /\ req[r].token \in Tokens /\ req[r].rows \in Files /\ req[r].mapping \in Mapping
  <1>1. req[r] \in Handler
    BY DEF TypeOK, Active, Idle
  <1> QED
    BY <1>1 DEF Handler

LEMMA MappingFacts ==
    ASSUME NEW m \in Mapping, NEW p \in DOMAIN m
    PROVE  m[p] \in Target
  BY DEF Mapping

(* The handler r goes on to pc, or ends. *)
Moves(r, pc) == req' \in {[req EXCEPT ![r] = Idle], [req EXCEPT ![r] = [req[r] EXCEPT !.pc = pc]]}

LEMMA MoveReq ==
    ASSUME TypeOK, NEW r \in Requests, Active(r), NEW pc \in {"commit", "pop"}, Moves(r, pc)
    PROVE  /\ req' \in [Requests -> Handler \cup {Idle}]
           /\ \A q \in Requests \ {r} : req'[q] = req[q]
           /\ \/ req'[r] = Idle /\ ~Active(r)'
              \/ /\ req'[r].pc = pc /\ req'[r].token = req[r].token
                 /\ req'[r].rows = req[r].rows /\ req'[r].mapping = req[r].mapping
  <1>1. req[r] \in Handler
    BY HandlerFacts
  <1>2. [req[r] EXCEPT !.pc = pc] \in Handler
    BY <1>1 DEF Handler
  <1>3. CASE req' = [req EXCEPT ![r] = Idle]
    BY <1>3 DEF TypeOK, Active, Idle
  <1>4. CASE req' = [req EXCEPT ![r] = [req[r] EXCEPT !.pc = pc]]
    <2>1. req'[r] = [req[r] EXCEPT !.pc = pc]
      BY <1>4 DEF TypeOK
    <2>2. /\ req'[r].pc = pc /\ req'[r].token = req[r].token
          /\ req'[r].rows = req[r].rows /\ req'[r].mapping = req[r].mapping
      BY <1>1, <2>1 DEF Handler
    <2> QED
      BY <1>2, <1>4, <2>2 DEF TypeOK
  <1> QED
    BY <1>3, <1>4 DEF Moves

(* What was staged is taken away, where the second argument says it may be. *)
Shrinks(P) ==
    /\ store' \in [Tokens -> [rows : Files, old : BOOLEAN] \cup {Gone}]
    /\ \A t \in Tokens : store'[t] = store[t] \/ (store'[t] = Gone /\ t \in P)

LEMMA CleanedFacts ==
    ASSUME Kept
    PROVE  /\ Cleaned \in [Tokens -> [rows : Files, old : BOOLEAN] \cup {Gone}]
           /\ \A t \in Tokens : Cleaned[t] = store[t] \/ (Cleaned[t] = Gone /\ t \in lost)
  BY DEF Cleaned, Kept, TypeOK, StoredIsStaged

(* What the mapping says of a row, or nothing. *)
LEMMA ImportedFacts ==
    ASSUME Kept, NEW r \in Requests, Active(r), NEW x \in req[r].rows
    PROVE  LET y == Imported(r, x) IN
              /\ y \in Transaction /\ y.token = req[r].token /\ y.row = x
              /\ \/ y.cat = Null /\ y.sub = Null
                 \/ \E p \in DOMAIN req[r].mapping :
                       y.cat = req[r].mapping[p].cat /\ y.sub = req[r].mapping[p].sub
  <1> DEFINE pair == <<x.category_name, x.subcategory_name>>
             target == IF pair \in DOMAIN req[r].mapping THEN req[r].mapping[pair]
                       ELSE [cat |-> Null, sub |-> Null]
  <1>1. /\ req[r].token \in Tokens /\ req[r].rows \in Files /\ req[r].mapping \in Mapping
    BY HandlerFacts DEF Kept
  <1>2. x \in FileRow
    BY <1>1, ImportAssumption
  <1>3. /\ target.cat \in Cats \cup {New, Null} /\ target.sub \in Subs \cup {New, Null}
        /\ \/ target.cat = Null /\ target.sub = Null
           \/ \E p \in DOMAIN req[r].mapping :
                 target.cat = req[r].mapping[p].cat /\ target.sub = req[r].mapping[p].sub
    <2> HIDE DEF pair
    <2>1. CASE pair \in DOMAIN req[r].mapping
      <3>1. req[r].mapping[pair] \in Target
        BY <1>1, <2>1, MappingFacts
      <3> QED
        BY <2>1, <3>1 DEF Target
    <2>2. CASE pair \notin DOMAIN req[r].mapping
      BY <2>2
    <2> QED
      BY <2>1, <2>2
  <1>4. Imported(r, x) = [token |-> req[r].token, row |-> x,
                          cat |-> target.cat, sub |-> target.sub]
    BY DEF Imported
  <1> HIDE DEF target
  <1> QED
    BY <1>1, <1>2, <1>3, <1>4 DEF Transaction

-------------------------------------------------------------------------------
(* Kept, one step per action. *)

(* A write of the import. *)
LEMMA WriteKept ==
    ASSUME Kept, NEW r \in Requests, Active(r), Write(r), UNCHANGED staged
    PROVE  /\ txs' \subseteq Transaction /\ imports' \in [Tokens -> Nat]
           /\ AccountsAreOfFile'
           /\ imports'[req[r].token] = imports[req[r].token] + 1
           /\ \A t \in Tokens \ {req[r].token} : imports'[t] = imports[t]
  <1> DEFINE t == req[r].token
  <1>1. /\ t \in Tokens /\ staged[t] # Gone /\ req[r].rows = staged[t]
    BY HandlerFacts DEF Kept, HandlersKnow
  <1>2. txs' \subseteq Transaction
    BY ImportedFacts DEF Write, Kept, TypeOK
  <1>3. /\ imports' = [imports EXCEPT ![t] = @ + 1]
        /\ accounts' = [accounts EXCEPT ![t] = AccountCurrencies(staged[t])]
    BY <1>1 DEF Write
  <1> HIDE DEF t
  <1>4. imports' \in [Tokens -> Nat] /\ imports'[t] = imports[t] + 1
        /\ \A u \in Tokens \ {t} : imports'[u] = imports[u]
    BY <1>1, <1>3 DEF Kept, TypeOK
  <1>5. imports[t] \in Nat
    BY <1>1 DEF Kept, TypeOK
  <1>6. imports'[t] # 0
    BY <1>4, <1>5
  <1>7. accounts' = [u \in Tokens |-> IF imports'[u] = 0 THEN <<>>
                                      ELSE AccountCurrencies(staged[u])]
    BY <1>1, <1>3, <1>4, <1>6 DEF Kept, AccountsAreOfFile
  <1>8. AccountsAreOfFile'
    <2>1. \A u \in Tokens : AccountCurrencies(staged[u])' = AccountCurrencies(staged[u])
      BY DEF AccountCurrencies, CurrenciesOf, DestinationCurrency
    <2> QED
      BY <1>7, <2>1 DEF AccountsAreOfFile
  <1> QED
    BY <1>2, <1>4, <1>8 DEF t

(* What is staged is still what was accepted. *)
LEMMA ShrinksKept ==
    ASSUME Kept, Shrinks(Tokens), UNCHANGED <<staged, lost>>
    PROVE  StoredIsStaged'
  BY DEF Shrinks, Kept, StoredIsStaged

(* A handler goes on, having written all or nothing of its file. *)
LEMMA HandlerKept ==
    ASSUME Kept, NEW r \in Requests, Active(r), NEW pc \in {"commit", "pop"}, Moves(r, pc),
           Shrinks(Tokens), UNCHANGED <<cats, subs, staged, lost>>, doubtful' \subseteq Tokens,
           UNCHANGED <<accounts, txs, imports>> \/ Write(r),
           pc = "pop" => imports'[req[r].token] # 0
    PROVE  Kept'
  <1>1. /\ req' \in [Requests -> Handler \cup {Idle}]
        /\ \A q \in Requests \ {r} : req'[q] = req[q]
        /\ \/ req'[r] = Idle /\ ~Active(r)'
           \/ /\ req'[r].pc = pc /\ req'[r].token = req[r].token
              /\ req'[r].rows = req[r].rows /\ req'[r].mapping = req[r].mapping
    BY MoveReq DEF Kept
  <1>2. PICK t \in Tokens : t = req[r].token
    BY HandlerFacts DEF Kept
  <1>3. /\ txs' \subseteq Transaction /\ imports' \in [Tokens -> Nat] /\ AccountsAreOfFile'
        /\ \A u \in Tokens : imports'[u] = imports[u] \/ (u = t /\ imports'[u] = imports[u] + 1)
    <2>1. CASE UNCHANGED <<accounts, txs, imports>>
      <3>1. AccountsAreOfFile'
        BY <2>1 DEF Kept, AccountsAreOfFile, AccountCurrencies, CurrenciesOf, DestinationCurrency
      <3> QED
        BY <2>1, <3>1 DEF Kept, TypeOK
    <2>2. CASE Write(r)
      BY <1>2, <2>2, WriteKept
    <2> QED
      BY <2>1, <2>2
  <1>4. TypeOK'
    BY <1>1, <1>3 DEF Kept, TypeOK, Shrinks
  <1>5. \A u \in Tokens : imports[u] # 0 => imports'[u] # 0
    BY <1>3 DEF Kept, TypeOK
  <1>6. StagedIsAccepted'
    <2>1. \A u \in Tokens : staged[u] # Gone => Acceptable(staged[u])'
      BY DEF Kept, StagedIsAccepted, Acceptable, CurrenciesOf, DestinationCurrency
    <2>2. staged[t] # Gone
      BY <1>2 DEF Kept, HandlersKnow
    <2> QED
      BY <1>3, <2>1, <2>2 DEF Kept, StagedIsAccepted
  <1>7. HandlersKnow'
    <2> SUFFICES ASSUME NEW q \in Requests, Active(q)'
                 PROVE  /\ staged[req'[q].token] # Gone /\ req'[q].rows = staged[req'[q].token]
                        /\ req'[q].pc = "pop" => imports'[req'[q].token] # 0
      BY DEF HandlersKnow
    <2>1. CASE q = r
      BY <1>1, <1>2, <2>1 DEF Kept, HandlersKnow
    <2>2. CASE q # r
      <3>1. req'[q] = req[q] /\ Active(q)
        BY <1>1, <2>2 DEF Active
      <3>2. req[q].token \in Tokens
        BY <3>1, HandlerFacts DEF Kept
      <3> QED
        BY <1>5, <3>1, <3>2 DEF Kept, HandlersKnow
    <2> QED
      BY <2>1, <2>2
  <1> QED
    BY <1>3, <1>4, <1>6, <1>7, ShrinksKept DEF Kept

(* Nothing of the files, their handlers and their accounts changes. *)
LEMMA DataKept ==
    ASSUME Kept, TypeOK', UNCHANGED <<store, accounts, req, staged, imports, lost>>
    PROVE  Kept'
  <1>1. AccountsAreOfFile'
    BY DEF Kept, AccountsAreOfFile, AccountCurrencies, CurrenciesOf, DestinationCurrency
  <1>2. StagedIsAccepted'
    BY DEF Kept, StagedIsAccepted, Acceptable, CurrenciesOf, DestinationCurrency
  <1>3. StoredIsStaged' /\ HandlersKnow'
    BY DEF Kept, StoredIsStaged, HandlersKnow, Active
  <1> QED
    BY <1>1, <1>2, <1>3 DEF Kept

(* What a deletion leaves of the imported transactions. *)
LEMMA TransactionsStay ==
    ASSUME NEW x \in Transaction
    PROVE  /\ [x EXCEPT !.cat = Null, !.sub = Null] \in Transaction
           /\ [x EXCEPT !.sub = Null] \in Transaction
  BY DEF Transaction

LEMMA InitKept == Init => Kept
  <1> SUFFICES ASSUME Init PROVE Kept
    OBVIOUS
  <1>1. TypeOK
    BY DEF Init, TypeOK
  <1>2. AccountsAreOfFile
    BY DEF Init, AccountsAreOfFile
  <1> QED
    BY <1>1, <1>2 DEF Init, Kept, StoredIsStaged, HandlersKnow, StagedIsAccepted, Active, Idle

LEMMA PreviewKept ==
    ASSUME Kept, NEW t \in Tokens, NEW file \in Files, preview_import(t, file)
    PROVE  Kept'
  <1> DEFINE entry == [rows |-> file, old |-> FALSE]
  <1>1. /\ staged[t] = Gone /\ Acceptable(file)
        /\ store' = [store EXCEPT ![t] = entry] /\ staged' = [staged EXCEPT ![t] = file]
        /\ UNCHANGED <<cats, subs, accounts, txs, req, imports, doubtful, lost>>
    BY DEF preview_import
  <1>2. entry \in [rows : Files, old : BOOLEAN] /\ entry.rows = file /\ ~entry.old
    OBVIOUS
  <1>3. file # Gone /\ entry # Gone
    BY <1>2, RowAssumption
  <1> HIDE DEF entry
  <1>4. TypeOK'
    BY <1>1, <1>2 DEF Kept, TypeOK
  <1>5. StoredIsStaged'
    BY <1>1, <1>2, <1>3 DEF Kept, StoredIsStaged, TypeOK
  <1>6. HandlersKnow'
    BY <1>1, HandlerFacts DEF Kept, HandlersKnow, TypeOK, Active
  <1>7. StagedIsAccepted'
    <2>1. Acceptable(file)' /\ \A u \in Tokens : staged[u] # Gone => Acceptable(staged[u])
      BY <1>1 DEF Kept, StagedIsAccepted
    <2> QED
      BY <1>1, <1>3, <2>1 DEF Kept, StagedIsAccepted, TypeOK
  <1>8. AccountsAreOfFile'
    <2>1. imports[t] = 0
      BY <1>1 DEF Kept, StagedIsAccepted
    <2>2. \A u \in Tokens \ {t} : staged'[u] = staged[u]
      BY <1>1 DEF Kept, TypeOK
    <2> QED
      BY <1>1, <2>1, <2>2 DEF Kept, AccountsAreOfFile
  <1> QED
    BY <1>4, <1>5, <1>6, <1>7, <1>8 DEF Kept

(* A confirm begins: it removes what is too old, and has a handler of its   *)
(* own if the token is there.                                               *)
LEMMA ConfirmBegins ==
    ASSUME Kept, NEW r \in Requests, NEW t \in Tokens, NEW mapping \in Mappings(t),
           ConfirmStarts(r, t, mapping)
    PROVE  /\ ~Active(r) /\ store' = Cleaned
           /\ UNCHANGED <<cats, subs, accounts, txs, staged, imports, lost>>
           /\ \/ UNCHANGED <<req, doubtful>>
              \/ \E h \in Handler :
                    /\ h.pc = "resolve" /\ h.token = t /\ h.rows = staged[t]
                    /\ store[t] # Gone /\ staged[t] # Gone
                    /\ req' = [req EXCEPT ![r] = h]
                    /\ doubtful' \in {doubtful, doubtful \cup {t}}
                    /\ (\E q \in Requests : Active(q) /\ req[q].token = t) => t \in doubtful'
  <1> DEFINE h == [pc |-> "resolve", token |-> t, rows |-> Cleaned[t].rows, mapping |-> mapping]
  <1>1. CASE Cleaned[t] = Gone
    BY <1>1 DEF ConfirmStarts
  <1>2. CASE Cleaned[t] # Gone
    <2>1. /\ ~Active(r) /\ store' = Cleaned
          /\ UNCHANGED <<cats, subs, accounts, txs, staged, imports, lost>>
          /\ req' = [req EXCEPT ![r] = h]
          /\ doubtful' = IF \E q \in Requests : Active(q) /\ req[q].token = t
                         THEN doubtful \cup {t} ELSE doubtful
      BY <1>2 DEF ConfirmStarts
    <2>2. store[t] # Gone /\ staged[t] # Gone /\ Cleaned[t].rows = staged[t] /\ staged[t] \in Files
      BY <1>2, CleanedFacts DEF Kept, StoredIsStaged, TypeOK
    <2>3. mapping \in Mapping
      <3>1. Pairs(staged[t]) \subseteq Name \X Name
        BY <2>2, ImportAssumption DEF Pairs, FileRow, Name
      <3>2. PICK some \in SUBSET Pairs(staged[t]) : mapping \in [some -> Target]
        BY <1>2, <2>2 DEF Mappings
      <3>3. some \in SUBSET (Name \X Name)
        BY <3>1, <3>2
      <3> QED
        BY <3>2, <3>3 DEF Mapping
    <2>4. h \in Handler
      BY <2>2, <2>3 DEF Handler
    <2>5. h.pc = "resolve" /\ h.token = t /\ h.rows = staged[t]
      BY <2>2
    <2> HIDE DEF h
    <2> QED
      BY <2>1, <2>2, <2>4, <2>5
  <1> QED
    BY <1>1, <1>2

LEMMA ConfirmKept ==
    ASSUME Kept, NEW r \in Requests, NEW t \in Tokens, NEW mapping \in Mappings(t),
           ConfirmStarts(r, t, mapping)
    PROVE  Kept'
  <1>1. /\ ~Active(r) /\ store' = Cleaned
        /\ UNCHANGED <<cats, subs, accounts, txs, staged, imports, lost>>
    BY ConfirmBegins
  <1>2. Shrinks(Tokens)
    BY <1>1, CleanedFacts DEF Shrinks
  <1>3. /\ req' \in [Requests -> Handler \cup {Idle}] /\ doubtful' \subseteq Tokens
        /\ \A q \in Requests :
              \/ req'[q] = req[q]
              \/ /\ req'[q].pc = "resolve" /\ req'[q].token = t
                 /\ req'[q].rows = staged[t] /\ staged[t] # Gone
    <2>1. CASE UNCHANGED <<req, doubtful>>
      BY <2>1 DEF Kept, TypeOK
    <2>2. CASE ~UNCHANGED <<req, doubtful>>
      <3>1. PICK h \in Handler :
                /\ h.pc = "resolve" /\ h.token = t /\ h.rows = staged[t] /\ staged[t] # Gone
                /\ req' = [req EXCEPT ![r] = h]
                /\ doubtful' \in {doubtful, doubtful \cup {t}}
        BY <2>2, ConfirmBegins
      <3> QED
        BY <3>1 DEF Kept, TypeOK
    <2> QED
      BY <2>1, <2>2
  <1>4. TypeOK'
    BY <1>1, <1>2, <1>3 DEF Kept, TypeOK, Shrinks
  <1>5. HandlersKnow'
    BY <1>1, <1>3 DEF Kept, HandlersKnow, Active
  <1>6. AccountsAreOfFile' /\ StagedIsAccepted'
    BY <1>1 DEF Kept, AccountsAreOfFile, StagedIsAccepted
  <1> QED
    BY <1>1, <1>2, <1>4, <1>5, <1>6, ShrinksKept DEF Kept

LEMMA GrowOldKept ==
    ASSUME Kept, NEW t \in Tokens, GrowOld(t) PROVE Kept'
  <1> DEFINE entry == [store[t] EXCEPT !.old = TRUE]
  <1>1. /\ store[t] # Gone /\ store' = [store EXCEPT ![t] = entry] /\ lost' = lost \cup {t}
        /\ UNCHANGED <<cats, subs, accounts, txs, req, staged, imports, doubtful>>
    BY DEF GrowOld
  <1>2. entry \in [rows : Files, old : BOOLEAN] /\ entry.rows = store[t].rows
    BY <1>1 DEF Kept, TypeOK
  <1> HIDE DEF entry
  <1>3. TypeOK'
    BY <1>1, <1>2 DEF Kept, TypeOK
  <1>4. StoredIsStaged'
    BY <1>1, <1>2 DEF Kept, TypeOK, StoredIsStaged
  <1>5. AccountsAreOfFile' /\ StagedIsAccepted' /\ HandlersKnow'
    BY <1>1 DEF Kept, AccountsAreOfFile, StagedIsAccepted, HandlersKnow, Active
  <1> QED
    BY <1>3, <1>4, <1>5 DEF Kept

LEMMA RestartKept == ASSUME Kept, Restart PROVE Kept'
  <1>1. /\ store' = [t \in Tokens |-> Gone] /\ req' = [r \in Requests |-> Idle]
        /\ lost' \subseteq Tokens
        /\ UNCHANGED <<cats, subs, accounts, txs, staged, imports, doubtful>>
    BY DEF Restart, Kept, TypeOK
  <1>2. TypeOK'
    BY <1>1 DEF Kept, TypeOK
  <1>3. StoredIsStaged' /\ HandlersKnow'
    BY <1>1 DEF StoredIsStaged, HandlersKnow, Active, Idle
  <1>4. AccountsAreOfFile' /\ StagedIsAccepted'
    BY <1>1 DEF Kept, AccountsAreOfFile, StagedIsAccepted
  <1> QED
    BY <1>2, <1>3, <1>4 DEF Kept

LEMMA DeleteKept ==
    ASSUME Kept, \/ \E c \in Cats : delete_category(c)
                 \/ \E s \in Subs : delete_subcategory(s)
    PROVE  Kept'
  <1>1. UNCHANGED <<store, accounts, req, staged, imports, doubtful, lost>>
    BY DEF delete_category, delete_subcategory
  <1>2. cats' \subseteq Cats /\ subs' \subseteq Subs /\ txs' \subseteq Transaction
    BY TransactionsStay DEF delete_category, delete_subcategory, Kept, TypeOK
  <1>3. TypeOK'
    BY <1>1, <1>2 DEF Kept, TypeOK
  <1> QED
    BY <1>1, <1>3, DataKept

(* What each step of a handler does to it and to the store. *)
LEMMA HandlerSteps ==
    ASSUME Kept, NEW r \in Requests,
           \/ ResolveMapping(r) \/ CommitImport(r) \/ CommitFails(r) \/ CommitUnanswered(r)
           \/ PopToken(r)
    PROVE  /\ Active(r) /\ UNCHANGED <<cats, subs, staged, lost>>
           /\ doubtful' \in {doubtful, doubtful \cup {req[r].token}}
           /\ Shrinks({req[r].token})
           /\ UNCHANGED <<accounts, txs, imports>> \/ Write(r)
           /\ \E pc \in {"commit", "pop"} :
                 Moves(r, pc) /\ (pc = "pop" => imports'[req[r].token] # 0)
  <1>1. /\ Active(r) /\ UNCHANGED <<cats, subs, staged, lost>>
        /\ doubtful' \in {doubtful, doubtful \cup {req[r].token}}
        /\ UNCHANGED <<accounts, txs, imports>> \/ Write(r)
    BY DEF ResolveMapping, CommitImport, CommitFails, CommitUnanswered, PopToken, Active
  <1>2. req[r].token \in Tokens
    BY <1>1, HandlerFacts DEF Kept
  <1>3. Shrinks({req[r].token})
    <2>1. store' \in {store, [store EXCEPT ![req[r].token] = Gone]}
      BY DEF ResolveMapping, CommitImport, CommitFails, CommitUnanswered, PopToken
    <2> QED
      BY <1>2, <2>1 DEF Shrinks, Kept, TypeOK
  <1>4. CASE CommitImport(r)
    <2>1. CASE Write(r)
      <3>1. imports'[req[r].token] # 0
        BY <1>1, <1>2, <2>1, WriteKept DEF Kept, TypeOK
      <3>2. Moves(r, "pop")
        BY <1>4 DEF CommitImport, Moves
      <3> QED
        BY <1>1, <1>3, <3>1, <3>2
    <2>2. CASE ~ReferencesHold(r)
      <3>1. Moves(r, "commit")
        BY <1>4, <2>2 DEF CommitImport, Moves
      <3> QED
        BY <1>1, <1>3, <3>1
    <2> QED
      BY <1>4, <2>1, <2>2 DEF CommitImport
  <1>5. CASE ResolveMapping(r) \/ CommitFails(r) \/ CommitUnanswered(r) \/ PopToken(r)
    <2>1. Moves(r, "commit")
      BY <1>5 DEF ResolveMapping, CommitFails, CommitUnanswered, PopToken, Moves
    <2> QED
      BY <1>1, <1>3, <2>1
  <1> QED
    BY <1>4, <1>5

LEMMA NextKept == Kept /\ [Next]_vars => Kept'
  <1> SUFFICES ASSUME Kept, [Next]_vars PROVE Kept'
    OBVIOUS
  <1>1. CASE \E t \in Tokens, file \in Files : preview_import(t, file)
    BY <1>1, PreviewKept
  <1>2. CASE \E r \in Requests, t \in Tokens : \E mapping \in Mappings(t) :
                ConfirmStarts(r, t, mapping)
    BY <1>2, ConfirmKept
  <1>3. ASSUME NEW r \in Requests,
               \/ ResolveMapping(r) \/ CommitImport(r) \/ CommitFails(r) \/ CommitUnanswered(r)
               \/ PopToken(r)
        PROVE  Kept'
    <2>1. req[r].token \in Tokens
      BY <1>3, HandlerSteps, HandlerFacts DEF Kept
    <2>2. doubtful' \subseteq Tokens /\ Shrinks(Tokens)
      BY <1>3, <2>1, HandlerSteps DEF Kept, TypeOK, Shrinks
    <2> QED
      BY <1>3, <2>2, HandlerSteps, HandlerKept
  <1>4. CASE \E t \in Tokens : GrowOld(t)
    BY <1>4, GrowOldKept
  <1>5. CASE Restart
    BY <1>5, RestartKept
  <1>6. CASE \/ \E c \in Cats : delete_category(c)
             \/ \E s \in Subs : delete_subcategory(s)
    BY <1>6, DeleteKept
  <1>7. CASE UNCHANGED vars
    <2>1. TypeOK'
      BY <1>7 DEF vars, Kept, TypeOK
    <2> QED
      BY <1>7, <2>1, DataKept DEF vars
  <1> QED
    BY <1>1, <1>2, <1>3, <1>4, <1>5, <1>6, <1>7 DEF Next

LEMMA AlwaysKept == Spec => []Kept
  <1> QED
    BY InitKept, NextKept, PTL DEF Spec

(* What is staged, in hand or imported has the types the request and the    *)
(* tables give it, whatever is uploaded, confirmed and deleted meanwhile.   *)
THEOREM TypeCorrect == Spec => []TypeOK
  <1>1. Kept => TypeOK
    BY DEF Kept
  <1> QED
    BY <1>1, AlwaysKept, PTL

-------------------------------------------------------------------------------
(* Once, one step per action. *)

(* Nothing is imported for u, and no handler for u begins. *)
LEMMA StaysSingle ==
    ASSUME NEW u \in Tokens, Single(u), imports'[u] = imports[u],
           store'[u] \in {store[u], Gone},
           \A q \in Requests : Active(q)' /\ req'[q].token = u =>
              /\ Active(q) /\ req[q].token = u
              /\ req'[q].pc \in {"resolve", "commit"} => req[q].pc \in {"resolve", "commit"},
           \A q \in Requests : req[q].pc = "pop" /\ req[q].token = u =>
              store'[u] = Gone \/ (req'[q].pc = "pop" /\ req'[q].token = u)
    PROVE  Single(u)'
  <1>1. \A q, r \in Requests : Active(q)' /\ Active(r)' /\ req'[q].token = u /\ req'[r].token = u
            => q = r
    BY DEF Single
  <1>2. \A r \in Requests : req'[r].pc \in {"resolve", "commit"} /\ req'[r].token = u
            => imports'[u] = 0
    BY DEF Single, Active
  <1>3. imports'[u] # 0 => \/ store'[u] = Gone
                           \/ \E r \in Requests : req'[r].pc = "pop" /\ req'[r].token = u
    BY DEF Single
  <1> QED
    BY <1>1, <1>2, <1>3 DEF Single

LEMMA SameOnce ==
    ASSUME Once, UNCHANGED <<store, req, imports, doubtful>> PROVE Once'
  BY DEF Once, Single, Active

LEMMA PreviewOnce ==
    ASSUME Kept, Once, NEW t \in Tokens, NEW file \in Files, preview_import(t, file)
    PROVE  Once'
  <1>1. /\ staged[t] = Gone /\ UNCHANGED <<req, imports, doubtful>>
        /\ \A u \in Tokens \ {t} : store'[u] = store[u]
    BY DEF preview_import, Kept, TypeOK
  <1>2. imports[t] = 0
    BY <1>1 DEF Kept, StagedIsAccepted
  <1>3. ASSUME NEW u \in Tokens \ doubtful PROVE Single(u)'
    <2>1. CASE u = t
      BY <1>1, <1>2, <2>1 DEF Once, Single, Active
    <2>2. CASE u # t
      BY <1>1, <2>2 DEF Once, Single, Active
    <2> QED
      BY <2>1, <2>2
  <1> QED
    BY <1>1, <1>3 DEF Once

LEMMA ConfirmOnce ==
    ASSUME Kept, Once, NEW r \in Requests, NEW t \in Tokens, NEW mapping \in Mappings(t),
           ConfirmStarts(r, t, mapping)
    PROVE  Once'
  <1>1. /\ ~Active(r) /\ UNCHANGED imports
        /\ \A u \in Tokens : store'[u] \in {store[u], Gone}
    BY ConfirmBegins, CleanedFacts
  <1>2. CASE UNCHANGED <<req, doubtful>>
    BY <1>1, <1>2, StaysSingle DEF Once, Active
  <1>3. ASSUME NEW h \in Handler, h.pc = "resolve", h.token = t, store[t] # Gone,
               req' = [req EXCEPT ![r] = h], doubtful' \in {doubtful, doubtful \cup {t}},
               (\E q \in Requests : Active(q) /\ req[q].token = t) => t \in doubtful'
        PROVE  Once'
    <2>1. req'[r] = h /\ \A q \in Requests \ {r} : req'[q] = req[q]
      BY <1>3 DEF Kept, TypeOK
    <2>2. ASSUME NEW u \in Tokens \ doubtful', u # t PROVE Single(u)'
      <3>1. Single(u)
        BY <1>3, <2>2 DEF Once
      <3> QED
        BY <1>1, <1>3, <2>1, <2>2, <3>1, StaysSingle DEF Active
    <2>3. ASSUME t \notin doubtful' PROVE Single(t)'
      <3>1. Single(t) /\ \A q \in Requests : ~(Active(q) /\ req[q].token = t)
        BY <1>3, <2>3 DEF Once
      <3>2. imports[t] = 0
        BY <1>3, <3>1 DEF Single, Active
      <3>3. \A q \in Requests : Active(q)' /\ req'[q].token = t => q = r
        BY <2>1, <3>1 DEF Active
      <3> QED
        BY <1>1, <3>2, <3>3 DEF Single
    <2> QED
      BY <2>2, <2>3 DEF Once
  <1> QED
    BY <1>2, <1>3, ConfirmBegins

(* A handler ends or looks up its mapping; the token it takes away is that  *)
(* of a file that is imported.                                              *)
LEMMA QuietOnce ==
    ASSUME Kept, Once, NEW r \in Requests,
           ResolveMapping(r) \/ CommitFails(r) \/ PopToken(r)
    PROVE  Once'
  <1>1. /\ UNCHANGED <<imports, doubtful>> /\ Active(r) /\ Moves(r, "commit")
        /\ req'[r] = Idle \/ req[r].pc = "resolve"
    BY DEF ResolveMapping, CommitFails, PopToken, Active, Moves, Kept, TypeOK
  <1>2. PICK t \in Tokens : t = req[r].token
    BY <1>1, HandlerFacts DEF Kept
  <1>3. /\ \A q \in Requests \ {r} : req'[q] = req[q]
        /\ req'[r] = Idle \/ (req'[r].pc = "commit" /\ req'[r].token = t)
    BY <1>1, <1>2, MoveReq DEF Kept
  <1>4. /\ \A u \in Tokens : store'[u] \in {store[u], Gone}
        /\ req[r].pc = "pop" => store'[t] = Gone
    BY <1>2 DEF ResolveMapping, CommitFails, PopToken, Kept, TypeOK
  <1>5. ASSUME NEW u \in Tokens \ doubtful PROVE Single(u)'
    <2>1. \A q \in Requests : Active(q)' /\ req'[q].token = u =>
              /\ Active(q) /\ req[q].token = u
              /\ req'[q].pc \in {"resolve", "commit"} => req[q].pc \in {"resolve", "commit"}
      BY <1>1, <1>2, <1>3 DEF Active, Idle
    <2>2. \A q \in Requests : req[q].pc = "pop" /\ req[q].token = u =>
              store'[u] = Gone \/ (req'[q].pc = "pop" /\ req'[q].token = u)
      BY <1>2, <1>3, <1>4
    <2> QED
      BY <1>1, <1>4, <2>1, <2>2, StaysSingle DEF Once
  <1> QED
    BY <1>1, <1>5 DEF Once

LEMMA CommitOnce ==
    ASSUME Kept, Once, NEW r \in Requests, CommitImport(r) \/ CommitUnanswered(r)
    PROVE  Once'
  <1>1. /\ Active(r) /\ req[r].pc = "commit" /\ UNCHANGED store
        /\ doubtful \subseteq doubtful'
    BY DEF CommitImport, CommitUnanswered, Active
  <1>2. PICK t \in Tokens : t = req[r].token
    BY <1>1, HandlerFacts DEF Kept
  <1>3. PICK pc \in {"commit", "pop"} : Moves(r, pc)
    BY HandlerSteps
  <1>4. /\ \A q \in Requests \ {r} : req'[q] = req[q]
        /\ Active(r)' => req'[r].token = t
    BY <1>1, <1>2, <1>3, MoveReq DEF Kept
  <1>5. \/ UNCHANGED imports
        \/ Write(r) /\ imports'[t] = imports[t] + 1 /\ \A u \in Tokens \ {t} : imports'[u] = imports[u]
    BY <1>1, <1>2, HandlerSteps, WriteKept
  <1>6. ASSUME NEW u \in Tokens \ doubtful', u # t PROVE Single(u)'
    <2>1. Single(u)
      BY <1>1, <1>6 DEF Once
    <2>2. \A q \in Requests : Active(q)' /\ req'[q].token = u => req'[q] = req[q]
      BY <1>4, <1>6
    <2>3. \A q \in Requests : req[q].pc = "pop" /\ req[q].token = u => req'[q] = req[q]
      BY <1>2, <1>4, <1>6
    <2> QED
      BY <1>1, <1>5, <1>6, <2>1, <2>2, <2>3, StaysSingle DEF Active
  <1>7. ASSUME t \notin doubtful' PROVE Single(t)'
    <2>1. CommitImport(r)
      BY <1>2, <1>7 DEF CommitUnanswered
    <2>2. /\ Single(t) /\ imports[t] = 0
          /\ \A q \in Requests : Active(q) /\ req[q].token = t => q = r
      BY <1>1, <1>2, <1>7 DEF Once, Single
    <2>3. \A q \in Requests : Active(q)' /\ req'[q].token = t => q = r
      BY <1>4, <2>2 DEF Active
    <2>4. CASE ReferencesHold(r)
      <3>1. Write(r) /\ req' = [req EXCEPT ![r].pc = "pop"]
        BY <2>1, <2>4 DEF CommitImport
      <3>2. req'[r].pc = "pop" /\ req'[r].token = t
        <4>1. req[r] \in Handler /\ req'[r] = [req[r] EXCEPT !.pc = "pop"]
          BY <1>1, <3>1, HandlerFacts DEF Kept, TypeOK
        <4> QED
          BY <1>2, <4>1 DEF Handler
      <3>3. imports'[t] = 1
        <4>1. UNCHANGED staged
          BY <2>1 DEF CommitImport
        <4> QED
          BY <1>1, <1>2, <2>2, <3>1, <4>1, WriteKept
      <3>4. \A q \in Requests : req'[q].pc \in {"resolve", "commit"} => req'[q].token # t
        BY <2>3, <3>2 DEF Active
      <3> QED
        BY <2>3, <3>2, <3>3, <3>4 DEF Single
    <2>5. CASE ~ReferencesHold(r)
      <3>1. req'[r] = Idle /\ UNCHANGED imports
        BY <2>1, <2>5 DEF CommitImport, Kept, TypeOK
      <3>2. \A q \in Requests : ~(Active(q)' /\ req'[q].token = t)
        BY <2>3, <3>1 DEF Active, Idle
      <3> QED
        BY <2>2, <3>1, <3>2 DEF Single, Active
    <2> QED
      BY <2>4, <2>5
  <1> QED
    BY <1>6, <1>7 DEF Once

LEMMA NextOnce == Kept /\ Once /\ [Next]_vars => Once'
  <1> SUFFICES ASSUME Kept, Once, [Next]_vars PROVE Once'
    OBVIOUS
  <1>1. CASE \E t \in Tokens, file \in Files : preview_import(t, file)
    BY <1>1, PreviewOnce
  <1>2. CASE \E r \in Requests, t \in Tokens : \E mapping \in Mappings(t) :
                ConfirmStarts(r, t, mapping)
    BY <1>2, ConfirmOnce
  <1>3. CASE \E r \in Requests : ResolveMapping(r) \/ CommitFails(r) \/ PopToken(r)
    BY <1>3, QuietOnce
  <1>4. CASE \E r \in Requests : CommitImport(r) \/ CommitUnanswered(r)
    BY <1>4, CommitOnce
  <1>5. CASE \E t \in Tokens : GrowOld(t)
    <2>1. PICK t \in Tokens : GrowOld(t)
      BY <1>5
    <2>2. /\ UNCHANGED <<req, imports, doubtful>>
          /\ \A u \in Tokens : store[u] = Gone => store'[u] = store[u]
      BY <2>1 DEF GrowOld, Kept, TypeOK
    <2> QED
      BY <2>2 DEF Once, Single, Active
  <1>6. CASE Restart
    <2>1. /\ store' = [t \in Tokens |-> Gone] /\ req' = [r \in Requests |-> Idle]
          /\ UNCHANGED <<imports, doubtful>>
      BY <1>6 DEF Restart
    <2> QED
      BY <2>1 DEF Once, Single, Active, Idle
  <1>7. CASE \/ \E c \in Cats : delete_category(c)
             \/ \E s \in Subs : delete_subcategory(s)
             \/ UNCHANGED vars
    BY <1>7, SameOnce DEF delete_category, delete_subcategory, vars
  <1> QED
    BY <1>1, <1>2, <1>3, <1>4, <1>5, <1>6, <1>7 DEF Next

(* A client that waits for each answer imports a file at most once, however *)
(* often it confirms the token again after a failure: the token is taken    *)
(* away after the COMMIT and before the answer (confirm_import), and a      *)
(* COMMIT without an answer is the exception.                               *)
THEOREM ImportsOnce == Spec => []ImportedOnce
  <1>1. Init => Once
    BY DEF Init, Once, Single, Active, Idle
  <1>2. Once => ImportedOnce
    BY DEF Once, Single, ImportedOnce
  <1> QED
    BY <1>1, <1>2, NextOnce, AlwaysKept, PTL DEF Spec

(* A confirm that fails leaves the file to be confirmed again: what is      *)
(* staged goes when it is imported, too old, or with the process.           *)
THEOREM FilesStay == Spec => []FileStaysUntilImported
  <1>1. Init => FileStaysUntilImported
    BY DEF Init, FileStaysUntilImported
  <1>2. Kept /\ FileStaysUntilImported /\ [Next]_vars => FileStaysUntilImported'
    <2> SUFFICES ASSUME Kept, FileStaysUntilImported, [Next]_vars,
                        NEW t \in Tokens, t \notin lost', staged'[t] # Gone, imports'[t] = 0
                 PROVE  store'[t] # Gone
      BY DEF FileStaysUntilImported
    <2>1. CASE \E u \in Tokens, file \in Files : preview_import(u, file)
      <3>1. PICK u \in Tokens, file \in Files : preview_import(u, file)
        BY <2>1
      <3> DEFINE entry == [rows |-> file, old |-> FALSE]
      <3>2. entry # Gone
        <4>1. entry \in [rows : Files, old : BOOLEAN]
          OBVIOUS
        <4> QED
          BY <4>1, RowAssumption
      <3>3. /\ store' = [store EXCEPT ![u] = entry] /\ staged' = [staged EXCEPT ![u] = file]
            /\ UNCHANGED <<imports, lost>>
        BY <3>1 DEF preview_import
      <3> HIDE DEF entry
      <3> QED
        BY <3>2, <3>3 DEF Kept, TypeOK, FileStaysUntilImported
    <2>2. CASE \E r \in Requests, u \in Tokens : \E mapping \in Mappings(u) :
                  ConfirmStarts(r, u, mapping)
      BY <2>2, CleanedFacts DEF ConfirmStarts, FileStaysUntilImported
    <2>3. ASSUME NEW r \in Requests,
                 \/ ResolveMapping(r) \/ CommitImport(r) \/ CommitFails(r)
                 \/ CommitUnanswered(r)
          PROVE  store'[t] # Gone
      <3>1. /\ UNCHANGED <<store, staged, lost>> /\ Active(r)
            /\ UNCHANGED imports \/ Write(r)
        BY <2>3 DEF ResolveMapping, CommitImport, CommitFails, CommitUnanswered, Active
      <3>2. imports[t] = 0
        BY <3>1, HandlerFacts, WriteKept DEF Kept, TypeOK
      <3> QED
        BY <3>1, <3>2 DEF FileStaysUntilImported
    <2>4. ASSUME NEW r \in Requests, PopToken(r) PROVE store'[t] # Gone
      <3>1. /\ UNCHANGED <<staged, imports, lost>> /\ req[r].pc = "pop" /\ Active(r)
            /\ store' = [store EXCEPT ![req[r].token] = Gone]
        BY <2>4 DEF PopToken, Active
      <3>2. req[r].token # t
        BY <3>1 DEF Kept, HandlersKnow
      <3> QED
        BY <3>1, <3>2 DEF Kept, TypeOK, FileStaysUntilImported
    <2>5. CASE \E u \in Tokens : GrowOld(u)
      BY <2>5 DEF GrowOld, Kept, TypeOK, FileStaysUntilImported
    <2>6. CASE Restart
      BY <2>6 DEF Restart, FileStaysUntilImported
    <2>7. CASE \/ \E c \in Cats : delete_category(c)
               \/ \E s \in Subs : delete_subcategory(s)
               \/ UNCHANGED vars
      BY <2>7 DEF delete_category, delete_subcategory, vars, FileStaysUntilImported
    <2> QED
      BY <2>1, <2>2, <2>3, <2>4, <2>5, <2>6, <2>7 DEF Next
  <1> QED
    BY <1>1, <1>2, AlwaysKept, PTL DEF Spec

-------------------------------------------------------------------------------
(* Fitting, one step per action. *)

(* Of a file that is accepted, the account of a row has the row's currency. *)
LEMMA OnlyOne ==
    ASSUME NEW S, IsFiniteSet(S), Cardinality(S) <= 1, NEW x \in S
    PROVE  S = {x}
  <1> SUFFICES ASSUME NEW y \in S, y # x PROVE FALSE
    OBVIOUS
  <1>1. {x, y} \subseteq S
    OBVIOUS
  <1>2. IsFiniteSet({x, y}) /\ Cardinality({x, y}) <= Cardinality(S)
    BY <1>1, FS_Subset
  <1>3. Cardinality({x, y}) = 2
    <2>1. IsFiniteSet({x}) /\ Cardinality({x}) = 1
      BY FS_Singleton
    <2>2. Cardinality({x} \cup {y}) = Cardinality({x}) + 1
      BY <2>1, FS_AddElement
    <2>3. {x} \cup {y} = {x, y}
      OBVIOUS
    <2> QED
      BY <2>1, <2>2, <2>3
  <1>4. Cardinality(S) \in Nat
    BY FS_CardinalityType
  <1> QED
    BY <1>2, <1>3, <1>4

LEMMA CurrenciesFinite ==
    ASSUME NEW file \in Files, NEW name PROVE IsFiniteSet(CurrenciesOf(file, name))
  <1> DEFINE Sources == {y \in file : y.account_name = name}
             Destinations == {y \in file : y.account_destination_name = name}
  <1>1. IsFiniteSet(file)
    BY ImportAssumption
  <1>2. IsFiniteSet(Sources) /\ IsFiniteSet(Destinations)
    BY <1>1, FS_Subset
  <1> HIDE DEF Sources, Destinations
  <1>3. IsFiniteSet({x.currency : x \in Sources})
    <2> DEFINE f == [x \in Sources |-> x.currency]
    <2>1. f \in Surjection(Sources, {x.currency : x \in Sources})
      BY DEF Surjection
    <2> QED
      BY <1>2, <2>1, FS_Surjection
  <1>4. IsFiniteSet({DestinationCurrency(x) : x \in Destinations})
    <2> DEFINE f == [x \in Destinations |-> DestinationCurrency(x)]
    <2>1. f \in Surjection(Destinations, {DestinationCurrency(x) : x \in Destinations})
      BY DEF Surjection
    <2> QED
      BY <1>2, <2>1, FS_Surjection
  <1> QED
    BY <1>3, <1>4, FS_Union DEF CurrenciesOf, Sources, Destinations

LEMMA CurrencyOfAccount ==
    ASSUME NEW file \in Files, Acceptable(file), NEW x \in file
    PROVE  /\ AccountCurrencies(file)[x.account_name] = x.currency
           /\ x.account_destination_name # Null =>
                 AccountCurrencies(file)[x.account_destination_name] = DestinationCurrency(x)
  <1>1. x \in FileRow
    BY ImportAssumption
  <1>2. ASSUME NEW name \in Names, NEW c \in CurrenciesOf(file, name)
        PROVE  AccountCurrencies(file)[name] = c
    <2>1. CurrenciesOf(file, name) = {c}
      BY CurrenciesFinite, OnlyOne DEF Acceptable
    <2> QED
      BY <2>1 DEF AccountCurrencies
  <1>3. x.account_name \in Names /\ x.currency \in CurrenciesOf(file, x.account_name)
    BY <1>1 DEF FileRow, CurrenciesOf
  <1>4. x.account_destination_name # Null =>
            /\ x.account_destination_name \in Names
            /\ DestinationCurrency(x) \in CurrenciesOf(file, x.account_destination_name)
    BY <1>1 DEF FileRow, CurrenciesOf
  <1> QED
    BY <1>2, <1>3, <1>4

(* What of a transaction can be upset. *)
Fits(x) ==
    /\ imports[x.token] # 0 /\ x.row \in staged[x.token]
    /\ x.cat \in cats \cup {New, Null}
    /\ ParentIs(x.cat, x.sub) /\ (x.sub \in Subs => x.sub \in subs)

MappingFits(r) ==
    req[r].pc = "commit" =>
        \A p \in DOMAIN req[r].mapping : ParentIs(req[r].mapping[p].cat, req[r].mapping[p].sub)

LEMMA FittingIs == Fitting <=> (\A r \in Requests : MappingFits(r)) /\ (\A x \in txs : Fits(x))
  BY DEF Fitting, Fits, MappingFits

(* No handler gets as far as the commit, nothing is imported or deleted. *)
LEMMA SameFitting ==
    ASSUME Kept, Fitting, UNCHANGED <<cats, subs, txs, imports>>,
           \A t \in Tokens : staged[t] # Gone => staged'[t] = staged[t],
           \A q \in Requests : req'[q].pc = "commit" => req'[q] = req[q]
    PROVE  Fitting'
  <1>1. \A r \in Requests : MappingFits(r)'
    BY DEF Fitting, MappingFits, ParentIs
  <1>2. ASSUME NEW x \in txs PROVE Fits(x)'
    <2>1. x.token \in Tokens
      BY DEF Kept, TypeOK, Transaction
    <2> QED
      BY <2>1 DEF Kept, StagedIsAccepted, Fitting, Fits, ParentIs
  <1> QED
    BY <1>1, <1>2 DEF Fitting, Fits, MappingFits

(* The file is written: its rows fit the mapping that was looked up, and    *)
(* the foreign keys that it still is there.                                 *)
LEMMA WriteFits ==
    ASSUME Kept, Fitting, NEW r \in Requests, req[r].pc = "commit", Write(r),
           ReferencesHold(r), UNCHANGED <<cats, subs, staged>>, NEW y \in txs'
    PROVE  Fits(y)'
  <1>0. Active(r)
    BY DEF Active
  <1>1. PICK t \in Tokens : t = req[r].token /\ req[r].rows = staged[t]
    BY <1>0, HandlerFacts DEF Kept, HandlersKnow
  <1>2. /\ imports'[t] = imports[t] + 1 /\ imports[t] \in Nat
        /\ \A u \in Tokens \ {t} : imports'[u] = imports[u]
    BY <1>0, <1>1, WriteKept DEF Kept, TypeOK
  <1>3. CASE y \in txs
    <2>1. y.token \in Tokens
      BY <1>3 DEF Kept, TypeOK, Transaction
    <2> QED
      BY <1>2, <1>3, <2>1 DEF Fitting, Fits, ParentIs
  <1>4. ASSUME NEW x \in req[r].rows, y = Imported(r, x) PROVE Fits(y)'
    <2>1. /\ y.token = t /\ y.row \in staged[t]
          /\ \/ y.cat = Null /\ y.sub = Null
             \/ \E p \in DOMAIN req[r].mapping :
                   y.cat = req[r].mapping[p].cat /\ y.sub = req[r].mapping[p].sub
      BY <1>0, <1>1, <1>4, ImportedFacts
    <2>2. Subs \cap {New, Null} = {}
      BY ImportAssumption
    <2>3. CASE y.cat = Null /\ y.sub = Null
      BY <1>2, <2>1, <2>2, <2>3 DEF Fits, ParentIs
    <2>4. CASE \E p \in DOMAIN req[r].mapping :
                  y.cat = req[r].mapping[p].cat /\ y.sub = req[r].mapping[p].sub
      <3>1. PICK p \in DOMAIN req[r].mapping :
                y.cat = req[r].mapping[p].cat /\ y.sub = req[r].mapping[p].sub
        BY <2>4
      <3>2. ParentIs(y.cat, y.sub)
        BY <3>1 DEF Fitting
      <3>3. y.cat \in cats \cup {New} /\ y.sub \in subs \cup {New, Null}
        BY <3>1 DEF ReferencesHold
      <3> QED
        BY <1>2, <2>1, <2>2, <3>2, <3>3 DEF Fits, ParentIs
    <2> QED
      BY <2>1, <2>3, <2>4
  <1> QED
    BY <1>3, <1>4 DEF Write

(* A deletion takes the references along. *)
LEMMA DeleteCategoryFits ==
    ASSUME Kept, Fitting, NEW c \in Cats, delete_category(c), NEW y \in txs'
    PROVE  Fits(y)'
  <1>1. PICK x \in txs : y = IF x.cat = c THEN [x EXCEPT !.cat = Null, !.sub = Null] ELSE x
    BY DEF delete_category
  <1>2. x \in Transaction /\ Fits(x)
    BY DEF Kept, TypeOK, Fitting, Fits
  <1>3. /\ cats' = cats \ {c} /\ subs' = {s \in subs : Parent[s] # c}
        /\ UNCHANGED <<imports, staged>>
    BY DEF delete_category
  <1>4. Null \notin Subs
    BY ImportAssumption
  <1>5. CASE x.cat = c
    <2>1. y.token = x.token /\ y.row = x.row /\ y.cat = Null /\ y.sub = Null
      BY <1>1, <1>2, <1>5 DEF Transaction
    <2> QED
      BY <1>2, <1>3, <1>4, <2>1 DEF Fits, ParentIs
  <1>6. CASE x.cat # c
    BY <1>1, <1>2, <1>3, <1>6 DEF Fits, ParentIs
  <1> QED
    BY <1>5, <1>6

LEMMA DeleteSubcategoryFits ==
    ASSUME Kept, Fitting, NEW s \in Subs, delete_subcategory(s), NEW y \in txs'
    PROVE  Fits(y)'
  <1>1. PICK x \in txs : y = IF x.sub = s THEN [x EXCEPT !.sub = Null] ELSE x
    BY DEF delete_subcategory
  <1>2. x \in Transaction /\ Fits(x)
    BY DEF Kept, TypeOK, Fitting, Fits
  <1>3. subs' = subs \ {s} /\ UNCHANGED <<cats, imports, staged>>
    BY DEF delete_subcategory
  <1>4. Null \notin Subs
    BY ImportAssumption
  <1>5. CASE x.sub = s
    <2>1. y.token = x.token /\ y.row = x.row /\ y.cat = x.cat /\ y.sub = Null
      BY <1>1, <1>2, <1>5 DEF Transaction
    <2> QED
      BY <1>2, <1>3, <1>4, <2>1 DEF Fits, ParentIs
  <1>6. CASE x.sub # s
    BY <1>1, <1>2, <1>3, <1>6 DEF Fits, ParentIs
  <1> QED
    BY <1>5, <1>6

LEMMA NextFitting == Kept /\ Fitting /\ [Next]_vars => Fitting'
  <1> SUFFICES ASSUME Kept, Fitting, [Next]_vars PROVE Fitting'
    OBVIOUS
  <1>1. ASSUME NEW t \in Tokens, NEW file \in Files, preview_import(t, file) PROVE Fitting'
    BY <1>1, SameFitting DEF preview_import, Kept, TypeOK
  <1>2. ASSUME NEW r \in Requests, NEW t \in Tokens, NEW mapping \in Mappings(t),
               ConfirmStarts(r, t, mapping)
        PROVE  Fitting'
    <2>1. UNCHANGED <<cats, subs, txs, imports, staged>>
      BY <1>2, ConfirmBegins
    <2>2. \A q \in Requests : req'[q] = req[q] \/ req'[q].pc = "resolve"
      BY <1>2, ConfirmBegins DEF Kept, TypeOK
    <2> QED
      BY <2>1, <2>2, SameFitting
  <1>3. ASSUME NEW r \in Requests, ResolveMapping(r) PROVE Fitting'
    <2>1. /\ Active(r) /\ UNCHANGED <<cats, subs, txs, imports, staged>> /\ Moves(r, "commit")
          /\ \/ \A p \in DOMAIN req[r].mapping : Resolvable(req[r].mapping[p])
             \/ req'[r] = Idle
      BY <1>3 DEF ResolveMapping, Active, Moves, Kept, TypeOK
    <2>2. /\ \A q \in Requests \ {r} : req'[q] = req[q]
          /\ req'[r] = Idle \/ req'[r].mapping = req[r].mapping
      BY <2>1, MoveReq DEF Kept
    <2>3. MappingFits(r)'
      <3>1. ASSUME NEW p \in DOMAIN req[r].mapping, Resolvable(req[r].mapping[p])
            PROVE  ParentIs(req[r].mapping[p].cat, req[r].mapping[p].sub)
        <4>1. Subs \cap {New, Null} = {}
          BY ImportAssumption
        <4> QED
          BY <3>1, <4>1 DEF Resolvable, ParentIs
      <3> QED
        BY <2>1, <2>2, <3>1 DEF MappingFits, Idle, ParentIs
    <2>4. \A q \in Requests : MappingFits(q)'
      BY <2>2, <2>3 DEF Fitting, MappingFits, ParentIs
    <2>5. \A x \in txs : Fits(x)'
      BY <2>1 DEF Fitting, Fits, ParentIs
    <2> QED
      BY <2>1, <2>4, <2>5 DEF Fitting, Fits, MappingFits
  <1>4. ASSUME NEW r \in Requests, CommitImport(r) \/ CommitUnanswered(r) PROVE Fitting'
    <2>1. /\ req[r].pc = "commit" /\ Active(r) /\ UNCHANGED <<cats, subs, staged>>
          /\ UNCHANGED <<txs, imports>> \/ (Write(r) /\ ReferencesHold(r))
          /\ Moves(r, "pop")
      BY <1>4 DEF CommitImport, CommitUnanswered, Active, Moves
    <2>2. \A q \in Requests : req'[q].pc = "commit" => req'[q] = req[q]
      BY <2>1, MoveReq DEF Kept, Idle
    <2>3. \A q \in Requests : MappingFits(q)'
      BY <2>2 DEF Fitting, MappingFits, ParentIs
    <2>4. CASE UNCHANGED <<txs, imports>>
      BY <2>1, <2>2, <2>4, SameFitting
    <2>5. CASE Write(r) /\ ReferencesHold(r)
      <3>1. \A y \in txs' : Fits(y)'
        BY <2>1, <2>5, WriteFits
      <3> QED
        BY <2>3, <3>1 DEF Fitting, Fits, MappingFits
    <2> QED
      BY <2>1, <2>4, <2>5
  <1>5. ASSUME NEW r \in Requests, CommitFails(r) \/ PopToken(r) PROVE Fitting'
    <2>1. /\ UNCHANGED <<cats, subs, txs, imports, staged>>
          /\ req' = [req EXCEPT ![r] = Idle]
      BY <1>5 DEF CommitFails, PopToken
    <2> QED
      BY <2>1, SameFitting DEF Kept, TypeOK, Idle
  <1>6. CASE Restart
    BY <1>6, SameFitting DEF Restart, Idle
  <1>7. CASE UNCHANGED vars \/ \E t \in Tokens : GrowOld(t)
    BY <1>7, SameFitting DEF vars, GrowOld
  <1>8. CASE \/ \E c \in Cats : delete_category(c)
             \/ \E s \in Subs : delete_subcategory(s)
    <2>1. \A y \in txs' : Fits(y)'
      BY <1>8, DeleteCategoryFits, DeleteSubcategoryFits
    <2>2. UNCHANGED req
      BY <1>8 DEF delete_category, delete_subcategory
    <2>3. \A q \in Requests : MappingFits(q)'
      BY <2>2 DEF Fitting, MappingFits, ParentIs
    <2> QED
      BY <2>1, <2>3 DEF Fitting, Fits, MappingFits
  <1> QED
    BY <1>1, <1>2, <1>3, <1>4, <1>5, <1>6, <1>7, <1>8 DEF Next

(* What an import wrote fits what it refers to: its transactions are in the *)
(* currencies the accounts got from the file (_parse_and_validate_rows and  *)
(* _build_account_currencies), and their categories exist and belong        *)
(* together, whatever is deleted between the lookup and the commit.         *)
THEOREM ImportsFit == Spec => []ImportedRowsCoherent
  <1>1. Init => Fitting
    BY DEF Init, Fitting, Idle
  <1>2. Kept /\ Fitting => ImportedRowsCoherent
    <2> SUFFICES ASSUME Kept, Fitting, NEW x \in txs
                 PROVE  /\ accounts[x.token][x.row.account_name] = x.row.currency
                        /\ x.row.account_destination_name # Null =>
                              accounts[x.token][x.row.account_destination_name]
                                  = DestinationCurrency(x.row)
                        /\ x.cat \in cats \cup {New, Null}
                        /\ x.sub \in Subs => x.sub \in subs /\ x.cat = Parent[x.sub]
      BY DEF ImportedRowsCoherent
    <2>1. PICK t \in Tokens : t = x.token /\ imports[t] # 0 /\ x.row \in staged[t]
      BY DEF Kept, TypeOK, Transaction, Fitting
    <2>2. /\ staged[t] \in Files /\ Acceptable(staged[t])
          /\ accounts[t] = AccountCurrencies(staged[t])
      BY <2>1 DEF Kept, TypeOK, StagedIsAccepted, AccountsAreOfFile
    <2>3. /\ accounts[x.token][x.row.account_name] = x.row.currency
          /\ x.row.account_destination_name # Null =>
                accounts[x.token][x.row.account_destination_name] = DestinationCurrency(x.row)
      BY <2>1, <2>2, CurrencyOfAccount
    <2>4. /\ x.cat \in cats \cup {New, Null}
          /\ x.sub \in Subs => x.sub \in subs /\ x.cat = Parent[x.sub]
      BY DEF Fitting, ParentIs
    <2> QED
      BY <2>3, <2>4
  <1> QED
    BY <1>1, <1>2, NextFitting, AlwaysKept, PTL DEF Spec
===============================================================================
