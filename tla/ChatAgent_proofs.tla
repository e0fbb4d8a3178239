--------------------------- MODULE ChatAgent_proofs ---------------------------
(***************************************************************************)
(* Proofs about ChatAgent, for any accounts, categories and patches and    *)
(* any interleaving: what the handler answers is complete where it is      *)
(* offered, and refers to what the handler found.  resolve_transaction is  *)
(* a composition, and the lemmas follow it step by step.                   *)
(***************************************************************************)
EXTENDS ChatAgent, TLAPS

(* The draft names accounts and categories of the context only. *)
Refers(d, ctx) ==
    /\ \A a \in {d.account_id, d.account_destination_id} : a = Null \/ KnownAccount(ctx, a)
    /\ \A l \in {d.category_id, d.subcategory_id} : l = Null \/ KnownLabel(ctx, d.type, l)

Ids == Accounts \cup {Null}
Amounts == {Said, Zero, Null}

LEMMA NullIsNoValue ==
    /\ Null \notin Accounts /\ Null \notin Categories
    /\ Null \notin Subcategories /\ Null \notin Currencies
    /\ Said # Null /\ ARS \in Currencies
  BY ChatAssumption DEF ChatAssumption

(* What is said is an amount; a draft is left with one, or with none. *)
LEMMA CleanedAmount ==
    /\ Cleaned(Said) = Said /\ Cleaned(Null) = Null
    /\ \A x : Cleaned(x) \in Amounts
    /\ \A x \in Amounts : Cleaned(x) # Zero
  BY ChatAssumption DEF ChatAssumption, Cleaned, Amounts

-------------------------------------------------------------------------------
(* One field of a draft changes. *)
LEMMA SetType == ASSUME NEW d \in Draft, NEW x \in Types PROVE [d EXCEPT !.type = x] \in Draft
  BY DEF Draft
LEMMA SetAmount ==
    ASSUME NEW d \in Draft, NEW x \in Amounts PROVE [d EXCEPT !.amount = x] \in Draft
  BY DEF Draft, Amounts
LEMMA SetCurrency ==
    ASSUME NEW d \in Draft, NEW x \in Currencies \cup {Null}
    PROVE  [d EXCEPT !.currency = x] \in Draft
  BY DEF Draft
LEMMA SetAccount ==
    ASSUME NEW d \in Draft, NEW x \in Ids PROVE [d EXCEPT !.account_id = x] \in Draft
  BY DEF Draft, Ids
LEMMA SetDestination ==
    ASSUME NEW d \in Draft, NEW x \in Ids PROVE [d EXCEPT !.account_destination_id = x] \in Draft
  BY DEF Draft, Ids
LEMMA SetCategory ==
    ASSUME NEW d \in Draft, NEW x \in Categories \cup {Null}
    PROVE  [d EXCEPT !.category_id = x] \in Draft
  BY DEF Draft
LEMMA SetSubcategory ==
    ASSUME NEW d \in Draft, NEW x \in Subcategories \cup {Null}
    PROVE  [d EXCEPT !.subcategory_id = x] \in Draft
  BY DEF Draft

LEMMA SanitizedDraft ==
    ASSUME NEW d \in Draft, NEW ctx
    PROVE  /\ Sanitized(d, ctx, d.type) \in Draft /\ Refers(Sanitized(d, ctx, d.type), ctx)
           /\ Sanitized(d, ctx, d.type).amount # Zero
  <1> DEFINE m == Cleaned(d.amount)
             a == Keep(d.account_id, KnownAccount(ctx, d.account_id))
             b == Keep(d.account_destination_id, KnownAccount(ctx, d.account_destination_id))
             c == Keep(d.category_id, KnownLabel(ctx, d.type, d.category_id))
             s == Keep(d.subcategory_id, KnownLabel(ctx, d.type, d.subcategory_id))
             d0 == [d EXCEPT !.amount = m]
             d1 == [d0 EXCEPT !.account_id = a]
             d2 == [d1 EXCEPT !.account_destination_id = b]
             d3 == [d2 EXCEPT !.category_id = c]
             d4 == [d3 EXCEPT !.subcategory_id = s]
  <1>0. m \in Amounts /\ m # Zero
    <2>1. d.amount \in Amounts
      BY DEF Draft, Amounts
    <2> QED
      BY <2>1, CleanedAmount
  <1>1. a \in Ids /\ b \in Ids /\ c \in Categories \cup {Null} /\ s \in Subcategories \cup {Null}
    BY DEF Draft, Keep, Ids
  <1>2. d4 \in Draft
    <2> HIDE DEF m, a, b, c, s
    <2>0. d0 \in Draft
      BY <1>0, SetAmount
    <2>1. d1 \in Draft
      <3> HIDE DEF d0
      <3> QED
        BY <1>1, <2>0, SetAccount
    <2>2. d2 \in Draft
      <3> HIDE DEF d1
      <3> QED
        BY <1>1, <2>1, SetDestination
    <2>3. d3 \in Draft
      <3> HIDE DEF d2
      <3> QED
        BY <1>1, <2>2, SetCategory
    <2> HIDE DEF d3
    <2> QED
      BY <1>1, <2>3, SetSubcategory
  <1>3. /\ Sanitized(d, ctx, d.type) = d4
        /\ d4.type = d.type /\ d4.amount = m
        /\ d4.account_id = a /\ d4.account_destination_id = b
        /\ d4.category_id = c /\ d4.subcategory_id = s
    <2> HIDE DEF KnownAccount, KnownLabel, Keep, Cleaned
    <2> QED
      BY DEF Sanitized, Draft
  <1>4. Refers(d4, ctx)
    <2> HIDE DEF d4
    <2> QED
      BY <1>3 DEF Refers, Keep
  <1> HIDE DEF d4, m
  <1> QED
    BY <1>0, <1>2, <1>3, <1>4

LEMMA HydratedDraft ==
    ASSUME NEW d \in Draft, NEW ctx, Refers(d, ctx), NEW type \in Types
    PROVE  /\ Hydrated(d, ctx, type) \in Draft /\ Refers(Hydrated(d, ctx, type), ctx)
           /\ Hydrated(d, ctx, type).type = type
  <1> DEFINE c == Keep(d.category_id, KnownLabel(ctx, type, d.category_id))
             s == Keep(d.subcategory_id, KnownLabel(ctx, type, d.subcategory_id))
             m == Cleaned(d.amount)
             d0 == [d EXCEPT !.type = type]
             d1 == [d0 EXCEPT !.amount = m]
             d2 == [d1 EXCEPT !.category_id = c]
             d3 == [d2 EXCEPT !.subcategory_id = s]
  <1>1. c \in Categories \cup {Null} /\ s \in Subcategories \cup {Null} /\ m \in Amounts
    BY CleanedAmount DEF Draft, Keep
  <1>2. d3 \in Draft
    <2> HIDE DEF c, s, m
    <2>0. d0 \in Draft
      BY SetType
    <2>1. d1 \in Draft
      <3> HIDE DEF d0
      <3> QED
        BY <1>1, <2>0, SetAmount
    <2>2. d2 \in Draft
      <3> HIDE DEF d1
      <3> QED
        BY <1>1, <2>1, SetCategory
    <2> HIDE DEF d2
    <2> QED
      BY <1>1, <2>2, SetSubcategory
  <1>3. /\ Hydrated(d, ctx, type) = d3
        /\ d3.type = type
        /\ d3.account_id = d.account_id /\ d3.account_destination_id = d.account_destination_id
        /\ d3.category_id = c /\ d3.subcategory_id = s
    BY DEF Hydrated, Draft
  <1>4. Refers(d3, ctx)
    <2> HIDE DEF d3
    <2> QED
      BY <1>3 DEF Refers, Keep
  <1> QED
    BY <1>2, <1>3, <1>4

LEMMA BlankDraft ==
    ASSUME NEW type \in Types, NEW ctx
    PROVE  Blank(type) \in Draft /\ Refers(Blank(type), ctx) /\ Blank(type).type = type
  BY DEF Blank, Draft, Refers

LEMMA MergedDraft ==
    ASSUME NEW d \in Draft, NEW ctx, Refers(d, ctx), NEW p \in Patch, Admitted(ctx, p)
    PROVE  /\ Merged(d, p, ctx) \in Draft /\ Refers(Merged(d, p, ctx), ctx)
           /\ Merged(d, p, ctx).type = d.type
  <1> DEFINE m == Newer(Cleaned(p.amount), d.amount)
             u == Newer(p.currency, d.currency)
             a == Newer(p.account, d.account_id)
             b == Newer(p.destination, d.account_destination_id)
             c == IF KnownLabel(ctx, d.type, p.category) THEN p.category ELSE d.category_id
             s == IF c # Null /\ KnownLabel(ctx, d.type, p.subcategory)
                  THEN p.subcategory ELSE d.subcategory_id
             d1 == [d EXCEPT !.amount = m]
             d2 == [d1 EXCEPT !.currency = u]
             d3 == [d2 EXCEPT !.account_id = a]
             d4 == [d3 EXCEPT !.account_destination_id = b]
             d5 == [d4 EXCEPT !.category_id = c]
             d6 == [d5 EXCEPT !.subcategory_id = s]
  <1>0. m \in Amounts
    <2>1. d.amount \in Amounts
      BY DEF Draft, Amounts
    <2> QED
      BY <2>1, CleanedAmount DEF Newer
  <1>1. /\ u \in Currencies \cup {Null}
        /\ a \in Ids /\ b \in Ids
        /\ p.category \in Categories \cup {Null} /\ p.subcategory \in Subcategories \cup {Null}
    <2> HIDE DEF m
    <2> QED
      BY DEF Draft, Patch, Newer, Ids
  <1>2. c \in Categories \cup {Null} /\ s \in Subcategories \cup {Null}
    BY <1>1 DEF Draft
  <1>3. d6 \in Draft
    <2> HIDE DEF m, u, a, b, c, s
    <2>1. d1 \in Draft
      BY <1>0, SetAmount
    <2>2. d2 \in Draft
      <3> HIDE DEF d1
      <3> QED
        BY <1>1, <2>1, SetCurrency
    <2>3. d3 \in Draft
      <3> HIDE DEF d2
      <3> QED
        BY <1>1, <2>2, SetAccount
    <2>4. d4 \in Draft
      <3> HIDE DEF d3
      <3> QED
        BY <1>1, <2>3, SetDestination
    <2>5. d5 \in Draft
      <3> HIDE DEF d4
      <3> QED
        BY <1>2, <2>4, SetCategory
    <2> HIDE DEF d5
    <2> QED
      BY <1>2, <2>5, SetSubcategory
  <1>4. /\ Merged(d, p, ctx) = d6
        /\ d6.type = d.type
        /\ d6.account_id = a /\ d6.account_destination_id = b
        /\ d6.category_id = c /\ d6.subcategory_id = s
    BY DEF Merged, Draft
  <1>5. Refers(d6, ctx)
    <2>1. /\ a = Null \/ KnownAccount(ctx, a)
          /\ b = Null \/ KnownAccount(ctx, b)
      BY DEF Refers, Admitted, Newer
    <2>2. /\ c = Null \/ KnownLabel(ctx, d.type, c)
          /\ s = Null \/ KnownLabel(ctx, d.type, s)
      BY DEF Refers
    <2> HIDE DEF a, b, c, s, d6
    <2> QED
      BY <1>4, <2>1, <2>2 DEF Refers
  <1> QED
    BY <1>3, <1>4, <1>5

LEMMA InferredAccount ==
    ASSUME NEW d \in Draft, NEW ctx, NEW last, NEW a, a = Inferred(d, ctx, last), a # Null
    PROVE  /\ d.type \in Spending /\ d.account_id = Null
           /\ KnownAccount(ctx, a) /\ a \in Accounts
           /\ ctx.account[a] = Newer(d.currency, ARS)
  BY DEF Inferred, Keep, KnownAccount

-------------------------------------------------------------------------------
(* What an answer with a draft promises. *)
Complete(d) ==
    /\ Null \notin {d.amount, d.currency, d.account_id}
    /\ d.type = "transfer" => d.account_destination_id \notin {Null, d.account_id}

Fits(d, ctx) == d.type \in Spending /\ ctx.account[d.account_id] = d.currency

AnswerInv(reply, ctx) ==
    /\ reply.payload # Null => reply.payload \in Draft /\ Refers(reply.payload, ctx)
    /\ reply.kind = "draft" => Complete(reply.payload)
    /\ reply.inferred => Fits(reply.payload, ctx)

LEMMA AnsweredDraft ==
    ASSUME NEW d \in Draft, NEW ctx, Refers(d, ctx), NEW inferred \in BOOLEAN,
           inferred => /\ d.type \in Spending
                       /\ ctx.account[d.account_id] = Newer(d.currency, ARS)
    PROVE  AnswerInv(Answered(d, ctx, inferred), ctx)
  <1> USE NullIsNoValue
  <1>1. CASE d.type = "transfer" /\ d.account_id # Null /\ d.account_destination_id = d.account_id
    <2> DEFINE e == [d EXCEPT !.account_destination_id = Null]
    <2>1. e \in Draft
      BY SetDestination DEF Ids
    <2>2. /\ e.type = d.type /\ e.account_id = d.account_id /\ e.account_destination_id = Null
          /\ e.category_id = d.category_id /\ e.subcategory_id = d.subcategory_id
      BY DEF Draft
    <2>3. Answered(d, ctx, inferred) = Reply("clarification", e, <<"account_destination">>, FALSE)
      BY <1>1 DEF Answered
    <2> HIDE DEF e
    <2>4. Refers(e, ctx)
      BY <2>2 DEF Refers
    <2> QED
      BY <2>1, <2>3, <2>4 DEF AnswerInv, Reply
  <1>2. CASE d.type \in Spending /\ NoAccounts(ctx)
    <2> DEFINE e == [Blank(d.type) EXCEPT !.amount = d.amount]
    <2>1. d.type \in Types /\ d.amount \in Amounts
      BY DEF Draft, Amounts
    <2>2. Blank(d.type) \in Draft
      BY <2>1, BlankDraft
    <2>3. e \in Draft
      <3> HIDE DEF Blank
      <3> QED
        BY <2>1, <2>2, SetAmount
    <2>4. /\ e.account_id = Null /\ e.account_destination_id = Null
          /\ e.category_id = Null /\ e.subcategory_id = Null
      BY DEF Blank
    <2>5. Answered(d, ctx, inferred) = Reply("clarification", e, <<"account">>, FALSE)
      BY <1>2 DEF Answered, Spending
    <2> HIDE DEF e
    <2>6. Refers(e, ctx)
      BY <2>4 DEF Refers
    <2> QED
      BY <2>3, <2>5, <2>6 DEF AnswerInv, Reply
  <1>3. CASE /\ ~(d.type = "transfer" /\ d.account_id # Null /\ d.account_destination_id = d.account_id)
             /\ ~(d.type \in Spending /\ NoAccounts(ctx))
             /\ Missing(d) # <<>>
    <2>1. Answered(d, ctx, inferred) = Reply("clarification", d, Missing(d), FALSE)
      BY <1>3 DEF Answered
    <2> QED
      BY <2>1 DEF AnswerInv, Reply
  <1>4. CASE /\ ~(d.type = "transfer" /\ d.account_id # Null /\ d.account_destination_id = d.account_id)
             /\ ~(d.type \in Spending /\ NoAccounts(ctx))
             /\ Missing(d) = <<>>
    <2> DEFINE e == [d EXCEPT !.currency = Newer(d.currency, ARS)]
    <2>1. Newer(d.currency, ARS) \in Currencies
      BY DEF Draft, Newer
    <2>2. e \in Draft
      <3> HIDE DEF Newer
      <3> QED
        BY <2>1, SetCurrency
    <2>3. /\ e.type = d.type /\ e.amount = d.amount /\ e.currency = Newer(d.currency, ARS)
          /\ e.account_id = d.account_id /\ e.account_destination_id = d.account_destination_id
          /\ e.category_id = d.category_id /\ e.subcategory_id = d.subcategory_id
      BY DEF Draft
    <2>4. Answered(d, ctx, inferred) = Reply("draft", e, <<>>, inferred)
      BY <1>4 DEF Answered
    <2>5. /\ d.amount # Null /\ d.account_id # Null
          /\ d.type = "transfer" => d.account_destination_id \notin {Null, d.account_id}
      BY <1>4 DEF Missing
    <2> HIDE DEF e
    <2>6. Refers(e, ctx)
      BY <2>3 DEF Refers
    <2>7. Complete(e) /\ (inferred => Fits(e, ctx))
      BY <2>1, <2>3, <2>5 DEF Complete, Fits
    <2> QED
      BY <2>2, <2>4, <2>6, <2>7 DEF AnswerInv, Reply
  <1> QED
    BY <1>1, <1>2, <1>3, <1>4

(* The whole of resolve_transaction, over whatever draft was sent. *)
LEMMA ResolvedDraft ==
    ASSUME NEW p \in Patch, NEW ctx, Admitted(ctx, p), NEW last,
           NEW draft \in Draft \cup {Null}
    PROVE  AnswerInv(resolve_transaction(p, PendingDraft(draft, ctx), ctx, last), ctx)
  <1> DEFINE sent == PendingDraft(draft, ctx)
             base == IF p.starts_new \/ sent = Null THEN Null ELSE Sanitized(sent, ctx, sent.type)
             type == Newer(p.type, IF base = Null THEN Null ELSE base.type)
             hydrated == IF base = Null THEN Blank(type) ELSE Hydrated(base, ctx, type)
             merged == Merged(hydrated, p, ctx)
             a == Inferred(merged, ctx, last)
             full == [merged EXCEPT !.account_id = Newer(merged.account_id, a)]
  <1> USE NullIsNoValue
  <1>1. sent \in Draft \cup {Null}
    BY SanitizedDraft DEF PendingDraft
  <1>2. base # Null => base \in Draft /\ Refers(base, ctx)
    <2> HIDE DEF sent
    <2> QED
      BY <1>1, SanitizedDraft
  <1>3. CASE type = Null
    <2>1. resolve_transaction(p, sent, ctx, last) = Reply("clarification", Null, <<"type">>, FALSE)
      BY <1>3 DEF resolve_transaction
    <2> QED
      BY <2>1 DEF AnswerInv, Reply
  <1>4. CASE type # Null
    <2>1. type \in Types
      <3> HIDE DEF base
      <3> QED
        BY <1>2, <1>4 DEF Newer, Patch, Draft
    <2>2. hydrated \in Draft /\ Refers(hydrated, ctx)
      <3> HIDE DEF base, type
      <3> QED
        BY <1>2, <2>1, HydratedDraft, BlankDraft
    <2>3. merged \in Draft /\ Refers(merged, ctx)
      <3> HIDE DEF hydrated
      <3> QED
        BY <2>2, MergedDraft
    <2>4. a # Null => /\ merged.type \in Spending /\ merged.account_id = Null
                      /\ KnownAccount(ctx, a) /\ a \in Accounts
                      /\ ctx.account[a] = Newer(merged.currency, ARS)
      <3> HIDE DEF merged
      <3> QED
        BY <2>3, InferredAccount
    <2>5. Newer(merged.account_id, a) \in Ids
      <3> HIDE DEF merged, a
      <3> QED
        BY <2>3, <2>4 DEF Newer, Ids, Draft
    <2>6. full \in Draft
      <3> HIDE DEF merged, a, Newer
      <3> QED
        BY <2>3, <2>5, SetAccount
    <2>7. /\ full.type = merged.type /\ full.currency = merged.currency
          /\ full.account_id = Newer(merged.account_id, a)
          /\ full.account_destination_id = merged.account_destination_id
          /\ full.category_id = merged.category_id /\ full.subcategory_id = merged.subcategory_id
      <3> HIDE DEF merged, a, Newer
      <3> QED
        BY <2>3 DEF Draft
    <2>8. Refers(full, ctx)
      <3> HIDE DEF merged, a, full
      <3> QED
        BY <2>3, <2>4, <2>7 DEF Refers, Newer
    <2>9. a # Null => /\ full.type \in Spending
                      /\ ctx.account[full.account_id] = Newer(full.currency, ARS)
      <3> HIDE DEF merged, a, full
      <3> QED
        BY <2>4, <2>7 DEF Newer
    <2>10. AnswerInv(Answered(full, ctx, a # Null), ctx)
      <3> HIDE DEF merged, a, full
      <3> QED
        BY <2>6, <2>8, <2>9, AnsweredDraft
    <2>11. resolve_transaction(p, sent, ctx, last) = Answered(full, ctx, a # Null)
      BY <1>4 DEF resolve_transaction
    <2> HIDE DEF full, a
    <2> QED
      BY <2>10, <2>11
  <1> QED
    BY <1>3, <1>4

-------------------------------------------------------------------------------
(* The draft the client holds is one, a message is being read or answered,  *)
(* and a draft that was offered is complete.                                *)
DraftInv ==
    /\ pending \in Draft \cup {Null}
    /\ \/ \E ctx : msg = [pc |-> "reading", ctx |-> ctx]
       \/ \E reply : /\ msg = [pc |-> "idle", reply |-> reply]
                     /\ reply.kind = "draft" => Complete(reply.payload)

LEMMA DraftInit == ASSUME Init PROVE DraftInv
  BY DEF Init, DraftInv, NoReply, Reply

(* The reply to a patch, of an admitted one over the draft as sent. *)
LEMMA AnswerFacts ==
    ASSUME DraftInv, NEW p \in Patches, Answer(p)
    PROVE  /\ msg'.pc = "idle" /\ msg' = [pc |-> "idle", reply |-> msg'.reply]
           /\ AnswerInv(msg'.reply, msg.ctx)
           /\ pending' = msg'.reply.payload \/ pending' \in {pending, Null}
           /\ pending' # pending /\ pending' # Null => msg'.reply.payload # Null
  <1> DEFINE reply == resolve_transaction(p, PendingDraft(pending, msg.ctx), msg.ctx, LastUsed)
  <1>1. p \in Patch /\ pending \in Draft \cup {Null} /\ Admitted(msg.ctx, p)
    BY ChatAssumption DEF ChatAssumption, DraftInv, Answer
  <1>2. AnswerInv(reply, msg.ctx)
    BY <1>1, ResolvedDraft
  <1>3. Replies(reply)
    BY DEF Answer
  <1> HIDE DEF reply
  <1> QED
    BY <1>2, <1>3 DEF Replies

LEMMA DraftStep == ASSUME DraftInv, [Next]_vars PROVE DraftInv'
  <1>1. CASE ReadContext
    BY <1>1 DEF ReadContext, DraftInv
  <1>2. ASSUME NEW p \in Patches, Answer(p)
        PROVE  DraftInv'
    <2>1. pending' \in Draft \cup {Null}
      BY <1>2, AnswerFacts DEF AnswerInv, DraftInv
    <2>2. msg'.reply.kind = "draft" => Complete(msg'.reply.payload)
      BY <1>2, AnswerFacts DEF AnswerInv
    <2>3. msg' = [pc |-> "idle", reply |-> msg'.reply]
      BY <1>2, AnswerFacts
    <2> QED
      BY <2>1, <2>2, <2>3 DEF DraftInv
  <1>3. CASE AnswerWithoutData
    BY <1>3 DEF AnswerWithoutData, Replies, NoReply, Reply, DraftInv
  <1>4. CASE Confirm
    <2>1. msg.pc = "idle" /\ pending' = Null /\ msg' = [msg EXCEPT !.reply = NoReply]
      BY <1>4 DEF Confirm
    <2>2. PICK reply : msg = [pc |-> "idle", reply |-> reply]
      BY <2>1 DEF DraftInv
    <2>3. msg' = [pc |-> "idle", reply |-> NoReply] /\ NoReply.kind = "answer"
      BY <2>1, <2>2 DEF NoReply, Reply
    <2> QED
      BY <2>1, <2>3 DEF DraftInv
  <1>5. CASE UNCHANGED <<pending, msg>>
    BY <1>5 DEF DraftInv
  <1>6. CASE \E x \in Accounts, c \in Currencies : create_account(x, c)
    BY <1>5, <1>6 DEF create_account
  <1>7. CASE \E type \in Spending, x \in Accounts : create_expense(type, x) \/ delete_expense(type, x)
    BY <1>5, <1>7 DEF create_expense, delete_expense
  <1>8. CASE \E x \in Accounts : delete_account(x)
    BY <1>5, <1>8 DEF delete_account
  <1>9. CASE \E x \in Accounts, c \in Currencies : update_account(x, c)
    BY <1>5, <1>9 DEF update_account
  <1>10. CASE \E l \in Categories \cup Subcategories : DeleteLabel(l)
    BY <1>5, <1>10 DEF DeleteLabel
  <1> QED
    BY <1>1, <1>2, <1>3, <1>4, <1>5, <1>6, <1>7, <1>8, <1>9, <1>10 DEF Next, vars

LEMMA Drafts == Spec => []DraftInv
  BY DraftInit, DraftStep, PTL DEF Spec

(* What is offered for confirmation is complete, over any number of         *)
(* messages and any order of what was said (resolve.py 403-477).            *)
THEOREM DraftsAreComplete == Spec => []DraftIsComplete
  <1>1. ASSUME DraftInv PROVE DraftIsComplete
    BY <1>1 DEF DraftInv, DraftIsComplete, Complete
  <1> QED
    BY <1>1, Drafts, PTL

(* An answer is given by Answer or without data: what an answer with data   *)
(* promises holds of every answer.                                          *)
LEMMA AnswersKeepPromise ==
    ASSUME DraftInv, [Next]_vars, Answers
    PROVE  AnswerInv(msg'.reply, msg.ctx)
  <1>1. msg.pc = "reading" /\ msg'.pc = "idle" /\ msg' # msg
    BY DEF Answers
  <1>2. CASE \E p \in Patches : Answer(p)
    BY <1>2, AnswerFacts
  <1>3. CASE AnswerWithoutData
    BY <1>3 DEF AnswerWithoutData, Replies, NoReply, Reply, AnswerInv
  <1> QED
    BY <1>1, <1>2, <1>3 DEF Next, vars, ReadContext, Confirm, create_account, create_expense,
                            delete_expense, delete_account, update_account, DeleteLabel

(* An answer refers to accounts and categories its handler found, of the    *)
(* right type, whatever draft was sent (chat.py 68-119, resolve.py).        *)
THEOREM AnswersReferToWhatExists == Spec => AnswerRefersToWhatExists
  <1>1. ASSUME DraftInv, [Next]_vars, Answers, msg'.reply.payload # Null
        PROVE  LET d == msg'.reply.payload IN
               /\ \A a \in {d.account_id, d.account_destination_id} :
                     a = Null \/ msg.ctx.account[a] # Gone
               /\ \A l \in {d.category_id, d.subcategory_id} :
                     l = Null \/ KnownLabel(msg.ctx, d.type, l)
    <2>1. Refers(msg'.reply.payload, msg.ctx)
      BY <1>1, AnswersKeepPromise DEF AnswerInv
    <2> QED
      BY <2>1 DEF Refers, KnownAccount
  <1> QED
    BY <1>1, Drafts, PTL DEF Spec, AnswerRefersToWhatExists

(* An account the handler chose itself is in the currency of the draft      *)
(* (resolve.py 375-386), whatever changed between its two reads.            *)
THEOREM InferredAccountsFit == Spec => InferredAccountFits
  <1>1. ASSUME DraftInv, [Next]_vars, Answers, msg'.reply.inferred
        PROVE  LET d == msg'.reply.payload IN
               /\ d.type \in Spending
               /\ msg.ctx.account[d.account_id] = d.currency
    BY <1>1, AnswersKeepPromise DEF AnswerInv, Fits
  <1> QED
    BY <1>1, Drafts, PTL DEF Spec, InferredAccountFits
-------------------------------------------------------------------------------
(* AnswersAddUp, of one message.                                            *)

LEMMA WhatIsAsked ==
    ASSUME NEW d \in Draft, Missing(d) # <<>>
    PROVE  \/ d.amount = Null /\ Head(Missing(d)) = "amount"
           \/ d.amount # Null /\ d.account_id = Null /\ Head(Missing(d)) = "account"
           \/ /\ d.amount # Null /\ d.account_id # Null
              /\ d.type = "transfer" /\ d.account_destination_id = Null
              /\ Head(Missing(d)) = "account_destination"
  <1>1. CASE d.amount = Null
    BY <1>1 DEF Missing
  <1> DEFINE tail == IF d.type = "transfer" /\ d.account_destination_id = Null
                     THEN <<"account_destination">> ELSE <<>>
  <1>2. CASE d.amount # Null /\ d.account_id = Null
    <2>1. Missing(d) = <<"account">> \o tail
      BY <1>2 DEF Missing
    <2>2. tail = <<"account_destination">> \/ tail = <<>>
      OBVIOUS
    <2>3. /\ Head(<<"account">> \o <<"account_destination">>) = "account"
          /\ Head(<<"account">> \o <<>>) = "account"
      OBVIOUS
    <2>4. Head(Missing(d)) = "account"
      <3> HIDE DEF tail
      <3> QED
        BY <2>1, <2>2, <2>3
    <2> QED
      BY <1>2, <2>4
  <1>3. CASE d.amount # Null /\ d.account_id # Null
    <2>1. Missing(d) = <<>> \o tail
      BY <1>3 DEF Missing
    <2>2. tail = <<"account_destination">> \/ tail = <<>>
      OBVIOUS
    <2>3. tail = <<"account_destination">> => Missing(d) = <<"account_destination">>
      <3> HIDE DEF tail
      <3> QED
        BY <2>1
    <2>4. tail = <<>> => Missing(d) = <<>>
      <3> HIDE DEF tail
      <3> QED
        BY <2>1
    <2> QED
      BY <1>3, <2>2, <2>3, <2>4
  <1> QED
    BY <1>1, <1>2, <1>3

LEMMA NeedsOfDraft ==
    ASSUME NEW d \in Draft
    PROVE  /\ Needs(d) \subseteq {"amount", "account_id", "account_destination_id"}
           /\ "amount" \in Needs(d) <=> d.amount = Null
           /\ "account_id" \in Needs(d) <=> d.account_id = Null
           /\ "account_destination_id" \in Needs(d) <=>
                 d.type = "transfer" /\ d.account_destination_id = Null
  BY DEF Needs, Needed, Draft

(* d is the draft as sent, e the draft with what the message says in it.    *)
AddsTo(e, d) ==
    /\ e.type = d.type
    /\ d.amount # Null => e.amount # Null
    /\ d.currency # Null => e.currency # Null
    /\ d.account_id # Null => e.account_id # Null
    /\ d.account_destination_id # Null => e.account_destination_id # Null
    /\ d.category_id # Null => e.category_id # Null
    /\ d.subcategory_id # Null => e.subcategory_id # Null

GoesOn(d, reply, ctx) ==
    LET next == reply.payload
    IN  /\ next # Null
        /\ Needs(next) \subseteq Needs(d)
        /\ Needs(next) # Needs(d)
        /\ Needs(next) = {} => reply.kind = "draft"
        /\ \A f \in DOMAIN d : d[f] # Null /\ ~NoAccounts(ctx) => next[f] # Null

Settles(e, d) ==
    \/ d.amount = Null /\ e.amount # Null
    \/ d.account_id = Null /\ e.account_id # Null
    \/ /\ d.type = "transfer" /\ d.account_destination_id = Null
       /\ e.account_destination_id # Null


(* A message that answers the question adds to the draft, and settles what  *)
(* was asked.                                                               *)
LEMMA AnsweredAddsUp ==
    ASSUME NEW d \in Draft, NEW e \in Draft, NEW ctx, NEW inferred,
           AddsTo(e, d), Settles(e, d),
           e.type = "transfer" => e.account_id # e.account_destination_id,
           d.type \in Spending /\ NoAccounts(ctx) =>
              d.amount = Null /\ e.amount # Null /\ d.account_id = Null
    PROVE  GoesOn(d, Answered(e, ctx, inferred), ctx)
  <1> USE NullIsNoValue, RowAssumption
  <1> DEFINE r == Answered(e, ctx, inferred)
  <1> SUFFICES GoesOn(d, r, ctx)
    OBVIOUS
  <1>1. DOMAIN d = {"type", "amount", "currency", "account_id", "account_destination_id",
                    "category_id", "subcategory_id"}
    BY DEF Draft
  <1>2. ASSUME NEW x \in Draft, AddsTo(x, d), Settles(x, d)
        PROVE  /\ Needs(x) \subseteq Needs(d) /\ Needs(x) # Needs(d)
               /\ \A f \in DOMAIN d : d[f] # Null => x[f] # Null
    <2>1. Needs(x) \subseteq Needs(d)
      BY <1>2, NeedsOfDraft DEF AddsTo
    <2>2. Needs(x) # Needs(d)
      BY <1>2, NeedsOfDraft DEF Settles, AddsTo
    <2>3. ASSUME NEW f \in DOMAIN d, d[f] # Null
          PROVE  x[f] # Null
      BY <1>1, <1>2, <2>3 DEF AddsTo
    <2> QED
      BY <2>1, <2>2, <2>3
  <1>3. CASE e.type \in Spending /\ NoAccounts(ctx)
    <2> DEFINE x == [Blank(e.type) EXCEPT !.amount = e.amount]
    <2>1. r = Reply("clarification", x, <<"account">>, FALSE)
      BY <1>3 DEF Answered, Spending
    <2>2. x \in Draft
      <3>1. e.type \in Types /\ e.amount \in Amounts
        BY DEF Draft, Amounts
      <3>2. Blank(e.type) \in Draft
        BY <3>1, BlankDraft
      <3> HIDE DEF Blank
      <3> QED
        BY <3>1, <3>2, SetAmount
    <2>3. x.type = e.type /\ x.amount = e.amount /\ x.account_id = Null
      BY DEF Blank
    <2> HIDE DEF x
    <2>4. Needs(x) = {"account_id"}
      BY <1>3, <2>2, <2>3 DEF Needs, Needed, AddsTo, Spending
    <2>5. {"amount", "account_id"} \subseteq Needs(d)
      BY <1>3, NeedsOfDraft DEF AddsTo
    <2>6. r.payload = x
      BY <2>1 DEF Reply
    <2> HIDE DEF r
    <2> QED
      BY <1>3, <2>2, <2>4, <2>5, <2>6 DEF GoesOn
  <1>4. CASE ~(e.type \in Spending /\ NoAccounts(ctx)) /\ Missing(e) # <<>>
    <2>1. r = Reply("clarification", e, Missing(e), FALSE)
      BY <1>4 DEF Answered
    <2>2. r.payload = e
      BY <2>1 DEF Reply
    <2>3. Needs(e) # {}
      BY <1>4, WhatIsAsked, NeedsOfDraft
    <2> HIDE DEF r
    <2> QED
      BY <1>2, <2>2, <2>3 DEF GoesOn
  <1>5. CASE ~(e.type \in Spending /\ NoAccounts(ctx)) /\ Missing(e) = <<>>
    <2> DEFINE x == [e EXCEPT !.currency = Newer(e.currency, ARS)]
    <2>1. r = Reply("draft", x, <<>>, inferred)
      BY <1>5 DEF Answered
    <2>2. Newer(e.currency, ARS) \in Currencies
      BY DEF Draft, Newer
    <2>3. x \in Draft
      <3> HIDE DEF Newer
      <3> QED
        BY <2>2, SetCurrency
    <2>4. /\ x.type = e.type /\ x.amount = e.amount /\ x.currency = Newer(e.currency, ARS)
          /\ x.account_id = e.account_id /\ x.account_destination_id = e.account_destination_id
          /\ x.category_id = e.category_id /\ x.subcategory_id = e.subcategory_id
      BY DEF Draft
    <2> HIDE DEF x
    <2>5. AddsTo(x, d) /\ Settles(x, d)
      BY <2>2, <2>4 DEF AddsTo, Settles
    <2>6. r.payload = x /\ r.kind = "draft"
      BY <2>1 DEF Reply
    <2> HIDE DEF r
    <2> QED
      BY <1>2, <2>3, <2>5, <2>6 DEF GoesOn
  <1> HIDE DEF r
  <1> QED
    BY <1>3, <1>4, <1>5

(* A draft that refers to the context, and with no amount of 0.0, passes    *)
(* both functions unchanged.                                                *)
LEMMA KeptAsIs ==
    ASSUME NEW d \in Draft, d.amount # Zero, NEW ctx, Refers(d, ctx)
    PROVE  Sanitized(d, ctx, d.type) = d /\ Hydrated(d, ctx, d.type) = d
  <1>1. /\ Keep(d.account_id, KnownAccount(ctx, d.account_id)) = d.account_id
        /\ Keep(d.account_destination_id, KnownAccount(ctx, d.account_destination_id))
              = d.account_destination_id
        /\ Keep(d.category_id, KnownLabel(ctx, d.type, d.category_id)) = d.category_id
        /\ Keep(d.subcategory_id, KnownLabel(ctx, d.type, d.subcategory_id)) = d.subcategory_id
    BY DEF Refers, Keep
  <1>2. Cleaned(d.amount) = d.amount
    BY CleanedAmount DEF Draft
  <1> HIDE DEF Keep, KnownAccount, KnownLabel, Cleaned
  <1>3. [d EXCEPT !.amount = d.amount, !.account_id = d.account_id,
                  !.account_destination_id = d.account_destination_id,
                  !.category_id = d.category_id, !.subcategory_id = d.subcategory_id] = d
    BY DEF Draft
  <1>4. [d EXCEPT !.type = d.type, !.amount = d.amount,
                  !.category_id = d.category_id, !.subcategory_id = d.subcategory_id] = d
    BY DEF Draft
  <1> QED
    BY <1>1, <1>2, <1>3, <1>4 DEF Sanitized, Hydrated

LEMMA MergedFields ==
    ASSUME NEW d \in Draft, NEW p, NEW ctx, Null \notin ctx.labels,
           NEW m, m = Merged(d, p, ctx)
    PROVE  /\ m.type = d.type
           /\ m.amount = Newer(Cleaned(p.amount), d.amount)
           /\ m.currency = Newer(p.currency, d.currency)
           /\ m.account_id = Newer(p.account, d.account_id)
           /\ m.account_destination_id = Newer(p.destination, d.account_destination_id)
           /\ d.category_id # Null => m.category_id # Null
           /\ d.subcategory_id # Null => m.subcategory_id # Null
  <1>1. /\ m.type = d.type
        /\ m.amount = Newer(Cleaned(p.amount), d.amount)
        /\ m.currency = Newer(p.currency, d.currency)
        /\ m.account_id = Newer(p.account, d.account_id)
        /\ m.account_destination_id = Newer(p.destination, d.account_destination_id)
    BY DEF Merged, Draft
  <1>2. \/ m.category_id = d.category_id
        \/ m.category_id = p.category /\ KnownLabel(ctx, d.type, p.category)
    BY DEF Merged, Draft
  <1>3. \/ m.subcategory_id = d.subcategory_id
        \/ m.subcategory_id = p.subcategory /\ KnownLabel(ctx, d.type, p.subcategory)
    BY DEF Merged, Draft
  <1> QED
    BY <1>1, <1>2, <1>3 DEF KnownLabel

(* The whole of resolve_transaction, over a draft that was left with a      *)
(* question.                                                                *)
LEMMA ResolvedAddsUp ==
    ASSUME NEW p \in Patch, NEW ctx, Null \notin ctx.labels, Admitted(ctx, p), NEW last,
           NEW d \in Draft, Refers(d, ctx), d.amount # Zero, AnswersQuestion(p, d)
    PROVE  GoesOn(d, resolve_transaction(p, d, ctx, last), ctx)
  <1> DEFINE merged == Merged(d, p, ctx)
             a == Inferred(merged, ctx, last)
             full == [merged EXCEPT !.account_id = Newer(merged.account_id, a)]
  <1> USE NullIsNoValue
  <1>1. resolve_transaction(p, d, ctx, last) = Answered(full, ctx, a # Null)
    <2>1. ~p.starts_new /\ d # Null /\ d.type \in Types /\ p.type \in {Null, d.type}
      BY RowAssumption DEF AnswersQuestion, Draft
    <2>2. d.type # Null
      BY <2>1, RowAssumption
    <2>3. Newer(p.type, d.type) = d.type
      BY <2>1 DEF Newer
    <2>4. Sanitized(d, ctx, d.type) = d /\ Hydrated(d, ctx, d.type) = d
      BY KeptAsIs
    <2> HIDE DEF Sanitized, Hydrated, Merged, Inferred, Answered, Newer, Blank
    <2> QED
      BY <2>1, <2>2, <2>3, <2>4 DEF resolve_transaction
  <1>2. /\ merged \in Draft /\ merged.type = d.type
        /\ merged.amount = Newer(Cleaned(p.amount), d.amount)
        /\ merged.currency = Newer(p.currency, d.currency)
        /\ merged.account_id = Newer(p.account, d.account_id)
        /\ merged.account_destination_id = Newer(p.destination, d.account_destination_id)
        /\ d.category_id # Null => merged.category_id # Null
        /\ d.subcategory_id # Null => merged.subcategory_id # Null
    BY MergedDraft, MergedFields
  <1> HIDE DEF merged
  <1>3. a # Null => merged.type \in Spending /\ a \in Accounts
    BY <1>2, InferredAccount
  <1> HIDE DEF a
  <1>4. Newer(merged.account_id, a) \in Ids
    BY <1>2, <1>3 DEF Newer, Ids, Draft
  <1>5. full \in Draft
    <2> HIDE DEF Newer
    <2> QED
      BY <1>2, <1>4, SetAccount
  <1>6. /\ full.type = d.type /\ full.amount = merged.amount /\ full.currency = merged.currency
        /\ full.account_id = Newer(merged.account_id, a)
        /\ full.account_destination_id = merged.account_destination_id
        /\ full.category_id = merged.category_id /\ full.subcategory_id = merged.subcategory_id
    <2> HIDE DEF Newer
    <2> QED
      BY <1>2 DEF Draft
  <1> HIDE DEF full
  <1>7. AddsTo(full, d)
    BY <1>2, <1>6 DEF AddsTo, Newer
  <1>8. Missing(d) # <<>>
    BY DEF AnswersQuestion
  <1>9. \/ d.amount = Null /\ p.amount = Said
        \/ d.amount # Null /\ d.account_id = Null /\ p.account # Null
        \/ /\ d.amount # Null /\ d.account_id # Null
           /\ d.type = "transfer" /\ d.account_destination_id = Null
           /\ p.destination # Null
    BY <1>8, WhatIsAsked DEF AnswersQuestion
  <1>10. Settles(full, d)
    BY <1>2, <1>6, <1>9, CleanedAmount DEF Settles, Newer
  <1>11. full.type = "transfer" => full.account_id # full.account_destination_id
    <2>1. SUFFICES ASSUME d.type = "transfer"
                   PROVE  full.account_id # full.account_destination_id
      BY <1>6
    <2>2. Newer(p.account, d.account_id) # Newer(p.destination, d.account_destination_id)
      BY <2>1 DEF AnswersQuestion
    <2>3. a = Null
      BY <1>2, <1>3, <2>1 DEF Spending
    <2>4. full.account_id = merged.account_id
      BY <1>6, <2>3 DEF Newer
    <2> QED
      BY <1>2, <1>6, <2>2, <2>4
  <1>12. d.type \in Spending /\ NoAccounts(ctx) =>
            d.amount = Null /\ full.amount # Null /\ d.account_id = Null
    <2>1. SUFFICES ASSUME d.type \in Spending, NoAccounts(ctx)
                   PROVE  d.amount = Null /\ full.amount # Null /\ d.account_id = Null
      OBVIOUS
    <2>2. d.account_id = Null /\ p.account = Null
      BY <2>1 DEF Refers, Admitted, KnownAccount, NoAccounts
    <2>3. d.amount = Null /\ p.amount = Said
      BY <1>9, <2>1, <2>2 DEF Spending
    <2> QED
      BY <1>2, <1>6, <2>2, <2>3, CleanedAmount DEF Newer
  <1>13. GoesOn(d, Answered(full, ctx, a # Null), ctx)
    BY <1>5, <1>7, <1>10, <1>11, <1>12, AnsweredAddsUp
  <1> QED
    BY <1>1, <1>13

(* What the handler knows are labels, and none of them is no label.         *)
ContextInv ==
    /\ labels \subseteq Categories \cup Subcategories
    /\ msg.pc = "reading" => msg.ctx.labels \subseteq Categories \cup Subcategories

LEMMA ContextStep == ASSUME DraftInv, ContextInv, [Next]_vars PROVE ContextInv'
  <1>1. CASE ReadContext
    BY <1>1 DEF ReadContext, ContextInv
  <1>2. CASE UNCHANGED labels /\ msg'.pc = "idle"
    BY <1>2 DEF ContextInv
  <1>3. CASE (\E p \in Patches : Answer(p)) \/ AnswerWithoutData
    BY <1>2, <1>3 DEF Answer, AnswerWithoutData, Replies
  <1>4. CASE Confirm
    <2>1. PICK reply : msg = [pc |-> "idle", reply |-> reply]
      BY <1>4 DEF Confirm, DraftInv
    <2> QED
      BY <1>2, <1>4, <2>1 DEF Confirm
  <1>5. CASE UNCHANGED <<labels, msg>>
    BY <1>5 DEF ContextInv
  <1>6. CASE \/ \E x \in Accounts, c \in Currencies : create_account(x, c) \/ update_account(x, c)
             \/ \E type \in Spending, x \in Accounts : create_expense(type, x) \/ delete_expense(type, x)
             \/ \E x \in Accounts : delete_account(x)
    BY <1>5, <1>6 DEF create_account, update_account, create_expense, delete_expense, delete_account
  <1>7. CASE \E l \in Categories \cup Subcategories : DeleteLabel(l)
    BY <1>7 DEF DeleteLabel, ContextInv
  <1> QED
    BY <1>1, <1>3, <1>4, <1>5, <1>6, <1>7 DEF Next, vars

LEMMA Contexts == Spec => []ContextInv
  <1>1. Init => ContextInv
    BY DEF Init, ContextInv
  <1> QED
    BY <1>1, ContextStep, Drafts, PTL DEF Spec

(* Whatever the client's draft is left over from, a message that answers    *)
(* what it was asked brings the draft nearer to the end and loses nothing   *)
(* that was said (resolve.py 268-477).                                      *)
THEOREM MessagesAddUp == Spec => []AnswersAddUp
  <1>1. ASSUME DraftInv, ContextInv, msg.pc = "reading", pending # Null,
               NEW p \in Patches, Admitted(msg.ctx, p),
               AnswersQuestion(p, PendingDraft(pending, msg.ctx))
        PROVE  LET d == PendingDraft(pending, msg.ctx)
               IN  GoesOn(d, resolve_transaction(p, d, msg.ctx, LastUsed), msg.ctx)
    <2> DEFINE d == PendingDraft(pending, msg.ctx)
    <2>1. d \in Draft /\ Refers(d, msg.ctx) /\ d.amount # Zero
      BY <1>1, SanitizedDraft DEF DraftInv, PendingDraft
    <2>2. p \in Patch /\ Null \notin msg.ctx.labels
      BY <1>1, NullIsNoValue, ChatAssumption DEF ChatAssumption, ContextInv
    <2> HIDE DEF d
    <2>3. AnswersQuestion(p, d)
      BY <1>1 DEF d
    <2>4. GoesOn(d, resolve_transaction(p, d, msg.ctx, LastUsed), msg.ctx)
      BY <1>1, <2>1, <2>2, <2>3, ResolvedAddsUp
    <2> QED
      BY <2>4 DEF d
  <1>2. ASSUME DraftInv, ContextInv PROVE AnswersAddUp
    BY <1>1, <1>2 DEF AnswersAddUp, GoesOn
  <1> QED
    BY <1>2, Drafts, Contexts, PTL
===============================================================================
