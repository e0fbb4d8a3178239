------------------------------ MODULE ChatAgent -------------------------------
(***************************************************************************)
(* A conversation with the assistant: routers/chat.py and agent/resolve.py.*)
(*                                                                         *)
(* The server keeps nothing of a conversation.  The client sends back the  *)
(* draft of the last answer (pending_draft) with each message; the handler *)
(* reads the user's accounts and categories, then the accounts last used,  *)
(* and merges what the language model understood of the message (a patch)  *)
(* into the draft: it asks for what is missing, or answers a draft the     *)
(* client may confirm.  Other requests of the user come in between.        *)
(*                                                                         *)
(* The language model may answer anything its schema admits.  Texts, dates,*)
(* notes, instalments and to_amount are carried along and left out, and of *)
(* an amount there is what its checks and its rounding tell apart.         *)
(***************************************************************************)
EXTENDS Naturals, SequencesExt

CONSTANTS Accounts, Categories, Subcategories,  \* row ids
          CategoryType,   \* [Categories -> "expense" or "income"]
          Parent,         \* [Subcategories -> Categories]
          Currencies,
          ARS,            \* the currency of what names none
          Patches,        \* bound: what a message may be understood as
          MaxChanges,     \* bound: changes of accounts and categories by other requests
          MaxRecent,      \* bound: accounts remembered as used, over both types
          Said, Tiny,     \* an amount, and one below half a cent
          Invalid,        \* one that is not positive or not finite
          Zero,           \* 0.0, the tiny one rounded
          Null,           \* no value
          Gone            \* no such row

Spending == {"expense", "income"}
Types == Spending \cup {"transfer"}

Draft == [type : Types, amount : {Said, Zero, Null}, currency : Currencies \cup {Null},
          account_id : Accounts \cup {Null}, account_destination_id : Accounts \cup {Null},
          category_id : Categories \cup {Null}, subcategory_id : Subcategories \cup {Null}]

(* ParseOutput, of the kind "transaction" *)
Patch == [starts_new : BOOLEAN, type : Types \cup {Null},
          amount : {Said, Tiny, Invalid, Null}, currency : Currencies \cup {Null},
          account : Accounts \cup {Null}, destination : Accounts \cup {Null},
          category : Categories \cup {Null}, subcategory : Subcategories \cup {Null}]

ASSUME ChatAssumption ==
    /\ CategoryType \in [Categories -> Spending]
    /\ Parent \in [Subcategories -> Categories]
    /\ ARS \in Currencies
    /\ Patches \subseteq Patch
    /\ {MaxChanges, MaxRecent} \subseteq Nat
    /\ {Null, Gone} \cap (Accounts \cup Categories \cup Subcategories \cup Currencies) = {}
    /\ Said # Null /\ Tiny \notin {Said, Null} /\ {Invalid, Zero} \cap {Said, Tiny, Null} = {}

(* Neither a draft nor a type is none. *)
ASSUME RowAssumption == Null \notin Draft \cup Types

VARIABLES
    account,   \* [Accounts -> currency, or Gone]
    labels,    \* the categories and subcategories there are
    recent,    \* [Spending -> the accounts of its transactions, the last used first]
    pending,   \* the draft the client holds, or Null
    msg,       \* the message being answered, or the last answer
    changes    \* what other requests changed so far

vars == <<account, labels, recent, pending, msg, changes>>

(* What a handler knows: AgentContext, but for the accounts last used. *)
Context == [account : [Accounts -> Currencies \cup {Gone}],
            labels : SUBSET (Categories \cup Subcategories)]

(* Mutant: ids of accounts are taken as they come. *)
AnyAccount(ctx, a) == a # Null

KnownAccount(ctx, a) == a \in Accounts /\ ctx.account[a] # Gone
NoAccounts(ctx) == \A a \in Accounts : ctx.account[a] = Gone

LabelType(l) == IF l \in Subcategories THEN CategoryType[Parent[l]] ELSE CategoryType[l]

(* The maps by type of the context: expense_category_id_to_name and so on. *)
KnownLabel(ctx, type, l) == l \in ctx.labels /\ LabelType(l) = type

Keep(x, test) == IF test THEN x ELSE Null

-------------------------------------------------------------------------------
(* agent/resolve.py *)

(* _clean_amount: what is not above 0 is none; what is, is rounded after    *)
(* it was checked, and may become 0.0, which the next message drops.        *)
Cleaned(amount) ==
    IF amount = Said THEN Said ELSE IF amount = Tiny THEN Zero ELSE Null

(* What is left of a draft whose accounts or categories are gone, or whose  *)
(* type has no such field.                                                 *)
Sanitized(d, ctx, type) ==
    [d EXCEPT !.amount = Cleaned(@),
              !.account_id = Keep(@, KnownAccount(ctx, @)),
              !.account_destination_id = Keep(@, KnownAccount(ctx, @)),
              !.category_id = Keep(@, KnownLabel(ctx, type, @)),
              !.subcategory_id = Keep(@, KnownLabel(ctx, type, @))]

(* Mutant: the destination is not carried over. *)
HydratedWithoutDestination(base, ctx, type) ==
    [base EXCEPT !.type = type, !.amount = Cleaned(@), !.account_destination_id = Null,
                 !.category_id = Keep(@, KnownLabel(ctx, type, @)),
                 !.subcategory_id = Keep(@, KnownLabel(ctx, type, @))]

(* _hydrate_pending_to_payload: the draft under the type of the message.    *)
(* Categories are looked up by name among those of the new type; accounts   *)
(* stay as they are, the destination of a former transfer too.              *)
Hydrated(base, ctx, type) ==
    [base EXCEPT !.type = type, !.amount = Cleaned(@),
                 !.category_id = Keep(@, KnownLabel(ctx, type, @)),
                 !.subcategory_id = Keep(@, KnownLabel(ctx, type, @))]

Blank(type) ==
    [type |-> type, amount |-> Null, currency |-> Null, account_id |-> Null,
     account_destination_id |-> Null, category_id |-> Null, subcategory_id |-> Null]

Newer(x, y) == IF x # Null THEN x ELSE y

(* The patch over the draft, lines 288-373.  A category must be of the type *)
(* of the draft; a subcategory of any of its categories, once it has one.   *)
Merged(d, p, ctx) ==
    LET category == IF KnownLabel(ctx, d.type, p.category) THEN p.category ELSE d.category_id
    IN  [d EXCEPT !.amount = Newer(Cleaned(p.amount), @),
                  !.currency = Newer(p.currency, @),
                  !.account_id = Newer(p.account, @),
                  !.account_destination_id = Newer(p.destination, @),
                  !.category_id = category,
                  !.subcategory_id = IF category # Null /\ KnownLabel(ctx, d.type, p.subcategory)
                                     THEN p.subcategory ELSE @]

(* Mutant: the currency of the candidate is not compared. *)
InferredOfAnyCurrency(d, ctx, last) ==
    IF d.type \in Spending /\ d.account_id = Null
    THEN LET a == last[d.type][Newer(d.currency, ARS)] IN Keep(a, KnownAccount(ctx, a))
    ELSE Null

(* The account last used for the type and currency, if the context has it   *)
(* in that currency (lines 375-386).                                        *)
Inferred(d, ctx, last) ==
    IF d.type \in Spending /\ d.account_id = Null
    THEN LET currency == Newer(d.currency, ARS)
             a == last[d.type][currency]
         IN  Keep(a, KnownAccount(ctx, a) /\ ctx.account[a] = currency)
    ELSE Null

(* Mutant: only the source account is asked for. *)
MissingSource(d) ==
    IF d.amount = Null THEN <<"amount">>
    ELSE IF d.account_id = Null THEN <<"account">> ELSE <<>>

(* Lines 288-295 and 403-418: an amount is asked for first, and alone. *)
Missing(d) ==
    IF d.amount = Null THEN <<"amount">>
    ELSE (IF d.account_id = Null THEN <<"account">> ELSE <<>>)
         \o (IF d.type = "transfer" /\ d.account_destination_id = Null
             THEN <<"account_destination">> ELSE <<>>)

Reply(kind, payload, missing, inferred) ==
    [kind |-> kind, payload |-> payload, missing |-> missing, inferred |-> inferred]

NoReply == Reply("answer", Null, <<>>, FALSE)

(* The answer to a draft with the patch merged in, lines 388-477. *)
Answered(d, ctx, inferred) ==
    IF d.type = "transfer" /\ d.account_id # Null /\ d.account_destination_id = d.account_id
    THEN Reply("clarification", [d EXCEPT !.account_destination_id = Null],
               <<"account_destination">>, FALSE)
    ELSE IF d.type \in Spending /\ NoAccounts(ctx)
    THEN Reply("clarification", [Blank(d.type) EXCEPT !.amount = d.amount], <<"account">>, FALSE)
    ELSE IF Missing(d) # <<>>
    THEN Reply("clarification", d, Missing(d), FALSE)
    ELSE Reply("draft", [d EXCEPT !.currency = Newer(@, ARS)], <<>>, inferred)

resolve_transaction(p, draft, ctx, last) ==
    LET base == IF p.starts_new \/ draft = Null THEN Null
                ELSE Sanitized(draft, ctx, draft.type)
        type == Newer(p.type, IF base = Null THEN Null ELSE base.type)
        hydrated == IF base = Null THEN Blank(type) ELSE Hydrated(base, ctx, type)
        merged == Merged(hydrated, p, ctx)
        a == Inferred(merged, ctx, last)
    IN  IF type = Null THEN Reply("clarification", Null, <<"type">>, FALSE)
        ELSE Answered([merged EXCEPT !.account_id = Newer(@, a)], ctx, a # Null)

-------------------------------------------------------------------------------
(* routers/chat.py *)

(* _sanitize_pending_draft; resolve.py does the same again, and finds        *)
(* nothing to do but to clean the amount, which chat.py leaves to it.       *)
PendingDraft(d, ctx) == IF d = Null THEN Null ELSE Sanitized(d, ctx, d.type)

(* last_used_account_ids: the transactions joined with their accounts, as   *)
(* they are by now, the newest first.                                       *)
LastUsed ==
    [t \in Spending |-> [c \in Currencies |->
        LET of == SelectSeq(recent[t], LAMBDA a : account[a] = c)
        IN  IF of = <<>> THEN Null ELSE Head(of)]]

Init ==
    /\ account \in [Accounts -> Currencies \cup {Gone}]
    /\ labels = Categories \cup Subcategories
    /\ recent = [t \in Spending |-> <<>>]
    /\ pending = Null
    /\ msg = [pc |-> "idle", reply |-> NoReply]
    /\ changes = 0

(* A message comes in: categories and accounts are read, lines 123-192. *)
ReadContext ==
    /\ msg.pc = "idle"
    /\ msg' = [pc |-> "reading", ctx |-> [account |-> account, labels |-> labels]]
    /\ UNCHANGED <<account, labels, recent, pending, changes>>

(* The schema given to the model has the codes of the context only. *)
Admitted(ctx, p) ==
    /\ \A a \in {p.account, p.destination} : a = Null \/ KnownAccount(ctx, a)
    /\ {p.category, p.subcategory} \subseteq ctx.labels \cup {Null}

(* The answer arrives: the client goes on with its draft, and without one  *)
(* keeps its own or gives it up.                                            *)
Replies(reply) ==
    /\ msg' = [pc |-> "idle", reply |-> reply]
    /\ pending' \in IF reply.payload # Null THEN {reply.payload} ELSE {pending, Null}
    /\ UNCHANGED <<account, labels, recent, changes>>

(* The accounts last used are read, lines 194-211, the model understands a  *)
(* patch, and the draft is resolved.                                        *)
Answer(p) ==
    /\ msg.pc = "reading"
    /\ Admitted(msg.ctx, p)
    /\ Replies(resolve_transaction(p, PendingDraft(pending, msg.ctx), msg.ctx, LastUsed))

(* A message of the kind "chat", a rate limit, an answer that could not be  *)
(* parsed twice; for the draft, an error is the same.                       *)
AnswerWithoutData ==
    /\ msg.pc = "reading"
    /\ Replies(NoReply)

(* What create_expense accepts of an expense or an income, by now; of one   *)
(* with a destination it drops the destination.                             *)
Creatable(d) ==
    /\ account[d.account_id] = d.currency
    /\ {d.category_id, d.subcategory_id} \subseteq labels \cup {Null}
    /\ d.subcategory_id # Null => d.category_id = Parent[d.subcategory_id]

Uses(type, a) ==
    /\ recent' = [recent EXCEPT ![type] = <<a>> \o Remove(@, a)]
    /\ Len(recent'["expense"]) + Len(recent'["income"]) <= MaxRecent

(* The client confirms a draft by POST /expenses; where that is refused, it *)
(* keeps the draft.  Only expenses and incomes count as a use.              *)
Confirm ==
    /\ msg.pc = "idle" /\ msg.reply.kind = "draft"
    /\ LET d == msg.reply.payload IN
          IF d.type = "transfer" THEN UNCHANGED recent
          ELSE Creatable(d) /\ Uses(d.type, d.account_id)
    /\ pending' = Null
    /\ msg' = [msg EXCEPT !.reply = NoReply]
    /\ UNCHANGED <<account, labels, changes>>

-------------------------------------------------------------------------------
(* Other requests of the user: routers/accounts.py, routers/categories.py. *)

Change == changes < MaxChanges /\ changes' = changes + 1

(* A new id (a UUID) is one nobody has in hand. *)
create_account(a, currency) ==
    /\ Change
    /\ account[a] = Gone
    /\ pending # Null => a \notin {pending.account_id, pending.account_destination_id}
    /\ msg.pc = "reading" => msg.ctx.account[a] = Gone
    /\ account' = [account EXCEPT ![a] = currency]
    /\ UNCHANGED <<labels, recent, pending, msg>>

(* A transaction booked without the assistant. *)
create_expense(type, a) ==
    /\ Change
    /\ account[a] # Gone
    /\ Uses(type, a)
    /\ UNCHANGED <<account, labels, pending, msg>>

(* The only transaction with an account is deleted. *)
delete_expense(type, a) ==
    /\ Change
    /\ Contains(recent[type], a)
    /\ recent' = [recent EXCEPT ![type] = Remove(@, a)]
    /\ UNCHANGED <<account, labels, pending, msg>>

delete_account(a) ==
    /\ Change
    /\ account[a] # Gone
    /\ account' = [account EXCEPT ![a] = Gone]
    /\ recent' = [t \in Spending |-> Remove(recent[t], a)]
    /\ UNCHANGED <<labels, pending, msg>>

update_account(a, currency) ==
    /\ Change
    /\ account[a] \notin {Gone, currency}
    /\ account' = [account EXCEPT ![a] = currency]
    /\ UNCHANGED <<labels, recent, pending, msg>>

(* A category goes with its subcategories. *)
DeleteLabel(l) ==
    /\ Change
    /\ l \in labels
    /\ labels' = labels \ ({l} \cup {s \in Subcategories : Parent[s] = l})
    /\ UNCHANGED <<account, recent, pending, msg>>

Next ==
    \/ ReadContext
    \/ \E p \in Patches : Answer(p)
    \/ AnswerWithoutData
    \/ Confirm
    \/ \E a \in Accounts, c \in Currencies : create_account(a, c)
    \/ \E type \in Spending, a \in Accounts : create_expense(type, a)
    \/ \E type \in Spending, a \in Accounts : delete_expense(type, a)
    \/ \E a \in Accounts : delete_account(a)
    \/ \E a \in Accounts, c \in Currencies : update_account(a, c)
    \/ \E l \in Categories \cup Subcategories : DeleteLabel(l)

Spec == Init /\ [][Next]_vars

-------------------------------------------------------------------------------
Answers == msg.pc = "reading" /\ msg'.pc = "idle"

TypeOK ==
    /\ account \in [Accounts -> Currencies \cup {Gone}]
    /\ labels \subseteq Categories \cup Subcategories
    /\ recent \in [Spending -> Seq(Accounts)]
    /\ pending \in Draft \cup {Null}
    /\ changes \in 0 .. MaxChanges

(* An answer never names an account, a category or a subcategory the        *)
(* handler did not find, nor a category of another type: whatever the       *)
(* client's draft is left over from, and however its type was changed.      *)
AnswerRefersToWhatExists ==
    [][Answers /\ msg'.reply.payload # Null =>
          LET d == msg'.reply.payload IN
          /\ \A a \in {d.account_id, d.account_destination_id} :
                a = Null \/ msg.ctx.account[a] # Gone
          /\ \A l \in {d.category_id, d.subcategory_id} :
                l = Null \/ KnownLabel(msg.ctx, d.type, l)]_vars

(* What is offered for confirmation is complete: an amount (or the 0.0 a    *)
(* tiny one was rounded to), a currency, an account, and two different ones *)
(* for a transfer, in whatever order and over however many messages it was  *)
(* said.                                                                    *)
DraftIsComplete ==
    msg.pc = "idle" /\ msg.reply.kind = "draft" =>
        LET d == msg.reply.payload IN
        /\ Null \notin {d.amount, d.currency, d.account_id}
        /\ d.type = "transfer" =>
              d.account_destination_id \notin {Null, d.account_id}

(* An account nobody named is one in the currency of the draft, even when   *)
(* an account changed its currency between the two reads of the handler.    *)
InferredAccountFits ==
    [][Answers /\ msg'.reply.inferred =>
          LET d == msg'.reply.payload IN
          /\ d.type \in Spending
          /\ msg.ctx.account[d.account_id] = d.currency]_vars

Needed(type) ==
    {"amount", "account_id"} \cup IF type = "transfer" THEN {"account_destination_id"} ELSE {}
Needs(d) == {f \in Needed(d.type) : d[f] = Null}

(* The message answers the question the draft d was left with, and nothing  *)
(* else; a transfer to the account it comes from is no answer.              *)
AnswersQuestion(p, d) ==
    /\ ~p.starts_new
    /\ p.type \in {Null, d.type}
    /\ Missing(d) # <<>>
    /\ CASE Head(Missing(d)) = "amount" -> p.amount = Said
         [] Head(Missing(d)) = "account" -> p.account # Null
         [] OTHER -> p.destination # Null
    /\ d.type = "transfer" =>
          Newer(p.account, d.account_id) # Newer(p.destination, d.account_destination_id)

(* Each answer brings the draft nearer to the end: what was asked for is    *)
(* there, nothing new is missing, nothing said before is lost, and with     *)
(* nothing missing it is offered for confirmation.  The draft the client    *)
(* sent may have lost rows meanwhile, or its amount if that was 0.0;        *)
(* without an account only type and amount go on (resolve.py 268-477).      *)
AnswersAddUp ==
    msg.pc = "reading" /\ pending # Null =>
        LET d == PendingDraft(pending, msg.ctx) IN
        \A p \in Patches : Admitted(msg.ctx, p) /\ AnswersQuestion(p, d) =>
            LET reply == resolve_transaction(p, d, msg.ctx, LastUsed)
                next == reply.payload
            IN  /\ next # Null
                /\ Needs(next) \subseteq Needs(d)
                /\ Needs(next) # Needs(d)
                /\ Needs(next) = {} => reply.kind = "draft"
                /\ \A f \in DOMAIN d : d[f] # Null /\ ~NoAccounts(msg.ctx) => next[f] # Null
===============================================================================
