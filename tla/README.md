# Verification of vaquita-backend

TLA+ models, TLC runs and TLAPS proofs about the backend of Vaquita, a personal
finance application (FastAPI, SQLAlchemy async sessions, PostgreSQL, a Cloudflare
R2 bucket, language models behind two endpoints). Paths are relative to `src/`;
line numbers are those of the commit the modules were read from.

    tlc -workers 2 -config MCAssistantCalls.cfg MCAssistantCalls   # one run
    tlapm AssistantCalls_proofs.tla                                # one set of proofs

`PROJECT.json` lists the components, runs, mutants, hazards, findings and
theorems, and maps every definition to the lines it models.

## 1. The system

One process (uvicorn, asyncio) serves HTTP. A handler runs alone until its next
`await`; at every `await` (a database round trip, an R2 call in a thread, a
provider call) other handlers go on. Each request has its own database session
and transaction at READ COMMITTED; a session rolls back when its handler fails.
SQLAlchemy loads a row into memory, and at the flush writes the columns that
differ from what was loaded. There are no version columns: what a handler read
before an `await` may be stale when it writes. Some state lives outside the
database: objects in R2, the staged CSV files and the attempts of the rate limit
in process memory.

| Component | State | Operations | Talks to |
|---|---|---|---|
| Free quota (`services/ai_access.py`) | `agent_usage`: per user and type, a date and a count | `resolve_api_credentials` | called by chat and transcribe; stored keys |
| Receipts (`routers/expenses.py`, `services/upload_rate_limit.py`, `services/r2.py`) | `transactions.receipt_url`, `upload_usage`, bucket objects | upload, remove, delete expense | PostgreSQL and R2, with nothing between them |
| Catalogue (`routers/categories.py`, `subcategories.py`, `budgets.py`) | categories, subcategories, budgets | create, update, delete | transactions refer to it |
| Transactions (`routers/expenses.py`) | `transactions` | create (with instalments), update, delete, list, export | accounts, catalogue, receipts |
| Accounts (`routers/accounts.py`) | accounts | create, update, adjust, delete; balances, summary, closed period | computed from transactions |
| Statistics (`routers/stats.py`, `services/budget_aggregations.py`) | none | monthly totals, series, by category; budget spent | read transactions, accounts, catalogue |
| CSV import (`routers/import_csv.py`) | `_staging_store` in memory | preview, confirm | writes accounts, catalogue, transactions |
| Authentication (`routers/auth.py`, `services/auth_tokens.py`) | `users`, `auth_tokens` | register, verify, resend, forgot, reset, set password, Google login | e-mail in a background task |
| Rate limit (`services/rate_limit.py`) | attempts by key, in memory | `enforce` | the auth endpoints |
| Chat agent (`routers/chat.py`, `agent/`) | none; the client carries the draft | one graph invocation: parse, resolve or answer | quota, accounts, catalogue, a language model |
| Transcription (`routers/transcribe.py`) | none | one provider call | quota |
| Stored keys (`routers/settings.py`, `services/encryption.py`) | one row per user | save, delete | quota skips its users |
| User deletion (`routers/users.py`) | none of its own | one cascading delete | every table; not the bucket |
| E-mail, application shell, migrations | none | – | – |

What makes each of them correct:

- quota, receipts: a limit that holds under overlap, failure and midnight, and a
  counter that says what was really served;
- catalogue: references that exist, scopes that fit together, and budgets that a
  deletion takes along only if they came after it had looked;
- transactions, accounts: one currency in each balance, transfers that credit what
  arrives, instalments that add up, adjustments that reach their target, deletions
  that leave other balances alone;
- balances, statistics, budgets: every endpoint tells the same sum of the same rows;
- import: a file is imported once or can be confirmed again, and what it leaves fits;
- authentication: a link works once, the last one only, and confirms the password it
  was mailed for;
- chat agent: an answer refers to what the user has, each answer brings the draft
  nearer to the end, and what is offered for confirmation is complete;
- stored keys, transcription: no more is asked with the server's key than the quota
  pays for;
- rate limit: the window is never exceeded and always reopens.

What is hard in it, and hard to test:

- *read – await – write*: the usage row of the quota, the balance behind an
  adjustment, the row behind an update, the checks before a deletion, the links
  that are retired before a new one is inserted;
- *two stores, no transaction*: database and bucket, database and staging memory;
- *locks in different orders*: users and links in `auth.py`;
- *midnight*: `date.today()` is read at one `await` and used after others;
- *state in the client's hands*: the draft of a conversation comes back with rows
  deleted since, or of the type it had before the last message;
- *failure in the middle*: R2 raises, a commit fails or is not answered, the
  process restarts, the client tries again;
- *two computations of one thing*: balances in Python and in SQL, sums of a month
  in statistics and in budgets, the columns of the export and of the import;
- *boundaries*: rounding of instalments, ends of months and years, limits compared
  before or after the increment.

`PROJECT.json` has the list, each at the line where it bites.

## 2. The modules

| Module | Models | Composes |
|---|---|---|
| `DailyQuota` | what the free quota promises, abstract | – |
| `FreeQuota` | `ai_access.py`: three steps per request | implements `DailyQuota` |
| `AssistantCalls` | chat and transcription around the quota: stored keys, retries, the fallback model | extends `FreeQuota` and implements it |
| `ChatAgent` | the conversation: context, draft, the deterministic resolve step | – |
| `Receipts` | receipts over database and bucket | – |
| `Catalog` | categories, subcategories, budgets and the category fields of transactions | – |
| `Balances` | the two computations of a balance, as operators | – |
| `Ledger` | accounts, transactions, currencies, transfers, adjustments | uses `Balances` |
| `Statistics` | the sums of stats and budgets, as operators | uses `Balances` |
| `BalanceViews` | any ledger, and what every endpoint says of it | uses `Balances`, `Statistics`, `CsvFile` |
| `CsvFile` | what the import asks of a file as a whole, as operators | – |
| `Installments` | the loop of `create_expense` that splits an amount over months | – |
| `ImportStaging` | preview, staging memory, confirmation | uses `CsvFile` |
| `AuthTokens` | users, passwords, links and the row locks on both | – |
| `*_proofs` | theorems about `FreeQuota` and `AssistantCalls` (in `AssistantCalls_proofs`), `ChatAgent`, `Receipts`, `Catalog`, `Ledger`, `BalanceViews` and `Installments` (in `BalanceViews_proofs`), `AuthTokens`, `ImportStaging` | each extends its module |
| `MC*` | values of the constants for TLC | – |

Conventions. Names are those of the code: variables for columns and tables,
actions for handlers or for what a handler does between two `await`s that matter.
`req` holds, for each running handler, where it is and what it has in hand. A
comment `history` marks a variable that the code does not have; no guard reads
one except where it is a named bound. A definition commented `Mutant` is a
variation of the one after it; nothing uses it, it is there to show that a
property notices the difference. All bounds are CONSTANTS whose comment says
"bound".

**FreeQuota.** `resolve_api_credentials` reads today's date; `LoadUsage` is the
SELECT; then one of `InsertUsage`, `InsertConflict` (the unique constraint, a
500), `RolloverUsage`, `IncrementUsage`, `RefuseUsage`. The UPDATE has only the
columns that differ from the loaded row, so a rollover from a count of 1 to a
count of 1 leaves the count of the row alone. `SerialKeys` are the clients that
wait for each answer; the others overlap at will. `Midnight` may come between any
two steps.

**AssistantCalls.** A message or a recording starts with the key its user has
stored (`StartWithOwnKey`) or with the quota (`StartWithQuota`), whose steps are
those of `FreeQuota`; a step that grants goes on to the language model with the
server's key (`QuotaStep`). `Retry` is the one repetition of an answer that did
not parse, `FallBack` the one change of model after a rate limit, for a user's
own key only; `EndCall` is any answer or error. `save_api_key` and
`delete_api_key` come in between. `asks` counts every time the model is asked with
the server's key, retries included, under the date whose allowance was charged.

**ChatAgent.** The server keeps nothing of a conversation: `pending` is what the
client holds and sends back. `ReadContext` reads categories and accounts;
`Answer` reads the accounts last used, in a later query, and resolves a patch,
which may be any of `Patches` whose codes the context has (`Admitted`): the
schema given to the model is the only assumption about it. `resolve_transaction`
is the composition of the code: `Sanitized`, `Hydrated` under the type of the
message, `Merged`, `Inferred`, `Answered`. The schema takes an account, category
or subcategory by its code, so the search by name in the helpers of `resolve.py`
comes down to `KnownAccount` and `KnownLabel`. `Cleaned` is what the code makes of
an amount: it is rounded after it was checked. `Confirm` is the client's `POST
/expenses`; other requests create, change and delete accounts, categories and
transactions, also between the two reads of a handler.

**Receipts.** An upload is `StartUpload` (reads the transaction), `CountUpload`
(the upsert of `upload_usage`, which holds the row to the end), then
`LimitReached`, `RejectFile`, or `DeletePrevious`, `PutObject` and `CommitUpload`;
removals are `StartRemoval`, `RemoveObject`, `CommitRemoval`. R2 calls and commits
may fail (`MaxFaults`), `Restart` ends every handler. `CommitUploadStale` is the
UPDATE of a row deleted meanwhile.

**Catalog.** Creates are one step: the checks read columns that never change, and
a row that goes away is refused by its foreign key. Updates and deletes are two,
load and commit. The commit carries the ON DELETE of each foreign key, the two
partial unique indexes of budgets, and the order in which a deletion proceeds.
Before it deletes a subcategory, the ORM sets the transactions it found to NULL
one by one; `DeleteMeetsGoneExpense` is the deletion that finds one of them gone
and fails. `arrived` remembers, for each deletion of a category under way, the
budgets that were put there since its handler looked.

**Ledger.** Creates are one step for the same reason. `LoadForUpdate` checks the
row the body would make and keeps the columns that differ; `CommitUpdate` writes
them. `LoadForAdjust` reads the balance, `CommitAdjust` inserts the difference.
`update_account` changes a currency, `delete_account` sets references to NULL.
A transfer in instalments loses its `to_amount`, as in the code.

**Balances, Statistics, BalanceViews.** `Balance` is the Python loop,
`NetBalance` the SQL sum, `ClosedBalance` the closed period of a card;
`MonthTotal`, `MonthlySeries`, `ByCategory`, `BySubcategory` are the queries of
statistics, `Spent` that of a budget. `BalanceViews` books any rows the handlers,
an import or a later deletion may leave (`AnyLedger`, one `Record` after another),
and compares the answers. `PairLabel` keeps the second spelling that the queries
by subcategory have for no category. It also
exports the ledger (`Exported`) and imports the file again (`Imported`), after the
checks of `CsvFile`; names stand for the new accounts, and a pair of names is
mapped to a category and a subcategory of these names (`Mapped`). A row may have a
subcategory and no category, as `update_expense` can leave it; its pair is not one
of the import's, which gives it neither.

**Installments.** One step for each turn of the loop; amounts are whole cents.

**ImportStaging.** `FileRow` leaves out dates, amounts and descriptions, of
which the file as a whole is asked nothing. `preview_import` stages a file under
a token after the checks of the parser; a confirmation is `ConfirmStarts` (drops
old tokens, reads the staged rows), `ResolveMapping`, `CommitImport` and
`PopToken`. `CommitFails`, `CommitUnanswered`, `GrowOld`, `Restart` and
deletions of what the file is mapped to may come in between.

**AuthTokens.** A handler that issues a link first reads its user, then
(`register` again) writes the password, then retires the unused links, waiting
for one that another handler holds, inserts the new one and commits. A handler
that opens a link locks the link and then the user. `WaitsFor` tells who waits
for whom; `DeadlockAbort` is what PostgreSQL does about a circle. `Expire`,
`Restart` and `google_login` are there too. `TokenRow.password` remembers which
password a link was mailed for.

## 3. The runs

Every `.cfg` says `CHECK_DEADLOCK FALSE`: with its ids, days and requests used up
a bounded system really stops. Symmetry is used in runs without liveness, over
model values that the module only compares.

| Run | Instance | Shows |
|---|---|---|
| `quota` | 1 user, 2 types (one serial, one not), 2 requests, limit 2, 2 days, 1 provider with a fallback | `CountWithinLimit`, `NoEarlyRefusal` for all; `ServerAsksAreCounted` and the refinement `ImplementsPromise` for the client that waits |
| `quota_limit` | `FreeQuota` alone, 3 requests | **violated**: `DailyLimit`, see findings |
| `chat` | 2 accounts, 2 categories, 1 subcategory, 2 currencies, 72 patches: each field alone, with or without a type, and the combinations that switch type, start anew or name both ends | `DraftIsComplete`, `AnswersAddUp`, `AnswerRefersToWhatExists`, `InferredAccountFits` |
| `receipts` | 1 transaction, 2 formats, 2 requests, limit 2, 2 days, 1 fault | `UploadLimit`, `ChargesWhatWasStored`; `NoDanglingUrl`, `NoOrphanObject` with their premises; `EveryRequestEnds` |
| `catalog` | 3 categories (1 of income), 1 subcategory, 2 budgets, 1 transaction, 1 currency, 2 requests | `BudgetScopeCoherent`, `TxCategoryCoherent` (references exist and fit), `No500WithoutOverlap`, `BudgetLostOnlyToOverlap` |
| `catalog_delete` | the same | **violated**: `DeleteIsRefusedNot500` |
| `balances` | 2 cards, 1 bank account, ledgers of 2 rows, 3 dates over a new year; accounts and categories of one name, a category with the name of none, rows with a subcategory only | `SummaryIsBalance`, `ClosedPeriodIsSummaryWithoutPayments`, `SeriesShowsEachSummary`, `CategoriesAddUp`, `BudgetsSpendWhatStatisticsShow`, `ExportImportsBack` |
| `installments` | −7 to 25 cents, 1 to 14 parts, 35 first dates | `PartsAddUp`, `OneEachMonth`, `DayIsKept` |
| `ledger` | 2 accounts, 2 transactions, 2 currencies, 2 two-step handlers, `MaxWork` 4 | `TransactionInAccountCurrency`, `OnlyTransfersHaveDestination`, `SameCurrencyUnlessToAmount`, `AdjustmentReachesTarget`, `DeletionKeepsOtherBalances` |
| `ledger_installments` | 1 transaction | **violated**: `InstallmentsKeepToAmount` |
| `auth` | 1 user, 3 links, 2 passwords, 2 requests | `LinkWorksOnce`, `OneLiveLink`, `LinkConfirmsItsPassword`, `VerifiedPasswordIsConfirmed`, `OnlyReregisterDeadlocks` |
| `import` | 1 token, 5 files, 2 categories, 1 subcategory, 2 requests, 2 imports | `ImportedOnce`, `FileStaysUntilImported`, `ImportedRowsCoherent` |

Why the bounds are enough. The hazards are races of two handlers over one row, so
two requests meet all of them; only `quota_limit` needs three, to serve three on
a limit of two. Two days have one midnight, the only event a date can be caught
by. One fault hits each call in turn; two independent faults only widen the sets
the properties except. Two accounts are the two ends of a transfer. In `ledger`
two transactions let one be booked while another is adjusted, and two updates can
overlap on one; `MaxWork` keeps out only the states with both in full (a row
there is, or an adjustment running, counts two, an update running one, and the
sum stays within 4). Balances are sums over rows, so two rows meet every pair of
rules. Three links let a third be issued while two are live. A conversation has
any number of messages, since a draft has finitely many forms; one change by
another request between any two reads, and two remembered accounts, meet each
way a context can be stale. A cap that could hide something is named for what it
caps: `MaxDay`, `MaxGrants`, `MaxFaults`, `MaxRecurrencied`, `MaxDelta`,
`MaxWork`, `MaxChanges`, `MaxRecent`, `MaxImports`, `MaxInstallments`, `LastDay`.

**Fairness.** Only `Receipts` has a liveness property. `FairSpec` asks strong
fairness of each handler's `Step`: an asyncio loop resumes every task whose
`await` is done, the boto client has timeouts, and PostgreSQL grants a row lock
in the order of the queue, so that a handler whose lock is free again and again
gets it. Clients, midnight and restarts are under no fairness.

**Premises.** Several properties except what the code does not protect, and say
so: transactions with two updates at once (`raced`), accounts whose currency was
changed (`recurrencied`), two issues of a link at once (`reissued`), two
confirmations at once or a COMMIT without an answer (`doubtful`), receipts whose
handlers overlapped in more than uploads of one date or were cut short
(`overlap`, `hurt`, `leaked`), ledgers with a `to_amount` of 0
(`NoZeroToAmount`), exports the import refuses, budgets created on a category or
moved to it while it is being deleted (`arrived`). TLC finds a counterexample to
each property without its premise: these are limits of the code that no document
denies. They are listed in section 5.

## 4. The proofs

TLAPS proves, for every value of the constants that satisfies the named ASSUMEs
of the modules, 38 of the 39 properties of the passing runs, and the type invariants.

The assumptions say what the code makes so. `QuotaAssumption`, `CallsAssumption`,
`ChatAssumption`, `ReceiptsAssumption`, `InstallmentsAssumption`,
`LedgerAssumption`, `CatalogAssumption`, `AuthAssumption` and `ImportAssumption`
give the constants their types; a ledger and a file have finitely many rows.
`ViewsAssumption` does so for `BalanceViews`: a row refers to an account, a
category, a subcategory or nothing, its subcategory is one of its category if it
has both (which `CategoryCoherent`, in `Catalog_proofs`, shows where no two updates
of the row overlapped), nothing that exists is named `Null`, and a user has
finitely many accounts and categories.
`RowAssumption`, in `Catalog`, `Ledger`, `AuthTokens`, `ImportStaging` and
`ChatAgent`, says that the value that stands for no row (`Gone`, `Null`) is not a
row, and in `Catalog` that two tables do not share an id: ids are UUIDs drawn per
row. For TLC these hold because the model values differ; a proof must be told.

**AssistantCalls_proofs**, on the quota. `TypeCorrect`: `TypeOK` is not inductive
alone; `TypeInv` adds that handlers work for used keys (`CallersUsed`) and that a
row once loaded is still there (`RowsStay`), without which an UPDATE could write
to no row. `CountBounded`: `CountInv` adds that a loaded count is within the limit
as well, because what is written is computed from what was loaded.
`SerialLimitHolds`, `SerialInsertWins`, `SerialDateGoesOn`: for a serial key
`SerialInv` says that at most one handler runs, that what it loaded is the row,
that the row's date is not after today's, that the count of the row is the number
granted on its date, and that nothing is granted on later dates; `SerialFrame` and
`SerialServe` are the two cases of a step. `QuotaRefinement` uses the three
invariants to map a write to `Spend`, a refusal to `Refuse` and the rest to
stutters of `DailyQuota`. `RefusalsAreLate` (`EarlyInv`): while midnight has caught
no handler of a key, the count never exceeds what was granted, so that a full
count means a spent allowance.

On the calls. `StepImplements`: a step of chat or transcription is a step of the
quota or leaves it alone. Hence `CallsImplementQuota`, and from the theorems above
`CallsKeepTheLimit` and `CallsKeepThePromise`: what was shown of the quota by
itself holds with keys, retries and fallback around it. `ServerAsksCounted` needs
`CallsInv`: of a client that waits, at most one handler or call is busy
(`AsksAt`), and what was asked on a date, with what the attempts of the call in
hand may still ask, is within what was granted on it. By `SerialInv` the count of
the row is what was granted on its date, so that the row pays.

**ChatAgent_proofs.** `resolve_transaction` is a composition, and one lemma for
each operator says what it returns: an amount or none (`CleanedAmount`), a draft
that `Refers` to the context only (`SanitizedDraft`, `HydratedDraft`,
`BlankDraft`, `MergedDraft`, `InferredAccount`, `AnsweredDraft`,
`ResolvedDraft`). `DraftInv` adds to the type of the state that what is offered
is complete. The client's draft need not refer to anything any more: that the
answer does follows from the lemmas alone, so that `DraftsAreComplete`,
`AnswersReferToWhatExists` and `InferredAccountsFit` hold for any accounts,
categories, patches and interleaving. `MessagesAddUp`, on progress: a draft that
refers to the context, its amount cleaned, passes the first two functions
unchanged (`KeptAsIs`), the merge loses no field (`MergedFields`) and fills the
one that was asked for (`WhatIsAsked`), and each of the four kinds of answer
keeps that (`AnsweredAddsUp`). `ContextInv` is needed for one thing, that a
label the handler knows is never the absence of one.

**Receipts_proofs.** `TypeCorrect`; `CounterIsExact` and `UploadLimitHolds` from
`QuotaInv`: the committed count equals the uploads stored, is within the limit,
the holder of a date's usage row has the committed count plus one in hand, and
there is one holder. `UrlsLead` and `NothingIsLeft` relate bucket and database,
transaction by transaction (`Fine`): keys belong to their transaction (`OwnKeys`),
handlers that overlap are uploads the usage row puts in order (`Company`), what a
handler read of `receipt_url` is still so where it is alone (`SeenStill`), the
object is missing only while the handler that removed it goes on (`UrlLeads`), and
an object is the one stored or the one about to be (`NothingElse`). A step on one
transaction leaves the others `Untouched`.

**Catalog_proofs.** `Coherent` is of the rows and of the handlers between their
two steps: what an update is going to write fits the row it loaded as long as the
row was not raced. From it `ScopeCoherent` and `CategoryCoherent`.
`BudgetsArrived` says of a deletion under way that every budget on its category
has come there since it looked; with `Coherent`, by which the subcategory of a
budget is one of its category, `BudgetsLost` follows. The cascades are the hard part: a
deletion that nulls one column of a pair must leave a pair that fits. `Alone`, of
runs without overlap, adds that the commit of the one handler is `Ready`, whence
`NoErrorAlone`.

**Ledger_proofs.** A balance is a fold over all rows. The provers cannot use the
library's induction theorems, so induction is proved anew as a statement about
sets (`Induction`, from the well-foundedness of `<`), and with it that the fold is
a sum that does not depend on the order of its rows (`SumsExist`, `SumTake`,
`SumAgree`). `BalanceSums` brings a balance under these lemmas: a row that is
added changes it by its `Delta`. The invariant `Coherent` says of the rows that
they refer to what exists and fit their accounts, and of the handlers that an
update, if it is the only one of its row, will leave a row that fits, and that an
adjustment nobody has overtaken still has the balance it read. From it
`OneCurrencyPerAccount`, `DestinationsOfTransfers`, `TransfersKeepCurrency` and,
as steps, `AdjustmentsReachTarget` and `DeletionKeepsBalances`.

**BalanceViews_proofs**, on instalments. `IInv` is `TypeOK`, the sum so far as a
product (`PartsAlike`), the month (`OneEachMonth`) and the day (`DayIsKept`).
`TypeCorrect`, `InstallmentsAddUp`, `MonthsAreConsecutive`, `DayIsNeverLost`
follow, with lemmas on division by twelve and on the lengths of months.

On the views. The invariant, `RowsKept`, is small: finitely many rows, each one a
handler can write. The answers are folds, and the work is to compare them, for a
ledger of any size. The lemmas on sums are those of `Ledger_proofs`, stated once
more for `SumOver` (a module with variables of its own cannot lend them), with
four on top: sums add up term by term (`SumPlus`), zeros do not count
(`SumSupport`), equal terms have equal sums (`SumEqual`), and a sum is the sum of
the sums of its groups (`SumGroups`). A lemma for each fold of the model
(`BalanceIsSum`, `TotalIsSum`, `SpentOnCategoriesIsSum`, ...) brings it under
them. `SummaryAgrees` and `ClosedPeriodAgrees` compare row by row
(`RowOfSummary`, `RowOfClosedPeriod`). `SeriesAgrees` needs that division by
twelve counts months back (`CountingBack`) and that a bucket of the one query
holds the rows of the month's query (`BucketIsMonth`). `BreakdownAddsUp` and
`BudgetsAgree` are `SumGroups` with labels and with categories as groups, after
`BudgetRows` has shown that both look at the same rows. `ExportComesBack`: the
balances of accounts of one name are added up account by account
(`BalancesTogether`), and what a row was attached to is found again by its name
(`RowAgain`, `CurrencyComesBack`, `LabelsComeBack`), so that the same rows are
counted under the same labels (`CountedAgain`, `GroupedAgain`).

**AuthTokens_proofs.** Four inductive invariants, each on top of the first.
`Rooted`: what a handler has in hand are rows there are, of its user and
purpose; `OnlyOneCircle` follows, since no handler but a repeated register waits
for links while it holds its user, and those it retires are never links to reset
a password. `Locked`: two handlers never hold one link, and a handler that opens
one is the first, whence `OneUse`. `Issued`, of users with one issue at a time:
a handler that is about to insert a link has retired, or has in hand, every link
that is unused, and an unused link confirms the password of its user; hence
`OneUnusedLink` and `LinksConfirmTheirPassword`. `Solitary`, of users with one
handler at a time: what it read of its user is still so, hence
`ConfirmedPasswords`.

**ImportStaging_proofs.** `Kept`: what is staged and what handlers have in hand is
the file the preview accepted, and the accounts of an import are those of its
file; `FilesStay` is a part of it. `Once`, of tokens in no doubt: one handler, and
a file that is imported is gone from the store or about to be popped; hence
`ImportsOnce`. `Fitting`: the categories a confirmation has looked up belong
together, and those of what was imported also exist still; with `Kept` this gives
`ImportsFit`.

Each inductive invariant was first checked by TLC on the instance of its run.

Only model-checked:

- `EveryRequestEnds`, which is liveness under fairness;
- the three properties of section 5, which the code violates.

No module has a RECURSIVE operator. The type invariants, and the three properties
of the quota named for a serial client, are stated by theorems and are no property
of a run: the refinement says what the runs should.

## 5. Findings

1. `quota_limit`, against README.md:13. `_consume_free_quota` commits the count
   it loaded plus one, with no lock: overlapping requests of one user are served
   beyond the daily limit (`services/ai_access.py:90`). The receipts' counter,
   an upsert, does not have this.
2. `catalog_delete`, against `tests/test_budgets_contract.py:252`. With two
   budgets on a category (two currencies, or one on a subcategory)
   `scalar_one_or_none` raises, and the delete is answered 500 instead of 400
   (`routers/categories.py:85`, `subcategories.py:75`).
3. `ledger_installments`, against the comment at `routers/expenses.py:457`. A
   transfer between two currencies in instalments is accepted for its
   `to_amount` and stored without it (line 496); the destination is then
   credited the source amount in its own currency.

Limits of the code the models show, and no document denies:

- the free quota is charged before the language model is asked, and stays charged
  when the call fails, is refused or does not parse twice (`ai_access.py:113`);
  for a user's stored key that cannot be decrypted the answer is 400, and nothing
  is counted;
- the assistant does not compare the currency of an account that was named with
  that of the draft (`resolve.py:320`), nor ask for a `to_amount` between two
  currencies: such a draft is offered, and `POST /expenses` refuses it;
- a subcategory of another category of the same type is accepted: the guard at
  `resolve.py:99` compares a code with an id and never holds; the draft is offered
  and refused the same way;
- when a message changes a transfer into an expense, the destination and the
  `to_amount` stay in the draft (`resolve.py:207`): `POST /expenses` drops the one
  and refuses the other (`expenses.py:445`);
- an amount below half a cent passes the check for > 0 and is then rounded to 0.0
  (`resolve.py:17-19`): the draft is offered with it, `POST /expenses` accepts it,
  and the next message drops it and asks for an amount again;
- an account inferred in an answer that asks for something else is taken as said
  in the next message;
- of two accounts of one name only the last has a code (`chat.py:189`) and can be
  named; the accounts last used are those of the last 50 transactions;
- the export leaves out `affects_balance`, so that an import counts every row; a
  file whose transfer goes to an account that no row leaves is refused
  (`import_csv.py:230`), which an export can well be;
- a row with a subcategory and no category, which `update_expense` can leave
  (`expenses.py:600-613`), is exported with its subcategory and imported with
  neither (`import_csv.py:266-267`, 415): its subcategory is lost;
- an imported transfer with a `to_currency` and no `to_amount` is accepted
  (`import_csv.py:198-215`) and credits the amount of its source to an account of
  the other currency; an imported row of any type keeps its destination and
  `to_amount` (`import_csv.py:420-430`), so that what `Ledger` shows of the two
  columns is of the rows its own handlers write;
- two first requests of a user for one type: one is answered 500 (`ai_access.py:77`);
- overlapping adjustments of one account miss the target by what was booked in between;
- a budget created on a category, or moved to it, after `delete_category` looked
  for budgets is deleted with it (`categories.py:84-92`); a transaction deleted
  while its subcategory is deleted makes that deletion a 500;
- two updates of one budget or transaction can leave a pair of columns no check saw;
- changing the currency of an account leaves its transactions in the old one;
- two confirmations of a token at once import the file twice, and so does a retry
  after a COMMIT that was not answered;
- two links asked for at once are both live; a register that overlaps a
  verification can leave the later password on the verified user; the two can
  also wait in a circle, which PostgreSQL breaks with an error;
- a put whose commit fails, or an R2 delete whose exception is swallowed, leaves
  an object nobody refers to; so does deleting a user (`routers/users.py:17`);
- an imported `to_amount` below half a cent is stored as 0.00, which Python takes
  for none and COALESCE for zero: the two balances differ;
- the rows without a category are listed as `Sin categoría` by category and as
  `Sin categoria` by subcategory, so that the second list, keyed by the name, has
  nothing under the label of the first; and a category a user names so is shown
  together with them (`CategoriesAddUp` takes the two spellings together,
  `BudgetsSpendWhatStatisticsShow` leaves them out);
- statistics go by the account's currency and leave out rows whose account was
  deleted, budgets go by the row's; statistics and budgets leave out rows with
  `affects_balance` false, balances do not.

## 6. What is not modelled

- The rate limit of the auth endpoints (`services/rate_limit.py`): one step of one
  process without an `await`, a list of times for each key. No interleaving
  exists, and a unit test reaches what is left.
- User deletion (`routers/users.py`): one statement whose cascades empty every
  table; that objects stay in the bucket is a limit listed above.
- E-mail: I/O in a background task whose failure is logged and dropped.
- Configuration, wiring and migrations, among them the one that turned account
  names into foreign keys: schema history; the constraints are read from the
  models.
- Lists, paging and filters, of which nothing depends; percentages and deltas of
  statistics, which are rounded sums that are modelled.
- Names, colours, notes, descriptions, signed URLs and the wording of answers are
  data no property tells apart; hashes, signatures and the cipher are libraries.
- The language model is any answer its schema admits. The two providers differ in
  how they report a rate limit, and are model values here.
- Session and lock behaviour of PostgreSQL and SQLAlchemy is modelled from how the
  code uses it.

## 7. Plan

Order of work, the most important behaviour first.

1. `FreeQuota` against `DailyQuota`, with proofs. 2. `Receipts`, with proofs.
3. `Catalog`. 4. `Balances`, `Ledger`. 5. `Installments`, with proofs.
6. `AuthTokens`, `ImportStaging`. 7. `Statistics`, `BalanceViews`, and the round
trip of the export. 8. `AssistantCalls` over `FreeQuota`, with proofs.
9. `ChatAgent`, with proofs.
10. Proofs: `Catalog`, `Ledger`, `AuthTokens`, `ImportStaging`, the bucket of
`Receipts` and the progress of `ChatAgent`. 11. Proofs: `BalanceViews` for any
ledger.

What could come next: the adjustment and the import as sources of the ledger of
`BalanceViews`, instead of any row a handler may have written; the exact premise
under which overlapping updates keep `Catalog` coherent.
