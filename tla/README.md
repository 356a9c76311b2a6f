# A TLA+ model of MintFlow

MintFlow records expenses. A user enters them on the Web, or sends text and photos of receipts to a
Telegram bot; a photo is read by a recognizer in the background and the user reviews what it found
before an expense is recorded. This directory models the parts of the program where several actors
write or read the same PostgreSQL rows (the HTTP handlers, the bot's webhook, the receipt workers,
the rate refresh and the retention jobs) and the calculations whose results the user relies on: the
dashboard, conversion between currencies, and the choice among a recognizer's candidates.

Paths below are relative to `src/src/mintflow/`.

## The system

| process | code | how it runs |
|---|---|---|
| server | `main.py`, `http/`, `web/`, `telegram/handler.py` | one uvicorn process (`Dockerfile`), one event loop, synchronous database calls |
| receipt worker | `commands/receipt_worker.py`, `telegram/receipt_worker.py` | any number of processes, each a loop |
| retention jobs | `commands/telegram_retention_cleanup.py`, `commands/authentication_retention_cleanup.py` | scheduled |
| rate refresh | `commands/refresh_exchange_rates.py` | scheduled |
| polling | `commands/telegram_polling.py` | in place of the webhook, for development |

They share nothing but PostgreSQL, at READ COMMITTED. Because the server's database calls block its
loop, nothing else of the server runs from a handler's first statement to its last, unless the
handler awaits in between. What does run in between are the other processes, and those are what the
models are about.

### Components

| component | state | operations | must hold |
|---|---|---|---|
| Capture draft (`domain/capture/draft.py`) | one row: state, fields with their source, revision | start, set a field, apply a recognition, continue manually, ready, confirm, cancel, expire | the user's input wins; final states are final |
| Draft API and confirmation (`http/capture.py`, `application/capture/confirm_draft.py`) | `capture_drafts`, `expenses` | start, edit, ready, cancel (read without a lock, whole row written back); confirm (`FOR UPDATE`) | one Expense per draft, one answer to every confirmation, no lost edit |
| Update ledger (`telegram/handler.py`, `infrastructure/persistence/telegram_updates.py`, `http/telegram.py`) | `telegram_processed_updates` | receive, insert the id, dispatch, commit, reply, answer; forget after seven days | an update's work happens once, and at least once if it is acknowledged |
| Conversation (`telegram/capture_flow.py`, `application/telegram/conversation.py`) | `telegram_conversations`, one locked row per user beside the drafts | every command, typed answer, button and photo | the bot asks for what is missing, in order; every open draft can be reached |
| Receipt queue (`telegram/receipt_worker.py`, `infrastructure/persistence/receipts.py`) | `receipts`, `receipt_images`, `recognition_results` | claim with a two minute lease, fetch and keep the image, recognize, finish, notices | settled once, applied once, told once; a waiting draft is worked on |
| Linking (`application/telegram/linking.py`, `infrastructure/persistence/telegram_links.py`) | link challenges, connections | request, claim, confirm, unlink | one active connection per account and Telegram user, a challenge is used once |
| Expense records (`application/capture/edit_expense.py`, `expense_deletion.py`, `expense_changes.py`, `expense_history.py`, `web/expense_form.py`) | `expenses`, `expense_change_records` | edit by form or `PATCH`, delete, restore, page through | every change has its record, with the true old value; a form changes only what its user changed; a history shows everything once |
| Retention (`infrastructure/persistence/telegram_retention.py`, `authentication_retention.py`) | all of the above | expire and delete by age | nothing in use is removed |
| Account deletion (`infrastructure/persistence/account_deletion.py`, `deploy/restore.sh`) | everything of a user, a tombstone | delete, delete again after a backup is restored | no user has a tombstone |
| Sign-in and sessions (`application/authentication/`, `infrastructure/persistence/login_challenges.py`, `authentication_rate_limits.py`, `web_sessions.py`, `http/authentication.py`) | login challenges, rate windows, sessions | request a link, sign in, authenticate, sign out | a link signs in once; windows hold under concurrency; what was read under a lock holds |
| Preferences (`application/users/preferences.py`, `infrastructure/persistence/users.py`) | four columns of `users` | read, merge, write | no lost change |
| Dashboard (`application/analytics/`, `web/dashboard.py`, `http/analytics.py`) | none: several statements over `expenses` | totals, comparison, buckets, categories, merchants, largest, conversion | the parts add up, comparisons are fair, nothing is silently left out |
| Exchange rates (`application/rates/rates.py`, `infrastructure/rates/sources.py`) | `exchange_rates` | refresh from two sources, convert | no stored rate is lost; the first source that answers wins |
| Recognition values (`application/receipts/recognition.py`) | none | select merchant, date, currency, total | nothing is guessed |
| Money, dates, parsing; adapters, pages, wiring | none | conversions, I/O, rendering | - |

`PROJECT.json` lists the same components with their files and what is modelled of each.

### How they interact, and what is hard

* **Draft row**: written by the HTTP handlers, the conversation flow, the worker and the retention
  job. The first two read it without a lock and write the whole row back.
* **Conversation row**: the flow locks it for a whole update, the worker before it touches the draft,
  and so it serializes those two. The retention job locks drafts first and the conversation second,
  the flow the other way round; PostgreSQL aborts one of the two when they meet. An HTTP handler does
  not take this lock.
* **Confirmation inside an update**: `ConfirmCaptureDraft` commits the shared session, so an update
  that confirms commits twice and gives up the conversation lock in the middle.
* **Receipt row**: a worker holds a lease, not a lock, while it downloads and recognizes; an attempt
  number tells a stale attempt from the current one. The retention job and account deletion
  change the row meanwhile.
* **Telegram** repeats an update whose answer it did not get, while the first copy may still run.
* **Sessions**: `authenticate()` takes `FOR SHARE` on the session's and the user's rows and keeps
  it across the handler's awaits: a concurrent sign-out or deletion cannot be answered while a request
  still writes. The other side of it is that a second request on the same event loop that needs the
  user's row for update blocks the loop which should release it.
* **Expense rows**: every change locks the row, computes from what it read under the lock, and commits
  the row and its change record together. The forms it starts from may be hours old.
* **Several statements, one answer**: a dashboard is up to a dozen statements and a history one per
  page, each of which sees what was committed until then.
* **Rates**: a refresh replaces rates between two pages, never within a conversion, since a page reads
  them once.

The hazards these lead to are in `PROJECT.json`, each at its line with the properties that cover it
or the reason that none does.

## The modules

| module | models | instances |
|---|---|---|
| `CaptureDraft` | the aggregate, as operators on a draft record | used by the next two |
| `DraftApi` | the draft rows of a user, the HTTP handlers, the confirmation, the worker, the job | `MCDraftApi` |
| `UpdateContract` | what the bot promises of an update | |
| `UpdateLedger` | delivery, ledger, commits, replies and answers; implements `UpdateContract` | `MCUpdateLedger` |
| `Recognition` | which candidates of a recognizer prefill a draft | gives `MCTelegramCapture` its results |
| `TelegramCapture` | one user's conversation, with worker, job, unlinking and the Web | `MCTelegramCapture` |
| `ReceiptContract` | what the queue promises of a receipt | |
| `ReceiptQueue` | the workers, their leases and what else touches receipts; implements `ReceiptContract` | `MCReceiptQueue` |
| `LinkContract` | what linking promises of accounts and Telegram users | |
| `TelegramLinking` | challenges, claims, confirmations, unlinking and deletion, with the sessions behind them; implements `LinkContract` | `MCTelegramLinking` |
| `SignIn` | rate windows, mailed links, sign-ins, deletion, tombstones, backups | `MCSignIn` |
| `WebRequests` | requests on event loops, the rows they share while they await, preferences | `MCWebRequests` |
| `ExpenseRecords` | forms, edits, deletions and restorations of Expenses with their change records | through the next |
| `ExpenseHistory` | a client that pages through the history meanwhile | `MCExpenseHistory` |
| `Periods` | the dashboard's calendar arithmetic | through `Dashboard` |
| `Rates` | the refresh of the rates, the table, conversion | through `Dashboard` |
| `Dashboard` | the statements of a dashboard and how its parts are put together | `MCDashboard` |
| `DraftApi_proofs` | theorems about `CaptureDraft` and `DraftApi` | |
| `UpdateLedger_proofs` | theorems about `UpdateLedger` and `UpdateContract` | |
| `TelegramCapture_proofs` | theorems about `TelegramCapture` and `Recognition` | |
| `ReceiptQueue_proofs` | theorems about `ReceiptQueue` and `ReceiptContract` | |
| `TelegramLinking_proofs` | theorems about `TelegramLinking` and `LinkContract` | |
| `SignIn_proofs` | theorems about `SignIn` | |
| `ExpenseRecords_proofs` | theorems about `ExpenseRecords` and `ExpenseHistory` | |
| `Web_proofs` | theorems about `WebRequests`, `Periods`, `Rates` and `Dashboard` | |

Operators whose comment says "Mutant of ..." are not part of a model: they are plausible bugs, used to
see that the properties notice them.

Composition follows the code's calls: `DraftApi` and `TelegramCapture` use the aggregate's operators,
`MCTelegramCapture` computes the results a worker may store with `Recognition`, `ExpenseHistory` runs
a reader beside all of `ExpenseRecords`, and `Dashboard` runs beside the refresh of `Rates`.

### CaptureDraft

A transition of the code is a pure method that returns a new instance or raises `ValueError`. Here it
is an operator from draft to draft, and the condition under which it does not raise a predicate
(`IsOpen`, `CanMarkReady`, `IsConfirmable`). A field is its source (`none`, `default`, `user`,
`recognition`) and whether `Expense` would accept the value (`sound`): an amount of zero, a date
past the tolerance and an unknown category are the values that are not sound. Values themselves are
left out, so "the user's value" means "a value of the user", the latest being the one in the row.

### DraftApi

`drafts` and `expenses` are the tables. `op[r]` is the frame of a running handler: the row it computed
from what it read, waiting to be written. `ReadForEdit`, `ReadForReady` and `ReadForCancel` are the
first half of a handler, `WriteRow` (`CaptureDraftRepository.update`) the second. `LockForConfirm`
takes the row lock (`RowLocked`), and `CommitConfirm`, `FaultConfirm` and `Crash` end it.
`FinishReceipt`, `FailReceipt`, `ExpireAbandoned` and `ReceiptArrives` are the other processes, each one
transaction that locks the row before reading it. `dormant` stands for a `modified_at` seven days
back, `unfinished` for a receipt that is still queued or processing.

`home` maps each request to the server process that runs its handler; it is chosen once, from
`Deployments`, and `LoopFree` says that a process runs one handler at a time. With all requests at one
home this is the deployment; with more it shows what the single process is needed for. Properties
that need it start with `OneLoop =>`. A row that was read without a lock is read again by a later
`FOR UPDATE` of the same handler: nothing keeps the first instance in SQLAlchemy's identity map.

### UpdateLedger

A copy of an update goes through stages: `received`, `begun` (id inserted, transaction open),
`early` (a use case committed), `replying` (the handler committed), `answering`, or `failing` and
`failing_late`. `Held` is PostgreSQL making a second insert of an id wait for the first transaction.
`Record` is the commit that makes id and work durable; `CommitEarly` is possible for `EarlyCommit`
updates only: confirmations and link claims. `Forget` is the retention; it may touch only an update
Telegram is done with, since redelivery stops after a day and the rows are kept for seven.

### TelegramCapture

`drafts` and `conv` are the rows; `plan` is what the running update is about to write. The first half of
an update is one action per command, text or button; the second is `Commit`, or `CommitExpense` and
`SaveConversation` for a confirmation. `Abort` is an exception, a crash or a deadlock abort.
The worker's transaction (`FinishReceipt`, `FailReceipt`) is one step that needs the conversation lock
(`ConversationLocked`). A `PATCH`, ready or cancel of the Web is two steps as well: `WebRead` reads the row without a
lock and computes the new one (`plan` has both), `WebWrite` writes every column. No update and no other
request runs in between, as there is one loop, but the worker and the job do, and what they committed is
overwritten; `overwritten` remembers such drafts. `WebConfirm` is one step, since it locks the row before it reads
it. Updates that change nothing are not steps.

### ReceiptQueue

`worker[w]` is what a worker remembers: stage, receipt, attempt, output, and the delay notices it
claimed and has yet to send. `receipts[r].lapsed` is a lease in the past; a lease that lapses under a
worker still at work counts as one of the bounded faults, because the attempt was too slow. Finishing
is two steps, `SaveFinished` and `CommitFinish`, between which the receipt's row is locked (`Locked`).
`DeleteReceiptData`, `DeleteAccount`, `CloseDraft`, `ContinueManually` and `Unlink` are what the others do.
`ReadDraft` and `WriteDraft` are the halves of an HTTP edit: the draft's state goes back to what it was when it was read, so a
draft may wait again after the waiting was over (`rewritten`). The server's other actions need `LoopIsFree`.
Delay notices are claimed for the oldest overdue receipts and sent afterwards; a sweep's limit of 20 is never reached.

### TelegramLinking

`sessions`, `challenges`, `connections` and `conversations` are the tables; of a conversation's row
(`ConversationRow`) only whether it has an active draft and whether it asks something about it is kept. `challenges[c].lapsed` is an `expires_at` in the past, and
`kept` is false once the row was deleted: what it said stays as history for `ConnectionsAreConsented`.

A Web request is two steps. `Authenticate` reads the session and takes `FOR SHARE` on its row and
the user's (`SharesSession`, `Sharers`); `Issue`, `Confirm`, `Unlink` or `DeleteAccount` is the
handler's work at its one commit, and `EndRequest` is a refusal, a failure or another endpoint. The one event
loop allows fewer interleavings than that, since these handlers await nothing in between; with
several server processes all of them would happen, and the properties hold in them too. `SignIn` and
`DeleteAccount` need the user's row for update and wait for `Sharers`; deletion also waits for the
worker, which holds the account's receipt. `SignOut` waits for the session's row only. `Claim` and
`BotActs` are updates of the bot, which are one step because the bot does not await.
`WorkerInserts` and `WorkerSelects` are the two statements of `lock()`: when an unlinking deletes the
row between them, the second finds nothing and raises. `worker[a]` remembers what the row said. `WorkerAsks` is the worker's own save,
an upsert that would insert the row again: it happens when the receipt's draft is the active one of the row it
read, and writes the next question or none. `WorkerCommits` leaves the row, or begins one without a draft. After an
unlinking the worker may create such an idle row, although `docs/telegram_client_design.md` gives the row to the
active connection's user; it asks nothing, and the next lock finds it. The link page's status, the acknowledgement and the audit
trail change nothing here.

### SignIn

The tables are `address` (users and their e-mail identity), `links`, `sessions` and `tombstones`, and
the buckets `network` and `delivery` of the two rate windows. `asks[a]` is a request for a link between
its four steps, each with a commit of its own (`ReserveNetwork`, `ReserveAddress`, `StoreChallenge`,
`SendMagicLink`); the window is the one of the moment it began. `visits[v]` is the transaction that uses
a link: `TakeLink` is the conditional update, `LockAddress` the advisory lock, `ReadIdentity` the read
for update, `SignUp` and `SignInAgain` the commit. `deletion` is the account deletion that runs: `LockUser`,
then `DeleteAccount` with all its deletes and the tombstone. It locks the user first and the links
later and a sign-in does it the other way round, so `Deadlocked` states are reached and `BreakDeadlock`
ends them. `BackUp` keeps a snapshot of the tables, `Restore` puts it back and stops traffic,
`ReturnTraffic` is allowed once everyone who has a tombstone was deleted again, as `restore.sh` asks.
`fate` remembers what no table does: that a user id was used, or deleted; `mails` and `sent` what was mailed in a window, to an address
and altogether, because a bucket that is removed forgets it. Windows, links, sessions and
tombstones are removed by the retention's actions, guarded by what the ages mean (`Forgettable`,
`TombstoneAges`). All requests come from one network address.

### WebRequests

A request is a coroutine: its `stage` says whether it `authenticates`, `awaits` the network (its body, or
that its page is sent), `reads` or `writes`. `loop[p]` is the request whose database call process `p`
runs: while it is set, nothing else on that loop moves (`LoopFree`), and a call that waits for a row keeps
it. `Sharing(r)` is the `FOR SHARE` of `authenticate()`; `SessionFree` and `UserFree` are what the updates
need. `ReadPreferences` and `WritePreferences` are the two halves of a change of preferences, which
writes every column; `stored` remembers per preference what the last request to submit it stored.
`BreakDeadlock` is PostgreSQL aborting one of two transactions that wait for each other, `Crash` the
end of a process. Of a request that changes other rows (`edit`) and of a page, only the locks matter here.

### ExpenseRecords and ExpenseHistory

`rows` and `changes` are the tables, `work[t]` is a tab: an open form with the values it was rendered
with, a request that was asked, or its transaction. `SubmitForm` computes the edit from the
difference (`Touched`, `FormEdit`; an amount and its currency are one `Money`), `Patch` takes any body with both
or neither. `Answer` is the use case that finds nothing to do, `Lock` the row lock and the read under it,
`AppendRecord` the flushed record that nobody else sees, `UpdateAndCommit` the commit of both, `Abort` a
failure anywhere. Steps of several requests interleave wherever the lock lets them. `created` is what
an Expense was confirmed with.

`ExpenseHistory` adds one reader: `StartWalk` applies a filter, `NextPage` is one statement with its
`ORDER BY`, limit and keyset cursor (`Position`, `Past`, `PageOf`), `Meanwhile` anything of
`ExpenseRecords`. `steady` are the Expenses that matched at the start and were not written since, `placed`
those whose transaction date was not changed.

### Periods, Rates and Dashboard

A day is an integer. Which days begin and end months are parameters, constrained only by
`CalendarAssumption`, so the operators of `Periods` (buckets, presets, comparison windows) are those of the code for
every calendar.

`Rates` has the refresh command in steps: one `Fetch` per source with the source's own parsing rules
(`ParseEcb`, `ParseNbu`), `Save` in one statement, `Die` in between. A rate is an integer over `RateUnit`;
`Convert` rounds half to even, once per converted amount.

`Dashboard` is one request after another: `Open` (the request, the user's default currency, today, the
rates; a period that `DashboardPeriod` refuses is none), one `Read` per statement in the code's order (`Plan`, `AfterPrevious`), each over the
`expenses` of that moment, and `Respond`, which puts the parts together (`Detail`) or fails where the page does
(`Drawn`). `Commit` is any other request of the user committing in between; `seen` are the tables during the
request. A statement is its result by definition: sums by group, order, the largest row. A ranking (`Ranked`)
puts each group behind those that precede it, by the number of them.

### Recognition

The selection of `application/receipts/recognition.py` as operators: a candidate's confidence in hundredths
must reach its minimum and lead every different value (`Leader`), a date must have exactly one plausible
reading, a total needs its label and a trusted currency and must be a whole number of minor units.

## What the runs check

All bounds are constants of the cfg or a `CONSTRAINT` that the MC module states, and each unbounded
counter has a bound in a guard. There are twelve runs, ten that pass.

### Drafts (`DraftApi`)

| run | bounds | checks |
|---|---|---|
| `drafts` | 1 draft, 2 requests, on one loop and on two processes, 3 field writes, 2 Expenses, fair | `ExpenseMeansConfirmed`, `NoLostEdit`, `ConfirmedOnce`, `ConfirmedNamesItsExpense`, `FinalStays`, `UserValuesWin`, `AbandonedDraftsEnd` |

Two requests are enough for each of the races: a stale write needs one handler that holds a row and one
writer. Three field writes allow an edit of two fields and a recognition between. Two Expenses allow a
second one to be created if anything allowed it. With two processes `ExpenseMeansConfirmed`, `NoLostEdit`,
`FinalStays` and `UserValuesWin` do not hold, which is why they assume `OneLoop`; the others hold
because a handler can only write back a row that named its Expense if the table's row did, and because
the unique constraint stops the second insert.

Fairness: `WF` of the worker, which is a loop, and of the second half of a handler, which has begun;
`SF` of the expiry job: it comes back on every run and skips rows that are locked for the
moment. Clients owe nothing.

### Updates (`UpdateLedger`)

| run | bounds | checks |
|---|---|---|
| `updates_once` | a text, a confirmation and a group update, 2 copies at a time, 3 mishaps, fair | `ImplementsContract`, `EveryUpdateSettles` |

Two copies let one wait behind the one that holds the id, and three mishaps let both fail and one answer
be lost; the proofs cover every number of each. That an update is applied once, acknowledged only when
committed and answered once are parts of the contract.
Fairness: a received request runs to its end, and Telegram repeats what it has no answer for
until it gives the update up. Mishaps (failures, crashes, lost answers) end: with one at
every delivery nothing could settle.

### Conversation (`TelegramCapture`, `Recognition`)

| run | bounds | checks |
|---|---|---|
| `chat_two_drafts` | 2 drafts, no Web | `UserCanGoOn`, `ClosedStays` |
| `chat_and_web` | 1 draft, everything the Web can do to it, fair | `AsksForTheNext`, `UserSourcesNeverFall`, `UpdatesHeal`, `WaitingEnds` |

Two drafts are one to discard and one to start; a third adds only a draft that is closed already. What
relates the conversation to one draft is checked with one and the Web added. `ReviewIsComplete`, a part of
`UserCanGoOn`, is claimed only where the Web does not mark drafts ready, because it may do so with an
incomplete one. Four of the properties except what a request of the Web does that writes a row it had read before the worker
or the job committed: the result it takes back need not be asked for (`AsksForTheNext`), a recognized value may fall (`UserSourcesNeverFall`; a
user's may not), an expired draft is open again (`ClosedStays`), and a draft may wait again (`WaitingEnds`). The results a worker may store are what `SelectValues` makes of candidates that
agree, compete, are ambiguous or are missing.
Fairness: a handler that has begun ends, `SF` of the worker per receipt, since it waits in PostgreSQL's queue for
the conversation's row and updates that keep coming do not overtake it.

### Receipts (`ReceiptQueue`)

| run | bounds | checks |
|---|---|---|
| `receipts_taken_over` | 2 workers, 1 receipt, 3 faults, fair | `WaitingIsWorkedOn`, `WarnedOnce`, `NothingStaleStored`, `ImplementsContract`, `ReceiptsSettle` |

`WaitingIsWorkedOn` excepts a draft that an HTTP edit put back to waiting. Takeovers concern one receipt, and three faults allow two takeovers and a crash. A sweep may also claim
the notice of one receipt while the worker has another; that takes two receipts, too many for a run with
liveness, and the proofs cover it. `ReceiptsSettle` assumes workers are restarted, leases lapse, and faults end.

### Linking (`TelegramLinking`)

| run | bounds | checks |
|---|---|---|
| `links_one_to_one` | 2 accounts with a session each, 2 Telegram users, 2 challenges, 2 requests at a time | `ConnectionsAreConsented`, `UnlinkedAsksNothing`, `SignedOutDoesNothing`, `ImplementsContract` |

Two of each are enough for every collision of a pair: two accounts confirm one Telegram user, two
users claim one challenge, an account is linked again to someone else, a logout or a deletion comes
between the halves of a request. Two sessions of one account are left to the proofs.

### Sign-in (`SignIn`)

| run | bounds | checks |
|---|---|---|
| `sign_ins` | 1 address, 2 user ids, 2 links, 2 requests for a link and 2 uses of one at a time, limits 1 per address and 2 per network, 2 windows | `LinkSignsInOnce`, `WhatWasReadHolds`, `MailsWithinLimits`, `NoUserHasTombstone`, `WaitsEnd` |

One address suffices because locks, links and buckets of different addresses do not meet except in the
network's bucket. Two user ids are an account and its successor after a deletion; two links are two first
sign-ins at once. The second window is there for a request that began in the first, for the buckets'
removal, and for a restore, which moves to it.

### Requests that hold rows (`WebRequests`)

| run | bounds | checks |
|---|---|---|
| `web_requests` | 3 requests of one session, 2 processes, 2 values, fair | `NoPreferenceLost`, `WritesInOpenSession`, `RequestsEndApart` |
| `web_requests_hang` | 2 requests, 1 process, fair | `RequestsEnd`, violated, see below |

Three requests are two that change preferences and one that signs out or deletes. Fairness: a body
arrives and a response leaves, or the connection breaks (`WF` of `Step` or `Refuse` per request), and a
database call returns when its rows are free. It is weak fairness because a request on a free loop stays
able to go on until it does. `RequestsEndApart` is about requests of which no two share a loop.

### Expenses (`ExpenseHistory`, `ExpenseRecords`)

| run | bounds | checks |
|---|---|---|
| `expenses_and_history` | 3 Expenses, 2 tabs, 2 records per Expense, 2 instants, pages of 1 and 2, a filter of everything and one by date and currency | `ChangesTellTheStory`, `ShownOnce`, `NoForeignOverwrite` |

The constraint `Apart` splits the question: either two requests overlap on one Expense, through forms or
not, and nobody reads; or a history is read and between its first and last page two requests,
one after the other, edit by `PATCH`, delete or restore. Pages of one and two over three Expenses put the
cursor before, on and behind everything that changes, and equal dates and instants leave the order to the
id. What the run splits, `ExpenseRecords_proofs` proves of any number of overlapping requests, with a history
read between them.

### Dashboard (`Dashboard`, `Periods`, `Rates`)

| run | bounds | checks |
|---|---|---|
| `dashboard` | 3 Expenses in 4 currencies, months of 3 to 5 days and weeks of 3, one top merchant, every preset, page and API | `PartsAddUp`, `InsightsAreTrue`, `ComparisonIsFair`, `NothingIsSilent`, `FirstAnswerWins` |
| `dashboard_page_fails` | the same, nothing committed meanwhile | `PageNeverFails`, violated, see below |

The small calendar has short and long months, a period that reaches into the future, one
too early to be compared with what was before it, and one longer than the limit for daily buckets; the rates make conversions that round and halves that
tie, and leave one currency without a rate. `Apart` allows one commit while a page is built, and a
refresh of the rates before there are Expenses or while nothing else happens. The parts are compared with the tables the request
may have seen: with one commit in between each part is true of the table before or after it. The converted
parts may differ from the total by half a minor unit per group in another currency, which is the bound in `TrueSum`.

`drafts`, `expenses_and_history` and `dashboard` check deadlock: there is always something to do. The others
stop legitimately when all drafts are used, updates are settled, receipts are gone, accounts deleted or requests ended, and switch it off.

## Where the code and what is written about it differ

Two runs are expected to find a violation.

* `web_requests_hang`: a request that has authenticated shares the user's row while its body arrives. A
  deletion, a change of preferences or a sign-in of the same user then waits for that row in a
  synchronous call on the only event loop, so the body is never read, the lock never released, and
  PostgreSQL sees one waiter only; no `lock_timeout` is set. `docs/account_deletion_design.md:40` says that
  concurrent requests finish before a deletion or find the user gone. It takes two requests of one user at a
  time, one of them still sending its body.
* `dashboard_page_fails`: when the period's Expenses convert to nothing (0.20 UAH in EUR), every share
  is zero, `donut()` draws no slices, and `zip(strict=True)` in `web/dashboard.py:381` raises: the page answers
  500 until another Expense is recorded or another currency is chosen.

More of them are stated in the modules, under "What the documents say and the code does not keep" or
with the words they quote. To see a counterexample, put the property in the place of the properties of the cfg.

| property | module, cfg | what happens |
|---|---|---|
| `FinalDraftNeverEdited` | `DraftApi`, `DraftsOfEveryDeployment.cfg` (`PROPERTY`) | `PATCH` reads an open draft, the job expires it, `PATCH` writes the row back: an expired draft is edited and open. `docs/domain_design_proposal.md` says an expired draft cannot be edited. |
| `ConfirmNeverFaults` | the same (`INVARIANT`) | A draft with amount zero or an unknown category is "confirmable" and fails with an unhandled error. The domain proposal requires every mandatory field to be valid. |
| `FailureCommitsNothing` | `UpdateLedger`, `UpdatesOnce.cfg` (`INVARIANT`) | A failure after `ConfirmCaptureDraft`'s commit is answered 500 with Expense and update id committed; the webhook's docstring says nothing is committed and that the redelivery retries. |
| `PhotoKept` | `TelegramCapture`, `ChatTwoDrafts.cfg` (`PROPERTY`) | Answering the amount question forgets the photo that waited behind the draft: `with_draft()` resets it. `conversation.py` says it is kept until the user chooses. |
| `RemovedStaysRemoved` | `ReceiptQueue`, `ReceiptsTakenOver.cfg` (`INVARIANT`) | A worker that was taken over stores the image after the retention job removed the receipt's data; the job will not look again. Its docstring says no worker can fetch the image again. |
| `DeletedIsDeletedAgain` | `SignIn`, `SignInsAndDeletions.cfg` (`INVARIANT`) | An account deleted after the backup was taken comes back with a restore, because the backup has no tombstone of it. The header of `deploy/restore.sh` and `application/authentication/retention.py:10` say it is deleted again; the end of the script and the design's A5 say that it may not be. |

| `FailedSourceKeepsItsRates` | `Rates`, `DashboardBuilt.cfg` (`PROPERTY`) | The ECB fails, the NBU answers, and the NBU's rate replaces the stored one of the ECB. `docs/exchange_rates_design.md:35` says a failed source keeps the previous rates, and so do `application/rates/rates.py:99` and `commands/refresh_exchange_rates.py:4`. |

The first needs the job to commit in the few milliseconds between a handler's read and its write. When it is
the worker that commits there, the same unlocked write takes the recognition back: the fields it filled are empty
or a default again while the conversation has moved on, so a draft may come to its review without an amount (it cannot
be confirmed then), or the draft is back in `awaiting_recognition` with no attempt left to end it; the user leaves that state with
"Enter manually", or the job expires the draft. A draft that was expired and reopened is out of the conversation's reach, which has
let go of it; on the Web it is there. The properties of `TelegramCapture` and `ReceiptQueue` except exactly these drafts. The delay notice is sent after the commit that claims
it, so it can arrive when the user has moved on, although the docstring of `send_delay_notices` speaks
of a waiting draft only.

Two smaller ones shaped the models. `web/expense_form.py:3-5` says that a form never overwrites a field
its user did not change; amount and currency are sent as one value (lines 112-118), so changing one of them does overwrite the
other, and `NoForeignOverwrite` says so. `docs/dashboard_design.md:41` and `http/analytics.py:217` call a dashboard
one consistent read; it is several statements at READ COMMITTED, so its parts may belong to different
moments, and the properties of `Dashboard` claim agreement only when nothing was committed in between.

## What is proved

TLAPS checks these for every value of the constants, so for any number of drafts, requests, server
processes, updates, copies, mishaps, workers, receipts, faults, accounts, Telegram users, sessions, challenges, addresses, links, Expenses, tabs,
currencies, rates and commits in between, where the runs have two or three. Of the forty properties the passing runs check,
thirty-five are theorems: all that are not liveness.

Assumptions are the named `ASSUME`s of the modules, and nothing else:

* a null is no value (`NoDraftAssumption`, `NoExpenseAssumption`, `NoExpenseRowAssumption`, `NoPersonAssumption`,
  `NoSessionAssumption`, `NoRequestAssumption`, `NoAccountAssumption`, `NoRowAssumption`, `NoEmailAssumption`,
  `NoUserAssumption`, `NoLinkAssumption`, `NoRateAssumption`, `NoConversionAssumption`, and `NoCurrency` in `DashboardAssumption`);
* edits, results, inputs, filters, page sizes, ignorable updates, defaults, limits and bounds have their types;
  ids of Expenses and dates are ordered like numbers (`DatesAssumption`);
* what is counted is finite: the Expenses (`ExpensesAssumption`) and the requests for a link (`AskAssumption`); the rows of
  Expenses have the types of their columns, with amounts above zero as the table's constraint has it (`TablesAssumption`);
* no rate that a source may give is rounded to zero (`RateUnitAssumption`);
* a session belongs to an account (`OwnerAssumption`), months are intervals of days that do not
  overlap (`CalendarAssumption`, `LimitsAssumption`), a source's body maps codes to numbers (`BodiesAssumption`), and a lead is at
  least one hundredth (`ThresholdsAssumption`).

### `DraftApi_proofs`

It begins with the lemmas about the aggregate's transitions.

* `TypeCorrect`: `Spec => []TypeOK`.
* `DraftsProduceOneExpense`, `ConfirmedDraftsNameTheirExpense`, `ConfirmationsAgree`, `ConfirmationIsIdempotent`: the
  properties of every deployment. None is inductive: `WriteRow` writes a row computed earlier. `Unique`
  strengthens them with what the *held* rows satisfy (`NamesItsExpense` of `op[r].row`), and with
  the Expense of each answer. The crucial case is a stale row written over a confirmed draft: the row
  then names no Expense, the draft is no longer confirmed, and it is the unique constraint that keeps
  a second Expense from being made.
* `ExpensesKeepTheirDraft`, `FinalDraftsStay`, `UserValuesStay`: with one server process. `Serial` adds
  that at most one handler is between its statements and that the row it holds `Agrees` with the
  table on everything only requests change: a settled row is held as it is, and a user's value is
  there. The worker and the job may invalidate the rest of it, and that is what the differences above are.
  `StepRespectsRows` says for each action what it does to a row, and both action properties follow.
* `NoEditIsLost`: with one server process, from `Counted`: a held row has counted what the table has,
  and the fields it is about to write. This needs that a `PATCH` of *n* fields raises the revision by *n*, and that a
  draft by hand has no receipt, since a recognition raises it too.

### `UpdateLedger_proofs`, from one inductive invariant `Inv`

* `TypeCorrect`, `UpdatesAppliedOnce`, `AcknowledgedUpdatesApplied`, `OneReplyAfterCommit`.
* `LedgerImplementsContract`: `Spec => Contract!Spec`, each step mapped to a step of `UpdateContract` or
  to none.

`applied <= 1` alone is not inductive because the ledger forgets: an id may be missing although its
work was done. `Inv` therefore says that such an update is settled at Telegram and in nobody's hands
(`ForgottenIsOver`), that an uncommitted insert is the only one and precedes any commit (`BegunFirst`,
`OneOwner`), that whoever is past the commit saw it (`PastApplied`), and that the copy that still owes the
reply has not given it (`OwedNotReplied`).

### `TelegramCapture_proofs`, from one inductive invariant `IInv`

* `TypeCorrect`, `TheUserCanGoOn`, `TheNextIsAsked`: the invariants of the two runs, with any
  number of drafts and the Web at once.
* `ClosedDraftsStay`, `NoUserSourceFalls`, `EveryUpdateHeals`: the action properties. The last one is proved
  without fairness, as it says what a commit leaves behind.

An update reads, computes and writes later, so the tables alone are not inductive. `PlanOk` says of the running update
that it is `Writable`: the rows it is about to write are of the active draft or of a new one, lower no
source, and leave at most one open draft, which the conversation it writes points to and asks for what
that row lacks (`Fits`). It stays `Writable` because of `ConversationLocked`, which keeps the worker and the job
from the active draft, and of the event loop, which keeps the Web away. Of a request of the Web it says that its row is `Held`:
the row follows from the one it read (`Follows`), and whatever the worker and the job made of the draft since, its values of the user are in the
held row too (`UserKeeps`), which is why `NoUserSourceFalls` holds of a write that locks nothing. What is asked fits the
row (`Fits`) of every draft but the `overwritten` ones. `RowsOk` is what the questions rest on: a draft
of the bot has its date from the beginning, and its amount when it is under review (unless the Web marks
drafts ready or overwrote it). Every step is shown to keep `IInv` and to do to the rows only what `Kept` allows, which gives
both row properties at once. The lemmas about `SetField`, `ApplyRecognition`, `Edited` and `Advance` say what a transition
leaves alone.

About the operators of `Recognition`: `AtMostOneLeader`, `ContradictionOnlyRemoves`, `TotalIsNeverGuessed`: recognition selects
one value or none, more candidates that contradict make it more careful, and a total has its label, confidence and currency.

### `ReceiptQueue_proofs`, from one inductive invariant `Inv`

* `TypeCorrect`, `WaitingReceiptsStayQueued`, `StaleAttemptsLeaveNoResult`, `RemovedReceiptsStayEmpty`,
  `DeletedAccountsStayEmpty`, their conjunction `NothingStale`, `OneDelayNotice`.
* `QueueImplementsContract`: `Spec => Contract!Spec`.

`Inv` says that the worker between `save_finished` and its commit holds the current attempt and is the
only one (`CommittersAreCurrent`, `OneCommits`); it needs the row lock, which is why claiming, removing
and deleting ask for `~Locked`. A removed receipt is never in process (`RemovedIsIdle`), which is the
retention job's condition on the state and the claim's on the image. Nothing was applied or told while the outcome is
open (`UnsettledIsClean`), and whoever is about to tell is the first (`TellersAreFirst`, `OneTells`). A claimed
notice is marked and not yet sent, and one worker has it (`NoticesAreMarked`, `OneWarns`). Even the types
need the first of these: finishing writes the row of a receipt that must still be there. An HTTP edit makes a draft wait only as it was
read, and if that was over `rewritten` says so. Steps that
take something back or change nothing the invariant reads are covered by one lemma, `QuietKeeps`; the
others are proved one by one.

### `TelegramLinking_proofs`, from one inductive invariant `Inv`

* `TypeCorrect`, `ConnectionsConsented`, `LinksOneToOne`, `NoQuestionOutlivesLink`, `SignedOutIsInert`.
* `LinkingImplementsContract`: `Spec => Contract!Spec`.

`Inv` adds that a challenge past `waiting` names who claimed it (`ClaimsNamePerson`), or a confirmation could connect
nobody, and that a request in progress has a session that was not signed out and an account that
exists (`RequestsStand`): this is what `FOR SHARE` is for, and `SignedOutDoesNothing` follows from it.
`UnlinkedAsksNothing` is inductive with `HeldRowStays`: a worker that read a row with a draft holds it, so nothing
takes the draft or the link away before the worker saves its question.
`OneToOne` is what the partial unique indexes give, and with it unlinking an account ends exactly one
link, which makes it a step of the contract.

### `SignIn_proofs`, from one inductive invariant `IInv`

* `TypeCorrect`, `OneSessionPerLink`, `ReadsHold`, `UserOrTombstone`, `SomebodyGoesOn`, `LimitsHold`.

`Accounts` holds two arguments together. One is about locks: whoever is past `TakeLink` holds an open link that
nobody else holds, whoever has the address's lock is the only one (`Apart`), and what it found is so
(`VisitHeld`) because a sign-up needs that lock, and a deletion the row of the user it found. The
other is about the tables and their copy: a link's sessions match its state (`RowsKept`), a user has
no tombstone and an id of either table was issued (`UsersKept`), of the tables and of the backup alike, which is why a
restore keeps them. `SomebodyGoesOn` follows from the first: whoever waits for an address waits for a visit past
its lock, which waits at most for the deletion, which waits at most for a link of its address, and that
closes a cycle PostgreSQL sees.

`LimitsHold` needs `Counts`: mails sent in a window, with those that requests between `reserve()`
and the mail may still send (`Pending`, `PendingAll`), are no more than its bucket has counted (`Paid`, `PaidAll`). A
bucket that was removed counts nothing, so a window it belonged to must be one in which nobody can send any
more (`Forgettable`); and a request is of a window that is not to come (`Asked`). The network's conjunct was
stated over the sum of `mails` before; it is stated over `sent` now, so that no sum over addresses is needed.

### `ExpenseRecords_proofs`

From the inductive invariant `IInv`: `TypeCorrect`, `RecordsTellTheStory`, `FormsOverwriteNothing`.

`TabsTrue` says that a transaction's `before` is the row, and that a form's edit sets what its user touched
and the other half of a touched amount; `OneWriter` that one transaction has a row. `Stories` is
`ChangesTellTheStory` with the fact that any set of record numbers has a last one (`HasLast`), so the value
after `n` records is that of the last record which mentions the field. `StoryContinues` is the step: one
record more, computed from the row the records led to.

From `IInv /\ WalkSound`: `HistoryShowsOnce`, `HistorySpec => []ShownOnce`, for every page size, filter and number of Expenses and
with any requests between two pages. `WalkSound` says where the cursor is in the order of the *current* table: no
steady Expense that was not shown is before it (`NoneMissed`), none that was shown and kept its date is after it
(`NoneAhead`, `NoneTwice`), and the steady ones shown are in order (`NewestFirst`). It holds because a
position is a date, an instant and an id, of which only the date can change, and `placed` are those whose date did not.
A page itself is defined by ranks, `Rank(e, S)` being the number of Expenses above `e`. `RankFollowsTheOrder` and `EveryRankIsTaken` (an
injection into `1 .. Cardinality(S)` reaches all of it) show that the ranks number the matches in order, so that
a page leaves out none that is above one it shows (`PageHasTheFirst`).

### `Web_proofs`

From the inductive invariant `IInv` of `WebRequests`: `TypeCorrect`, `PreferencesSurvive`, `NothingWrittenAfterSignOut`.
`NoPreferenceLost` is not inductive: a write merges into what was read before. `ReadIsCurrent` says that
this is still what is stored, and that rests on `UserFree`: nobody writes a row others share.
`SharesValid` says that whoever shares its rows has an open session of an account that exists.

About the operators of `Periods`:

* `BucketsStayInside`, `EveryDayInOneBucket`: a chart counts every Expense of the period, once.
* `PreviousIsComparable`: the window compared with is before the current one, no longer than it, and shorter
  only when it is a whole month.

About `DashboardSpec`, the dashboard beside the refresh:

* `FirstSourceWins`: `FirstAnswerWins`. `RefreshSound` says of a refresh under way that what it has chosen for a currency
  is what the first source said that named it, and that it has chosen whatever a source named; the property is then what `Save`
  does with that.
* `PagesAreHonest`: `NothingIsSilent`. `ReadingIsHonest` says that a grouping by currency which was read names
  every currency of *one* of the tables the request may have seen (`Told`), and, as long as the page is
  read, that the previous window's grouping was read or is still among the statements to come; `ResponseIsHonest` says the
  same of the page. A commit only adds a table to `seen`, so what was told stays told. The attempt to prove it
  found the property too strong: it used to promise the rate of a
  currency that *some* table of the request had in the period, which a commit between the two groupings
  refutes, and had passed because the run commits once. What the code keeps, and what is
  stated now, is that a currency which was there throughout is named.
* `ComparisonsAreFair`: `ComparisonIsFair`. The invariant is `WindowsInOrder`: where the page is in reading its two windows
  (`NotComparing`, `PreviousToCome`, `CurrentToCome`, `WindowsRead`), and that each window which was read is the grouping
  by currency of one of the tables in `seen`. `PlanStarts` says that every plan has the two windows next to each other or has
  neither, so that skipping the current one skips nothing else. `RowsAddUp` then says that the groups of a window,
  converted and rounded one by one, come to the same as the Expenses of its table added up per currency.
* `InsightsHold`: `InsightsAreTrue`. The invariant is `InsightsSound`: every currency of the totals that counts has had its largest
  Expense read, or the statement is still to come, and so have the categories (`NothingSkipped`); what was
  read is what one of the tables gives (`TellsTheTruth`). The rest is about orders: `FirstIsLargest` and `LargestIsFound`
  find the largest of a finite set as the element with the fewest above it, `RankedInOrder` says that a ranking has every group once and in
  order, and `ConversionKeepsOrder` that converting and rounding half to even never makes the larger amount the smaller one.
* `PartsHold`: `PartsAddUp`. The invariant is `SectionsSound`: once the totals per currency are read they are those of
  one of the tables in `seen` and, if the page has a currency, each of the other three groupings is either still
  asked for, exactly once (`Due`), or was read from one of those tables (`Done`); `PlanHasSections` says that a plan starts so, and
  `LeftOverKeeps` that skipping the current window skips none of them. On an answered page nothing is left to ask, so
  every section is `Done`, though each perhaps of another table. What remains is arithmetic about one table:
  `MembersAddUp` (a grouping's rows come to what the Expenses behind them do), `RoundingsAreClose` (converting the
  rows one by one or their sum at once differs by half a unit for each), `PartsAreTrue` (parts that share out
  the rows keep within that), and what each section makes of its rows: `KeysArePartition` for categories and merchants,
  `TopAndRest` for the top merchants and "Other", `BucketsAreParts` for the chart. A bucket converts once per
  currency what several days' rows add up to, so it is compared with *coarser* rows, which are a grouping
  again (`CoarseRowsGroup`) with no more roundings than before (`CoarseRowsAreFewer`). `CeilingIsAbove` says that the
  axis of the chart is high enough: `MagnitudeIs` shows that the loop of `nice_ceiling` ends, not above the
  value and with less than ten times as much to go, which is why `Magnitude` is the loop itself and not a table of powers.

Sums over finite sets come without induction over the set. `MapThenSumSet` is defined by recursion over its subsets:
`SumsExist` and `SameSum` show that the recursion has one solution, `AnyFirst` that any element may be taken out first (the
counterexample with the fewest elements is impossible, `LeastSubset`), `Renamed` that a one-to-one renaming keeps the sum, and
`GroupsAddUp` that a sum may be taken group by group.

## What is only model-checked

The five liveness properties: `AbandonedDraftsEnd`, `EveryUpdateSettles`, `WaitingEnds`, `ReceiptsSettle`, `RequestsEndApart`.
Liveness under fairness, `ENABLED` and induction over data are out of the prover's reach here.

## What is not modelled, and why

Text, formatting, logging and page layout, which no property is about. What a text parses to is an
input of the conversation. The bot's, the mail server's and the recognizer's protocols are I/O, so the models keep that they succeed, fail or
never return. Reads that change nothing (`/recent`, listings, the link's status page) and the page that welcomes a new user. Notes of drafts and
`recognition_result_id`, which no transition reads. Time is not a number: an age that matters is a flag
that a `TimePasses`-like action sets (`dormant`, `lapsed`, `long_closed`), and what the durations are
needed for is in a guard: no handler lasts for seven days, no redelivery for a week. A `Decimal` counts as exact: 28 digits
are more than any amount times any rate needs. A statement of the dashboard is its result; PostgreSQL's
plan and numeric types are not modelled.

Migrations, configuration and start-up are wiring. Development polling delivers the same updates
without redelivery.
