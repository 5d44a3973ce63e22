# SettleGuard in TLA+

TLA+ models of SettleGuard, the TLC runs that check them on small instances,
and TLAPS proofs of what matters most for every instance. Paths such as
`webhooks/service.py` are relative to the repository's `src/`; `PROJECT.json`
gives, for each definition, the lines it models, and for each hazard the
properties about it.

Contents: [the system](#the-system), [modules](#modules-and-the-code),
[runs](#runs), [fairness](#fairness), [proofs](#proofs),
[disagreements](#where-code-and-text-disagree),
[limits](#what-is-left-out), [plan](#plan).

## The system

SettleGuard is one Flask process (gunicorn, one worker with four threads, so
request handlers are concurrent threads of one process) over one SQLite file,
with a browser dashboard, and a set of payment services written in Go, Scala
and Ruby that feed it.

```
 Ruby SDK --HTTP--> Go ledger API --export CSV--> Scala settlement
                        |                               |
                        | event webhooks                | platform_settlements.csv
                        v                               v
                    endpoints            bank CSV --> reconcile.py --> store.sync_discrepancies
                                                                          |   (SQLite)
 payment gateway --webhooks--> webhooks/service.py --(SQLite)             v
                                                               app.py triage job (thread)
 Angular dashboard  --HTTP, polls /api/summary-->  app.py <------/
 callers --HTTP--> screening/ (vendors in a shared pool, cases in SQLite)
                   indiastack/ (UPI collect, eNACH mandates; in memory)
```

### Inventory

For every component: the state it keeps, what changes it, what is hard, and
what makes it correct.

**Webhook receiver** (`webhooks/service.py`, `api.py`). State: the tables
`webhook_events` (status, error, attempts) and `payments` (status, amount,
refunded, last event time), both in SQLite. Operations: `receive`, `replay`,
`_process`, `_apply_payment_event`, `_apply_refund_event`. A gateway delivers
at least once and in any order; deliveries run concurrently; each is one
`BEGIN IMMEDIATE` transaction that may time out, raise, or be cut by a crash,
and its answer may be lost. Correct when each refund counts once and never
beyond its payment, when a payment's status is that of its furthest event
whatever their order, when nothing acknowledged is lost, and when a rejected
event leaves the payment untouched and can be retried.

**Discrepancy store, dashboard server and triage job** (`store.py`, `app.py`).
State: the `discrepancies` table (active flag, resolution, note, triaged mark)
and `_triage_state` in memory, under a lock. Operations: reconcile
(`sync_discrepancies`: a read, then a write transaction), resolve, reopen,
start of the triage job, and the job, which reads the pending rows and saves a
note or an error per row. Reconciliations of two threads overlap, the job saves
while they run, rules change between runs, and a restart ends the job. Correct
when a run leaves exactly what it saw active, when notes and resolutions outlive
runs, when a job writes nothing but notes, when `running` is never left set, and
when every flagged row is triaged, if triage is asked for often enough.

**Calls of Gemini** (`triage.py`). `run_batch` has a pool of workers ask about
each discrepancy; a call has a few tries for timeouts, busy answers and one
field a model may reject. State: the calls queued and under way, and the field
dropped. Correct when a call fails only where no try left could have helped, or
at an error that no handler expects, and when every discrepancy of a batch ends
with a finding or an error.

**Reconciliation engine** (`reconcile.py`). A pure function from two files and
thresholds to a list of discrepancies, each with an id. Correct when what is
not in order is reported, once, with deltas that account for the difference of
the two totals.

**Payments ledger** (`payments-core/ledger/ledger.go`). State: charges, a
double-entry journal and an audit record, under a mutex, in memory. Operations:
`CreateCharge`, `Refund`, and the reads. Arithmetic is int64. Correct when
refunds stay within their charge and the journal, the charges and the audit
record agree.

**Idempotent payments API** (`ledger/server.go`, `idempotency.go`, the SDK's
`client.rb`). State: entries by key, each with a fingerprint, a `done` channel
and the recorded response. Callers time out and retry while the first attempt
may still run. Correct when a key has one execution at most, when the caller is
told what happened in it, and when no duplicate waits for ever.

**Event webhooks of the ledger** (`ledger/webhooks.go`). State: endpoints,
deliveries; one goroutine per delivery, with retries and backoff. Correct when
"delivered" means accepted, a refusal ends the attempts, nothing else does
before the last, and everyone registered is tried.

**Settlement engine** (`payments-core/settlement/`). A fold of the exported
audit record into rows per merchant and day. Correct when what is
settled is what the ledger owes, although the sums of a day may wrap around.

**Settlement CSV** (`exportCSV` of `ledger/server.go`, `Csv.scala`). One program
quotes, the other unquotes by hand. Correct when the engine reads the events the
ledger wrote, and names the line of each row it cannot read.

**Screening cases** (`screening/api.py`, `cases.py`). State: cases and case
events in SQLite, with a UNIQUE idempotency key. The request asks the vendors
between its look-up and its insert; analysts decide concurrently. Correct when
a key has one case and one answer, and when the audit trail is a path of legal
decisions.

**Vendor orchestrator** (`screening/orchestrator.py`). State: a thread pool
shared by all screenings, a circuit breaker per vendor. Timeouts give a try up
but do not end it. Correct when an answer is taken for its own try, the breaker
opens and closes as its threshold says, and every screening ends.

**Name matching** (`screening/matcher.py`). Pure: Jaro-Winkler and Soundex per
word, words paired greedily. Correct when a pair of words scores the same
whichever is the query, and when only a name spelt the same is certain.

**UPI collect requests** and **eNACH mandates** (`indiastack/upi.py`,
`enach.py`, `api.py`). State: dictionaries under a lock, in a service made at
the first request; expiry is applied when a record is looked at. `approve` and
`transition`/`present_debit` look and act in two lock sections. Correct when a
key or a reference is used once, ended records stay ended, and nothing is
approved or debited past its time.

**Identifiers and statements** (`indiastack/identity.py`, `statement.py`). Pure:
the Verhoeff check digit of Aadhaar numbers, and what an account's monthly
figures are. Correct when the digit that is computed is accepted and a slip is
not, and when the figures do not depend on how the bank orders its file.

**Angular dashboard** (`web/src/app/`). State: the NgRx store; effects with
`switchMap`, `exhaustMap` and `concatMap`. Answers arrive in any order, calls
fail, polls race with the job. Correct when buttons are disabled exactly while
their request is under way, polling covers the job and stops with it, and the
row shown is the one the user last set.

**Others**: webhook signatures (Python and Ruby), the legacy dashboard, scripts
and packaging: a pure check, input and output, or tooling; see
[limits](#what-is-left-out).

## Modules and the code

| module | models | state and actions |
|---|---|---|
| `RefundBook` | the promise of the webhook receiver | `paid`, `refunded`, `applied`; `Open`, `Refund` |
| `WebhookReceiver` | `webhooks/service.py` | `log` and `payments` are the tables, `tx` the uncommitted rows of a thread, `lock` the SQLite write lock. `Deliver`/`Replay` enter, `Begin` is `BEGIN IMMEDIATE` with the insert or the re-read, the three `Apply…` are the outcomes of `_apply` (done, `ApplyError`, any other exception), `Commit` and `Reply` end. `Crash`, `LoseReply` and `BusyTimeout` are the faults. |
| `DiscrepancyStore` | the statements of `store.py` | operators on the table: upsert and deactivate of a sync, save, resolve, reopen |
| `SettleGuardApp` | `store.py` with `app.py` | `Request(w)` steps a handler thread (reconcile, read, write, start of the job; or a triage request); `JobStep(j)` steps a job (read the pending rows, set running, get a note, save, clear); `EditRules` changes what a run would find; `Crash` restarts the process |
| `GeminiCalls` | `triage.py` | `at` and `heard` of each call; `SubmitAll`, `Work`, `Collect` are `run_batch` and its pool, the other actions a post and its answer |
| `Ledger` | `ledger.go` | `charges`, `journal`, `events`; one action per mutating method, with int64 wrap-around in `Wrap` |
| `IdempotentCalls` | the promise of idempotency keys | owner of a key, outcome, effects, what callers were told |
| `LedgerService` | `server.go`, `idempotency.go`, `client.rb`, with `Ledger` | callers (`Start`, `Carry`, `LoseResponse`) and handlers (`Serve`: begin, run, wait, record, answer) |
| `UpiCollect` | `upi.py` and `_svc` of `api.py` | one action per lock section; `Tick` is the clock |
| `EnachMandate` | `enach.py` | the same; a look (`GetMandate`, `AskTransition`, `AskDebit`) and an act (`Move`, `Present`) |
| `ScreeningCases` | `api.py` and `cases.py` of screening | one action per SQL statement or transaction that others can come between |
| `VendorOrchestrator` | `orchestrator.py` | calls, breakers, the queue and the workers of the pool |
| `Verhoeff` | `identity.py` | two scans of the same digits at once, as issued and as typed; a step reads a place, with or without the slip |
| `Statement` | `statement.py` | an account books rows, the bank lists them in an order of its own; `parse_csv` and `analyze` are operators on the two |
| `NameMatcher` | `matcher.py` | two names are spelt a letter at a time; the scores are operators on them, as exact fractions |
| `WebhookDispatch` | `webhooks.go` | `Register`, `Dispatch`, `Launch` (the loop), `Deliver(i)` (one step of a goroutine) |
| `Settlement` | `Engine.scala`, with `Ledger` | the ledger's actions with a day for each event; the fold as operators, in arithmetic that wraps |
| `EventsCsv` | `Csv.scala` and `exportCSV` | the ledger writes rows, something may spoil one; the reader is an operator on the file |
| `Reconciliation` | `reconcile.py` | the two files grow by a row per step; the rules are operators on them |
| `WebClient` | `effects.ts`, `reducer.ts`, `settleguard-api.ts` | the store, the requests under way of each effect, and the row and job in the server; `stale` and `doubt` remember what `RowIsTrue` needs of the past |
| `Sums` | `sum()` and the loops that add up | the sum of numbers over a finite set, which the modules above and the proofs share |

`MC…` modules extend these with symmetry sets, small inputs and a few bounds.
Four of them put components side by side in one run. Each behaviour exercises
one of the components (`used`, `part`) while the others stay as they began, so a
run checks all of them without their product. That loses nothing, because they
share nothing that changes:

| module | side by side | because |
|---|---|---|
| `MCIndiaStack` | UPI, eNACH, check digits, statements | the services share the threads and the clock; the rest is pure |
| `MCScreening` | cases, vendors, names | a screening asks the vendors, and they the matcher, between two statements of the case store |
| `MCSettlement` | sums, files | a row's one free text is its currency, of which the sums read nothing |
| `MCCallers` | dashboard, the ledger's webhooks, calls of Gemini | three callers of others over HTTP in three processes or pools |

Definitions marked `mutant` in a comment are plausible mistakes in the code; no
specification uses them. Each stands beside the definition it would replace,
and putting it in that place makes a named run fail (`PROJECT.json`, `mutants`),
which shows that the run's property is sensitive to that code.

Compositions: `SettleGuardApp` composes store, handlers and job;
`LedgerService` composes callers, API, key table and ledger; `Settlement`
composes the ledger with the engine that reads its export; `WebClient` composes
the effects with the handlers and the job they call. Refinements:
`WebhookReceiver` implements `RefundBook`; `LedgerService` implements
`IdempotentCalls`.

Three conventions. *Atomicity*: a step ends where another thread, process or
message can come between: at the end of a lock section, of a SQL statement
outside a transaction (Python's `sqlite3` opens a transaction at the first
write, not at the first SELECT), of a network call. *Data*: amounts are small
integers, texts and payloads are model values; what a conversion decides is
kept, as with an amount `int()` cannot read (`garbled`). *Time*: a clock appears
where code compares against one (`now` with `TTL`, `Valid`, `Notice`);
elsewhere a timeout is an action that may happen.

## Runs

A run's configuration has its name. Bounds are in the configuration and named
in the module (`MaxFaults`, `AttemptCap`, `MaxEvents`, `MaxCrashes`,
`MaxFailures`, `MaxRetries`, `MaxTime`, `MaxCases`, `MaxClicks`, `MaxRows`,
`MaxLetters`, `Signs`, `MaxSigns`, `MaxLines`, `Dates`, `ThreeAtWork`).
`MaxTries`, `MaxAttempts` and `MaxWorkers` are parameters of the code. Deadlock is
checked unless histories, files, clicks or endpoints are bounded and the system
stops there with nothing left to do.

| run | instance | shows |
|---|---|---|
| `Webhook` | 2 threads; 6 events of 1 payment: authorise, capture, part and full refund, a refund that cannot be read, an event that is not handled; 2 faults | in every order and repetition, with crashes, lost answers and lock timeouts: refunds counted once and within the payment, status is the join of the processed events, nothing acknowledged is lost, `RefundBook` is implemented |
| `WebhookRetry` | 4 events, one of them a failed payment; 1 fault; fair | with at-least-once delivery every applicable event is processed in the end |
| `App` | 2 ids, 2 versions, 3 reports, two of which list an id twice; 2 threads that reconcile or ask for triage, 2 jobs, 1 crash, 1 failure; at most 3 of the threads and jobs at work at once | a run leaves active what it saw, and is inexact, or fails, only as a change under it or an id listed twice explains; notes and resolutions survive, and a job writes nothing else; `running` always has a job that will clear it |
| `AppDaily` | 2 ids, 1 version, 3 reports, one of which lists an id twice; 1 thread that reconciles or asks for triage, 2 jobs, 1 failure, empty replies; fair | if triage is asked for again and again, every flagged row gets a note in the end or is gone, also one that failed before, got an empty answer, was flagged while a job with an older list ran, or waits while reconciliations fail |
| `LedgerApi` | 2 callers, 2 keys, 1 retry, 5 requests (charges and refunds that fit or not) | one execution per key (by `IdempotentCalls`), the truth told, no duplicate waits for nobody; `IdempotentCalls` is implemented |
| `Settlement` | 3 charges, 2 merchants, 2 days, 5 operations, sums of a day that wrap; files of 2 rows with a currency of up to 3 of a word, a comma and a quote | refunds within charges; journal and charges agree; payout, reserve and fees of a merchant are what the ledger owes, modulo the width; the engine reads what the ledger wrote |
| `IndiaStack` | 2 threads; 2 collect requests, 1 key, expiry after 1 tick of 2; 1 mandate, 2 references; numbers of 12 digits with one slip; 3 rows of a statement over 3 months | ended stays ended, one request per key and service, only an approval that looked in time goes through; a reference is debited once; closed mandates are never debited or revived; the check digit is accepted and a slip is not; the figures are the account's |
| `Screening` | 2 threads, 1 key, the empty key and none, 2 cases, 2 decisions, restarts; 3 screenings of 1 vendor, 2 workers, 2 tries, threshold 2, fair; names of up to 4 letters in words of any lengths, 2 different letters | one case per key; the audit trail is a legal path to the status; an answer is for its own try; the breaker is open exactly from the threshold's failure to the next success; every screening ends, with a vendor that may never answer; only equal names are certain, and words score the same both ways |
| `Callers` | 3 clicks, lost answers, failures; 2 endpoints, 1 event, 2 attempts; 2 calls of 4 tries with 1 worker; fair | buttons disabled exactly while a request is under way; a row with nothing under way is the server's, or the reason it is not is known; deliveries end as they were answered; calls of Gemini fail only when hopeless or at an error no handler expects; polling stops, everyone is tried, the batch ends |
| `Reconcile` | 2 transactions, up to 2 rows a file, amounts and hours on both sides of every threshold | what is not in order is reported, once; deltas explain the gap |
| `AppLostRow`, `LedgerWrap` | | violations: see [below](#where-code-and-text-disagree) |

Why these bounds: what can go wrong is between two actors, so two threads,
callers, jobs or endpoints are the least that shows it; three screenings,
because the breaker's threshold of two must be passed by a third. A fault, a
retry or a restart is one of each kind, and two where the second meets the
recovery from the first (`Webhook`). `AttemptCap` is 1 because nothing reads the
attempt counter. A thread of `App` that finds every job thread in use waits:
two jobs are the bound on how many can overlap. The three reports of `AppDaily`
are one row alone, both, and both with the second listed twice: then
reconciliations fail as long as the second is not in the table, while the first
may wait for triage. Details have one version there, since what waits depends on
whether a row has a note and not on its text; a crash, in `App` only, leaves no
more than idle threads and rows without a note, as a failing job does. Four tries of `Callers` let
every order of a timeout, a busy answer, a rejected field and one more meet the
last try; one worker for two calls makes one wait for the other. Clocks run past
the expiry by a tick, so early, due and late all happen. Int64 is a width of 4
bits (`Half = 8`) in `LedgerApi` and `LedgerWrap`, and of 5 (`Half = 16`) in
`Settlement`, where three charges of 6 wrap around and no single fee does. Names
of up to four letters, in words of any lengths, over two letters of one Soundex
digit reach windows, transpositions, prefixes, words that only sound alike, and
words left over. Numbers have the twelve digits of the code. Three
rows over three months let a file mix months and repeat dates. The properties
proved below hold at any size.

The type invariants are proved (below). All hold in the same instances; add one as
an INVARIANT to the run of its module when the module changes.

## Fairness

Only what the code's own scheduling, or the other party's documented behaviour,
justifies:

- *Threads, goroutines, workers and effects go on*: weak fairness of their
  steps. `SettleGuardApp` (`FairSpec`: threads and jobs; none of `Crash`,
  `EditRules`, a new request or a person's clicks), `VendorOrchestrator` (workers, calls
  with their timeouts, and answers of vendors that are healthy; another vendor
  need not answer), `WebhookDispatch` (`DispatchFairness`; HTTP calls have a
  timeout), `GeminiCalls` (`CallsFairness`; likewise), `WebClient` (handlers,
  answers, timer, job).
- *Gemini's replies are not empty for ever*: strong fairness, per row, of a reply
  with a root cause (`FairSpec`). An empty one is saved like any other, and the
  row is pending again (`store.py:136`).
- *Triage is asked for again and again* is no fairness but the condition of
  `FlaggedGetsTriaged` (`AskedAgain`). Nothing in the code looks for rows a job has
  missed, so somebody has to ask: by `POST /api/triage`, or by a reconciliation
  that commits. One that fails at its table answers 500 before it starts triage,
  so reconciling again and again is not enough while the data list a new id
  twice (below).
- *A lock is obtained in the end*: strong fairness of entering the transaction
  in `WebhookReceiver`, where others may take the lock in between. SQLite's
  busy handler gives no queue, but a thread that times out answers 500 and the
  gateway comes back.
- *The gateway redelivers until it hears a 2xx*: strong fairness per event, the
  contract of `docs/INTEGRATION_GUIDE.md`.
- *Polls fail for a while only, and now and then one is answered before the next
  tick* (strong fairness of `PollHears`): `PromptPolls` of `WebClient`, part of
  `CallersSpec`. `SlowSpec` drops the second half, and polling need not stop.

Liveness is checked in `WebhookRetry` (`EventuallyProcessed`), `AppDaily`
(`FlaggedGetsTriaged`), `Screening` (`ScreensEnd`; the fairness there is of the
vendors' part) and `Callers` (`PollStops`, `EveryoneIsTried`, `BatchEnds`). That a
duplicate never waits for ever is reduced to a safety property,
`WaitersHaveRunner`: whoever waits, waits for a handler that is at work, and no
handler at work waits for anybody. Likewise `RunningHasJob`: a job at work ends
by clearing `running`.

Faults are bounded or eventually cease; none of them is ever required to happen.

## Proofs

Every theorem is for any value of the constants that its module's assumptions
allow: any number of events, threads, callers, keys, charges and rows, with any
interleaving and any number of faults. The assumptions are named and stand in
the modules that declare the constants (`…Assumption`; `SettleGuardApp` has
`StoreAssumption` from its store). They are the types of the constants,
placeholders that are not among the values they stand in for, bounds and limits
that are numbers, and the laws of the Verhoeff tables; TLC evaluates each in a
run. What else a theorem needs is in its statement: that a set is finite
(the theorems on how many steps something takes), `SumsFit`, that the sum of
two amounts fits the integers (`RefundsStayInRange`, `RefundsNeverExceed` and
their two counterparts of the service; `LedgerWrap` shows it is needed),
`PositiveRefunds` (`PaymentsMoveForward`), `OneReconciler` (`SyncIsExact`;
`AppLostRow` shows it is needed) and no end of line in a currency
(`WrittenIsRead`; needed too, as a row of the table below says). Each module's argument:

**`WebhookReceiverProofs`.** `TypeCorrect`; `PaymentsStayConsistent`;
`NothingAckedIsLost`; `FinalStays`; `PaymentsMoveForward`, if refunds are
positive; `RefundBookImplemented`. `PaymentsConsistent` alone is not inductive:
a commit publishes what the transaction staged. The inductive invariant `IInv`
adds that only the holder of the lock is in a transaction and that what it
staged is the committed state plus its own event (`TransactionsIsolated`), that
an answer about to be given is true of the log (`AnswersHonest`), and that an
acknowledged event is in the log (`AckedIsDurable`). The refinement maps `paid`
to a stored payment's amount, `refunded` to its refunded total and `applied` to
the refund events processed; each step but `Commit` is a stutter.
`RefundsAreAccounted` and `StatusesAreJoins` rest on `BooksInv`: the events
processed are finitely many, of the handled types (`LogInStep`), and the status
of a payment is the furthest of its moves, or what its refunds come to
(`StatusesFit`, which says so without choosing an event). A commit adds one
event to the processed ones of its payment, or none (`CommitEffects`), so a sum
over them gains one number and a maximum one candidate. `ServerIsNeverStuck`: the
lock belongs to a thread in its transaction or to nobody, so some thread can go
on while any request is unanswered.

**`SettleGuardProofs`**, the store and the job: `TypeCorrect`, `NotesOutliveRuns`,
`SyncsSettle` and `RunningIsOwned` for any number of reconcilers and jobs: a run
leaves what it saw active, a run that finds the table as it read it leaves
exactly its report active, and only a change under it, or a new id listed twice,
makes it fail. A job's save changes at most the note of its row (`SavedByTheJob`,
`TriagedExact`). `SyncIsExact` drops the condition for one reconciler. It rests on
`ReadIsFresh`: the rows a reconciliation read are still those of the table when
it writes, whatever jobs and people do meanwhile. With two reconcilers it fails,
as `AppLostRow` shows. `JobIsBounded`: each step of a job lowers `Left`, two for
each row on its list and one to three more, and nobody else raises it. And the
engine: `FilesTypeCorrect`; `ReportedUnlessAllAgree`, for files of any length;
`TheGapIsExplained`. The
invariant there only says that the files are finite sequences of rows. What the
rules make of them is shown by cases: each rule on its own covers what it should,
and the totals of both files are split by transaction (`SumByParts`), where a
transaction's share of the gap is its reported delta, or below the tolerance.

**`LedgerProofs`.** `LedgerTypeCorrect`; `RefundsStayInRange`: a charge's refunds
stay between nothing and its amount, if `SumsFit`; `HistoryIsSound`, by way of the
invariant that each recorded charge has its event; `RefundsNeverExceed`: the
refunds of the audit record are what the charge says was refunded.
`BooksAlwaysAgree` needs no `SumsFit`, although a charge's refunded amount may
then wrap around: the invariant `LedgerBooks` says that journal and charges are
congruent modulo the width of the integers (`BooksCongruent`), which addition
keeps, and equal once both are wrapped. Finiteness of the charges and the
legs' transactions (`LegsInStep`) let one operation change one summand.
`SettlementTypeCorrect` and `SettlementMatchesLedger` are about the engine's fold
of the exported rows. A fold is determined by its rows, and a row more only adds
a step at its end (`FoldsAgree`, `SettleAppends`); so exporting one row more
moves the net of one merchant by that row's amount, as the journal does
(`SettledAsBooked`). `payout`, `reserve` and `fees` of a line add up to its net
again, whatever wraps (`GoesWhole`).

The file between the two: `FileTypeCorrect`; `FieldsReadBack`: `splitLine` of the
text of any list of fields is that list; `WrittenIsRead`. A text is its fields'
texts end to end, and every place in it belongs to one of them, so the reader's
fold can be followed one field at a time: at the end of a field's text, quoted or
not, it is outside quotes with the field's value in hand, and a comma puts it
with those before. A doubled quote is the one place where it looks ahead, and
the sign after a quote that closes is a comma or the end. With no end of line in
a currency a record is one line, so the row an event was written as is the line
it is read from; the header and the spoilt rows are told apart by what they
were written from.

**`LedgerServiceProofs`.** `ServiceTypeCorrect`; `OneRunnerPerKey`; `NobodyWaitsInVain`,
by way of `OwnedHasRunner` (a key that is claimed and has no response has a
handler at work); `ServiceUsesLedger` (the service is a ledger: the ledger's
theorems apply to it), from it `ServiceRefundsStayInRange`,
`ServiceRefundsNeverExceed` and `ServiceBooksAgree`; `IdempotentCallsImplemented`.
The inductive invariant relates three views of one call, the caller's
(`CallsInStep`), the handler's (`HandlersInStep`) and the key table's
(`KeysInStep`), with `OneRunner`. The refinement maps `owner` to the fingerprint
stored with the key, `outcome` to its recorded response, or to that of the
handler that has run and not recorded it yet, and `effects` to the charges and
refunds the ledger has recorded; the step that executes the request is the one
that is not a stutter. `CallsAreToldTheTruth` follows an answer back to the
ledger: `TruthInv` says what is true of it in the handler that has it, in the
key table and in the caller's hands, and that an event between the ledger's lock
and the webhooks belongs to one handler, which is why it is dispatched once.

**`IndiaStackProofs`**, the two services: `CollectTypeCorrect`, `KeysAreUsedOnce`,
`EndedStaysEnded`, `LateApprovalsAreRefused`; `MandateTypeCorrect`,
`RefsArePresentedOnce`, `ClosedMandatesStayClosed`. Between its two lock sections
a thread acts on what it saw, so `CollectInv` says what that still tells: the
thread has a service and a record (`ThreadsInStep`), and a record still pending
was looked at in time (`LookedInTime`). `KeysLeadHome` says that a key leads to
the one record made with it, which is why a second request of that service
finds it. For the action properties, every step is reduced to the few things it
can do to one record (`RecordMoves`, `MandateMoves`), and an ended one admits
none.

The check digits: `IdTypeCorrect`; `CheckDigitIsUnique`: the digit
`verhoeff_check_digit` computes is the one, and the only one, `verhoeff_valid`
accepts; `SlipsCaught`: one wrong digit, or two neighbours swapped, is rejected,
whatever the number's length and the place; from both, `CheckDigitsDoTheirJobs`.
The three tables are constants, of which the proofs use laws and no entry:
`_D` has a unit, is associative and can be cancelled, `_INV` inverts it, the
rows of `_P` are permutations, and no swap of two digits goes unnoticed;
`IndiaStack` gives the constants the tables of the code, and TLC evaluates the
laws on them. The code's fold over a string is two scans side by side, a place
per step, so that induction over the digits is the induction of an invariant:
`SumFollows` (the sum of the right scan determines the digit that completes it)
and `ScansPart` (once the slip is read, the two sums differ for good).

The statements: `StatementTypeCorrect`, `SortRestoresTheAccount`,
`FiguresFollowTheAccount`, for accounts of any length. `StatementInv` says that
dates were booked in order, that each balance is what the rows up to it leave
(`BalancesAddUp`), and that the file is a listing of the account: a bijection of
places which keeps the order of the rows of one date (`Lists`). From the last,
the row with k rows at or before it in the stable order is the k-th booked, by
counting (`SortRestores`), so every figure is the account's. The rows of the months up
to m are those up to the last row of m (`LastOfMonth`), and a sum over them is
the sum of the months' sums (`SumByParts`), which gives the closing balance.

**`ScreeningProofs`.** `CasesTypeCorrect`, `CasesAreFiledOnce`, `TrailsAreLegal`:
an analyst's request checks a status that may be old when it updates; the
invariant says its decision is legal for the status it saw (`ChoicesAreLegal`),
and the update's own condition that the status is still that one.
`VendorsTypeCorrect`, `BreakersTellFailures`, `WaitedForIsUnderWay`: `VendorInv`
adds that no task is in the pool twice (`PoolHoldsOnce`) and none is ahead of its
call (`NoTryAhead`), so the try a call submits is new to the pool, and an answer
for an older try is not its own. `ScreeningIsBounded`: every step takes from
`VendorsLeft`, which counts six for each try a call may still make, two for each
task in the queue and one for each a worker has, and one for each breaker that
may cool down; a failure that opens a breaker pays for the cool-down, so calls
cannot go on for ever by opening it again. `ScreeningIsNeverStuck`: while a call
is not done, some call or the pool can go on.

The scores of names: `NamesTypeCorrect`, `NoMatterWhichIsWalked`,
`CertainOfTheSame`, for names of any length over any letters. The greedy matching
of two words' letters is stable: a letter that could have been matched and was
not has lost its place to an earlier one (`MatchedIsStable`, by the walk's own
steps). Only one set of pairs is stable (`OneStable`, by the least pair two of
them differ in), and the definition takes no side, so that the set found from the
other word is the same one turned round (`MatchedBothWays`). A score is a
fraction in lowest terms, so equal shares are equal scores: Euclid's algorithm
ends and its result divides both numbers (`GcdExists`, `GcdDivides`), hence `Frac`
keeps the value (`FracIs`). Halving the misplaced letters could lose one, and two
different words score 1; but one letter cannot be misplaced alone, by counting
(`NoOneMisplaced`). From there every operator's value is a share of 1, and 1 only
of equal words (`JaroIsShare`, `WinklerIsShare`): after i words of the shorter
name the total is at most i, and is i only if each has its equal (`Paired`, kept
by `PairKeeps`); while words are left of the shorter name one is free of the
longer one (`StillFree`), so of names with the same words none goes without.

**`CallersProofs`.** `CallsTypeCorrect`, `CallsFailOnlyIfHopeless`: until a
reply no retry changes or an error no handler expects, a call without a finding
has heard busy replies only, but for one about the field at most (`BusyButOne`).
`BatchIsBounded`, `BatchIsNeverStuck`: a post takes a try, so what a call has
left falls with each step; when no call posts every worker is free.
`DispatchTypeCorrect`, `DeliveriesEndAsAnswered`: `InStep` ties each goroutine
to its delivery and to what the endpoint has received. `DispatchIsBounded`: an
event whose loop has endpoints to come to keeps the steps of the goroutines
these will have; `AtRestEveryoneIsTried`: the loop walks the list as it was
copied, and who is on the copy is still to come or has a delivery
(`NobodyForgotten`). `ClientTypeCorrect`, `ButtonsTellRequests`, `RowsAreTrue`:
`RowIsTrue` speaks of the store when nothing is under way; the invariant says
what is so before that. Unless in doubt one call is under way at most, the row
shows what it asks for, and the server has the old or the new value as the
call's stage says (`InStepUnlessInDoubt`); a load that met no call has the
server's row (`LoadIsFresh`).

**`SumsProofs`** has what the others use about `SumOver` (of `Sums`), the sum of
numbers over a finite set: a member more adds its number, equal numbers give
equal sums, a sum of differences, of zeros, by parts. The induction theorems of
the library cannot be instantiated by the provers, so each lemma takes a smallest
counterexample among the subsets of the set, which exists because strict
inclusion is well-founded on them (`SmallestSubset`), and removes a member.
`LeastNumber` does for numbers what that does for sets.

**Only model-checked.** Six properties, all liveness, whose last inference from
fairness is out of the prover's reach: `EventuallyProcessed`,
`FlaggedGetsTriaged`, `ScreensEnd`, `PollStops`, `EveryoneIsTried`, `BatchEnds`.
The rest of the runs' properties are proved. For `ScreensEnd`, `EveryoneIsTried`
and `BatchEnds` what the inference starts from is proved as well: every step
lowers a number, and until the end something can go on, or, for `EveryoneIsTried`,
once nothing is left to do everyone has been tried. What remains is that fairness
makes the steps that can be taken happen. A triage job is bounded too, and the
receiver is never stuck; but `FlaggedGetsTriaged` and `EventuallyProcessed` also
need new jobs and redeliveries, and polls may go on for ever: no number bounds
those.

## Where code and text disagree

Each row is a property taken from a sentence of a doc, a comment or a test that
the code does not keep. The first two have a run that expects the violation. The
others are stated at the end of their modules; TLC shows the counterexample when
the property is added to the run named, with the change in brackets.

| property | run | the text | what the code does |
|---|---|---|---|
| `SyncExact` | `AppLostRow` | "deactivate anything not seen this run" (`store.py:67`) | `store.py:74` reads before the write transaction: a row inserted in between stays active |
| `RefundsBounded` | `LedgerWrap` | refunds "can never together exceed the original amount" (`ledger.go:119`) | the check's sum at `ledger.go:131` wraps near the largest int64 |
| `FailuresAreLogged` | `Webhook` | "the raw body is kept so you can replay it" (`docs/INTEGRATION_GUIDE.md:48`) | an amount `int()` rejects (`webhooks/service.py:170`) rolls the event row back |
| `AtMostOneJob` | `App` | "unless one is already running" (`app.py:64`) | `running` is set by the job's thread (`app.py:46`), after the check |
| `EveryFlaggedIsTriaged` | `AppDaily` | a note "for every flagged discrepancy" (`README.md:20`) | a row flagged while a job runs is in no job's list (`app.py:66`), one that failed has had its turn; each waits until triage is asked for again, which a reconciliation that fails (`store.py:92`) does not do (`app.py:124`) |
| `RetriedWithoutField` | `Callers` | "drop that field and retry once" (`triage.py:54`) | a field rejected at the last try is not retried (`triage.py:79`) |
| `OneCollectPerKey` | `IndiaStack` | "`Idempotency-Key` replay" (`README.md:103`) | two first requests each make a service (`indiastack/api.py:26`) |
| `ApprovedInTime` | `IndiaStack` | "a 10-minute expiry" (`README.md:103`) | `approve` looks, and moves without looking at the clock again (`indiastack/upi.py:86`) |
| `DebitedInTime` | `IndiaStack` | past its validity a debit is refused (`tests/test_indiastack.py:149`) | likewise (`indiastack/enach.py:53`), and `INITIATED` mandates do not expire |
| `AnswersMatchCase` | `Screening` | replays "return the stored result" (`README.md:87`) | the loser of the insert answers its own score (`screening/api.py:52`) |
| `VendorsOncePerKey` | `Screening` | "without calling vendors again" (`README.md:87`) | a low result is stored nowhere (`screening/api.py:51`) |
| `OwnCase` | `Screening` [two subjects] | a risky result opens a case (`README.md:87`) | an empty key is no key to the look-up and one to the UNIQUE column (`screening/cases.py:74`) |
| `OneTrial` | `Screening` | "one trial call is allowed" (`screening/orchestrator.py:6`) | `allow` lets everyone in after the cool-down (`orchestrator.py:34`) |
| `HealthyInTime` | `Screening` [two vendors, one healthy; one worker; two screenings] | "one slow vendor cannot stall the whole check" (`orchestrator.py:4`) | tries given up keep the shared workers (`orchestrator.py:95`) |
| `GrossIsExact` | `Settlement` | "an overflow throws instead of wrapping" (`payments-core/README.md:14`) | the gross is added with wrapping `+` (`Engine.scala:18`) |
| `ReadAsWritten` | `Settlement` [`"end of line"` in `Signs`] | "single-line records only, which is all the ledger emits" (`Csv.scala:7`) | the ledger takes any text as a currency (`ledger.go:96`), and quotes a line break without removing it |
| `WordOrderIsFree` | `Screening` | "word order does not matter" (`matcher.py:6`) | words are paired greedily in the order of the shorter name (`matcher.py:89`), so the order of the query can change its score |
| `SilenceMeansAgreement` | `Reconcile` | amount mismatches are detected (`README.md:14`) | two settlements of one transaction both agree with one credit (`reconcile.py:160`) |
| `PollsUntilJobStops` | `Callers` | "poll the summary until the background job stops" (`effects.ts:62`) | the first poll may come before `running` is set |
| `PollStops` | `Callers` [`SlowSpec`] | polling "stops when it finishes" (`README.md:67`) | `switchMap` gives up the poll before at every tick (`effects.ts:77`) |
| `LastClickWins` | `Callers` | "`concatMap` to keep resolve/reopen ordered" (`README.md:67`) | each has a queue of its own (`effects.ts:107`) |
| `StaysAsClicked` | `Callers` | the row changes at once and rolls back if the call fails (`README.md:68`) | answers replace the row in the order they arrive (`reducer.ts:59`) |

A doubled bank credit without a platform row gives two reports with one id
(`reconcile.py:134`), and `sync_discrepancies` then fails on its primary key
(`store.py:92`) with the whole list unsaved: `SyncSettles` names that cause. No
triage is started then, and rows flagged before wait on: `FlaggedGetsTriaged` has
the condition that triage is asked for.

## What is left out

- *Webhook receiver*: signature and header checks, which come before any state.
  An event's body is the same in every delivery.
- *Store and app*: triage is taken to be available. `store.py`'s lock timeouts
  are not modelled (those of `webhooks/` and `screening/` are). Of
  `_triage_state` the counts of rows done, in all and in error are left out: they
  are only displayed. A job saves its note whether or not the row's details have
  changed since it read them, and the row is not asked about again; that is how
  the code is, no text promises otherwise, and no property speaks of it. In
  `SettleGuardApp` a `generate` call is one step that gives a note, an empty one,
  or an error; `GeminiCalls` has what happens within it, without the prompt, the
  cleaning of the reply's text, and how long it sleeps. An exception that
  `triage.py:66` to `97` does not catch, as of a connection dropped while the reply
  is read, or of a reply that is not JSON, ends a call without another try
  (`broken`): `FailsOnlyIfHopeless` counts it among its reasons.
- *Reconciliation*: amounts and hours are integers of one unit; floating-point
  rounding is not modelled. Texts, the severity hint, sorting and parsing are left
  out, and so is a settlement ahead of its time, which the code does not report.
- *Ledger*: it lives in memory, so a crash loses everything and there is nothing
  to recover. Currency is modelled only in `EventsCsv`, as a text. The response
  of a request is sent after its key is released, as `net/http` flushes when the
  handler returns.
- *Settlement*: the report and the command line; `toPlatformCsv` drops lines
  without a positive payout, about which no text says anything. Of a row's
  fields `EventsCsv` has the one that is free text; the others cannot hold a
  separator or a quote.
- *Names*: the alphabet is that of normalised names: `normalise` and aliases are
  left out, and so are rounding, sorting and the cut-off of `screen`.
- *Identifiers*: the formats of PAN, IFSC and VPA, one regular expression each.
- *Statements*: averages (sums divided by the number of months) and the patterns
  of narrations. A bank is taken to list the rows of one date as they were
  booked: with a file that lists the newest first, and several rows on the last
  day of a month, the stable sort of `statement.py:27` would close the month
  with the wrong row's balance.
- *Orchestrator*: a timeout is possible only while the try's own vendor is slow or
  slow tries hold the workers; a cool-down may end at any moment. Exceptions
  other than `VendorError` and `VendorRejected` are not modelled. The making of
  the orchestrator has the race of `_svc`, which `UpiCollect` models.
- *Dashboard*: `RowIsTrue` vouches for no row whose resolve and reopen were under
  way together, until a load: `LastClickWins` and `StaysAsClicked` (above) are about
  those. One row; messages, filters, selectors and the loading flag only
  display state. One triage job (two are in `App`).
- *Not modelled*: signature checks (one comparison of an HMAC and of a time), the
  legacy dashboard, seeds, scripts, packaging.

## Plan

Done, in this order: webhook receiver with its promise and proofs; store, app and
triage job with proofs; ledger, then its API with the promise of idempotency
keys and proofs; then, model-checked, UPI and eNACH, screening cases and the
orchestrator, the ledger's webhooks, settlement, reconciliation, and the
dashboard; then the calls of Gemini, the check digits with proofs, statements,
name matching, the CSV between ledger and settlement, wrapping sums in
`Settlement`, the roll-back of the dashboard's row, and triage in the long run;
then proofs of the safety properties of all of these, with the lemmas about sums
they share, and of what liveness rests on where steps are bounded.

Next, more of the system:

1. `Screening`: the screening request over the orchestrator and the cases, with
   the get-or-make of the orchestrator, so that what a retry sees while the first
   request waits for vendors is one model.
2. The process's crash in `VendorOrchestrator` and `WebhookDispatch`: deliveries
   and tries are in memory.
3. `toPlatformCsv` composed with `Reconciliation`: what the ledger owes, as the
   platform's side of the comparison with the bank.
4. The severity hint of `reconcile.py` against its thresholds.
