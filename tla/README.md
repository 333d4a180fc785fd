# Verification of mac-ocr

mac-ocr is an OCR service: a Go proxy (`src/proxy`) accepts documents over REST
and MCP, keeps them in PostgreSQL, their bytes in S3-compatible storage and
their results in Redis; Mac workers (`src/native`, Swift) connect outbound over
a WebSocket, run Apple's Vision engine, and report with HTTP callbacks. A React
console (`src/proxy/admin-ui`) administers accounts, API keys and workers, a
Node launcher (`src/local-dev`) starts the services a developer needs, and a
chat bot (`src/omniscan`) is a client of the service.

This directory holds TLA+ modules for the parts where interleavings, failures
and crashes decide whether the system is right, TLC configurations that check
them on small instances, and TLAPS proofs for instances of every size.
Paths of the source are relative to `src/proxy/internal` unless they say more.

## Inventory

| Component | State | Operations | Interacts with | Hard parts | What makes it correct |
|---|---|---|---|---|---|
| Document store, `repository/postgres/document.go`, `workers.go` (routes) | `documents` rows (status, attempt, count, lease, terminal event), `doc_used`, `native_worker_routes` | create with quota, three claims, requeue, release, finalize, list exhausted, assign | every other component; each operation is one statement or transaction | stale attempt ids, lease expiry, refunds | a lost attempt changes nothing; a settled row is final; the counter matches the rows; the retry budget holds |
| Scheduler, `scheduler/scheduler.go` | one goroutine's locals (claimed snapshot, exhausted list) | poll, fail exhausted, claim for text, claim for worker, presign, dispatch, release or requeue | store, hub, object storage, extractor | decisions on values read earlier, crash anywhere, lost acknowledgements | no document runs twice under a live lease; every document settles |
| PDF text extraction, `processPDFText`, `pdfinspector` | one goroutine per extraction | extract, store, finalize, cache, fail, release for OCR | store, object storage, Redis | races with the scheduler and lease expiry | text mode never reaches OCR; auto mode reaches it when text is missing |
| Callback handler, `rest/webhook.go` | a request's locals | receive, store result, finalize, undo, cache, acknowledge; scan upload | store, object storage, Redis, hub | late, duplicate and concurrent callbacks, partial failure | an acknowledged event is settled and readable; outcome and report agree |
| Worker hub, `native/workers.go`, `repository/postgres/workers.go` | sessions, reservations, pending acknowledgements, stored intent | connect, admit, control, reserve, dispatch, disconnect | scheduler, callback handler, workers, store | reconnection against control, restart | a revoked or paused Mac gets no work |
| Native worker, `src/native`: `Server.swift`, `OutboundConnector.swift`, `WorkerController.swift`, `ResourceCapacity.swift` | slots, operator limit, adaptive limit, connection | acquire, release, pause, resume, process, deliver, reconnect | hub, callback handler | retries, lost acknowledgements, an intent kept on both sides | one engine run per accepted attempt; the Mac comes back after a break |
| Storage quota and retention, `repository/postgres/config.go`, `document.go`, `retention/worker.go`, `rest/upload.go`, `usecase/document` | used and reserved bytes, `upload_reservations`, input objects | reserve, release, put, submit, expire, sweep, reconcile at startup | store, object storage | check-then-delete, a commit whose answer is lost, failing deletions | counters are the bytes of the rows; the quota holds; no live input is deleted |
| Console: session, `App` and `Login` of `main.tsx`, `rest/auth_session.go` | React state of every tab, shared cookies, Redis sessions | login, logout, `/me`, navigation, redirect, 401 handling | every page, the proxy | answers of an earlier session, several tabs, history buttons | a page fits the role; a console without a session ends |
| Console: users page, developer portal, workers page | a copy of a table, one open dialog, calls in flight | load, create, edit, reset, toggle, revoke, control, enroll, poll | `rest/auth.go`, `usecase/auth`, hub | answers out of order, lost calls, dialogs closed while they wait | what was done is shown; forms and buttons recover; a secret is shown once |
| Local launcher, `src/local-dev/start.js`, `s3/serve.js` | child processes, `shuttingDown`, exit code | start, `error`, `exit`, signals | the operating system | children failing in any order | no child is left behind; a failure is reported |
| Notifications, `notifications/service.go`, `repository/postgres/notification.go` | outbox rows, delivery leases | insert with finalize, claim, deliver, mark, list SSE, purge | store, clients | a crash around a delivery, id order against commit order | at-least-once delivery |
| Configuration cache, authentication, rate limiter, `usecase/auth/service.go`, `repository/redis` | cached configuration and keys, window counters | read-through, update, invalidate, count | store, Redis | lost update, stale refill | an old copy does no more than show or write back an old limit |
| REST, MCP and admin surfaces; omniscan bot; schema migration; simulator; documentation site | request locals, chat sessions | request translation | all of the above | — | — |

Every hazard found in this code is listed at its line in `PROJECT.json`, with
the properties that cover it, or a note saying why none does.

## Modules

| Module | Models | Composed of |
|---|---|---|
| `DocumentStore` | one action per statement or transaction on `documents`, `doc_used` and `native_worker_routes` | — |
| `DocumentLifecycle` | scheduler, extraction goroutines, callback requests, jobs and messages, object storage, result cache, crashes | `DocumentStore` |
| `DocumentPromise` | what clients are promised: the status of each document and the charged quota; `DocumentLifecycle` implements it | — |
| `StorageQuota` | the bytes of an account: reservations, uploads, submissions, the four passes of retention, restart | — |
| `StoragePromise` | what the owner of an account is promised about its bytes; `StorageQuota` implements it | — |
| `WorkerControl` | controls, connections, authorization and restart for one Mac | — |
| `ConsoleSession` | every tab of the console, the cookies they share, the proxy's sessions | — |
| `UsersPage`, `KeysPortal`, `WorkersPage` | one visit to each page, with the rows behind it and the handlers it calls | — |
| `ConsolePages` | the console shows one of the three pages; their shared properties | the three pages |
| `LocalDev` | the launcher, its children and the signals between them | — |
| `DocumentLifecycleProofs`, `StorageQuotaProofs`, `LocalDevProofs`, `WorkerControlProofs`, `ConsoleSessionProofs` | theorems and proofs | the module they name |
| `DocumentOwnershipProofs` | theorems about who works on a document | `DocumentLifecycleProofs` |
| `WorkersPageProofs`, `FormPagesProofs` | theorems about the workers page; about the users page, the portal and all pages | `ConsolePages` |
| `MC…` | the TLC instance: symmetry sets, sizes, typed numbers | the module they name |

The modules share tables at a level where the others cannot disturb them:
`StorageQuota.Finish` is the settling of a document that `DocumentLifecycle`
has in full, `WorkersPage` sees the stored intent that `WorkerControl` changes,
and `ConsolePages` runs inside a session of `ConsoleSession`. They are not
joined into one next-state relation, because the state they share is one
variable each time and the product has no new interleaving on it.

## State and code

### Document lifecycle

- `row[d]` is a `documents` row. `status` and `count` are the columns `status`
  and `attempt_count`; `attempt` is `attempt_id`; `event` abstracts
  `terminal_event_id` to who produced it. `kind` stands for content type and
  `processingMode`: "image" (no PDF), "pdf" (a PDF in `ocr` mode), "auto" and
  "text" (PDFs), "scan".
- `lapsed` holds the attempts whose `processing_until` has passed; no clock is
  kept. An attempt that lost its row may lapse or not: nobody asks any more.
- `sched` is the local state of `pollAndDispatch`: "fail" while it works
  through the exhausted list (`todo`), "claim" once the text claim found
  nothing, "presign" with a claimed document, "ack" with a message sent.
- `texts`, `handler` are the goroutines of `processPDFText` and
  `HandleNativeEvent`; their `pc` names the next external call.
- `jobs` are dispatch messages and the work they start: "sent", "running",
  "uploaded" (a scan's output was stored), "rejected" (a negative
  acknowledgement). `LoseJob` loses the message or the worker.
- `callbacks` only grows: an event in it may be handled late, several times, at
  once by several requests, or never. `acked` are events answered with 200.
- `objects`, `cache` are result objects (by attempt, since the key contains the
  event's id and an attempt has one event) and Redis results (by document).

An action is the code between two points where another process can act: a
statement, an S3, Redis or worker call. A handler's order of effects is the
code's (object, row, cache, acknowledgement). `ClaimNext…` is one action with
the `GetByID` that follows, because nothing can take the row from a claim
whose lease has just begun. `FOR UPDATE SKIP LOCKED` needs no counterpart: a
locked row becomes unclaimable when its transaction commits.

Left out: database errors (a failing statement leaves the caller where a crash
would, and crashes are modelled; S3, Redis and worker failures are modelled);
signatures, validation, notifications and TTLs. All documents belong to one
account and are submitted one at a time. The extractor's verdict and the
worker's success are nondeterministic. A worker is reduced, at a claim, to its
capabilities and whether a PDF fits. `Cancel`, `CancelWithRefund` and
`UpdateStatus` of the repository have no caller.

### Storage quota

- `quota`, `used`, `reserved` are the columns of `account_configs`; `res` is
  `upload_reservations.state` by object key; `doc` is the document that names a
  key ("cleared" once its `input_key` is NULL); `object` is the object store.
  A key names at most one document, so both tables are functions of keys.
- `req[r]` is a request between two external calls: "presign" (reserved, not yet
  signed), "release", "prepare" (inputs read or stored one by one), "tx" (inside
  `CreateManyWithQuota`), "undo" (`cleanupPreparedInputs`).
- The account's row is locked by every transaction that writes the counters.
  Only a submission's is split in two (`BeginCreate`, then `Commit`,
  `CommitUnanswered` or `Rollback`), because `IsInputKeyReferenced` reads
  `documents` without that lock; `AccountUnlocked` is the lock.
- `ret` is the retention goroutine: the phase, what it listed, and the item whose
  first half is done (reservation released or object deleted, and the second
  half is to come).
- `past` and `aged` are the two clocks the sweeps look at: `expires_at` and the
  object's age. An object is never older than its reservation, so `Age` needs
  `past`; a new `Put` makes it young again. `CloseUrl` ends a presigned URL.
- `exposed` marks the keys caught in one of two windows the code leaves: the
  sweep does not see a row whose transaction has not committed, and a commit
  whose answer is lost is taken for a failure, so that `cleanupPreparedInputs`
  deletes inputs of documents that exist. TLC reaches both.

`LifeOf` is the refinement mapping to `StoragePromise`: an input is used while a
retained document refers to it, reserved while its reservation stands, gone
afterwards, and new before; an input the proxy stored for a submission that
failed was never charged and stays new.

Left out: result objects, the 100-row limits, notification cleanup, document
quota (in `DocumentStore`). The object store's clock is not behind the proxy's.
A lost answer to a release or a retention transaction has the effect of a
success or of a failure, and is not told apart from them.

### Worker control

Every connection `k` has a handler that stops between its database calls, its
critical sections under `h.mu` and its writes, as `ServeSocket` does: "read"
(`DesiredControl`), "register", "hello" (authorization is checked again),
"admit", "recall", "send", "open". A call of `Control` stops the same way:
"store" (the row), "hub" (the critical section), "write" (the message).
`session[k]` stays an object of its own after another connection has replaced it
in `current`. `wire[k]` is the ordered stream of control messages to the Mac,
which keeps its own intent as `stopped`; `gaveUp` is the connector after a 401.
Authentication is in shared mode, where `Authorized` is the row's `revoked`.
`enroll` is a re-enrollment: the row is as new and the session dropped. Capacity and dispatch are
left to `DocumentLifecycle`.

### Console

`net` holds the calls in flight, answered in any order, with the session cookie
they were sent with; the cookies of an answer take effect when it arrives.
React runs the effects of a state change before it handles the next event, so
they belong to the step that changed the state (`Commit` in `ConsoleSession`).
Equal unanswered calls are one member of `net`. In the pages `unseen` and `ver`
are history, kept for the properties: what a page reported as done and has not
shown yet. A closed dialog's component is gone: its call still acts on the page
(`mounted` tells the two apart). The developer portal's load is two calls that
read the store at different times; `ReloadPage` leaves its calls to be served
and answered to nobody. A load of the users or
workers page is answered, refused or lost, one of the portal answered or lost; a
401 belongs to `ConsoleSession`. In the workers page a run of the
polling effect has a generation, and refreshing disposes of it.

The users page's store is in two parts. `acct` is the table `users`: its rows,
and in `listed` whether an id is among the 100 lowest, which are all that
`/v1/users?limit=100` returns, the rest being in no list however often the page
loads. `configs[u]` is the set of configurations that the account has had: the
proxy reads them through Redis, where `cacheConfig` sets a copy after every read
and write, in no order with the others and with failures ignored, so that a read
may get any of them, the stored one included. `ReadRows` and `ReadConfigs` are the
two halves of `ListUsers`, between which everything can happen; a configuration
that cannot be read is missing from the answer (`known`). `CreateUser` inserts
and then configures, and answers 201 if the second half fails (`InsertUser`,
`ConfigureUser`); a password reset reads the row and writes it back
(`ReadForReset`, `WriteReset`), `disabled` included. In the portal `rate` is the
limit that a read of the account gets at the time, and `SetAccountRate` stands
for all that changes it, in the database or in Redis.

### Launcher

`proc` and `status` are what the operating system knows of the children; `seen`
is what Node has told the launcher, set in the turn in which it emits `exit` or
`error`. `told[c]` are the signals sent to a child, `asked` those sent to the
launcher, `heard` those whose handlers have run. A signal is "SIGINT" or
"SIGTERM" to a single process, or "terminal", the SIGINT of a Ctrl-C that the
launcher and its children all get. A child is a direct one, `npm` or `go`; what
they start below themselves is theirs to stop and is not modelled, except that
`go run` (`GoRun`) catches SIGINT and leaves it to the program below, which has it
only if it came from the terminal: `Stopping`.

## Runs

All instances disable TLC's deadlock check: once every document has settled, the
launcher is gone, or the bounds are used up, the system rests.

| Run | Instance | Shows |
|---|---|---|
| `one_doc` | 1 document of any kind, 3 attempt ids, budget 2, 2 concurrent callback requests, 1 crash, 1 quota reset | `TypeOK`, `QuotaMatchesRows`, `AttemptBudget`, `NoParallelRun`, `LiveWorkAccepted`, `OutcomeHasEvidence`, `AckedIsSettled` |
| `two_docs` | 2 PDFs in auto mode (the kind that takes both the text and the OCR path), 3 attempt ids, budget 2, 1 callback request | `KeepsPromise`: refinement of `DocumentPromise` |
| `liveness` | 1 document (image, pdf, scan, text), 3 attempt ids, budget 2, 1 crash | `EverySubmissionSettles` under `FairSpec` |
| `storage_quota` | 1 upload of 2 bytes, 1 other input of 1 byte, quotas 0 and 2, 2 requests of up to 2 items, 2 turns | `TypeOK`, `StorageExact`, `ConsumedWhileReferenced`, `LiveInputKept`, `NeverOversubscribed`, `KeepsStoragePromise`: refinement of `StoragePromise`; `ReservationsSettle`, `UploadsSwept` under `FairSpec` |
| `control_races` | 2 connections, 2 calls of any of the six actions, 1 restart | `TypeOK`, `RevokedGetsNoWork`, `AppliedPauseHolds` |
| `session` | 1 tab, an administrator and a developer, 2 logins, 1 turn | `TypeOK`, `ViewFitsRole`, `GhostShellIsDoomed`; `SpinnerEnds`, `LoginAnswered`, `WorkersPageNoticesLogout` under `FairSpec` |
| `console_pages` | 1 account, 1 key, 1 Mac, 2 turns | `TypeOK`, `UntouchedSaveIsNeutral`, `SecretShownOnce`, `TableNeverGoesBack`; `AckedChangeIsShown`, `FormsRecover`, `NewKeyIsRevealed`, `ButtonsComeBack` under `FairSpec` |
| `local_launcher` | 3 children, one of them started by `go run` | `NoneLeftBehind`, `FailureIsReported`, `LauncherInv`; `SignalStopsAll`, `FailureStopsAll` under `FairSpec` |
| `auto_fallback` | 1 auto PDF | violated: `FallbackReachesOCR` |
| `text_mode` | 1 text PDF | violated: `TextModeNeverInvokesOCR` |
| `duplicate_callback` | 1 image, 2 callback requests | violated: `CompletedResultStored` |
| `control_pause` | 2 connections, 1 pause | violated: `StoredPauseHolds` |

What the properties say:

- `QuotaMatchesRows`: `doc_used` is the number of charged documents, that is,
  all but those the scheduler itself failed. After an administrator's reset it
  is at most that number; a refund of an older document may take a unit of the
  new period, as the code does.
- `AttemptBudget`: a queued row can always be claimed once more within
  `PROCESSING_MAX_ATTEMPTS`. It matters because claiming a queued row does not
  check the count and `retryOrFail` decides on the count read at the claim.
- `NoParallelRun`: an unrejected job's attempt holds its row or has lapsed, so a
  second worker starts only after the first one's lease has ended.
- `LiveWorkAccepted`: an event of an attempt whose lease is live finds its row
  still under that attempt.
- `OutcomeHasEvidence`: what a worker's event decided is what that attempt
  reported.
- `AckedIsSettled`: an event is acknowledged only when its document has settled
  under it and, for a completed OCR, the result is in Redis.
- `KeepsPromise`: queued → processing → (queued | completed | failed), settled
  documents never change, and quota units come back only with a failure.
- `EverySubmissionSettles`, and the other liveness properties: see fairness.
- `StorageExact`: `storage_used_bytes` and `storage_reserved_bytes` are the bytes
  of the rows they stand for, through failures, lost answers and restarts.
- `ConsumedWhileReferenced`: a reservation is consumed for exactly as long as a
  document refers to its object.
- `LiveInputKept`: outside the two windows a queued or processing document has
  its input.
- `NeverOversubscribed`: no step adds bytes, counted in rows, beyond the quota.
- `KeepsStoragePromise`: an input's bytes are reserved at most once, become used
  with all other inputs of its submission or not at all, and come back exactly
  once; only an administrator who lowers the quota leaves more than it allows.
- `ReservationsSettle`, `UploadsSwept`: a reservation is consumed or refunded; an
  unreferenced upload is swept, one whose deletion failed included.
- `RevokedGetsNoWork`: once a revocation is stored and applied, no connection
  that was under way at the time makes the Mac eligible.
- `AppliedPauseHolds`: a pause that the hub has applied to a session holds
  through every reconnection until another control or a restart.
- `ViewFitsRole`: late answers, stale addresses and history buttons never leave
  an ordinary account on an administrator's page, or the reverse.
- `GhostShellIsDoomed`: without a session, a console that is still shown has a
  call in flight that will be answered 401, as long as nothing is lost and the
  session was not ended from outside.
- `SpinnerEnds`, `LoginAnswered`, `WorkersPageNoticesLogout`: the first load and a
  login come to an end; the polling page notices a logout in another tab.
- `UntouchedSaveIsNeutral`: saving the limits form unchanged keeps every limit of
  the row it was opened on, if the row came with its configuration and its storage
  quota is a whole number of GiB.
- `AckedChangeIsShown`: a created, suspended or reactivated account among the 100
  listed, a new or changed key, a controlled Mac that a page reported as done gets
  into its table, in that state or a later one. It does not speak of limits, which
  the page may read from an older copy than the change it has just saved.
- `FormsRecover`, `SecretShownOnce`, `NewKeyIsRevealed`, `TableNeverGoesBack`,
  `ButtonsComeBack`: a form that waits is released; a key's secret is shown, even
  if its dialog was closed, and once; a slow poll never replaces a newer one; the
  buttons of the workers page come back.
- `NoneLeftBehind`, `FailureIsReported`: the launcher ends only after its children,
  with a failing code if one of them failed. `LauncherInv` is the invariant the
  proofs rest on.
- `SignalStopsAll`, `FailureStopsAll`: after a Ctrl-C everything ends. After another
  signal or a failure everything ends unless a program under `go run` has got
  nothing but the launcher's SIGINT (`Unheeded`), for which it does not stop and
  after which `shutdown` sends nothing else.

### What the violated runs show

They state what the documents say and the code does otherwise; `PROJECT.json`
quotes them.

1. An auto-mode PDF without usable text is released to the queue with no mark,
   and the next poll's text claim takes it again, for ever: the OCR fallback of
   `PDF_TEXT_EXTRACTION.md` is unreachable as long as the extractor is enabled.
2. A text-mode PDF that becomes claimable between the two claims of one poll
   goes to an OCR worker: the second claim does not look at the mode.
3. Of two concurrent deliveries of one completion, the one that loses the row
   deletes the result object, whose key both share.
4. `ServeSocket` reads the desired control before its session is registered. A
   pause stored and broadcast in between finds no session, and the node becomes
   eligible with the stale intent, although `OUTBOUND_NODES.md` says that a
   reconnect reapplies the last intent first.

Behaviour met on the way that no run is about: the document row is terminal
before Redis is written, contrary to `TECH_DESIGN.md` ("Redis write failure
leaves the document non-terminal"), but the duplicate branch of the handler
repairs the cache, which `AckedIsSettled` shows; a Mac that was paused and is
resumed while offline comes back refusing jobs, because only a pause is re-sent;
a Mac that gave up on a 401 does not notice an activation; a storage quota below
half a GiB is rounded to 0, unlimited, by the limits form; a key created with
rate 0 for an account without a limit is stored with 60; a slower answer to an
older load may put an older table back; a limits form writes back every field
and so undoes another administrator's change; an answer closes whichever dialog
of its kind is open; the limits shown after a change may be an older copy, and a
row whose configuration could not be read opens the limits form with defaults that
saving stores; accounts beyond the 100 lowest ids are in no list; a password reset
that has read its row before a suspension undoes the suspension; a new account
whose limits could not be stored is reported as created all the same; a SIGINT sent
to the launcher alone leaves `go run` and the launcher running, although `start.js`
says that no child is left behind (it is the launcher that waits); `SubmitScan` leaves the stored input of what it refuses,
and such objects under `inputs/` (like inputs whose deletion failed after a
refused submission) are never swept, because only `uploads/` is listed.

## Bounds and why they are enough

Each module names its bounds in its CONSTANTS. Where several kinds of trouble
(losses, crashes, others' changes, reloads, edits) multiply the states without
meeting in the state, a joint bound `MaxTurns` caps their sum.

- *Lifecycle.* `Attempts` bounds the attempt ids in use at once (an id nobody
  names any more is taken again, so the number of claims is not bounded). Three
  attempts with a budget of two give one attempt more than a document may
  consume, room for late callbacks of two earlier attempts, and the
  release-and-reclaim cycles that do not consume the budget. Two callback
  requests are the least that race. One crash can fall between any two steps.
  Documents meet only in the queue's order, the scheduler's single slot and the
  quota counter, which two documents exercise. Attempt ids and handlers are
  interchangeable, which the symmetry set of the safety runs uses; the liveness
  runs use none.
- *Storage.* Two requests race with retention and each other, for one upload and
  one other input of different sizes, so that no byte of one passes for a byte
  of the other; a batch can hold both. The quota of 2 is filled by the upload
  alone and exceeded by both. Two turns give every pair of failures, lost
  answers, restarts and quota changes; the proofs cover all other sizes.
- *Control.* Two connections are the least of which one replaces the other, two
  calls the least that race; one restart falls between any two steps. Calls are
  interchangeable.
- *Session.* One tab with two logins of different roles. Other tabs share only
  the cookies and the sessions with it: another tab's logout or login is seen
  as `EndSession`, which clears the shared cookie or leaves it stale. One turn
  places one loss, one ended session, one reload or one move anywhere.
- *Pages.* One account, key and Mac, as the rows of a table do not interact; two
  changing calls, two generations of polls, and any two of losses, others'
  changes, edits and reloads. An account starts with one configuration, whose
  storage quota is zero or a whole GiB, and with an id that is listed or not.
- *Launcher.* One child more than the two that exist, one of the three under
  `go run`; its proofs cover every set.

## Fairness

- *Lifecycle.* Weak fairness of the proxy's own steps (the ticker polls every
  second, a poll runs to its end, goroutines make progress, `AckOrTimeout`
  because an acknowledgement is awaited under a timeout) and of time passing a
  lease. Strong fairness of claiming for a worker with all capabilities, of
  dispatching and of a worker accepting: again and again a suitable worker is
  connected and free. Nothing is assumed of what a worker does with an accepted
  job, of its callbacks and their handlers, or of S3 and Redis: a document whose
  worker always dies is failed by the exhausted-attempts list. Auto-mode
  documents are left out, since the first finding shows that they may never
  settle.
- *Storage.* Weak fairness of the clocks and of a transaction that has begun
  ending. Strong fairness of the retention loop: it runs for as long as the
  proxy does, and PostgreSQL queues the waiters for a row lock, so submissions
  that take the lock again and again cannot starve it. Nothing is assumed of
  clients or of requests between transactions.
- *Console.* Weak fairness, for each kind of call (on the users page: for loads, by
  half, and for changes), of the proxy answering and of the browser delivering, and
  of the poll timer. Nothing is assumed of a user.
- *Launcher.* Weak fairness of Node's event handlers, and of a child ending,
  however it ends, after a signal it heeds: any for `npm`, SIGTERM or a Ctrl-C for
  `go run`, which survives a SIGINT that only it is sent.
- *Control* runs check safety only and assume none.

## Proofs

Every invariant and every safety property of a step that a run checks is also a
theorem, for every value of the constants. The named assumptions say that the
constants are of the right kind, and two things more: a browser has at least one
tab (`TabsAssumption`, without which `GhostShellIsDoomed` has no tab to speak
of), and the bound on runs of the poll effect leaves a run for every control
(`RunsAssumption`: a control always refreshes the table).

| Theorem | Statement |
|---|---|
| `DocumentLifecycleProofs.TypeCorrect` | `Spec => []TypeOK` |
| `BudgetRespected` | `Spec => []AttemptBudget` |
| `QuotaExact` | `Spec => []QuotaMatchesRows` |
| `LifecycleRefinement` | `Spec => KeepsPromise` |
| `DocumentOwnershipProofs.OwnershipInvariance` | `Spec => []Ownership` |
| `NoParallelRuns` | `Spec => []NoParallelRun` |
| `LiveWorkIsAccepted` | `Spec => []LiveWorkAccepted` |
| `OutcomesHaveEvidence` | `Spec => []OutcomeHasEvidence` |
| `AcksAreSettled` | `Spec => []AckedIsSettled` |
| `StorageQuotaProofs.StorageTypes` | `Spec => []TypeOK` |
| `CountersExact` | `Spec => []StorageExact` |
| `ConsumedIsReferenced` | `Spec => []ConsumedWhileReferenced` |
| `QuotaIsNeverExceeded` | `Spec => NeverOversubscribed` |
| `InputsAreKept` | `Spec => []LiveInputKept` |
| `StorageRefinement` | `Spec => KeepsStoragePromise` |
| `WorkerControlProofs.TypeCorrect` | `Spec => []TypeOK` |
| `RevokedMacGetsNoWork` | `Spec => []RevokedGetsNoWork` |
| `AppliedPauseIsKept` | `Spec => []AppliedPauseHolds` |
| `ConsoleSessionProofs.TypeCorrect` | `Spec => []TypeOK` |
| `ViewsFitRoles` | `Spec => []ViewFitsRole` |
| `GhostShellsAreDoomed` | `Spec => []GhostShellIsDoomed` |
| `WorkersPageProofs.WorkersInvariance` | `Spec => [](view = "workers" => WorkersInv)` |
| `TableMovesForward` | `Spec => TableNeverGoesBack` |
| `FormPagesProofs.UntouchedSaves` | `Spec => []UntouchedSaveIsNeutral` |
| `SecretsShownOnce` | `Spec => SecretShownOnce` |
| `FormPagesProofs.TypeCorrect` | `Spec => []TypeOK` |
| `LocalDevProofs.LauncherInvariant` | `Spec => []LauncherInv` |
| `NeverLeavesAChild` | `Spec => []NoneLeftBehind` |
| `ReportsFailures` | `Spec => []FailureIsReported` |

**Lifecycle.** `TypeOK` is not inductive: `attempt_count` would leave its range if
a queued row had used up its budget, and `lapsed` would receive `NoAttempt` if a
processing row had no attempt. `SoundRow` adds what the rows satisfy between
statements. `RequeueAttempt` keeps a row sound only if the scheduler's remembered
count is still the row's: `SnapshotIsCurrent`. It stays true because no claim
reuses an attempt id that somebody names (`Fresh`) and every other statement
either leaves a held row's count alone or takes the row away (`HeldRowIsKept`).
`HandlerHasEvent` types the handlers' events. Their conjunction `Inv` is
inductive. Every step executes at most one statement of `DocumentStore`, with
arguments listed in `StoreNext` (`StepIsStatement`). Quota and refinement are
then proved statement by statement: creating adds the document to `Charged`, the
refund removes it exactly when the guarded update matched, and no other statement
moves the set or the counter.

**Storage.** Bytes are the cardinality of a set of (key, byte) pairs, so that
disjoint unions and differences of keys become sums without induction
(`BytesUnion`, `BytesMinus`). `Structure` types the tables and says which keys a
request in each stage may hold: a reserved upload has no document, a transaction
holds reserved uploads or fresh inputs, a fresh input belongs to one request.
`StorageInv` adds `StorageExact`; the two are inductive together, because the
`GREATEST(0, …)` of the code would hide a missing byte unless the counters are
known to be exact. For the quota, `TxFits` says that what `BeginCreate` found to
fit still fits when it commits: the account stays locked. `KeptInv` is the
invariant of the inputs: what a transaction holds, what a request has prepared
and what retention is about to delete are apart, `exposed` excepted. It holds
because a released reservation stays released, an upload past its time enters no
new transaction, and a terminal document stays terminal. For the refinement, a
commit is `Submit` of what the transaction holds, with `TxFits` for the quota; a
release and a retention pass are `Refund` and `GiveBack` of one input, exact
since the counters are (`StorageInv`); a cleared row that is deleted, and a
restart that counts the bytes anew, change nothing the owner sees.

**Ownership.** The four properties about workers are inductive only together,
and only with `Apart`: an attempt is named by one job or one event, never by
both, never also by a text extraction or by the claim the scheduler is about to
dispatch, and what a poll is about to fail has lapsed for good. `RowFate` says
what a step can make of one row (created, taken under a fresh attempt, returned,
settled) and on whose behalf. A row held by a job's attempt can then be returned
only by the job itself, after its rejection, and settled only by its event or,
once it has lapsed, by the scheduler; a fresh attempt is one that nobody names.
`OutcomeHasEvidence` and `AckedIsSettled` need in addition that a settled row
stays as it is and that a handler reaches the cache only for a settled row.

**Control.** `RevokedGetsNoWork` is not inductive: it does not say what a
connection that is under way may still do. `RevokedIsOver` does: with the row
revoked and no revocation still to be applied, the session is over or has not
been greeted and its handler is not past the second authorization check, so
that it never becomes eligible. For the pause, `AppliedIsPaused` says that the
present session is the one to inherit it; a new session takes the old one's
intent over (`Inherited`).

**Session.** A step of a tab is a change of its state followed by `Commit`.
`CommitTab` and `CommitNet` say once what `Commit` makes of the tab and of its
calls, whatever the step. `ViewFitsRole` holds because the redirect effect
belongs to `Commit`. `GhostShellIsDoomed` needs `PollsOnPage` (a poll in flight
belongs to a workers page that is still shown), `LoginsPending` (a tab that
signs in has its call in flight) and that every call names a session the proxy
once created: then the calls a page sends when it is shown, or those it had
sent before the session ended, are the ones that will be answered 401.

**Pages.** Each page has an invariant of its own that ties the numbers of
versions of a row, of the page's copy and of every answer on its way.
`WorkersInv`: a poll of the current run exists exactly while its timer does not
(`OnePoll`), and the table is not newer than the answer to that poll
(`TableIsBehind`); answers of other runs may be older, and are dropped.
`UsersInv` has that an untouched form still shows the row it was opened on, if it
came with its configuration, which with 4 · ⌊(4k + 2) / 4⌋ = 4k is `UntouchedSaveIsNeutral`. `PortalInv` has
that the secret of a key is in one answer at most and that nobody has seen it
(`SecretsUnread`): a key gets its secret when it is inserted, under a number not
used before, and closing the dialog or reloading the page leaves that answer one
answer. `TypeOK` bounds the versions by the changes
that were sent; its induction counts the calls that may still change something
(`RoomForChanges`, `RoomForKeys`), a set whose cardinality a step raises by one
at most, and lowers when it changes a row.

**Launcher.** `LauncherInv` relates what the launcher has seen to what has
happened; that it goes only when it has seen every child end gives both theorems.

Only model-checked: the twelve liveness properties (`EverySubmissionSettles`,
`ReservationsSettle`, `UploadsSwept`, `SpinnerEnds`, `LoginAnswered`,
`WorkersPageNoticesLogout`, `AckedChangeIsShown`, `FormsRecover`,
`NewKeyIsRevealed`, `ButtonsComeBack`, `SignalStopsAll`, `FailureStopsAll`),
since liveness under fairness, and the ENABLED it rests on, are beyond the
prover.

## Not modelled

- *Notification outbox, webhooks and SSE.* A leased table with a delivery loop of
  its own. Events are inserted in the transaction that settles a document, and
  nothing reads back from the outbox into the modelled components.
- *Authentication and the rate limiter.* Passwords, tokens and cached API keys; a
  window counter in one Redis script. A refusal is one of the answers every
  modelled call may get. Of the configuration cache the console's modules have
  what it may answer, not its entries and their expiry.
- *Capacity in the hub and in the Mac.* Reservations and the adaptive limit are
  each inside one lock or actor; what leaves them, acceptance and refusal in
  every order, is in `DocumentLifecycle`.
- *REST, MCP and admin surfaces.* Stateless translation of requests into the
  operations above.
- *omniscan, the simulator, the documentation site, generated bundles.* A client
  of the public interface, a stand-in for the Mac that answers at once, static
  files, and the compiled form of the console's source.

## Plan

Done: the document lifecycle, storage quota and retention, worker control, the
console and the launcher; every safety property that a run checks is proved.
What is left, in this order:

1. The leads-to steps behind the liveness properties, as far as they are safety:
   what stays true until the step that ends the wait.
2. The notification outbox, the next component that keeps state of its own.
