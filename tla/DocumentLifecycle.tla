------------------------- MODULE DocumentLifecycle -------------------------
(***************************************************************************)
(* The life of a document through the proxy: submission, the scheduler's   *)
(* poll, the PDF text extractor, dispatch to a Mac worker over the hub,    *)
(* and the worker's callback handler, over the tables of DocumentStore,    *)
(* object storage and the Redis result cache.                              *)
(*                                                                         *)
(* The scheduler is one goroutine (`sched`), every text extraction is a    *)
(* goroutine of its own (`texts`), and callback requests run concurrently  *)
(* (`handler`).  An action is the code between two points where another    *)
(* of them can interleave: a statement, an S3, a Redis or a worker call.   *)
(* Messages to workers (`jobs`) can be lost; callbacks are only ever added *)
(* to `callbacks`, so a handler may receive one late, twice, or never.     *)
(***************************************************************************)
EXTENDS DocumentStore

CONSTANTS
  Handlers,    \* concurrent callback requests
  NoCallback,  \* the callback of an idle handler
  MaxCrashes   \* how often the proxy process may die (bound)

ASSUME MaxCrashesAssumption == MaxCrashes \in Nat

VARIABLES
  sched,      \* pollAndDispatch: program counter and locals
  texts,      \* running processPDFText goroutines
  jobs,       \* dispatch messages and the work they started on a Mac
  callbacks,  \* completion and failure events the workers have produced
  acked,      \* callbacks answered with 200 "acknowledged"
  handler,    \* HandleNativeEvent: program counter and event of each request
  objects,    \* attempts whose result object is in object storage
  cache,      \* documents whose result is in Redis
  crashes     \* number of crashes so far

memVars  == <<sched, texts, handler>>
workVars == <<jobs, callbacks, acked>>
dataVars == <<objects, cache>>
vars == <<storeVars, memVars, workVars, dataVars, crashes>>

NoDoc == 0

Callback == [doc : Docs, attempt : Attempts, ok : BOOLEAN]
Snapshot == [doc : Docs, attempt : Attempts]

Idle == [pc |-> "idle", todo |-> {}, doc |-> NoDoc, attempt |-> NoAttempt, count |-> 0]
Waiting == [pc |-> "idle", event |-> NoCallback]

ProcessTypeOK ==
  /\ sched \in [pc      : {"idle", "fail", "claim", "presign", "ack"},
                todo    : SUBSET Snapshot,
                doc     : Docs \cup {NoDoc},
                attempt : Attempts \cup {NoAttempt},
                count   : 0 .. MaxAttempts]
  /\ texts \subseteq [doc : Docs, attempt : Attempts, pc : {"extract", "finalize", "cache"}]
  /\ jobs \subseteq [doc : Docs, attempt : Attempts,
                     pc : {"sent", "running", "uploaded", "rejected"}]
  /\ callbacks \subseteq Callback
  /\ acked \subseteq callbacks
  /\ handler \in [Handlers -> [pc : {"idle", "put", "finalize", "undo", "cache"},
                               event : Callback \cup {NoCallback}]]
  /\ objects \subseteq Attempts
  /\ cache \subseteq Docs
  /\ crashes \in 0 .. MaxCrashes

TypeOK == StoreTypeOK /\ ProcessTypeOK

Init ==
  /\ StoreInit
  /\ sched = Idle
  /\ texts = {}
  /\ jobs = {}
  /\ callbacks = {}
  /\ acked = {}
  /\ handler = [h \in Handlers |-> Waiting]
  /\ objects = {}
  /\ cache = {}
  /\ crashes = 0

\* Generated ids never collide, so a claim takes an id that no row, goroutine,
\* worker, event or stored object still names.
Fresh(a) ==
  /\ \A d \in Docs : row[d].attempt # a
  /\ sched.attempt # a
  /\ \A s \in sched.todo : s.attempt # a
  /\ \A t \in texts : t.attempt # a
  /\ \A j \in jobs : j.attempt # a
  /\ \A c \in callbacks : c.attempt # a
  /\ a \notin objects

-----------------------------------------------------------------------------
(* Clients and administrators.                                             *)

Submit(d, k) ==
  /\ \A e \in Docs : e < d => row[e].status # "none"
  /\ CreateWithQuota(d, k)
  /\ UNCHANGED <<memVars, workVars, dataVars, crashes>>

ResetQuota ==
  /\ ResetDocUsed
  /\ UNCHANGED <<memVars, workVars, dataVars, crashes>>

-----------------------------------------------------------------------------
(* The scheduler goroutine: one poll.                                      *)

PollStart ==
  /\ sched.pc = "idle"
  /\ sched' = [Idle EXCEPT !.pc = "fail", !.todo = Exhausted]
  /\ UNCHANGED <<storeVars, texts, handler, workVars, dataVars, crashes>>

\* failDocument for one listed snapshot; the row may have moved on meanwhile.
FailExhausted(s) ==
  /\ sched.pc = "fail"
  /\ s \in sched.todo
  /\ FinalizeAttempt(s.doc, s.attempt, "failed", "proxy", TRUE)
  /\ sched' = [sched EXCEPT !.todo = @ \ {s}]
  /\ UNCHANGED <<texts, handler, workVars, dataVars, crashes>>

\* A claimed PDF goes to a goroutine and ends the poll.
ClaimNextForText ==
  /\ sched.pc = "fail"
  /\ sched.todo = {}
  /\ \E d \in Docs, a \in Attempts :
       /\ IsHead(d, TextClaimable)
       /\ Fresh(a)
       /\ Claim(d, a)
       /\ texts' = texts \cup {[doc |-> d, attempt |-> a, pc |-> "extract"]}
  /\ sched' = Idle
  /\ UNCHANGED <<handler, workVars, dataVars, crashes>>

NoTextToClaim ==
  /\ sched.pc = "fail"
  /\ sched.todo = {}
  /\ TextClaimable = {}
  /\ sched' = [Idle EXCEPT !.pc = "claim"]
  /\ UNCHANGED <<storeVars, texts, handler, workVars, dataVars, crashes>>

\* Reserve found a worker with these capabilities and room for a PDF or not.
ClaimNextForWorker(caps, pdfFits) ==
  /\ sched.pc = "claim"
  /\ \E d \in Docs, a \in Attempts :
       /\ IsHead(d, WorkerClaimable(caps, pdfFits))
       /\ Fresh(a)
       /\ Claim(d, a)
       /\ sched' = [pc |-> "presign", todo |-> {}, doc |-> d, attempt |-> a,
                    count |-> row[d].count + 1]
  /\ UNCHANGED <<texts, handler, workVars, dataVars, crashes>>

\* No worker has capacity, or nothing in the queue suits the one reserved.
NothingToDispatch ==
  /\ sched.pc = "claim"
  /\ sched' = Idle
  /\ UNCHANGED <<storeVars, texts, handler, workVars, dataVars, crashes>>

\* Faulty variant: one retry too many.
PresignFailsLate ==
  /\ sched.pc = "presign"
  /\ IF sched.count > MaxAttempts
     THEN FinalizeAttempt(sched.doc, sched.attempt, "failed", "proxy", TRUE)
     ELSE RequeueAttempt(sched.doc, sched.attempt)
  /\ sched' = Idle
  /\ UNCHANGED <<texts, handler, workVars, dataVars, crashes>>

\* retryOrFail, with the attempt count read at the claim.
PresignFails ==
  /\ sched.pc = "presign"
  /\ IF sched.count >= MaxAttempts
     THEN FinalizeAttempt(sched.doc, sched.attempt, "failed", "proxy", TRUE)
     ELSE RequeueAttempt(sched.doc, sched.attempt)
  /\ sched' = Idle
  /\ UNCHANGED <<texts, handler, workVars, dataVars, crashes>>

\* The reserved session was replaced, paused or closed: ErrNativeBusy.
DispatchRefused ==
  /\ sched.pc = "presign"
  /\ ReleaseAttempt(sched.doc, sched.attempt)
  /\ sched' = Idle
  /\ UNCHANGED <<texts, handler, workVars, dataVars, crashes>>

\* Assign found no active attempt or a revoked node; the lease is kept.
AssignFails ==
  /\ sched.pc = "presign"
  /\ sched' = Idle
  /\ UNCHANGED <<storeVars, texts, handler, workVars, dataVars, crashes>>

Dispatch ==
  /\ sched.pc = "presign"
  /\ Assign(sched.doc, sched.attempt)
  /\ jobs' = jobs \cup {[doc |-> sched.doc, attempt |-> sched.attempt, pc |-> "sent"]}
  /\ sched' = [sched EXCEPT !.pc = "ack"]
  /\ UNCHANGED <<texts, handler, callbacks, acked, dataVars, crashes>>

\* Faulty variant: an unknown acknowledgement puts the document back.
AckTimeoutReleases ==
  /\ sched.pc = "ack"
  /\ ReleaseAttempt(sched.doc, sched.attempt)
  /\ sched' = Idle
  /\ UNCHANGED <<texts, handler, workVars, dataVars, crashes>>

\* The job was accepted, or its acknowledgement was lost or is late: either
\* way the attempt stays leased.
AckOrTimeout ==
  /\ sched.pc = "ack"
  /\ sched' = Idle
  /\ UNCHANGED <<storeVars, texts, handler, workVars, dataVars, crashes>>

AckRejected ==
  /\ sched.pc = "ack"
  /\ \E j \in jobs :
       /\ j.attempt = sched.attempt /\ j.pc = "rejected"
       /\ jobs' = jobs \ {j}
  /\ ReleaseAttempt(sched.doc, sched.attempt)
  /\ sched' = Idle
  /\ UNCHANGED <<texts, handler, callbacks, acked, dataVars, crashes>>

-----------------------------------------------------------------------------
(* processPDFText.                                                         *)

TextStep(t, next) == texts' = (texts \ {t}) \cup next

\* No usable text, or extraction failed: text mode fails, auto falls back.
TextUnusable(t) ==
  /\ t \in texts /\ t.pc = "extract"
  /\ IF row[t.doc].kind = "text"
     THEN FinalizeAttempt(t.doc, t.attempt, "failed", "text", FALSE)
     ELSE ReleaseAttempt(t.doc, t.attempt)
  /\ TextStep(t, {})
  /\ UNCHANGED <<sched, handler, workVars, dataVars, crashes>>

TextStored(t) ==
  /\ t \in texts /\ t.pc = "extract"
  /\ objects' = objects \cup {t.attempt}
  /\ TextStep(t, {[t EXCEPT !.pc = "finalize"]})
  /\ UNCHANGED <<storeVars, sched, handler, workVars, cache, crashes>>

\* Usable text, but storing it failed: finalizeTextFailure in either mode.
TextPutFails(t) ==
  /\ t \in texts /\ t.pc = "extract"
  /\ FinalizeAttempt(t.doc, t.attempt, "failed", "text", FALSE)
  /\ TextStep(t, {})
  /\ UNCHANGED <<sched, handler, workVars, dataVars, crashes>>

TextFinalize(t) ==
  /\ t \in texts /\ t.pc = "finalize"
  /\ FinalizeAttempt(t.doc, t.attempt, "completed", "text", FALSE)
  /\ TextStep(t, IF Holds(t.doc, t.attempt) THEN {[t EXCEPT !.pc = "cache"]} ELSE {})
  /\ UNCHANGED <<sched, handler, workVars, dataVars, crashes>>

\* A failed SetResult is only logged.
TextCache(t) ==
  /\ t \in texts /\ t.pc = "cache"
  /\ cache' \in {cache, cache \cup {t.doc}}
  /\ TextStep(t, {})
  /\ UNCHANGED <<storeVars, sched, handler, workVars, objects, crashes>>

-----------------------------------------------------------------------------
(* A Mac worker: what its messages do to the proxy.                        *)

JobStep(j, next) == jobs' = (jobs \ {j}) \cup next

AcceptJob(j) ==
  /\ j \in jobs /\ j.pc = "sent"
  /\ JobStep(j, {[j EXCEPT !.pc = "running"]})
  /\ UNCHANGED <<storeVars, memVars, callbacks, acked, dataVars, crashes>>

RejectJob(j) ==
  /\ j \in jobs /\ j.pc = "sent"
  /\ JobStep(j, {[j EXCEPT !.pc = "rejected"]})
  /\ UNCHANGED <<storeVars, memVars, callbacks, acked, dataVars, crashes>>

\* The message is lost, or the worker dies with it.
LoseJob(j) ==
  /\ j \in jobs
  /\ JobStep(j, {})
  /\ UNCHANGED <<storeVars, memVars, callbacks, acked, dataVars, crashes>>

\* HandleNativeScanOutput: only the active, routed attempt may store its scan.
ScanOutput(j) ==
  /\ j \in jobs /\ j.pc = "running"
  /\ row[j.doc].kind = "scan"
  /\ Holds(j.doc, j.attempt)
  /\ j.attempt \in routes
  /\ objects' = objects \cup {j.attempt}
  /\ JobStep(j, {[j EXCEPT !.pc = "uploaded"]})
  /\ UNCHANGED <<storeVars, memVars, callbacks, acked, cache, crashes>>

\* A scan is complete only after its upload was accepted.
FinishJob(j, ok) ==
  /\ j \in jobs /\ j.pc \in {"running", "uploaded"}
  /\ ok => (row[j.doc].kind = "scan") = (j.pc = "uploaded")
  /\ JobStep(j, {})
  /\ callbacks' = callbacks \cup {[doc |-> j.doc, attempt |-> j.attempt, ok |-> ok]}
  /\ UNCHANGED <<storeVars, memVars, acked, dataVars, crashes>>

-----------------------------------------------------------------------------
(* HandleNativeEvent, one request per handler.  A conflict, an unassigned  *)
(* worker and a missing scan object are answered without a state change.   *)

IsOCR(c) == row[c.doc].kind # "scan"

HandlerStep(h, pc) == handler' = [handler EXCEPT ![h].pc = pc]
HandlerDone(h)     == handler' = [handler EXCEPT ![h] = Waiting]

\* The attempt is already terminal: repair the cache, then acknowledge.
DuplicateCallback(c) ==
  /\ c \in callbacks
  /\ c.attempt \in routes
  /\ row[c.doc].attempt = c.attempt
  /\ row[c.doc].status \in Terminal
  /\ IF row[c.doc].status = "completed" /\ c.ok /\ IsOCR(c)
     THEN \/ cache' = cache \cup {c.doc} /\ acked' = acked \cup {c}
          \/ UNCHANGED <<cache, acked>>
     ELSE acked' = acked \cup {c} /\ UNCHANGED cache
  /\ UNCHANGED <<storeVars, memVars, jobs, callbacks, objects, crashes>>

ReceiveCallback(h, c) ==
  /\ handler[h].pc = "idle"
  /\ c \in callbacks
  /\ c.attempt \in routes
  /\ Holds(c.doc, c.attempt)
  /\ (c.ok /\ ~IsOCR(c)) => c.attempt \in objects
  /\ handler' = [handler EXCEPT ![h] =
                   [pc |-> IF c.ok /\ IsOCR(c) THEN "put" ELSE "finalize", event |-> c]]
  /\ UNCHANGED <<storeVars, sched, texts, workVars, dataVars, crashes>>

PutResult(h) ==
  /\ handler[h].pc = "put"
  /\ objects' = objects \cup {handler[h].event.attempt}
  /\ HandlerStep(h, "finalize")
  /\ UNCHANGED <<storeVars, sched, texts, workVars, cache, crashes>>

PutResultFails(h) ==
  /\ handler[h].pc = "put"
  /\ HandlerDone(h)
  /\ UNCHANGED <<storeVars, sched, texts, workVars, dataVars, crashes>>

\* A scan and a failure are acknowledged at once, an OCR result only after
\* Redis has it.  On a conflict the OCR branch takes its object back.
FinalizeCallback(h) ==
  LET c == handler[h].event IN
  /\ handler[h].pc = "finalize"
  /\ FinalizeAttempt(c.doc, c.attempt, IF c.ok THEN "completed" ELSE "failed", "native", FALSE)
  /\ IF c.ok /\ IsOCR(c)
     THEN /\ HandlerStep(h, IF Holds(c.doc, c.attempt) THEN "cache" ELSE "undo")
          /\ UNCHANGED acked
     ELSE /\ HandlerDone(h)
          /\ acked' = IF Holds(c.doc, c.attempt) THEN acked \cup {c} ELSE acked
  /\ UNCHANGED <<sched, texts, jobs, callbacks, dataVars, crashes>>

UndoPut(h) ==
  /\ handler[h].pc = "undo"
  /\ objects' = objects \ {handler[h].event.attempt}
  /\ HandlerDone(h)
  /\ UNCHANGED <<storeVars, sched, texts, workVars, cache, crashes>>

CacheResult(h) ==
  /\ handler[h].pc = "cache"
  /\ cache' = cache \cup {handler[h].event.doc}
  /\ acked' = acked \cup {handler[h].event}
  /\ HandlerDone(h)
  /\ UNCHANGED <<storeVars, sched, texts, jobs, callbacks, objects, crashes>>

\* Faulty variant: the Redis failure is only logged.
CacheFailureAcks(h) ==
  /\ handler[h].pc = "cache"
  /\ acked' = acked \cup {handler[h].event}
  /\ HandlerDone(h)
  /\ UNCHANGED <<storeVars, sched, texts, jobs, callbacks, dataVars, crashes>>

\* Redis is down: 503, and the worker is expected to send the event again.
CacheResultFails(h) ==
  /\ handler[h].pc = "cache"
  /\ HandlerDone(h)
  /\ UNCHANGED <<storeVars, sched, texts, workVars, dataVars, crashes>>

-----------------------------------------------------------------------------
(* The proxy process dies and restarts: only what is stored survives.      *)

Crash ==
  /\ crashes < MaxCrashes
  /\ crashes' = crashes + 1
  /\ sched' = Idle
  /\ texts' = {}
  /\ handler' = [h \in Handlers |-> Waiting]
  /\ UNCHANGED <<storeVars, workVars, dataVars>>

TimePasses(d) ==
  /\ LeaseLapses(d)
  /\ UNCHANGED <<memVars, workVars, dataVars, crashes>>

-----------------------------------------------------------------------------
Capabilities == SUBSET {"ocr", "scan"}

SchedulerNext ==
  \/ PollStart
  \/ \E s \in sched.todo : FailExhausted(s)
  \/ ClaimNextForText
  \/ NoTextToClaim
  \/ \E caps \in Capabilities, pdfFits \in BOOLEAN : ClaimNextForWorker(caps, pdfFits)
  \/ NothingToDispatch
  \/ PresignFails
  \/ DispatchRefused
  \/ AssignFails
  \/ Dispatch
  \/ AckOrTimeout
  \/ AckRejected

TextNext(t) ==
  TextUnusable(t) \/ TextStored(t) \/ TextPutFails(t) \/ TextFinalize(t) \/ TextCache(t)

WorkerNext(j) ==
  \/ AcceptJob(j)
  \/ RejectJob(j)
  \/ LoseJob(j)
  \/ ScanOutput(j)
  \/ \E ok \in BOOLEAN : FinishJob(j, ok)

HandlerNext(h) ==
  \/ \E c \in callbacks : ReceiveCallback(h, c)
  \/ PutResult(h)
  \/ PutResultFails(h)
  \/ FinalizeCallback(h)
  \/ UndoPut(h)
  \/ CacheResult(h)
  \/ CacheResultFails(h)

Next ==
  \/ \E d \in Docs, k \in Kinds : Submit(d, k)
  \/ ResetQuota
  \/ SchedulerNext
  \/ \E t \in texts : TextNext(t)
  \/ \E j \in jobs : WorkerNext(j)
  \/ \E c \in callbacks : DuplicateCallback(c)
  \/ \E h \in Handlers : HandlerNext(h)
  \/ Crash
  \/ \E d \in Docs : TimePasses(d)

Spec == Init /\ [][Next]_vars

-----------------------------------------------------------------------------
(* Correctness properties.                                                 *)

\* The documents that still cost a quota unit: all but those the scheduler
\* itself failed.
Charged == {d \in Docs : row[d].status # "none" /\ row[d].event # "proxy"}

\* Every submission is charged once and every infrastructure failure refunded
\* once, however polls, callbacks, extractions and crashes interleave
\* (FinalizeAttempt's refund happens in the transaction that wins the row).
\* After a reset the account is never charged more than that: a late refund of
\* an older document may still take a unit of the new period.
QuotaMatchesRows ==
  /\ resets = 0 => docUsed = Cardinality(Charged)
  /\ docUsed <= Cardinality(Charged)

\* The retry budget: a queued row can always be claimed once more without
\* passing PROCESSING_MAX_ATTEMPTS, although the claim of a queued row does not
\* look at attempt_count and retryOrFail decides on a count it read earlier.
AttemptBudget ==
  \A d \in Docs :
    /\ row[d].status = "queued" => row[d].count < MaxAttempts
    /\ row[d].status = "processing" => row[d].count \in 1 .. MaxAttempts

\* A document is never in the hands of two workers, or of a worker and the
\* queue, while the first one's lease is live: an attempt whose acknowledgement
\* is unknown stays leased (scheduler.go, comment in pollAndDispatch).
NoParallelRun ==
  \A j \in jobs :
    j.pc # "rejected" => Holds(j.doc, j.attempt) \/ j.attempt \in lapsed

\* Work finished within its lease is never refused: until the lease has lapsed
\* the callback's attempt is the row's attempt, active or already settled.
LiveWorkAccepted ==
  \A c \in callbacks :
    \/ c.attempt \in lapsed
    \/ row[c.doc].attempt = c.attempt /\ row[c.doc].status \in {"processing"} \cup Terminal

\* What a worker's event decided is what that attempt reported: a late event of
\* an attempt that lost the row never settles the document.
OutcomeHasEvidence ==
  \A d \in Docs :
    row[d].event = "native" =>
      [doc |-> d, attempt |-> row[d].attempt, ok |-> row[d].status = "completed"] \in callbacks

\* A worker stops re-sending an event only once the document has settled under
\* that attempt and, if it completed with OCR text, readers can fetch it.
AckedIsSettled ==
  \A c \in acked :
    /\ row[c.doc].status \in Terminal
    /\ row[c.doc].attempt = c.attempt
    /\ (row[c.doc].status = "completed" /\ IsOCR(c)) => c.doc \in cache

\* The lifecycle and the quota as clients see them.
Promise == INSTANCE DocumentPromise WITH status <- [d \in Docs |-> row[d].status], used <- docUsed
KeepsPromise == Promise!Spec

-----------------------------------------------------------------------------
(* Liveness.  Fairness of the proxy's own steps is the Go scheduler's and  *)
(* the one-second ticker's; leases end because time passes.  Strong        *)
(* fairness says that, again and again, a suitable worker is free when the *)
(* scheduler polls, still connected when it dispatches, and accepts.       *)
(* Nothing is assumed of what a worker does with an accepted job, nor of   *)
(* its callbacks, their handlers, object storage or Redis.                 *)

Fairness ==
  /\ WF_vars(PollStart)
  /\ WF_vars(\E s \in sched.todo : FailExhausted(s))
  /\ WF_vars(ClaimNextForText)
  /\ WF_vars(NoTextToClaim)
  /\ WF_vars(NothingToDispatch)
  /\ SF_vars(ClaimNextForWorker({"ocr", "scan"}, TRUE))
  /\ SF_vars(Dispatch)
  /\ WF_vars(AckOrTimeout)
  /\ SF_vars(\E j \in jobs : AcceptJob(j))
  /\ WF_vars(\E t \in texts : TextNext(t))
  /\ \A d \in Docs : WF_vars(TimePasses(d))

FairSpec == Spec /\ Fairness

\* Every accepted document is eventually completed or failed, even if every
\* worker that accepts it dies: the lease lapses and the budget runs out.
EverySubmissionSettles ==
  \A d \in Docs : row[d].status = "queued" ~> row[d].status \in Terminal

-----------------------------------------------------------------------------
(* What the documents promise and the code does not do.                    *)

\* PDF_TEXT_EXTRACTION.md: in auto mode a PDF without usable text is routed to
\* the existing OCR queue, that is, some worker gets to claim it (unless it
\* settles without one).
FallbackReachesOCR ==
  \A d \in Docs :
    (row[d].kind = "auto" /\ row[d].status = "queued")
      ~> (row[d].status \in Terminal \/ sched.doc = d)

\* PDF_TEXT_EXTRACTION.md: a text-mode PDF fails instead of invoking OCR.
TextModeNeverInvokesOCR == \A j \in jobs : row[j.doc].kind # "text"

\* TECH_DESIGN.md, "Worker callback": on completion the result JSON is in object
\* storage.
CompletedResultStored ==
  \A d \in Docs : row[d].status = "completed" => row[d].attempt \in objects

=============================================================================
