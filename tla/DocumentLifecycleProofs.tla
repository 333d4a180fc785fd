---------------------- MODULE DocumentLifecycleProofs ----------------------
(***************************************************************************)
(* Proofs about DocumentLifecycle for every number of documents, attempts, *)
(* handlers, crashes and every retry budget.                               *)
(*                                                                         *)
(* The argument has two halves.  Every step of the system changes the      *)
(* stored tables by at most one statement, called with arguments that are  *)
(* listed in StoreNext (lemma StepIsStatement); what the statements        *)
(* preserve is then proved statement by statement, without regard to who   *)
(* executed it.                                                            *)
(***************************************************************************)
EXTENDS DocumentLifecycle, FiniteSetTheorems, TLAPS

USE NumDocsAssumption, MaxAttemptsAssumption, DocQuotaAssumption,
    MaxResetsAssumption, KindsAssumption, NoAttemptAssumption, MaxCrashesAssumption

Events == {"native", "text", "proxy"}

\* The statements and the arguments the system calls them with.
StoreNext ==
  \/ \E d \in Docs, k \in Kinds : CreateWithQuota(d, k)
  \/ ResetDocUsed
  \/ \E d \in Docs, a \in Attempts : Fresh(a) /\ Claimable(d) /\ Claim(d, a)
  \/ \E d \in Docs, a \in Attempts :
       /\ Holds(d, a) => row[d].count < MaxAttempts
       /\ RequeueAttempt(d, a)
  \/ \E d \in Docs, a \in Attempts : ReleaseAttempt(d, a)
  \/ \E d \in Docs, a \in Attempts, s \in Terminal, e \in Events :
       /\ e = "proxy" => s = "failed"
       /\ FinalizeAttempt(d, a, s, e, e = "proxy")
  \/ \E d \in Docs, a \in Attempts : Assign(d, a)
  \/ \E d \in Docs : LeaseLapses(d)

\* A row between statements: within its retry budget, with an attempt once it
\* has been claimed, and with a terminal event exactly when it is terminal.
SoundRow ==
  {r \in Row :
     /\ r.status = "queued" => r.count < MaxAttempts
     /\ r.status = "processing" => r.count \in 1 .. MaxAttempts
     /\ r.status \in {"processing"} \cup Terminal => r.attempt \in Attempts
     /\ r.event # "none" <=> r.status \in Terminal}

StoreInv ==
  /\ row \in [Docs -> SoundRow]
  /\ docUsed \in Nat
  /\ resets \in 0 .. MaxResets
  /\ lapsed \subseteq Attempts
  /\ routes \subseteq Attempts

\* The scheduler's snapshot of the document it dispatches: as long as its
\* attempt holds the row, the count it read at the claim is the row's.
SnapshotIsCurrent ==
  sched.pc \in {"presign", "ack"} =>
    /\ sched.doc \in Docs
    /\ sched.attempt \in Attempts
    /\ Holds(sched.doc, sched.attempt) => row[sched.doc].count = sched.count

\* A handler past its first check works on an event some worker produced.
HandlerHasEvent ==
  \A h \in Handlers : handler[h].pc # "idle" => handler[h].event \in callbacks

Inv == StoreInv /\ ProcessTypeOK /\ SnapshotIsCurrent /\ HandlerHasEvent

-----------------------------------------------------------------------------
(* Every statement keeps every row sound.                                  *)

LEMMA CreateSound ==
  ASSUME StoreInv, NEW d \in Docs, NEW k \in Kinds, CreateWithQuota(d, k)
  PROVE  StoreInv'
<1> DEFINE r == [kind |-> k, status |-> "queued", attempt |-> NoAttempt,
                 count |-> 0, event |-> "none"]
<1>1. k \in AllKinds
  OBVIOUS
<1>2. r \in Row
  BY <1>1 DEF Row
<1>3. r \in SoundRow
  BY <1>2 DEF SoundRow, Terminal
<1>4. row' = [row EXCEPT ![d] = r] /\ docUsed' = docUsed + 1
      /\ resets' = resets /\ lapsed' = lapsed /\ routes' = routes
  BY DEF CreateWithQuota, quotaVars
<1> HIDE DEF r
<1> QED BY <1>3, <1>4 DEF StoreInv

LEMMA ClaimSound ==
  ASSUME StoreInv, NEW d \in Docs, NEW a \in Attempts, Claimable(d), Claim(d, a)
  PROVE  StoreInv'
<1> DEFINE n == row[d].count + 1
           r == [row[d] EXCEPT !.status = "processing", !.attempt = a, !.count = n]
<1>1. row[d] \in SoundRow
  BY DEF StoreInv
<1>2. row[d] \in Row /\ row[d].count < MaxAttempts /\ row[d].event = "none"
  BY <1>1 DEF Claimable, SoundRow, Terminal
<1>3. n \in 1 .. MaxAttempts /\ n \in 0 .. MaxAttempts
  BY <1>2 DEF Row
<1>4. row' = [row EXCEPT ![d] = r] /\ UNCHANGED <<docUsed, resets>>
      /\ lapsed' = lapsed \ {a} /\ routes' = routes \ {a}
  BY DEF Claim, quotaVars
<1> HIDE DEF n
<1>5. r \in SoundRow
  BY <1>2, <1>3 DEF SoundRow, Row, Terminal
<1> HIDE DEF r
<1> QED BY <1>4, <1>5 DEF StoreInv

LEMMA RequeueSound ==
  ASSUME StoreInv, NEW d \in Docs, NEW a \in Attempts,
         Holds(d, a) => row[d].count < MaxAttempts,
         RequeueAttempt(d, a)
  PROVE  StoreInv'
<1> DEFINE r == [row[d] EXCEPT !.status = "queued", !.attempt = NoAttempt]
<1>1. row[d] \in SoundRow /\ UNCHANGED <<docUsed, resets, lapsed, routes>>
  BY DEF StoreInv, RequeueAttempt, quotaVars
<1>2. CASE Holds(d, a)
  <2>1. r \in SoundRow
    BY <1>1, <1>2 DEF Holds, SoundRow, Row, Terminal
  <2>2. row' = [row EXCEPT ![d] = r]
    BY <1>2 DEF RequeueAttempt
  <2> HIDE DEF r
  <2> QED BY <1>1, <2>1, <2>2 DEF StoreInv
<1>3. CASE ~Holds(d, a)
  BY <1>1, <1>3 DEF RequeueAttempt, StoreInv
<1> QED BY <1>2, <1>3

LEMMA ReleaseSound ==
  ASSUME StoreInv, NEW d \in Docs, NEW a \in Attempts, ReleaseAttempt(d, a)
  PROVE  StoreInv'
<1> DEFINE n == IF row[d].count > 0 THEN row[d].count - 1 ELSE 0
           r == [row[d] EXCEPT !.status = "queued", !.attempt = NoAttempt, !.count = n]
<1>1. row[d] \in SoundRow /\ UNCHANGED <<docUsed, resets, lapsed, routes>>
  BY DEF StoreInv, ReleaseAttempt, quotaVars
<1>2. CASE Holds(d, a)
  <2>1. row[d] \in Row /\ row[d].count \in 1 .. MaxAttempts /\ row[d].event = "none"
    BY <1>1, <1>2 DEF Holds, SoundRow, Terminal
  <2>2. n \in 0 .. MaxAttempts /\ n < MaxAttempts
    BY <2>1
  <2>3. row' = [row EXCEPT ![d] = r]
    BY <1>2 DEF ReleaseAttempt
  <2> HIDE DEF n
  <2>4. r \in SoundRow
    BY <2>1, <2>2 DEF SoundRow, Row, Terminal
  <2> HIDE DEF r
  <2> QED BY <1>1, <2>3, <2>4 DEF StoreInv
<1>3. CASE ~Holds(d, a)
  BY <1>1, <1>3 DEF ReleaseAttempt, StoreInv
<1> QED BY <1>2, <1>3

LEMMA FinalizeSound ==
  ASSUME StoreInv, NEW d \in Docs, NEW a \in Attempts, NEW s \in Terminal,
         NEW e \in Events, NEW refund \in BOOLEAN,
         FinalizeAttempt(d, a, s, e, refund)
  PROVE  StoreInv'
<1> DEFINE r == [row[d] EXCEPT !.status = s, !.event = e]
<1>1. row[d] \in SoundRow /\ docUsed' \in Nat /\ UNCHANGED <<resets, lapsed, routes>>
  BY DEF StoreInv, FinalizeAttempt
<1>2. CASE Holds(d, a)
  <2>1. r \in SoundRow
    BY <1>1, <1>2 DEF Holds, SoundRow, Row, Terminal, Events
  <2>2. row' = [row EXCEPT ![d] = r]
    BY <1>2 DEF FinalizeAttempt
  <2> HIDE DEF r
  <2> QED BY <1>1, <2>1, <2>2 DEF StoreInv
<1>3. CASE ~Holds(d, a)
  BY <1>1, <1>3 DEF FinalizeAttempt, StoreInv
<1> QED BY <1>2, <1>3

LEMMA LapseSound ==
  ASSUME StoreInv, NEW d \in Docs, LeaseLapses(d)
  PROVE  StoreInv'
<1>1. row[d] \in SoundRow
  BY DEF StoreInv
<1>2. row[d].attempt \in Attempts
  BY <1>1 DEF LeaseLapses, SoundRow
<1> QED BY <1>2 DEF LeaseLapses, StoreInv, quotaVars

LEMMA StatementSound ==
  ASSUME StoreInv, StoreNext \/ UNCHANGED storeVars
  PROVE  StoreInv'
<1>1. ASSUME NEW d \in Docs, NEW a \in Attempts, Assign(d, a)
      PROVE  StoreInv'
  BY <1>1 DEF Assign, StoreInv, quotaVars
<1>2. CASE UNCHANGED storeVars
  BY <1>2 DEF storeVars, quotaVars, StoreInv
<1>3. CASE ResetDocUsed
  BY <1>3 DEF ResetDocUsed, StoreInv
<1> QED BY <1>1, <1>2, <1>3, CreateSound, ClaimSound, RequeueSound, ReleaseSound,
           FinalizeSound, LapseSound DEF StoreNext

-----------------------------------------------------------------------------
(* Every step executes at most one statement, with the listed arguments.   *)

LEMMA SchedulerStatement ==
  ASSUME Inv, SchedulerNext
  PROVE  StoreNext \/ UNCHANGED storeVars
<1> USE DEF Inv
<1>1. ASSUME NEW s \in sched.todo, FailExhausted(s)
      PROVE  StoreNext
  <2>1. s.doc \in Docs /\ s.attempt \in Attempts
    BY DEF ProcessTypeOK, Snapshot
  <2>2. FinalizeAttempt(s.doc, s.attempt, "failed", "proxy", "proxy" = "proxy")
    BY <1>1 DEF FailExhausted
  <2> QED BY <2>1, <2>2 DEF StoreNext, Terminal, Events
<1>2. CASE ClaimNextForText
  BY <1>2 DEF ClaimNextForText, IsHead, TextClaimable, StoreNext
<1>3. ASSUME NEW caps \in Capabilities, NEW fits \in BOOLEAN, ClaimNextForWorker(caps, fits)
      PROVE  StoreNext
  BY <1>3 DEF ClaimNextForWorker, IsHead, WorkerClaimable, StoreNext
<1>4. CASE PresignFails
  <2>1. sched.doc \in Docs /\ sched.attempt \in Attempts
    BY <1>4 DEF PresignFails, SnapshotIsCurrent
  <2>2. CASE sched.count >= MaxAttempts
    <3>1. FinalizeAttempt(sched.doc, sched.attempt, "failed", "proxy", "proxy" = "proxy")
      BY <1>4, <2>2 DEF PresignFails
    <3> QED BY <2>1, <3>1 DEF StoreNext, Terminal, Events
  <2>3. CASE ~(sched.count >= MaxAttempts)
    <3>1. RequeueAttempt(sched.doc, sched.attempt)
      BY <1>4, <2>3 DEF PresignFails
    <3>2. Holds(sched.doc, sched.attempt) => row[sched.doc].count < MaxAttempts
      BY <1>4, <2>3 DEF PresignFails, SnapshotIsCurrent, ProcessTypeOK
    <3> QED BY <2>1, <3>1, <3>2 DEF StoreNext
  <2> QED BY <2>2, <2>3
<1>5. CASE DispatchRefused \/ AckRejected
  <2>1. sched.doc \in Docs /\ sched.attempt \in Attempts
    BY <1>5 DEF DispatchRefused, AckRejected, SnapshotIsCurrent
  <2>2. ReleaseAttempt(sched.doc, sched.attempt)
    BY <1>5 DEF DispatchRefused, AckRejected
  <2> QED BY <2>1, <2>2 DEF StoreNext
<1>6. CASE Dispatch
  BY <1>6 DEF Dispatch, SnapshotIsCurrent, StoreNext
<1>7. CASE PollStart \/ NoTextToClaim \/ NothingToDispatch \/ AssignFails \/ AckOrTimeout
  BY <1>7 DEF PollStart, NoTextToClaim, NothingToDispatch, AssignFails, AckOrTimeout
<1> QED BY <1>1, <1>2, <1>3, <1>4, <1>5, <1>6, <1>7 DEF SchedulerNext

LEMMA TextStatement ==
  ASSUME Inv, NEW t \in texts, TextNext(t)
  PROVE  StoreNext \/ UNCHANGED storeVars
<1>1. t.doc \in Docs /\ t.attempt \in Attempts
  BY DEF Inv, ProcessTypeOK
<1>2. ASSUME NEW s \in Terminal, FinalizeAttempt(t.doc, t.attempt, s, "text", FALSE)
      PROVE  StoreNext
  <2>1. FinalizeAttempt(t.doc, t.attempt, s, "text", "text" = "proxy")
    BY <1>2
  <2> QED BY <1>1, <2>1 DEF StoreNext, Events
<1>3. ASSUME ReleaseAttempt(t.doc, t.attempt)
      PROVE  StoreNext
  BY <1>1, <1>3 DEF StoreNext
<1>4. "failed" \in Terminal /\ "completed" \in Terminal
  BY DEF Terminal
<1> QED BY <1>2, <1>3, <1>4
        DEF TextNext, TextUnusable, TextStored, TextPutFails, TextFinalize, TextCache

LEMMA HandlerStatement ==
  ASSUME Inv, NEW h \in Handlers, HandlerNext(h)
  PROVE  StoreNext \/ UNCHANGED storeVars
<1>1. CASE FinalizeCallback(h)
  <2> DEFINE c == handler[h].event
             s == IF c.ok THEN "completed" ELSE "failed"
  <2>1. c.doc \in Docs /\ c.attempt \in Attempts
    BY <1>1 DEF FinalizeCallback, Inv, HandlerHasEvent, ProcessTypeOK, Callback
  <2>2. FinalizeAttempt(c.doc, c.attempt, s, "native", "native" = "proxy")
    BY <1>1 DEF FinalizeCallback
  <2>3. s \in Terminal
    BY DEF Terminal
  <2> HIDE DEF c, s
  <2> QED BY <2>1, <2>2, <2>3 DEF StoreNext, Events
<1>2. CASE ~FinalizeCallback(h)
  BY <1>2 DEF HandlerNext, ReceiveCallback, PutResult, PutResultFails, UndoPut,
              CacheResult, CacheResultFails
<1> QED BY <1>1, <1>2

LEMMA StepIsStatement ==
  ASSUME Inv, [Next]_vars
  PROVE  StoreNext \/ UNCHANGED storeVars
<1>1. ASSUME NEW d \in Docs, NEW k \in Kinds, Submit(d, k)
      PROVE  StoreNext
  BY <1>1 DEF Submit, StoreNext
<1>2. ASSUME NEW j \in jobs, WorkerNext(j)
      PROVE  UNCHANGED storeVars
  BY <1>2 DEF WorkerNext, AcceptJob, RejectJob, LoseJob, ScanOutput, FinishJob
<1>3. ASSUME NEW c \in callbacks, DuplicateCallback(c)
      PROVE  UNCHANGED storeVars
  BY <1>3 DEF DuplicateCallback
<1>4. ASSUME ResetQuota \/ \E d \in Docs : TimePasses(d)
      PROVE  StoreNext
  BY <1>4 DEF ResetQuota, TimePasses, StoreNext
<1>5. CASE Crash
  BY <1>5 DEF Crash
<1>6. CASE UNCHANGED vars
  BY <1>6 DEF vars
<1> QED BY <1>1, <1>2, <1>3, <1>4, <1>5, <1>6, SchedulerStatement, TextStatement,
           HandlerStatement DEF Next

-----------------------------------------------------------------------------
(* What the processes remember keeps its type.                             *)

LEMMA SoundRowIsTyped ==
  ASSUME StoreInv
  PROVE  StoreTypeOK /\ AttemptBudget
BY DEF StoreInv, StoreTypeOK, SoundRow, AttemptBudget

LEMMA ExhaustedTyped ==
  ASSUME StoreInv
  PROVE  Exhausted \subseteq Snapshot
<1>1. \A d \in Docs : row[d].attempt \in lapsed => row[d].attempt \in Attempts
  BY DEF StoreInv
<1> QED BY <1>1 DEF Exhausted, Snapshot

LEMMA SchedulerTyped ==
  ASSUME Inv, SchedulerNext
  PROVE  ProcessTypeOK'
<1> USE DEF Inv, ProcessTypeOK, workVars, dataVars
<1>1. Idle \in [pc      : {"idle", "fail", "claim", "presign", "ack"},
                todo    : SUBSET Snapshot,
                doc     : Docs \cup {NoDoc},
                attempt : Attempts \cup {NoAttempt},
                count   : 0 .. MaxAttempts]
  BY DEF Idle
<1>2. CASE PollStart
  BY <1>1, <1>2, ExhaustedTyped DEF PollStart
<1>3. ASSUME NEW s \in sched.todo, FailExhausted(s)
      PROVE  ProcessTypeOK'
  BY <1>3 DEF FailExhausted
<1>4. CASE ClaimNextForText
  BY <1>1, <1>4 DEF ClaimNextForText
<1>5. CASE NoTextToClaim
  BY <1>1, <1>5 DEF NoTextToClaim
<1>6. ASSUME NEW caps \in Capabilities, NEW fits \in BOOLEAN, ClaimNextForWorker(caps, fits)
      PROVE  ProcessTypeOK'
  <2>1. PICK d \in Docs, a \in Attempts :
          /\ IsHead(d, WorkerClaimable(caps, fits))
          /\ sched' = [pc |-> "presign", todo |-> {}, doc |-> d, attempt |-> a,
                       count |-> row[d].count + 1]
    BY <1>6 DEF ClaimNextForWorker
  <2>2. Claimable(d) /\ row[d] \in SoundRow
    BY <2>1 DEF IsHead, WorkerClaimable, StoreInv
  <2>3. row[d].count + 1 \in 0 .. MaxAttempts
    BY <2>2 DEF Claimable, SoundRow, Row
  <2> QED BY <1>6, <2>1, <2>3 DEF ClaimNextForWorker
<1>7. CASE NothingToDispatch \/ AssignFails \/ AckOrTimeout
  BY <1>1, <1>7 DEF NothingToDispatch, AssignFails, AckOrTimeout
<1>8. CASE PresignFails \/ DispatchRefused
  BY <1>1, <1>8 DEF PresignFails, DispatchRefused
<1>9. CASE Dispatch
  BY <1>9 DEF Dispatch, SnapshotIsCurrent
<1>10. CASE AckRejected
  BY <1>1, <1>10 DEF AckRejected
<1> QED BY <1>2, <1>3, <1>4, <1>5, <1>6, <1>7, <1>8, <1>9, <1>10 DEF SchedulerNext

LEMMA TextTyped ==
  ASSUME Inv, NEW t \in texts, TextNext(t)
  PROVE  ProcessTypeOK'
<1> USE DEF Inv, ProcessTypeOK, workVars, dataVars, TextStep
<1>1. CASE TextUnusable(t) \/ TextPutFails(t)
  BY <1>1 DEF TextUnusable, TextPutFails
<1>2. CASE TextStored(t)
  BY <1>2 DEF TextStored
<1>3. CASE TextFinalize(t)
  BY <1>3 DEF TextFinalize
<1>4. CASE TextCache(t)
  BY <1>4 DEF TextCache
<1> QED BY <1>1, <1>2, <1>3, <1>4 DEF TextNext

LEMMA WorkerTyped ==
  ASSUME Inv, NEW j \in jobs, WorkerNext(j)
  PROVE  ProcessTypeOK'
<1> USE DEF Inv, ProcessTypeOK, memVars, dataVars, JobStep
<1>1. CASE AcceptJob(j) \/ RejectJob(j) \/ LoseJob(j)
  BY <1>1 DEF AcceptJob, RejectJob, LoseJob
<1>2. CASE ScanOutput(j)
  BY <1>2 DEF ScanOutput
<1>3. ASSUME NEW ok \in BOOLEAN, FinishJob(j, ok)
      PROVE  ProcessTypeOK'
  <2>1. [doc |-> j.doc, attempt |-> j.attempt, ok |-> ok] \in Callback
    BY DEF Callback
  <2> QED BY <1>3, <2>1 DEF FinishJob
<1> QED BY <1>1, <1>2, <1>3 DEF WorkerNext

LEMMA HandlerTyped ==
  ASSUME Inv, NEW h \in Handlers, HandlerNext(h)
  PROVE  ProcessTypeOK'
<1> USE DEF Inv, ProcessTypeOK, workVars, HandlerStep, HandlerDone, Waiting
<1>1. CASE \E c \in callbacks : ReceiveCallback(h, c)
  BY <1>1 DEF ReceiveCallback, dataVars
<1>2. CASE PutResult(h)
  BY <1>2 DEF PutResult, HandlerHasEvent, Callback
<1>3. CASE PutResultFails(h) \/ CacheResultFails(h)
  BY <1>3 DEF PutResultFails, CacheResultFails, dataVars
<1>4. CASE FinalizeCallback(h)
  BY <1>4 DEF FinalizeCallback, HandlerHasEvent, dataVars
<1>5. CASE UndoPut(h)
  BY <1>5 DEF UndoPut
<1>6. CASE CacheResult(h)
  BY <1>6 DEF CacheResult, HandlerHasEvent, Callback
<1> QED BY <1>1, <1>2, <1>3, <1>4, <1>5, <1>6 DEF HandlerNext

LEMMA ProcessesTyped ==
  ASSUME Inv, [Next]_vars
  PROVE  ProcessTypeOK'
<1> USE DEF Inv, ProcessTypeOK, memVars, workVars, dataVars
<1>1. ASSUME NEW d \in Docs, NEW k \in Kinds, Submit(d, k)
      PROVE  ProcessTypeOK'
  BY <1>1 DEF Submit
<1>2. ASSUME NEW c \in callbacks, DuplicateCallback(c)
      PROVE  ProcessTypeOK'
  BY <1>2 DEF DuplicateCallback, Callback
<1>3. ASSUME ResetQuota \/ \E d \in Docs : TimePasses(d)
      PROVE  ProcessTypeOK'
  BY <1>3 DEF ResetQuota, TimePasses
<1>4. CASE Crash
  BY <1>4 DEF Crash, Idle, Waiting
<1>5. CASE UNCHANGED vars
  BY <1>5 DEF vars
<1> QED BY <1>1, <1>2, <1>3, <1>4, <1>5, SchedulerTyped, TextTyped, WorkerTyped,
           HandlerTyped DEF Next

-----------------------------------------------------------------------------
(* The scheduler's snapshot and the handlers' events stay valid.           *)

\* No statement gives a row to an attempt that somebody still names, and the
\* statements that leave a row to its attempt leave its count alone.
LEMMA HeldRowIsKept ==
  ASSUME StoreInv, StoreNext \/ UNCHANGED storeVars,
         NEW d \in Docs, NEW a \in Attempts, ~Fresh(a), Holds(d, a)'
  PROVE  Holds(d, a) /\ row'[d].count = row[d].count
<1> USE DEF StoreInv, Holds
<1>1. ASSUME NEW e \in Docs, NEW k \in Kinds, CreateWithQuota(e, k)
      PROVE  Holds(d, a) /\ row'[d].count = row[d].count
  BY <1>1 DEF CreateWithQuota
<1>2. ASSUME NEW e \in Docs, NEW b \in Attempts, Fresh(b), Claim(e, b)
      PROVE  Holds(d, a) /\ row'[d].count = row[d].count
  BY <1>2, SoundRowIsTyped DEF Claim, StoreTypeOK, Row
<1>3. ASSUME NEW e \in Docs, NEW b \in Attempts, RequeueAttempt(e, b)
      PROVE  Holds(d, a) /\ row'[d].count = row[d].count
  BY <1>3, SoundRowIsTyped DEF RequeueAttempt, StoreTypeOK, Row
<1>4. ASSUME NEW e \in Docs, NEW b \in Attempts, ReleaseAttempt(e, b)
      PROVE  Holds(d, a) /\ row'[d].count = row[d].count
  BY <1>4, SoundRowIsTyped DEF ReleaseAttempt, StoreTypeOK, Row
<1>5. ASSUME NEW e \in Docs, NEW b \in Attempts, NEW s \in Terminal, NEW v \in Events,
             FinalizeAttempt(e, b, s, v, v = "proxy")
      PROVE  Holds(d, a) /\ row'[d].count = row[d].count
  BY <1>5, SoundRowIsTyped DEF FinalizeAttempt, StoreTypeOK, Row, Terminal
<1>6. ASSUME row' = row
      PROVE  Holds(d, a) /\ row'[d].count = row[d].count
  BY <1>6
<1> QED BY <1>1, <1>2, <1>3, <1>4, <1>5, <1>6 DEF StoreNext, ResetDocUsed, Assign, LeaseLapses, storeVars

LEMMA SnapshotStaysCurrent ==
  ASSUME Inv, [Next]_vars
  PROVE  SnapshotIsCurrent'
<1> USE DEF Inv, SnapshotIsCurrent
<1>1. ASSUME sched'.doc = sched.doc, sched'.attempt = sched.attempt, sched'.count = sched.count,
             sched'.pc \in {"presign", "ack"} => sched.pc \in {"presign", "ack"}
      PROVE  SnapshotIsCurrent'
  <2> SUFFICES ASSUME sched'.pc \in {"presign", "ack"}
               PROVE  /\ sched.doc \in Docs
                      /\ sched.attempt \in Attempts
                      /\ Holds(sched.doc, sched.attempt)' =>
                           row'[sched.doc].count = sched.count
    BY <1>1 DEF Holds
  <2>1. sched.doc \in Docs /\ sched.attempt \in Attempts /\ ~Fresh(sched.attempt)
    BY <1>1 DEF Fresh
  <2>2. Holds(sched.doc, sched.attempt)' <=>
          row'[sched.doc].status = "processing" /\ row'[sched.doc].attempt = sched.attempt
    BY <1>1 DEF Holds
  <2> DEFINE d == sched.doc
             a == sched.attempt
  <2>3. ASSUME row'[d].status = "processing", row'[d].attempt = a
        PROVE  Holds(d, a) /\ row'[d].count = row[d].count
    BY <2>1, <2>3, HeldRowIsKept, StepIsStatement DEF Holds
  <2> QED BY <1>1, <2>1, <2>2, <2>3
<1>2. ASSUME sched'.pc \notin {"presign", "ack"}
      PROVE  SnapshotIsCurrent'
  BY <1>2
<1>3. CASE SchedulerNext
  <2>1. ASSUME NEW caps \in Capabilities, NEW fits \in BOOLEAN, ClaimNextForWorker(caps, fits)
        PROVE  SnapshotIsCurrent'
    BY <2>1, SoundRowIsTyped DEF ClaimNextForWorker, Claim, Holds, StoreTypeOK, Row
  <2>2. ASSUME NEW s \in sched.todo, FailExhausted(s)
        PROVE  SnapshotIsCurrent'
    BY <2>2, <1>2 DEF FailExhausted, ProcessTypeOK
  <2>3. CASE Dispatch
    BY <1>1, <2>3 DEF Dispatch, ProcessTypeOK
  <2>4. CASE \/ PollStart \/ ClaimNextForText \/ NoTextToClaim \/ NothingToDispatch
             \/ PresignFails \/ DispatchRefused \/ AssignFails \/ AckOrTimeout \/ AckRejected
    <3>1. Idle.pc = "idle"
      BY DEF Idle
    <3>2. [Idle EXCEPT !.pc = "fail", !.todo = Exhausted].pc = "fail"
      BY DEF Idle
    <3>3. [Idle EXCEPT !.pc = "claim"].pc = "claim"
      BY DEF Idle
    <3> QED BY <1>2, <2>4, <3>1, <3>2, <3>3 DEF PollStart, ClaimNextForText, NoTextToClaim,
               NothingToDispatch, PresignFails, DispatchRefused, AssignFails, AckOrTimeout,
               AckRejected
  <2> QED BY <1>3, <2>1, <2>2, <2>3, <2>4 DEF SchedulerNext
<1>4. CASE Crash
  BY <1>2, <1>4 DEF Crash, Idle
<1>5. CASE ~SchedulerNext /\ ~Crash
  <2>1. sched' = sched
    BY <1>5 DEF Next, Submit, ResetQuota, TextNext, TextUnusable, TextStored, TextPutFails, TextFinalize,
       TextCache, WorkerNext, AcceptJob, RejectJob, LoseJob, ScanOutput, FinishJob,
       DuplicateCallback, HandlerNext, ReceiveCallback, PutResult, PutResultFails,
       FinalizeCallback, UndoPut, CacheResult, CacheResultFails, TimePasses, memVars, vars
  <2> QED BY <1>1, <2>1
<1> QED BY <1>3, <1>4, <1>5

LEMMA HandlersKeepEvents ==
  ASSUME Inv, [Next]_vars
  PROVE  HandlerHasEvent'
<1> USE DEF Inv, HandlerHasEvent
<1>1. ASSUME handler' = handler, callbacks \subseteq callbacks'
      PROVE  HandlerHasEvent'
  BY <1>1
<1>2. ASSUME NEW h \in Handlers, HandlerNext(h)
      PROVE  HandlerHasEvent'
  <2>1. callbacks' = callbacks
    BY <1>2 DEF HandlerNext, ReceiveCallback, PutResult, PutResultFails, FinalizeCallback,
       UndoPut, CacheResult, CacheResultFails, workVars
  <2>2. CASE \E c \in callbacks : ReceiveCallback(h, c)
    BY <2>1, <2>2 DEF ReceiveCallback, ProcessTypeOK
  <2>3. CASE HandlerDone(h)
    BY <2>1, <2>3 DEF HandlerDone, Waiting, ProcessTypeOK
  <2>4. ASSUME NEW pc, HandlerStep(h, pc), handler[h].pc # "idle"
        PROVE  HandlerHasEvent'
    BY <2>1, <2>4 DEF HandlerStep, ProcessTypeOK
  <2> QED BY <1>2, <2>2, <2>3, <2>4 DEF HandlerNext, PutResult, PutResultFails,
             FinalizeCallback, UndoPut, CacheResult, CacheResultFails
<1>3. CASE Crash
  BY <1>3 DEF Crash, Waiting
<1>4. ASSUME NEW j \in jobs, WorkerNext(j)
      PROVE  HandlerHasEvent'
  BY <1>1, <1>4 DEF WorkerNext, AcceptJob, RejectJob, LoseJob, ScanOutput, FinishJob, memVars
<1>5. CASE SchedulerNext
  BY <1>1, <1>5 DEF SchedulerNext, PollStart, FailExhausted, ClaimNextForText, NoTextToClaim,
     ClaimNextForWorker, NothingToDispatch, PresignFails, DispatchRefused, AssignFails,
     Dispatch, AckOrTimeout, AckRejected, workVars
<1>6. ASSUME NEW t \in texts, TextNext(t)
      PROVE  HandlerHasEvent'
  BY <1>1, <1>6 DEF TextNext, TextUnusable, TextStored, TextPutFails, TextFinalize, TextCache,
     workVars
<1> QED BY <1>1, <1>2, <1>3, <1>4, <1>5, <1>6 DEF Next, Submit, ResetQuota, DuplicateCallback, TimePasses,
           memVars, workVars, vars

-----------------------------------------------------------------------------
(* The theorems.                                                           *)

LEMMA InitInv == ASSUME Init PROVE Inv
<1>1. StoreInv
  <2>1. NoRow \in SoundRow
    BY DEF NoRow, SoundRow, Row, Terminal
  <2> QED BY <2>1 DEF Init, StoreInit, StoreInv
<1>2. ProcessTypeOK
  BY DEF Init, ProcessTypeOK, Idle, Waiting
<1>3. SnapshotIsCurrent /\ HandlerHasEvent
  BY DEF Init, SnapshotIsCurrent, HandlerHasEvent, Idle, Waiting
<1> QED BY <1>1, <1>2, <1>3 DEF Inv

\* Between any two statements of scheduler, extraction and callbacks, every row
\* is sound and every retry decides on the count its row still has.
THEOREM Invariance == Spec => []Inv
<1>1. Init => Inv
  BY InitInv
<1>2. Inv /\ [Next]_vars => Inv'
  BY StepIsStatement, StatementSound, ProcessesTyped, SnapshotStaysCurrent,
     HandlersKeepEvents DEF Inv
<1> QED BY <1>1, <1>2, PTL DEF Spec

\* The stored tables and every process keep their types, whatever interleaves.
THEOREM TypeCorrect == Spec => []TypeOK
<1>1. Inv => TypeOK
  BY SoundRowIsTyped DEF Inv, TypeOK
<1> QED BY <1>1, Invariance, PTL

\* The retry budget holds for every PROCESSING_MAX_ATTEMPTS: claims, requeues,
\* releases and the scheduler's decision on a count it read earlier never let
\* a queued row be claimed beyond it.
THEOREM BudgetRespected == Spec => []AttemptBudget
<1>1. Inv => AttemptBudget
  BY SoundRowIsTyped DEF Inv
<1> QED BY <1>1, Invariance, PTL

-----------------------------------------------------------------------------
(* The quota counter.                                                      *)

LEMMA ChargedFinite == IsFiniteSet(Charged) /\ Cardinality(Charged) \in Nat
<1>1. IsFiniteSet(Docs)
  BY FS_Interval DEF Docs
<1>2. IsFiniteSet(Charged)
  BY <1>1, FS_Subset DEF Charged
<1> QED BY <1>2, FS_CardinalityType

LEMMA CreateCharges ==
  ASSUME StoreInv, QuotaMatchesRows, NEW d \in Docs, NEW k \in Kinds, CreateWithQuota(d, k)
  PROVE  QuotaMatchesRows'
<1>1. d \notin Charged /\ docUsed' = docUsed + 1 /\ resets' = resets
  BY DEF Charged, CreateWithQuota
<1>2. row'[d].status = "queued" /\ row'[d].event = "none"
      /\ \A e \in Docs : e # d => row'[e] = row[e]
  BY DEF StoreInv, CreateWithQuota
<1>3. Charged' = Charged \cup {d}
  BY <1>2 DEF Charged
<1>4. Cardinality(Charged \cup {d}) = Cardinality(Charged) + 1
  BY <1>1, ChargedFinite, FS_AddElement
<1> QED BY <1>1, <1>3, <1>4, ChargedFinite DEF StoreInv, QuotaMatchesRows

LEMMA FinalizeRefundsOnce ==
  ASSUME StoreInv, QuotaMatchesRows, NEW d \in Docs, NEW a \in Attempts,
         NEW s \in Terminal, NEW e \in Events, FinalizeAttempt(d, a, s, e, e = "proxy")
  PROVE  QuotaMatchesRows'
<1>1. CASE ~Holds(d, a)
  BY <1>1 DEF FinalizeAttempt, QuotaMatchesRows, Charged
<1>2. CASE Holds(d, a)
  <2>1. row[d] \in SoundRow
    BY DEF StoreInv
  <2>2. d \in Charged
    BY <1>2, <2>1 DEF Holds, SoundRow, Terminal, Charged
  <2>3. row' = [row EXCEPT ![d] = [row[d] EXCEPT !.status = s, !.event = e]]
    BY <1>2 DEF FinalizeAttempt
  <2>4. row'[d].status # "none" /\ row'[d].event = e
        /\ \A f \in Docs : f # d => row'[f] = row[f]
    BY <2>1, <2>3 DEF StoreInv, SoundRow, Row, Terminal
  <2>5. CASE e = "proxy"
    <3>1. Charged' = Charged \ {d}
      BY <2>4, <2>5 DEF Charged
    <3>2. Cardinality(Charged \ {d}) = Cardinality(Charged) - 1
      BY <2>2, ChargedFinite, FS_RemoveElement
    <3>3. Cardinality(Charged) > 0
      BY <2>2, ChargedFinite, FS_EmptySet
    <3>4. resets' = resets /\ docUsed' = IF docUsed > 0 THEN docUsed - 1 ELSE docUsed
      BY <1>2, <2>5 DEF FinalizeAttempt
    <3> QED BY <3>1, <3>2, <3>3, <3>4, ChargedFinite DEF StoreInv, QuotaMatchesRows
  <2>6. CASE e # "proxy"
    <3>1. Charged' = Charged
      BY <2>2, <2>4, <2>6 DEF Charged
    <3>2. docUsed' = docUsed /\ resets' = resets
      BY <2>6 DEF FinalizeAttempt
    <3> QED BY <3>1, <3>2 DEF QuotaMatchesRows
  <2> QED BY <2>5, <2>6
<1> QED BY <1>1, <1>2

LEMMA StatementKeepsQuota ==
  ASSUME StoreInv, QuotaMatchesRows, StoreNext \/ UNCHANGED storeVars
  PROVE  QuotaMatchesRows'
<1>1. ASSUME UNCHANGED quotaVars,
             \A d \in Docs : /\ row'[d].status = "none" <=> row[d].status = "none"
                             /\ row'[d].event = row[d].event
      PROVE  QuotaMatchesRows'
  <2>1. Charged' = Charged
    BY <1>1 DEF Charged
  <2> QED BY <1>1, <2>1 DEF quotaVars, QuotaMatchesRows
<1>2. row \in [Docs -> Row]
  BY SoundRowIsTyped DEF StoreTypeOK
<1>3. ASSUME NEW d \in Docs, NEW a \in Attempts, Claimable(d), Claim(d, a)
      PROVE  QuotaMatchesRows'
  BY <1>1, <1>2, <1>3 DEF Claimable, Claim, Row
<1>4. ASSUME NEW d \in Docs, NEW a \in Attempts, RequeueAttempt(d, a)
      PROVE  QuotaMatchesRows'
  BY <1>1, <1>2, <1>4 DEF RequeueAttempt, Holds, Row
<1>5. ASSUME NEW d \in Docs, NEW a \in Attempts, ReleaseAttempt(d, a)
      PROVE  QuotaMatchesRows'
  BY <1>1, <1>2, <1>5 DEF ReleaseAttempt, Holds, Row
<1>6. ASSUME UNCHANGED <<row, quotaVars>>
      PROVE  QuotaMatchesRows'
  BY <1>1, <1>6
<1>7. ASSUME ResetDocUsed
      PROVE  QuotaMatchesRows'
  <2>1. Charged' = Charged /\ resets' # 0 /\ docUsed' = 0
    BY <1>7 DEF ResetDocUsed, Charged, StoreInv
  <2> QED BY <2>1, ChargedFinite DEF QuotaMatchesRows
<1> QED BY <1>3, <1>4, <1>5, <1>6, <1>7, CreateCharges, FinalizeRefundsOnce
        DEF StoreNext, Assign, LeaseLapses, storeVars

\* doc_used is exact in every reachable state before an administrator resets it,
\* and never too high after: charged once per submission, refunded once per
\* infrastructure failure, whichever of a stale poll, a late callback, an
\* extraction or a crash comes in between.
THEOREM QuotaExact == Spec => []QuotaMatchesRows
<1>1. Init => QuotaMatchesRows
  <2>1. Init => Charged = {}
    BY DEF Init, StoreInit, NoRow, Charged
  <2> QED BY <2>1, FS_EmptySet DEF Init, StoreInit, QuotaMatchesRows
<1>2. Inv /\ QuotaMatchesRows /\ [Next]_vars => QuotaMatchesRows'
  BY StepIsStatement, StatementKeepsQuota DEF Inv
<1> QED BY <1>1, <1>2, Invariance, PTL DEF Spec

-----------------------------------------------------------------------------
(* The refinement.                                                         *)

StatusOf == [d \in Docs |-> row[d].status]

LEMMA StatementKeepsPromise ==
  ASSUME StoreInv, StoreNext \/ UNCHANGED storeVars
  PROVE  [Promise!Next]_Promise!vars
<1> SUFFICES Promise!Next \/ (StatusOf' = StatusOf /\ docUsed' = docUsed)
  BY DEF Promise!vars, StatusOf
<1> USE DEF Promise!Next, Promise!Submit, Promise!Claim, Promise!Requeue,
            Promise!Complete, Promise!Fail
<1>1. row \in [Docs -> Row]
  BY SoundRowIsTyped DEF StoreTypeOK
<1>2. ASSUME NEW d \in Docs, NEW k \in Kinds, CreateWithQuota(d, k)
      PROVE  Promise!Submit(d)
  BY <1>1, <1>2 DEF CreateWithQuota
<1>3. ASSUME NEW d \in Docs, NEW a \in Attempts, Claimable(d), Claim(d, a)
      PROVE  Promise!Claim(d) \/ (StatusOf' = StatusOf /\ docUsed' = docUsed)
  BY <1>1, <1>3 DEF Claimable, Claim, Row, StatusOf, quotaVars
<1>4. ASSUME NEW d \in Docs, NEW a \in Attempts, RequeueAttempt(d, a) \/ ReleaseAttempt(d, a)
      PROVE  Promise!Requeue(d) \/ (StatusOf' = StatusOf /\ docUsed' = docUsed)
  BY <1>1, <1>4 DEF RequeueAttempt, ReleaseAttempt, Holds, Row, StatusOf, quotaVars
<1>5. ASSUME NEW d \in Docs, NEW a \in Attempts, NEW s \in Terminal, NEW e \in Events,
             e = "proxy" => s = "failed", FinalizeAttempt(d, a, s, e, e = "proxy")
      PROVE  Promise!Complete(d) \/ Promise!Fail(d) \/ (StatusOf' = StatusOf /\ docUsed' = docUsed)
  BY <1>1, <1>5 DEF FinalizeAttempt, Holds, Row, Terminal, Events, StatusOf
<1>6. ASSUME UNCHANGED <<row, quotaVars>>
      PROVE  StatusOf' = StatusOf /\ docUsed' = docUsed
  BY <1>6 DEF StatusOf, quotaVars
<1>7. ASSUME ResetDocUsed
      PROVE  Promise!Reset
  BY <1>7 DEF ResetDocUsed, Promise!Reset
<1> QED BY <1>2, <1>3, <1>4, <1>5, <1>6, <1>7 DEF StoreNext, Assign, LeaseLapses, storeVars

\* The whole system implements the lifecycle it promises: a settled document
\* never changes, and a unit comes back only when a document fails.
THEOREM LifecycleRefinement == Spec => KeepsPromise
<1>1. Init => Promise!Init
  BY DEF Init, StoreInit, NoRow, Promise!Init
<1>2. Inv /\ [Next]_vars => [Promise!Next]_Promise!vars
  BY StepIsStatement, StatementKeepsPromise DEF Inv
<1> QED BY <1>1, <1>2, Invariance, PTL DEF Spec, KeepsPromise, Promise!Spec

=============================================================================
