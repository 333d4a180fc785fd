---------------------- MODULE DocumentOwnershipProofs ----------------------
(***************************************************************************)
(* Who may act for a document: proofs about DocumentLifecycle that rest on *)
(* the ownership of attempts.                                              *)
(*                                                                         *)
(* An attempt id is handed on, never copied: from the claim to a text      *)
(* extraction, or to the dispatch that is about to be sent, from there to  *)
(* one job, and from the job to one event.  So whoever releases a row or   *)
(* settles it cannot pull it from under somebody else's work (Apart).      *)
(* RowFate says what one step can make of one row and who can have done    *)
(* it; the safety invariants follow from the two.                          *)
(***************************************************************************)
EXTENDS DocumentLifecycleProofs

\* One job or event per attempt.
WorkApart ==
  /\ \A i, j \in jobs : i.attempt = j.attempt => i = j
  /\ \A b, c \in callbacks : b.attempt = c.attempt => b = c
  /\ \A j \in jobs, c \in callbacks : j.attempt # c.attempt

\* What a text extraction works on was never dispatched.
TextsApart ==
  \A t \in texts, w \in jobs \cup callbacks : t.attempt # w.attempt

\* What is about to be dispatched was not dispatched before.
PresignApart ==
  sched.pc = "presign" =>
    \A w \in jobs \cup callbacks \cup texts : w.attempt # sched.attempt

\* A poll fails only attempts whose lease has lapsed for good.
TodoLapsed == \A s \in sched.todo : s.attempt \in lapsed

Apart == WorkApart /\ TextsApart /\ PresignApart /\ TodoLapsed

-----------------------------------------------------------------------------
(* What one step makes of one row, and on whose behalf.                    *)

\* Those who may put the row of attempt a back into the queue.
Returner(a) ==
  \/ sched.pc = "presign" /\ sched.attempt = a
  \/ \E j \in jobs : j.attempt = a /\ j.pc = "rejected"
  \/ \E t \in texts : t.attempt = a

\* Those who may settle it, and how.
Settler(d, a, status, event) ==
  \/ /\ event = "proxy" /\ status = "failed"
     /\ \/ sched.pc = "presign" /\ sched.attempt = a
        \/ \E s \in sched.todo : s.attempt = a
  \/ event = "text" /\ \E t \in texts : t.attempt = a
  \/ event = "native" /\ [doc |-> d, attempt |-> a, ok |-> status = "completed"] \in callbacks

Created(d) ==
  /\ row[d].status = "none"
  /\ row'[d].status = "queued" /\ row'[d].attempt = NoAttempt /\ row'[d].event = "none"

Taken(d) ==
  /\ Claimable(d)
  /\ row'[d].status = "processing"
  /\ \E a \in Attempts : Fresh(a) /\ row'[d].attempt = a
  /\ row'[d].event = row[d].event /\ row'[d].kind = row[d].kind

Returned(d) ==
  /\ row[d].status = "processing" /\ Returner(row[d].attempt)
  /\ row'[d].status = "queued" /\ row'[d].attempt = NoAttempt
  /\ row'[d].event = row[d].event /\ row'[d].kind = row[d].kind

Settled(d) ==
  /\ row[d].status = "processing"
  /\ row'[d].status \in Terminal
  /\ Settler(d, row[d].attempt, row'[d].status, row'[d].event)
  /\ row'[d].attempt = row[d].attempt /\ row'[d].kind = row[d].kind

Fate(d) == row'[d] = row[d] \/ Created(d) \/ Taken(d) \/ Returned(d) \/ Settled(d)

LEMMA CreateFate ==
  ASSUME StoreInv, NEW e \in Docs, NEW k, CreateWithQuota(e, k)
  PROVE  \A d \in Docs : Fate(d)
BY DEF CreateWithQuota, StoreInv, Fate, Created

LEMMA ClaimFate ==
  ASSUME StoreInv, NEW e \in Docs, NEW a \in Attempts, Fresh(a), Claimable(e), Claim(e, a)
  PROVE  \A d \in Docs : Fate(d)
<1>1. row \in [Docs -> Row]
  BY SoundRowIsTyped DEF StoreTypeOK
<1>2. row' = [row EXCEPT ![e] = [row[e] EXCEPT !.status = "processing", !.attempt = a,
                                               !.count = @ + 1]]
  BY DEF Claim
<1>3. /\ row'[e].status = "processing" /\ row'[e].attempt = a
      /\ row'[e].event = row[e].event /\ row'[e].kind = row[e].kind
      /\ \A d \in Docs : d # e => row'[d] = row[d]
  BY <1>1, <1>2 DEF Row
<1> QED BY <1>3 DEF Fate, Taken

LEMMA ReturnFate ==
  ASSUME StoreInv, NEW e \in Docs, NEW a \in Attempts, Returner(a),
         RequeueAttempt(e, a) \/ ReleaseAttempt(e, a)
  PROVE  \A d \in Docs : Fate(d)
<1>1. row \in [Docs -> Row]
  BY SoundRowIsTyped DEF StoreTypeOK
<1>2. CASE ~Holds(e, a)
  BY <1>2 DEF RequeueAttempt, ReleaseAttempt, Fate
<1>3. CASE Holds(e, a)
  <2>1. /\ row'[e].status = "queued" /\ row'[e].attempt = NoAttempt
        /\ row'[e].event = row[e].event /\ row'[e].kind = row[e].kind
        /\ \A d \in Docs : d # e => row'[d] = row[d]
    BY <1>1, <1>3 DEF RequeueAttempt, ReleaseAttempt, Row
  <2> QED BY <1>3, <2>1 DEF Holds, Fate, Returned
<1> QED BY <1>2, <1>3

LEMMA SettleFate ==
  ASSUME StoreInv, NEW e \in Docs, NEW a \in Attempts, NEW s \in Terminal, NEW v,
         NEW refund, Settler(e, a, s, v), FinalizeAttempt(e, a, s, v, refund)
  PROVE  \A d \in Docs : Fate(d)
<1>1. row \in [Docs -> Row]
  BY SoundRowIsTyped DEF StoreTypeOK
<1>2. CASE ~Holds(e, a)
  BY <1>2 DEF FinalizeAttempt, Fate
<1>3. CASE Holds(e, a)
  <2>1. /\ row'[e].status = s /\ row'[e].attempt = a /\ row[e].attempt = a
        /\ row'[e].event = v /\ row'[e].kind = row[e].kind
        /\ \A d \in Docs : d # e => row'[d] = row[d]
    BY <1>1, <1>3 DEF FinalizeAttempt, Holds, Row
  <2> QED BY <1>3, <2>1 DEF Holds, Fate, Settled
<1> QED BY <1>2, <1>3

LEMMA SchedulerFate ==
  ASSUME Inv, SchedulerNext
  PROVE  \A d \in Docs : Fate(d)
<1> USE DEF Inv
<1>1. ASSUME NEW s \in sched.todo, FailExhausted(s)
      PROVE  \A d \in Docs : Fate(d)
  <2>1. s.doc \in Docs /\ s.attempt \in Attempts
    BY DEF ProcessTypeOK, Snapshot
  <2>2. Settler(s.doc, s.attempt, "failed", "proxy")
    BY DEF Settler
  <2> QED BY <1>1, <2>1, <2>2, SettleFate DEF FailExhausted, Terminal
<1>2. CASE ClaimNextForText
  BY <1>2, ClaimFate DEF ClaimNextForText, IsHead, TextClaimable
<1>3. ASSUME NEW caps \in Capabilities, NEW fits \in BOOLEAN, ClaimNextForWorker(caps, fits)
      PROVE  \A d \in Docs : Fate(d)
  BY <1>3, ClaimFate DEF ClaimNextForWorker, IsHead, WorkerClaimable
<1>4. CASE PresignFails
  <2>1. sched.doc \in Docs /\ sched.attempt \in Attempts
    BY <1>4 DEF PresignFails, SnapshotIsCurrent
  <2>2. Settler(sched.doc, sched.attempt, "failed", "proxy") /\ Returner(sched.attempt)
    BY <1>4 DEF PresignFails, Settler, Returner
  <2> QED BY <1>4, <2>1, <2>2, SettleFate, ReturnFate DEF PresignFails, Terminal
<1>5. CASE DispatchRefused \/ AckRejected
  <2>1. sched.doc \in Docs /\ sched.attempt \in Attempts
    BY <1>5 DEF DispatchRefused, AckRejected, SnapshotIsCurrent
  <2>2. Returner(sched.attempt) /\ ReleaseAttempt(sched.doc, sched.attempt)
    BY <1>5 DEF DispatchRefused, AckRejected, Returner
  <2> QED BY <2>1, <2>2, ReturnFate
<1>6. CASE \/ PollStart \/ NoTextToClaim \/ NothingToDispatch \/ AssignFails \/ Dispatch
           \/ AckOrTimeout
  BY <1>6 DEF PollStart, NoTextToClaim, NothingToDispatch, AssignFails, Dispatch, Assign,
              AckOrTimeout, storeVars, Fate
<1> QED BY <1>1, <1>2, <1>3, <1>4, <1>5, <1>6 DEF SchedulerNext

LEMMA TextFate ==
  ASSUME Inv, NEW t \in texts, TextNext(t)
  PROVE  \A d \in Docs : Fate(d)
<1>1. t.doc \in Docs /\ t.attempt \in Attempts
  BY DEF Inv, ProcessTypeOK
<1>2. Returner(t.attempt) /\ \A s : Settler(t.doc, t.attempt, s, "text")
  BY DEF Returner, Settler
<1>3. ASSUME NEW s \in Terminal, FinalizeAttempt(t.doc, t.attempt, s, "text", FALSE)
      PROVE  \A d \in Docs : Fate(d)
  BY <1>1, <1>2, <1>3, SettleFate DEF Inv
<1>4. ASSUME ReleaseAttempt(t.doc, t.attempt)
      PROVE  \A d \in Docs : Fate(d)
  BY <1>1, <1>2, <1>4, ReturnFate DEF Inv
<1>5. ASSUME UNCHANGED storeVars
      PROVE  \A d \in Docs : Fate(d)
  BY <1>5 DEF storeVars, Fate
<1>6. "failed" \in Terminal /\ "completed" \in Terminal
  BY DEF Terminal
<1> QED BY <1>3, <1>4, <1>5, <1>6
        DEF TextNext, TextUnusable, TextStored, TextPutFails, TextFinalize, TextCache

LEMMA HandlerFate ==
  ASSUME Inv, NEW h \in Handlers, HandlerNext(h)
  PROVE  \A d \in Docs : Fate(d)
<1>1. CASE FinalizeCallback(h)
  <2> DEFINE c == handler[h].event
             s == IF c.ok THEN "completed" ELSE "failed"
  <2>1. c \in callbacks /\ c \in Callback
    BY <1>1 DEF FinalizeCallback, Inv, HandlerHasEvent, ProcessTypeOK
  <2>2. c.doc \in Docs /\ c.attempt \in Attempts /\ c.ok \in BOOLEAN
        /\ c = [doc |-> c.doc, attempt |-> c.attempt, ok |-> c.ok]
    BY <2>1 DEF Callback
  <2>3. FinalizeAttempt(c.doc, c.attempt, s, "native", FALSE)
    BY <1>1 DEF FinalizeCallback
  <2> HIDE DEF c
  <2>4. s \in Terminal /\ (s = "completed") = c.ok
    BY <2>2 DEF Terminal
  <2> HIDE DEF s
  <2>5. Settler(c.doc, c.attempt, s, "native")
    BY <2>1, <2>2, <2>4 DEF Settler
  <2> QED BY <2>2, <2>3, <2>4, <2>5, SettleFate DEF Inv
<1>2. CASE ~FinalizeCallback(h)
  BY <1>2 DEF HandlerNext, ReceiveCallback, PutResult, PutResultFails, UndoPut,
              CacheResult, CacheResultFails, storeVars, Fate
<1> QED BY <1>1, <1>2

LEMMA RowFate ==
  ASSUME Inv, [Next]_vars
  PROVE  \A d \in Docs : Fate(d)
<1>1. ASSUME NEW d \in Docs, NEW k \in Kinds, Submit(d, k)
      PROVE  \A e \in Docs : Fate(e)
  BY <1>1, CreateFate DEF Submit, Inv
<1>2. ASSUME row' = row
      PROVE  \A d \in Docs : Fate(d)
  BY <1>2 DEF Fate
<1>3. ASSUME NEW j \in jobs, WorkerNext(j)
      PROVE  row' = row
  BY <1>3 DEF WorkerNext, AcceptJob, RejectJob, LoseJob, ScanOutput, FinishJob, storeVars
<1>4. ASSUME \/ ResetQuota \/ (\E d \in Docs : TimePasses(d)) \/ Crash \/ UNCHANGED vars
             \/ \E c \in callbacks : DuplicateCallback(c)
      PROVE  row' = row
  BY <1>4 DEF ResetQuota, ResetDocUsed, TimePasses, LeaseLapses, Crash, DuplicateCallback,
              storeVars, vars
<1> QED BY <1>1, <1>2, <1>3, <1>4, SchedulerFate, TextFate, HandlerFate DEF Next

\* A lapsed lease never revives while somebody still names the attempt.
LEMMA LapseIsFinal ==
  ASSUME Inv, [Next]_vars, NEW a \in lapsed, ~Fresh(a)
  PROVE  a \in lapsed'
<1>1. StoreNext \/ UNCHANGED storeVars
  BY StepIsStatement
<1> QED BY <1>1 DEF StoreNext, storeVars, quotaVars, CreateWithQuota, ResetDocUsed, Claim,
           RequeueAttempt, ReleaseAttempt, FinalizeAttempt, Assign, LeaseLapses

LEMMA NamedIsNotFresh ==
  /\ \A j \in jobs : ~Fresh(j.attempt)
  /\ \A c \in callbacks : ~Fresh(c.attempt)
  /\ \A t \in texts : ~Fresh(t.attempt)
  /\ \A s \in sched.todo : ~Fresh(s.attempt)
BY DEF Fresh

-----------------------------------------------------------------------------
(* Attempts stay apart.                                                    *)

\* A step that adds no name and lists nobody keeps everybody apart.
LEMMA NothingNamed ==
  ASSUME Inv, Apart, [Next]_vars,
         UNCHANGED <<jobs, callbacks>>, texts' \subseteq texts,
         sched'.pc # "presign" \/ sched' = sched,
         sched'.todo \subseteq sched.todo
  PROVE  Apart'
<1>1. WorkApart'
  BY DEF Apart, WorkApart
<1>2. TextsApart' /\ PresignApart'
  BY DEF Apart, TextsApart, PresignApart
<1>3. TodoLapsed'
  BY LapseIsFinal, NamedIsNotFresh DEF Apart, TodoLapsed
<1> QED BY <1>1, <1>2, <1>3 DEF Apart

LEMMA IdleListsNobody ==
  /\ Idle.pc = "idle" /\ Idle.todo = {}
  /\ [Idle EXCEPT !.pc = "claim"].pc = "claim" /\ [Idle EXCEPT !.pc = "claim"].todo = {}
BY DEF Idle

LEMMA SchedulerApart ==
  ASSUME Inv, Apart, SchedulerNext
  PROVE  Apart'
<1> USE DEF Inv
<1>0. [Next]_vars
  BY DEF Next
<1>1. CASE PollStart
  <2>1. sched'.pc = "fail" /\ sched'.todo = Exhausted
    BY <1>1 DEF PollStart, Idle
  <2>2. UNCHANGED <<jobs, callbacks, texts, lapsed>>
    BY <1>1 DEF PollStart, workVars, storeVars
  <2>3. TodoLapsed'
    BY <2>1, <2>2 DEF TodoLapsed, Exhausted
  <2> QED BY <2>1, <2>2, <2>3 DEF Apart, WorkApart, TextsApart, PresignApart
<1>2. ASSUME NEW s \in sched.todo, FailExhausted(s)
      PROVE  Apart'
  <2>1. sched'.pc = "fail" /\ sched'.todo \subseteq sched.todo
        /\ UNCHANGED <<jobs, callbacks, texts>>
    BY <1>2 DEF FailExhausted, ProcessTypeOK, workVars
  <2> QED BY <1>0, <2>1, NothingNamed
<1>3. CASE ClaimNextForText
  <2>1. PICK d \in Docs, a \in Attempts :
          Fresh(a) /\ texts' = texts \cup {[doc |-> d, attempt |-> a, pc |-> "extract"]}
    BY <1>3 DEF ClaimNextForText
  <2>2. sched' = Idle /\ UNCHANGED <<jobs, callbacks>>
    BY <1>3 DEF ClaimNextForText, workVars
  <2>3. TextsApart'
    BY <2>1, <2>2 DEF Apart, TextsApart, Fresh
  <2> QED BY <2>2, <2>3, IdleListsNobody DEF Apart, WorkApart, PresignApart, TodoLapsed
<1>4. ASSUME NEW caps \in Capabilities, NEW fits \in BOOLEAN, ClaimNextForWorker(caps, fits)
      PROVE  Apart'
  <2>1. PICK a \in Attempts :
          Fresh(a) /\ sched'.attempt = a /\ sched'.todo = {}
    BY <1>4 DEF ClaimNextForWorker
  <2>2. UNCHANGED <<jobs, callbacks, texts>>
    BY <1>4 DEF ClaimNextForWorker, workVars
  <2>3. PresignApart'
    BY <2>1, <2>2 DEF PresignApart, Fresh
  <2> QED BY <2>1, <2>2, <2>3 DEF Apart, WorkApart, TextsApart, TodoLapsed
<1>5. CASE Dispatch
  <2> DEFINE j == [doc |-> sched.doc, attempt |-> sched.attempt, pc |-> "sent"]
  <2>1. jobs' = jobs \cup {j} /\ sched'.pc = "ack" /\ sched'.todo = sched.todo
        /\ UNCHANGED <<callbacks, texts, lapsed>>
    BY <1>5 DEF Dispatch, Assign, ProcessTypeOK
  <2>2. j.attempt = sched.attempt
        /\ \A w \in jobs \cup callbacks \cup texts : w.attempt # sched.attempt
    BY <1>5 DEF Dispatch, Apart, PresignApart
  <2> HIDE DEF j
  <2>3. WorkApart' /\ TextsApart'
    BY <2>1, <2>2 DEF Apart, WorkApart, TextsApart
  <2> QED BY <2>1, <2>3 DEF Apart, PresignApart, TodoLapsed
<1>6. CASE AckRejected
  <2>1. sched' = Idle /\ jobs' \subseteq jobs /\ UNCHANGED <<callbacks, texts>>
    BY <1>6 DEF AckRejected
  <2> QED BY <2>1, IdleListsNobody DEF Apart, WorkApart, TextsApart, PresignApart, TodoLapsed
<1>7. CASE \/ NoTextToClaim \/ NothingToDispatch \/ PresignFails \/ DispatchRefused
           \/ AssignFails \/ AckOrTimeout
  <2>1. sched'.pc # "presign" /\ sched'.todo = {} /\ UNCHANGED <<jobs, callbacks, texts>>
    BY <1>7, IdleListsNobody DEF NoTextToClaim, NothingToDispatch, PresignFails, DispatchRefused,
       AssignFails, AckOrTimeout, workVars
  <2> QED BY <1>0, <2>1, NothingNamed
<1> QED BY <1>1, <1>2, <1>3, <1>4, <1>5, <1>6, <1>7 DEF SchedulerNext

LEMMA TextApart ==
  ASSUME Inv, Apart, NEW t \in texts, TextNext(t)
  PROVE  Apart'
<1>0. [Next]_vars
  BY DEF Next
<1>1. CASE TextStep(t, {})
  <2>1. UNCHANGED <<jobs, callbacks, sched>>
    BY DEF TextNext, TextUnusable, TextStored, TextPutFails, TextFinalize, TextCache, workVars
  <2> QED BY <1>0, <1>1, <2>1, NothingNamed DEF TextStep
<1>2. ASSUME NEW pc, TextStep(t, {[t EXCEPT !.pc = pc]})
      PROVE  Apart'
  <2> DEFINE u == [t EXCEPT !.pc = pc]
  <2>1. UNCHANGED <<jobs, callbacks, sched>>
    BY DEF TextNext, TextUnusable, TextStored, TextPutFails, TextFinalize, TextCache, workVars
  <2>2. u.attempt = t.attempt
    BY DEF Inv, ProcessTypeOK
  <2>3. texts' = (texts \ {t}) \cup {u}
    BY <1>2 DEF TextStep
  <2> HIDE DEF u
  <2>4. \A v \in texts' : \E w \in texts : v.attempt = w.attempt
    BY <2>2, <2>3
  <2>5. TextsApart' /\ PresignApart'
    BY <2>1, <2>4 DEF Apart, TextsApart, PresignApart
  <2>6. TodoLapsed'
    BY <1>0, <2>1, LapseIsFinal, NamedIsNotFresh DEF Apart, TodoLapsed
  <2> QED BY <2>1, <2>5, <2>6 DEF Apart, WorkApart
<1> QED BY <1>1, <1>2 DEF TextNext, TextUnusable, TextStored, TextPutFails, TextFinalize, TextCache

LEMMA WorkerApart ==
  ASSUME Inv, Apart, NEW j \in jobs, WorkerNext(j)
  PROVE  Apart'
<1>1. UNCHANGED <<sched, texts, lapsed>>
  BY DEF WorkerNext, AcceptJob, RejectJob, LoseJob, ScanOutput, FinishJob, memVars, storeVars
<1>2. ASSUME NEW pc, JobStep(j, {[j EXCEPT !.pc = pc]}), callbacks' = callbacks
      PROVE  Apart'
  <2> DEFINE i == [j EXCEPT !.pc = pc]
  <2>1. i.attempt = j.attempt
    BY DEF Inv, ProcessTypeOK
  <2>2. jobs' = (jobs \ {j}) \cup {i}
    BY <1>2 DEF JobStep
  <2> HIDE DEF i
  <2>3. WorkApart' /\ TextsApart'
    BY <1>1, <1>2, <2>1, <2>2 DEF Apart, WorkApart, TextsApart
  <2>4. PresignApart' /\ TodoLapsed'
    BY <1>1, <1>2, <2>1, <2>2 DEF Apart, PresignApart, TodoLapsed
  <2> QED BY <2>3, <2>4 DEF Apart
<1>3. CASE LoseJob(j)
  BY <1>1, <1>3 DEF LoseJob, JobStep, Apart, WorkApart, TextsApart, PresignApart, TodoLapsed
<1>4. ASSUME NEW ok \in BOOLEAN, FinishJob(j, ok)
      PROVE  Apart'
  <2> DEFINE c == [doc |-> j.doc, attempt |-> j.attempt, ok |-> ok]
  <2>1. c.attempt = j.attempt
    OBVIOUS
  <2>2. jobs' = jobs \ {j} /\ callbacks' = callbacks \cup {c}
    BY <1>4 DEF FinishJob, JobStep
  <2> HIDE DEF c
  <2>3. WorkApart' /\ TextsApart'
    BY <1>1, <2>1, <2>2 DEF Apart, WorkApart, TextsApart
  <2>4. PresignApart' /\ TodoLapsed'
    BY <1>1, <2>1, <2>2 DEF Apart, PresignApart, TodoLapsed
  <2> QED BY <2>3, <2>4 DEF Apart
<1> QED BY <1>2, <1>3, <1>4 DEF WorkerNext, AcceptJob, RejectJob, ScanOutput

LEMMA ApartKept ==
  ASSUME Inv, Apart, [Next]_vars
  PROVE  Apart'
<1>1. CASE Crash
  <2>1. sched'.pc # "presign" /\ sched'.todo = {} /\ texts' = {} /\ UNCHANGED <<jobs, callbacks>>
    BY <1>1, IdleListsNobody DEF Crash, workVars
  <2> QED BY <2>1, NothingNamed
<1>2. ASSUME UNCHANGED <<sched, texts, jobs, callbacks>>
      PROVE  Apart'
  BY <1>2, NothingNamed
<1>3. ASSUME NEW h \in Handlers, HandlerNext(h)
      PROVE  Apart'
  BY <1>2, <1>3 DEF HandlerNext, ReceiveCallback, PutResult, PutResultFails, FinalizeCallback,
     UndoPut, CacheResult, CacheResultFails, workVars
<1> QED BY <1>1, <1>2, <1>3, SchedulerApart, TextApart, WorkerApart
        DEF Next, Submit, ResetQuota, DuplicateCallback, TimePasses, memVars, workVars, vars

-----------------------------------------------------------------------------
(* Work and its rows.                                                      *)

\* Jobs and events of a step come from jobs and events, or from a dispatch to
\* the attempt that holds the row.
LEMMA WorkComesFrom ==
  ASSUME Inv, [Next]_vars
  PROVE  /\ \A j \in jobs' :
              \/ \E i \in jobs : /\ i.doc = j.doc /\ i.attempt = j.attempt
                                 /\ j.pc # "rejected" => i.pc # "rejected"
              \/ Holds(j.doc, j.attempt) /\ j.doc \in Docs /\ row' = row
         /\ \A c \in callbacks' :
              \/ c \in callbacks
              \/ \E i \in jobs : /\ i.doc = c.doc /\ i.attempt = c.attempt
                                 /\ i.pc # "rejected"
                                 /\ row' = row /\ lapsed' = lapsed
<1> USE DEF Inv
<1>1. CASE jobs' \subseteq jobs /\ callbacks' = callbacks
  BY <1>1
<1>2. CASE Dispatch
  BY <1>2 DEF Dispatch, Assign, SnapshotIsCurrent
<1>3. ASSUME NEW j \in jobs, WorkerNext(j)
      PROVE  /\ \A i \in jobs' :
                  \E k \in jobs : /\ k.doc = i.doc /\ k.attempt = i.attempt
                                  /\ i.pc # "rejected" => k.pc # "rejected"
             /\ \A c \in callbacks' :
                  \/ c \in callbacks
                  \/ \E i \in jobs : /\ i.doc = c.doc /\ i.attempt = c.attempt
                                     /\ i.pc # "rejected"
                                     /\ row' = row /\ lapsed' = lapsed
  <2>1. ASSUME NEW pc, j.pc # "rejected", JobStep(j, {[j EXCEPT !.pc = pc]}),
               callbacks' = callbacks
        PROVE  /\ \A i \in jobs' :
                    \E k \in jobs : /\ k.doc = i.doc /\ k.attempt = i.attempt
                                    /\ i.pc # "rejected" => k.pc # "rejected"
               /\ callbacks' \subseteq callbacks
    BY <2>1 DEF JobStep, ProcessTypeOK
  <2>2. CASE AcceptJob(j) \/ RejectJob(j) \/ ScanOutput(j)
    BY <2>1, <2>2 DEF AcceptJob, RejectJob, ScanOutput
  <2>3. CASE LoseJob(j)
    BY <2>3 DEF LoseJob, JobStep
  <2>4. ASSUME NEW ok \in BOOLEAN, FinishJob(j, ok)
        PROVE  /\ jobs' \subseteq jobs
               /\ \A c \in callbacks' :
                    \/ c \in callbacks
                    \/ /\ j.doc = c.doc /\ j.attempt = c.attempt /\ j.pc # "rejected"
                       /\ row' = row /\ lapsed' = lapsed
    BY <2>4 DEF FinishJob, JobStep, storeVars
  <2> QED BY <1>3, <2>2, <2>3, <2>4 DEF WorkerNext
<1>4. CASE SchedulerNext /\ ~Dispatch
  BY <1>1, <1>4 DEF SchedulerNext, PollStart, FailExhausted, ClaimNextForText, NoTextToClaim,
     ClaimNextForWorker, NothingToDispatch, PresignFails, DispatchRefused, AssignFails,
     AckOrTimeout, AckRejected, workVars
<1>5. ASSUME NEW t \in texts, TextNext(t)
      PROVE  jobs' = jobs /\ callbacks' = callbacks
  BY <1>5 DEF TextNext, TextUnusable, TextStored, TextPutFails, TextFinalize, TextCache, workVars
<1>6. ASSUME NEW h \in Handlers, HandlerNext(h)
      PROVE  jobs' = jobs /\ callbacks' = callbacks
  BY <1>6 DEF HandlerNext, ReceiveCallback, PutResult, PutResultFails, FinalizeCallback,
     UndoPut, CacheResult, CacheResultFails, workVars
<1>7. ASSUME \/ \E d \in Docs, k \in Kinds : Submit(d, k)
             \/ \E c \in callbacks : DuplicateCallback(c)
             \/ \E d \in Docs : TimePasses(d)
             \/ ResetQuota \/ Crash \/ UNCHANGED vars
      PROVE  jobs' = jobs /\ callbacks' = callbacks
  BY <1>7 DEF Submit, ResetQuota, DuplicateCallback, Crash, TimePasses, workVars, vars
<1> QED BY <1>1, <1>2, <1>3, <1>4, <1>5, <1>6, <1>7 DEF Next

\* Nobody who may put a row back into the queue shares its attempt with work
\* under way or done.
LEMMA ReturnersHaveNoWork ==
  ASSUME Apart, NEW a, Returner(a)
  PROVE  /\ \A j \in jobs : j.pc # "rejected" => j.attempt # a
         /\ \A c \in callbacks : c.attempt # a
<1>1. CASE sched.pc = "presign" /\ sched.attempt = a
  BY <1>1 DEF Apart, PresignApart
<1>2. CASE \E j \in jobs : j.attempt = a /\ j.pc = "rejected"
  BY <1>2 DEF Apart, WorkApart
<1>3. CASE \E t \in texts : t.attempt = a
  BY <1>3 DEF Apart, TextsApart
<1> QED BY <1>1, <1>2, <1>3 DEF Returner

\* A row is settled over a job's head only when the job's lease has lapsed.
LEMMA SettlersSpareJobs ==
  ASSUME Apart, NEW j \in jobs, NEW s, NEW e, Settler(j.doc, j.attempt, s, e)
  PROVE  j.attempt \in lapsed
<1>1. CASE sched.pc = "presign" /\ sched.attempt = j.attempt
  BY <1>1 DEF Apart, PresignApart
<1>2. CASE \E t \in sched.todo : t.attempt = j.attempt
  BY <1>2 DEF Apart, TodoLapsed
<1>3. CASE \E t \in texts : t.attempt = j.attempt
  BY <1>3 DEF Apart, TextsApart
<1>4. CASE [doc |-> j.doc, attempt |-> j.attempt, ok |-> s = "completed"] \in callbacks
  BY <1>4 DEF Apart, WorkApart
<1> QED BY <1>1, <1>2, <1>3, <1>4 DEF Settler

LEMMA HeldByJobKept ==
  ASSUME Inv, Apart, NoParallelRun, [Next]_vars, NEW j \in jobs, j.pc # "rejected"
  PROVE  Holds(j.doc, j.attempt)' \/ j.attempt \in lapsed'
<1> DEFINE d == j.doc
           a == j.attempt
<1>1. d \in Docs /\ a \in Attempts /\ ~Fresh(a)
  BY NamedIsNotFresh DEF Inv, ProcessTypeOK
<1>2. CASE a \in lapsed
  BY <1>1, <1>2, LapseIsFinal
<1>3. CASE Holds(d, a) /\ a \notin lapsed
  <2>1. row[d].status = "processing" /\ row[d].attempt = a
    BY <1>3 DEF Holds
  <2>2. ~Returned(d)
    BY <2>1, ReturnersHaveNoWork DEF Returned
  <2>3. ~Settled(d)
    BY <1>3, <2>1, SettlersSpareJobs DEF Settled
  <2>4. ~Created(d) /\ ~Taken(d)
    BY <1>3, <2>1 DEF Created, Taken, Claimable
  <2>5. row'[d] = row[d]
    BY <1>1, <2>2, <2>3, <2>4, RowFate DEF Fate
  <2> QED BY <2>1, <2>5 DEF Holds
<1> QED BY <1>2, <1>3 DEF NoParallelRun

LEMMA NoParallelRunKept ==
  ASSUME Inv, Apart, NoParallelRun, [Next]_vars
  PROVE  NoParallelRun'
<1> SUFFICES ASSUME NEW j \in jobs', j.pc # "rejected"
             PROVE  Holds(j.doc, j.attempt)' \/ j.attempt \in lapsed'
  BY DEF NoParallelRun, Holds
<1>1. CASE \E i \in jobs : i.doc = j.doc /\ i.attempt = j.attempt /\ i.pc # "rejected"
  BY <1>1, HeldByJobKept DEF Holds
<1>2. CASE Holds(j.doc, j.attempt) /\ row' = row
  BY <1>2 DEF Holds
<1> QED BY <1>1, <1>2, WorkComesFrom

\* Work finished: its attempt still names the row, active or settled.
Names(c) == row[c.doc].attempt = c.attempt /\ row[c.doc].status \in {"processing"} \cup Terminal

LEMMA LiveWorkAcceptedKept ==
  ASSUME Inv, Apart, NoParallelRun, LiveWorkAccepted, [Next]_vars
  PROVE  LiveWorkAccepted'
<1> SUFFICES ASSUME NEW c \in callbacks'
             PROVE  c.attempt \in lapsed' \/ Names(c)'
  BY DEF LiveWorkAccepted, Names
<1>1. CASE \E i \in jobs : /\ i.doc = c.doc /\ i.attempt = c.attempt /\ i.pc # "rejected"
                           /\ row' = row /\ lapsed' = lapsed
  BY <1>1 DEF NoParallelRun, Holds, Names
<1>2. CASE c \in callbacks
  <2> DEFINE d == c.doc
  <2>1. d \in Docs /\ c.attempt \in Attempts /\ ~Fresh(c.attempt)
    BY <1>2, NamedIsNotFresh DEF Inv, ProcessTypeOK, Callback
  <2>2. CASE c.attempt \in lapsed
    BY <2>1, <2>2, LapseIsFinal
  <2>3. CASE Names(c) /\ c.attempt \notin lapsed
    <3>1. ~Created(d) /\ ~Taken(d)
      BY <2>3 DEF Created, Taken, Claimable, Names, Terminal
    <3>2. ~Returned(d)
      BY <1>2, <2>3, ReturnersHaveNoWork DEF Returned, Names
    <3>3. CASE Settled(d)
      BY <2>3, <3>3 DEF Settled, Names
    <3>4. CASE row'[d] = row[d]
      BY <2>3, <3>4 DEF Names
    <3> QED BY <2>1, <3>1, <3>2, <3>3, <3>4, RowFate DEF Fate
  <2> QED BY <1>2, <2>2, <2>3 DEF LiveWorkAccepted, Names
<1> QED BY <1>1, <1>2, WorkComesFrom

-----------------------------------------------------------------------------
(* Outcomes and acknowledgements.                                          *)

\* The scheduler settles a document only to give it up.
ProxyFails == \A d \in Docs : row[d].event = "proxy" => row[d].status = "failed"

\* A row that some worker's attempt names was not settled by text extraction.
WorkNotText ==
  \A w \in jobs \cup callbacks :
    row[w.doc].attempt = w.attempt => row[w.doc].event # "text"

\* A handler that fills the cache has settled the row under its own event.
CachingSettled ==
  \A h \in Handlers :
    handler[h].pc = "cache" =>
      /\ row[handler[h].event.doc].attempt = handler[h].event.attempt
      /\ row[handler[h].event.doc].status = "completed"

Evidence == ProxyFails /\ WorkNotText /\ CachingSettled /\ OutcomeHasEvidence /\ AckedIsSettled

LEMMA ActiveRowHasNoEvent ==
  ASSUME StoreInv, NEW d \in Docs, row[d].status \in {"queued", "processing"}
  PROVE  row[d].event = "none"
BY DEF StoreInv, SoundRow, Terminal

LEMMA SettledStays ==
  ASSUME Inv, [Next]_vars, NEW d \in Docs, row[d].status \in Terminal
  PROVE  row'[d] = row[d]
BY RowFate DEF Fate, Created, Taken, Returned, Settled, Claimable, Terminal

LEMMA EventsAndCacheGrow ==
  ASSUME [Next]_vars
  PROVE  callbacks \subseteq callbacks' /\ cache \subseteq cache'
<1>1. ASSUME NEW j \in jobs, WorkerNext(j)
      PROVE  callbacks \subseteq callbacks' /\ cache \subseteq cache'
  BY <1>1 DEF WorkerNext, AcceptJob, RejectJob, LoseJob, ScanOutput, FinishJob, dataVars
<1>2. ASSUME NEW h \in Handlers, HandlerNext(h)
      PROVE  callbacks \subseteq callbacks' /\ cache \subseteq cache'
  BY <1>2 DEF HandlerNext, ReceiveCallback, PutResult, PutResultFails, FinalizeCallback, UndoPut,
     CacheResult, CacheResultFails, workVars, dataVars
<1>3. CASE SchedulerNext
  BY <1>3 DEF SchedulerNext, PollStart, FailExhausted, ClaimNextForText, NoTextToClaim,
     ClaimNextForWorker, NothingToDispatch, PresignFails, DispatchRefused, AssignFails,
     Dispatch, AckOrTimeout, AckRejected, workVars, dataVars
<1>4. ASSUME NEW t \in texts, TextNext(t)
      PROVE  callbacks \subseteq callbacks' /\ cache \subseteq cache'
  BY <1>4 DEF TextNext, TextUnusable, TextStored, TextPutFails, TextFinalize, TextCache,
     workVars, dataVars
<1>5. ASSUME \/ \E d \in Docs, k \in Kinds : Submit(d, k)
             \/ \E c \in callbacks : DuplicateCallback(c)
             \/ \E d \in Docs : TimePasses(d)
             \/ ResetQuota \/ Crash \/ UNCHANGED vars
      PROVE  callbacks \subseteq callbacks' /\ cache \subseteq cache'
  BY <1>5 DEF Submit, ResetQuota, DuplicateCallback, Crash, TimePasses, workVars, dataVars, vars
<1> QED BY <1>1, <1>2, <1>3, <1>4, <1>5 DEF Next

LEMMA ProxyFailsKept ==
  ASSUME Inv, ProxyFails, [Next]_vars
  PROVE  ProxyFails'
<1> SUFFICES ASSUME NEW d \in Docs, row'[d].event = "proxy"
             PROVE  row'[d].status = "failed"
  BY DEF ProxyFails
<1>1. CASE Taken(d) \/ Returned(d)
  BY <1>1, ActiveRowHasNoEvent DEF Taken, Returned, Claimable, Inv
<1>2. CASE Settled(d)
  BY <1>2 DEF Settled, Settler
<1> QED BY <1>1, <1>2, RowFate DEF Fate, Created, ProxyFails

LEMMA WorkNotTextKept ==
  ASSUME Inv, Apart, WorkNotText, [Next]_vars
  PROVE  WorkNotText'
<1>1. ASSUME NEW w \in jobs \cup callbacks, row'[w.doc].attempt = w.attempt
      PROVE  row'[w.doc].event # "text"
  <2> DEFINE d == w.doc
  <2>1. d \in Docs /\ w.attempt \in Attempts /\ ~Fresh(w.attempt)
    BY NamedIsNotFresh DEF Inv, ProcessTypeOK, Callback
  <2>2. ~Created(d) /\ ~Returned(d)
    BY <1>1, <2>1, NoAttemptAssumption DEF Created, Returned
  <2>3. ~Taken(d)
    <3>1. ASSUME NEW a \in Attempts, Fresh(a), row'[d].attempt = a
          PROVE  FALSE
      <4>1. a = w.attempt
        BY <1>1, <3>1
      <4> QED BY <2>1, <3>1, <4>1
    <3> QED BY <3>1 DEF Taken
  <2>4. CASE Settled(d)
    BY <1>1, <2>4 DEF Settled, Settler, Apart, TextsApart
  <2>5. CASE row'[d] = row[d]
    BY <1>1, <2>5 DEF WorkNotText
  <2> QED BY <2>1, <2>2, <2>3, <2>4, <2>5, RowFate DEF Fate
<1>2. ASSUME NEW d \in Docs, NEW a, Holds(d, a), row' = row
      PROVE  row'[d].event # "text"
  BY <1>2, ActiveRowHasNoEvent DEF Holds, Inv
<1> SUFFICES ASSUME NEW w \in jobs' \cup callbacks', row'[w.doc].attempt = w.attempt
             PROVE  row'[w.doc].event # "text"
  BY DEF WorkNotText
<1>3. CASE w \in jobs'
  BY <1>1, <1>2, <1>3, WorkComesFrom
<1>4. CASE w \in callbacks'
  BY <1>1, <1>4, WorkComesFrom
<1> QED BY <1>3, <1>4

LEMMA CachingSettledKept ==
  ASSUME Inv, CachingSettled, [Next]_vars
  PROVE  CachingSettled'
<1> SUFFICES ASSUME NEW h \in Handlers, handler'[h].pc = "cache"
             PROVE  /\ row'[handler'[h].event.doc].attempt = handler'[h].event.attempt
                    /\ row'[handler'[h].event.doc].status = "completed"
  BY DEF CachingSettled
<1>1. CASE handler'[h] = handler[h]
  <2>1. handler[h].event.doc \in Docs
    BY <1>1 DEF Inv, HandlerHasEvent, ProcessTypeOK, Callback
  <2> QED BY <1>1, <2>1, SettledStays DEF CachingSettled, Terminal
<1>2. CASE FinalizeCallback(h)
  <2> DEFINE c == handler[h].event
  <2>1. c.doc \in Docs
    BY <1>2 DEF FinalizeCallback, Inv, HandlerHasEvent, ProcessTypeOK, Callback
  <2>2. c.ok /\ Holds(c.doc, c.attempt) /\ handler'[h].event = c
    BY <1>2 DEF FinalizeCallback, HandlerStep, HandlerDone, Waiting, Inv, ProcessTypeOK
  <2>3. row' = [row EXCEPT ![c.doc].status = "completed", ![c.doc].event = "native"]
    BY <1>2, <2>2 DEF FinalizeCallback, FinalizeAttempt
  <2>4. row \in [Docs -> Row]
    BY SoundRowIsTyped DEF Inv, StoreTypeOK
  <2>5. row'[c.doc].status = "completed" /\ row'[c.doc].attempt = c.attempt
    BY <2>1, <2>2, <2>3, <2>4 DEF Row, Holds
  <2> QED BY <2>2, <2>5
<1>3. ASSUME NEW g \in Handlers, HandlerNext(g)
      PROVE  handler'[h] = handler[h] \/ FinalizeCallback(h)
  <2>1. CASE g # h
    BY <1>3, <2>1 DEF HandlerNext, ReceiveCallback, PutResult, PutResultFails, FinalizeCallback,
       UndoPut, CacheResult, CacheResultFails, HandlerStep, HandlerDone, Inv, ProcessTypeOK
  <2>2. CASE g = h
    BY <1>3, <2>2 DEF HandlerNext, ReceiveCallback, PutResult, PutResultFails, UndoPut,
       CacheResult, CacheResultFails, HandlerStep, HandlerDone, Waiting, Inv, ProcessTypeOK
  <2> QED BY <2>1, <2>2
<1>4. ~Crash
  BY DEF Crash, Waiting
<1>5. ASSUME NEW j \in jobs, WorkerNext(j)
      PROVE  handler' = handler
  BY <1>5 DEF WorkerNext, AcceptJob, RejectJob, LoseJob, ScanOutput, FinishJob, memVars
<1>6. ASSUME SchedulerNext
      PROVE  handler' = handler
  BY <1>6 DEF SchedulerNext, PollStart, FailExhausted, ClaimNextForText, NoTextToClaim,
     ClaimNextForWorker, NothingToDispatch, PresignFails, DispatchRefused, AssignFails,
     Dispatch, AckOrTimeout, AckRejected
<1>7. ASSUME NEW t \in texts, TextNext(t)
      PROVE  handler' = handler
  BY <1>7 DEF TextNext, TextUnusable, TextStored, TextPutFails, TextFinalize, TextCache
<1>8. ASSUME \/ \E d \in Docs, k \in Kinds : Submit(d, k)
             \/ \E c \in callbacks : DuplicateCallback(c)
             \/ \E d \in Docs : TimePasses(d)
             \/ ResetQuota \/ UNCHANGED vars
      PROVE  handler' = handler
  BY <1>8 DEF Submit, ResetQuota, DuplicateCallback, TimePasses, memVars, vars
<1> QED BY <1>1, <1>2, <1>3, <1>4, <1>5, <1>6, <1>7, <1>8 DEF Next

LEMMA OutcomeHasEvidenceKept ==
  ASSUME Inv, OutcomeHasEvidence, [Next]_vars
  PROVE  OutcomeHasEvidence'
<1> SUFFICES ASSUME NEW d \in Docs, row'[d].event = "native"
             PROVE  [doc |-> d, attempt |-> row'[d].attempt,
                     ok |-> row'[d].status = "completed"] \in callbacks
  BY EventsAndCacheGrow DEF OutcomeHasEvidence
<1>1. CASE Taken(d) \/ Returned(d)
  BY <1>1, ActiveRowHasNoEvent DEF Taken, Returned, Claimable, Inv
<1>2. CASE Settled(d)
  BY <1>2 DEF Settled, Settler
<1> QED BY <1>1, <1>2, RowFate DEF Fate, Created, OutcomeHasEvidence

\* A completed row that an event's attempt names was completed by that event:
\* no other event has the attempt, and neither the scheduler nor the extractor
\* completes it.
LEMMA CompletedByItsEvent ==
  ASSUME Inv, Apart, Evidence, NEW c \in callbacks,
         row[c.doc].attempt = c.attempt, row[c.doc].status = "completed"
  PROVE  c.ok
<1>1. c.doc \in Docs /\ c \in Callback
  BY DEF Inv, ProcessTypeOK, Callback
<1>2. row[c.doc] \in SoundRow
  BY <1>1 DEF Inv, StoreInv
<1>3. row[c.doc].event = "native"
  BY <1>1, <1>2 DEF SoundRow, Row, Terminal, Evidence, ProxyFails, WorkNotText
<1> DEFINE e == [doc |-> c.doc, attempt |-> c.attempt, ok |-> row[c.doc].status = "completed"]
<1>4. e \in callbacks /\ e.attempt = c.attempt
  BY <1>1, <1>3 DEF Evidence, OutcomeHasEvidence
<1>5. e.ok
  OBVIOUS
<1> HIDE DEF e
<1> QED BY <1>4, <1>5 DEF Apart, WorkApart

Answered(c) ==
  /\ row[c.doc].status \in Terminal
  /\ row[c.doc].attempt = c.attempt
  /\ (row[c.doc].status = "completed" /\ IsOCR(c)) => c.doc \in cache

LEMMA AckedIsSettledKept ==
  ASSUME Inv, Apart, Evidence, [Next]_vars
  PROVE  AckedIsSettled'
<1> USE DEF Inv
<1>0. callbacks \subseteq Callback /\ acked \subseteq callbacks
  BY DEF ProcessTypeOK
<1>1. ASSUME NEW c \in acked
      PROVE  Answered(c)'
  <2>1. Answered(c) /\ c.doc \in Docs
    BY <1>0 DEF Evidence, AckedIsSettled, Answered, Callback
  <2>2. row'[c.doc] = row[c.doc]
    BY <2>1, SettledStays DEF Answered
  <2> QED BY <2>1, <2>2, EventsAndCacheGrow DEF Answered, IsOCR
<1>2. ASSUME NEW c \in callbacks, DuplicateCallback(c)
      PROVE  acked' = acked \/ (acked' = acked \cup {c} /\ Answered(c)')
  <2>1. row' = row
    BY <1>2 DEF DuplicateCallback, storeVars
  <2>2. row[c.doc].status \in Terminal /\ row[c.doc].attempt = c.attempt
    BY <1>2 DEF DuplicateCallback
  <2>3. CASE row[c.doc].status = "completed" /\ c.ok /\ IsOCR(c)
    BY <1>2, <2>1, <2>2, <2>3 DEF DuplicateCallback, Answered
  <2>4. CASE ~(row[c.doc].status = "completed" /\ c.ok /\ IsOCR(c))
    <3>1. acked' = acked \cup {c}
      BY <1>2, <2>4 DEF DuplicateCallback
    <3>2. ~(row[c.doc].status = "completed" /\ IsOCR(c))
      BY <2>2, <2>4, CompletedByItsEvent
    <3> QED BY <2>1, <2>2, <3>1, <3>2 DEF Answered, IsOCR
  <2> QED BY <2>3, <2>4
<1>3. ASSUME NEW h \in Handlers, FinalizeCallback(h)
      PROVE  acked' = acked \/ \E c \in callbacks : acked' = acked \cup {c} /\ Answered(c)'
  <2>1. PICK c \in callbacks : c = handler[h].event
    BY <1>3 DEF FinalizeCallback, HandlerHasEvent
  <2>2. CASE ~Holds(c.doc, c.attempt) \/ (c.ok /\ IsOCR(c))
    BY <1>3, <2>1, <2>2 DEF FinalizeCallback
  <2>3. CASE Holds(c.doc, c.attempt) /\ ~(c.ok /\ IsOCR(c))
    <3> DEFINE s == IF c.ok THEN "completed" ELSE "failed"
    <3>1. acked' = acked \cup {c}
      BY <1>3, <2>1, <2>3 DEF FinalizeCallback
    <3>2. row' = [row EXCEPT ![c.doc].status = s, ![c.doc].event = "native"]
      BY <1>3, <2>1, <2>3 DEF FinalizeCallback, FinalizeAttempt
    <3>3. row \in [Docs -> Row] /\ c.doc \in Docs
      BY <1>0, SoundRowIsTyped DEF StoreTypeOK, Callback
    <3> HIDE DEF s
    <3>4. row'[c.doc].status = s /\ row'[c.doc].attempt = c.attempt
          /\ row'[c.doc].kind = row[c.doc].kind
      BY <2>3, <3>2, <3>3 DEF Row, Holds
    <3>5. Answered(c)'
      BY <2>3, <3>4 DEF Answered, IsOCR, Terminal, s
    <3> QED BY <3>1, <3>5
  <2> QED BY <2>2, <2>3
<1>4. ASSUME NEW h \in Handlers, CacheResult(h)
      PROVE  \E c \in callbacks : acked' = acked \cup {c} /\ Answered(c)'
  <2>1. PICK c \in callbacks : c = handler[h].event
    BY <1>4 DEF CacheResult, HandlerHasEvent
  <2>2. row' = row /\ acked' = acked \cup {c} /\ c.doc \in cache'
    BY <1>4, <2>1 DEF CacheResult, storeVars
  <2>3. Answered(c)'
    BY <1>4, <2>1, <2>2 DEF CacheResult, Evidence, CachingSettled, Answered, Terminal
  <2> QED BY <2>2, <2>3
<1>5. acked' = acked \/ \E c \in callbacks : acked' = acked \cup {c} /\ Answered(c)'
  <2>1. ASSUME NEW h \in Handlers, HandlerNext(h), ~FinalizeCallback(h), ~CacheResult(h)
        PROVE  acked' = acked
    BY <2>1 DEF HandlerNext, ReceiveCallback, PutResult, PutResultFails, UndoPut,
       CacheResultFails, workVars
  <2>2. ASSUME NEW j \in jobs, WorkerNext(j)
        PROVE  acked' = acked
    BY <2>2 DEF WorkerNext, AcceptJob, RejectJob, LoseJob, ScanOutput, FinishJob
  <2>3. ASSUME SchedulerNext
        PROVE  acked' = acked
    BY <2>3 DEF SchedulerNext, PollStart, FailExhausted, ClaimNextForText, NoTextToClaim,
       ClaimNextForWorker, NothingToDispatch, PresignFails, DispatchRefused, AssignFails,
       Dispatch, AckOrTimeout, AckRejected, workVars
  <2>4. ASSUME NEW t \in texts, TextNext(t)
        PROVE  acked' = acked
    BY <2>4 DEF TextNext, TextUnusable, TextStored, TextPutFails, TextFinalize, TextCache, workVars
  <2>5. ASSUME \/ \E d \in Docs, k \in Kinds : Submit(d, k)
               \/ \E d \in Docs : TimePasses(d)
               \/ ResetQuota \/ Crash \/ UNCHANGED vars
        PROVE  acked' = acked
    BY <2>5 DEF Submit, ResetQuota, TimePasses, Crash, workVars, vars
  <2> QED BY <1>2, <1>3, <1>4, <2>1, <2>2, <2>3, <2>4, <2>5 DEF Next
<1> QED BY <1>1, <1>5 DEF AckedIsSettled, Answered, IsOCR

-----------------------------------------------------------------------------
(* The theorems.                                                           *)

Ownership == Apart /\ NoParallelRun /\ LiveWorkAccepted /\ Evidence

LEMMA InitOwnership == ASSUME Init PROVE Ownership
<1>1. Apart
  BY DEF Init, Apart, WorkApart, TextsApart, PresignApart, TodoLapsed, Idle
<1>2. \A d \in Docs : row[d].event = "none"
  BY DEF Init, StoreInit, NoRow
<1>3. \A h \in Handlers : handler[h].pc = "idle"
  BY DEF Init, Waiting
<1> QED BY <1>1, <1>2, <1>3 DEF Init, Ownership, NoParallelRun, LiveWorkAccepted, Evidence,
           ProxyFails, WorkNotText, CachingSettled, OutcomeHasEvidence, AckedIsSettled

\* Every attempt has one owner at a time, and what its owner does is what the
\* rows, the events and the acknowledgements say of it.
THEOREM OwnershipInvariance == Spec => []Ownership
<1>1. Init => Ownership
  BY InitOwnership
<1>2. Inv /\ Ownership /\ [Next]_vars => Ownership'
  BY ApartKept, NoParallelRunKept, LiveWorkAcceptedKept, ProxyFailsKept, WorkNotTextKept,
     CachingSettledKept, OutcomeHasEvidenceKept, AckedIsSettledKept DEF Ownership, Evidence
<1> QED BY <1>1, <1>2, Invariance, PTL DEF Spec

\* No document is in the hands of two workers while a lease is live, however
\* many workers, polls, lost acknowledgements and crashes there are: only a
\* rejected job, a text extraction or a dispatch that was never sent gives a
\* row back before its lease has lapsed.
THEOREM NoParallelRuns == Spec => []NoParallelRun
<1>1. Ownership => NoParallelRun
  BY DEF Ownership
<1> QED BY <1>1, OwnershipInvariance, PTL

\* An event that a worker produced within its lease always finds its attempt
\* on the row, active or settled: HandleNativeEvent has no reason to refuse it.
THEOREM LiveWorkIsAccepted == Spec => []LiveWorkAccepted
<1>1. Ownership => LiveWorkAccepted
  BY DEF Ownership
<1> QED BY <1>1, OwnershipInvariance, PTL

\* A document settled by a worker's event has the outcome that this very
\* attempt reported.
THEOREM OutcomesHaveEvidence == Spec => []OutcomeHasEvidence
<1>1. Ownership => OutcomeHasEvidence
  BY DEF Ownership, Evidence
<1> QED BY <1>1, OwnershipInvariance, PTL

\* A 200 "acknowledged" is never premature: the document has settled under the
\* event's attempt for good, and OCR text it completed with is in Redis.
THEOREM AcksAreSettled == Spec => []AckedIsSettled
<1>1. Ownership => AckedIsSettled
  BY DEF Ownership, Evidence
<1> QED BY <1>1, OwnershipInvariance, PTL
=============================================================================
