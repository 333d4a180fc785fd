--------------------------- MODULE DocumentStore ---------------------------
(***************************************************************************)
(* The PostgreSQL side of a document's life: its row in `documents`, the   *)
(* account's `doc_used` counter and the rows of `native_worker_routes`.    *)
(* Each action below is one statement or one transaction of                *)
(* proxy/internal/repository/postgres; callers compose them with what they *)
(* do in memory, in object storage and in Redis.                           *)
(*                                                                         *)
(* Abstractions.  Documents are numbered in the order of created_at, and   *)
(* all belong to one account.  An attempt id stands for one generated      *)
(* att_* / att_text_* value.  A lease is not a time but membership: an     *)
(* attempt is in `lapsed` from the moment its processing_until has passed. *)
(* FOR UPDATE SKIP LOCKED is the statement run after the transaction that  *)
(* holds the lock, because every such transaction makes the row            *)
(* unclaimable.                                                            *)
(***************************************************************************)
EXTENDS Integers, FiniteSets

CONSTANTS
  NumDocs,      \* how many documents are ever submitted (bound)
  Attempts,     \* attempt ids; an id nobody refers to any more is reused
  NoAttempt,    \* attempt_id IS NULL
  Kinds,        \* which kinds of document this instance submits
  MaxAttempts,  \* PROCESSING_MAX_ATTEMPTS
  DocQuota,     \* account_configs.doc_quota, 0 for unlimited
  MaxResets     \* how often doc_used is reset (bound)

AllKinds == {"image", "pdf", "scan", "auto", "text"}

ASSUME NumDocsAssumption == NumDocs \in Nat
ASSUME MaxAttemptsAssumption == MaxAttempts \in Nat \ {0}
ASSUME DocQuotaAssumption == DocQuota \in Nat
ASSUME MaxResetsAssumption == MaxResets \in Nat
ASSUME KindsAssumption == Kinds \subseteq AllKinds
ASSUME NoAttemptAssumption == NoAttempt \notin Attempts

VARIABLES
  row,       \* documents: one record per document, status "none" before INSERT
  docUsed,   \* account_configs.doc_used
  resets,    \* how often an administrator has reset doc_used (history)
  lapsed,    \* attempts whose processing_until has passed
  routes     \* attempts with a row in native_worker_routes

quotaVars == <<docUsed, resets>>
storeVars == <<row, quotaVars, lapsed, routes>>

Docs == 1 .. NumDocs

Terminal == {"completed", "failed"}

\* terminal_event_id tells who finalized the attempt: a worker's event, the
\* text extractor (evt_text_*) or the scheduler (evt_proxy_*).
Row == [kind    : AllKinds \cup {"none"},
        status  : {"none", "queued", "processing"} \cup Terminal,
        attempt : Attempts \cup {NoAttempt},
        count   : 0 .. MaxAttempts,
        event   : {"none", "native", "text", "proxy"}]

NoRow == [kind |-> "none", status |-> "none", attempt |-> NoAttempt,
          count |-> 0, event |-> "none"]

StoreTypeOK ==
  /\ row \in [Docs -> Row]
  /\ docUsed \in Nat
  /\ resets \in 0 .. MaxResets
  /\ lapsed \subseteq Attempts
  /\ routes \subseteq Attempts

StoreInit ==
  /\ row = [d \in Docs |-> NoRow]
  /\ docUsed = 0
  /\ resets = 0
  /\ lapsed = {}
  /\ routes = {}

-----------------------------------------------------------------------------
IsPDF(k) == k \in {"pdf", "auto", "text"}

\* Faulty variants: the fence without the attempt, and without the status.
HoldsAnyAttempt(d, a) == row[d].status = "processing" /\ a \in Attempts
HoldsAnyStatus(d, a) == row[d].attempt = a

\* WHERE id=$1 AND status='processing' AND attempt_id=$2
Holds(d, a) == row[d].status = "processing" /\ row[d].attempt = a

\* Faulty variants: a claim that ignores the lease, or the attempt budget.
ClaimableLeased(d) ==
  \/ row[d].status = "queued"
  \/ row[d].status = "processing" /\ row[d].count < MaxAttempts
ClaimableOverBudget(d) ==
  \/ row[d].status = "queued"
  \/ row[d].status = "processing" /\ row[d].attempt \in lapsed

\* status='queued' OR (status='processing' AND processing_until<=now()
\* AND attempt_count<$3)
Claimable(d) ==
  \/ row[d].status = "queued"
  \/ /\ row[d].status = "processing"
     /\ row[d].attempt \in lapsed
     /\ row[d].count < MaxAttempts

TextClaimable == {d \in Docs : Claimable(d) /\ row[d].kind \in {"auto", "text"}}

\* A worker is admitted by capability and weight, not by processing mode.
WorkerClaimable(caps, pdfFits) ==
  {d \in Docs :
     /\ Claimable(d)
     /\ (IF row[d].kind = "scan" THEN "scan" ELSE "ocr") \in caps
     /\ IsPDF(row[d].kind) => pdfFits}

\* ORDER BY CASE WHEN status='queued' THEN 0 ELSE 1 END, created_at LIMIT 1
IsHead(d, S) ==
  /\ d \in S
  /\ \A e \in S :
       IF row[d].status = row[e].status THEN d <= e ELSE row[d].status = "queued"

-----------------------------------------------------------------------------
CreateWithQuota(d, k) ==
  /\ row[d].status = "none"
  /\ DocQuota = 0 \/ docUsed < DocQuota
  /\ row' = [row EXCEPT ![d] = [kind |-> k, status |-> "queued", attempt |-> NoAttempt,
                                 count |-> 0, event |-> "none"]]
  /\ docUsed' = docUsed + 1
  /\ UNCHANGED <<resets, lapsed, routes>>

\* POST .../reset-quota and admin reset-quota.
ResetDocUsed ==
  /\ resets < MaxResets
  /\ docUsed' = 0
  /\ resets' = resets + 1
  /\ UNCHANGED <<row, lapsed, routes>>

\* The new attempt starts with a live lease and no route.
Claim(d, a) ==
  /\ row' = [row EXCEPT ![d].status = "processing",
                        ![d].attempt = a,
                        ![d].count = @ + 1]
  /\ lapsed' = lapsed \ {a}
  /\ routes' = routes \ {a}
  /\ UNCHANGED quotaVars

RequeueAttempt(d, a) ==
  /\ row' = IF Holds(d, a)
            THEN [row EXCEPT ![d].status = "queued", ![d].attempt = NoAttempt]
            ELSE row
  /\ UNCHANGED <<quotaVars, lapsed, routes>>

ReleaseAttempt(d, a) ==
  /\ row' = IF Holds(d, a)
            THEN [row EXCEPT ![d].status = "queued",
                             ![d].attempt = NoAttempt,
                             ![d].count = IF @ > 0 THEN @ - 1 ELSE 0]
            ELSE row
  /\ UNCHANGED <<quotaVars, lapsed, routes>>

\* Faulty variant: the refund is not part of the guarded transaction.
FinalizeRefundsAlways(d, a, status, event, refund) ==
  /\ row' = IF Holds(d, a)
            THEN [row EXCEPT ![d].status = status, ![d].event = event]
            ELSE row
  /\ docUsed' = IF refund /\ docUsed > 0 THEN docUsed - 1 ELSE docUsed
  /\ UNCHANGED <<resets, lapsed, routes>>

\* No row matches: ErrConflict and nothing changes.  The lease is not checked.
FinalizeAttempt(d, a, status, event, refund) ==
  /\ row' = IF Holds(d, a)
            THEN [row EXCEPT ![d].status = status, ![d].event = event]
            ELSE row
  /\ docUsed' = IF Holds(d, a) /\ refund /\ docUsed > 0
                THEN docUsed - 1 ELSE docUsed
  /\ UNCHANGED <<resets, lapsed, routes>>

\* INSERT ... SELECT FROM documents WHERE attempt_id=$1 AND status='processing'
Assign(d, a) ==
  /\ Holds(d, a)
  /\ routes' = routes \cup {a}
  /\ UNCHANGED <<row, quotaVars, lapsed>>

\* Faulty variant: attempts are exhausted one too late.
ExhaustedLate ==
  {[doc |-> d, attempt |-> row[d].attempt] :
     d \in {e \in Docs : /\ row[e].status = "processing"
                         /\ row[e].attempt \in lapsed
                         /\ row[e].count > MaxAttempts}}

\* ListExhaustedAttempts, with the attempt id that the following GetByID reads.
Exhausted ==
  {[doc |-> d, attempt |-> row[d].attempt] :
     d \in {e \in Docs : /\ row[e].status = "processing"
                         /\ row[e].attempt \in lapsed
                         /\ row[e].count >= MaxAttempts}}

\* Time passes processing_until of the attempt that holds the row.
LeaseLapses(d) ==
  /\ row[d].status = "processing"
  /\ row[d].attempt \notin lapsed
  /\ lapsed' = lapsed \cup {row[d].attempt}
  /\ UNCHANGED <<row, quotaVars, routes>>

=============================================================================
