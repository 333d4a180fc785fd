---------------------------- MODULE StorageQuota ----------------------------
(***************************************************************************)
(* The bytes of one account: presigned uploads and their reservations      *)
(* (UploadHandler.Presign, ReserveUpload, ReleaseUpload), submissions      *)
(* (ProcessURL, ProcessBase64, SubmitSingle, SubmitBatch, SubmitScan,      *)
(* CreateManyWithQuota), the objects they put into the object store, and   *)
(* the retention worker that takes them out again.  Accounts share neither *)
(* keys, rows nor counters.                                                *)
(*                                                                         *)
(* An object key names at most one document, so documents and reservations *)
(* are tables over keys.  Every transaction that writes the counters locks *)
(* the account's row; that of a submission is two steps, since the sweep   *)
(* reads `documents` without any lock.  Result objects, the document quota *)
(* (DocumentStore) and the 100-row limits of the lists are left out.       *)
(***************************************************************************)
EXTENDS Integers, FiniteSets

CONSTANTS
  Uploads,        \* keys under uploads/<user>/, reserved before they are put
  Inputs,         \* keys under inputs/<user>/, put by the proxy itself
  Size,           \* bytes of the object of a key
  MaxUploadBytes,
  Quotas,         \* values of storage_quota_bytes, 0 is unlimited
  FirstQuota,     \* its first value
  NoKey,
  Requests,       \* HTTP requests at work at one time
  MaxBatch,       \* items of a submission (bound)
  MaxTurns        \* failed calls to a store, lost answers, crashes and changes
                  \* of the quota by an administrator, together (bound)

Keys == Uploads \cup Inputs

ASSUME KeysAssumption ==
  IsFiniteSet(Keys) /\ Uploads \cap Inputs = {} /\ NoKey \notin Keys
ASSUME SizeAssumption ==
  MaxUploadBytes \in Nat /\ Size \in [Keys -> 1 .. MaxUploadBytes]
ASSUME BoundsAssumption ==
  Quotas \subseteq Nat /\ FirstQuota \in Quotas /\ MaxBatch \in Nat /\ MaxTurns \in Nat

VARIABLES
  quota, used, reserved,   \* account_configs
  res,        \* upload_reservations.state, by key
  doc,        \* documents, by input key
  object,     \* keys in the object store
  made,       \* keys ever generated
  url,        \* uploads whose presigned URL still works
  past,       \* uploads whose expires_at is over
  aged,       \* uploaded objects older than UPLOAD_TTL
  req,        \* the requests at work
  ret,        \* the retention worker
  exposed,    \* keys caught in one of the two windows described at LiveInputKept
  turns

account == <<quota, used, reserved>>
tables == <<res, doc>>
clock == <<url, past, aged>>
vars == <<account, tables, object, made, clock, req, ret, exposed, turns>>

-----------------------------------------------------------------------------
(* Bytes, rows and requests *)

\* The bytes of a set of objects.
Bytes(K) == Cardinality({b \in K \X (1 .. MaxUploadBytes) : b[2] <= Size[b[1]]})

\* GREATEST(0, n)
AtLeast0(n) == IF n < 0 THEN 0 ELSE n

\* "live" documents are queued or processing, "done" ones are terminal,
\* "cleared" ones too, with input_key NULL.
Statuses == {"none", "live", "done", "cleared", "deleted"}
Referenced == {k \in Keys : doc[k] \in {"live", "done"}}
Reserved == {k \in Uploads : res[k] = "reserved"}

Idle == [stage |-> "idle", keys |-> {}]
Stages == {"idle", "presign", "release", "prepare", "tx", "undo"}
At(r, stage) == req[r].stage = stage
Goto(r, stage, keys) == req' = [req EXCEPT ![r] = [stage |-> stage, keys |-> keys]]
InTx(k) == \E r \in Requests : At(r, "tx") /\ k \in req[r].keys

\* Faulty variant: the submission reads the account's row without FOR UPDATE.
NeverLocked == TRUE
AccountUnlocked == \A r \in Requests : ~At(r, "tx")

Phases == {"reservations", "inputs", "documents", "orphans"}
Resting(phase) == [phase |-> phase, todo |-> {}, item |-> NoKey]
Turn == turns < MaxTurns /\ turns' = turns + 1

TypeOK ==
  /\ quota \in Quotas /\ used \in Nat /\ reserved \in Nat
  /\ res \in [Uploads -> {"none", "reserved", "consumed"}]
  /\ doc \in [Keys -> Statuses]
  /\ object \subseteq made /\ made \subseteq Keys
  /\ url \subseteq Uploads /\ past \subseteq Uploads /\ aged \subseteq past
  /\ req \in [Requests -> [stage : Stages, keys : SUBSET Keys]]
  /\ ret \in [phase : Phases, todo : SUBSET Keys, item : Keys \cup {NoKey}]
  \* one transaction at a time holds the account
  /\ \A r, q \in Requests : At(r, "tx") /\ At(q, "tx") => r = q
  /\ exposed \subseteq Keys
  /\ turns \in 0 .. MaxTurns

Init ==
  /\ quota = FirstQuota /\ used = 0 /\ reserved = 0
  /\ res = [k \in Uploads |-> "none"]
  /\ doc = [k \in Keys |-> "none"]
  /\ object = {} /\ made = {}
  /\ url = {} /\ past = {} /\ aged = {}
  /\ req = [r \in Requests |-> Idle]
  /\ ret = Resting("reservations")
  /\ exposed = {}
  /\ turns = 0

-----------------------------------------------------------------------------
(* Presigned uploads *)

\* `held` are the bytes that stay reserved.  Faulty variant: they do not count.
FitsUsed(bytes, held) == quota = 0 \/ used + bytes <= quota
Fits(bytes, held) == quota = 0 \/ used + bytes + held <= quota

ReserveUpload(r, k) ==
  /\ At(r, "idle") /\ k \in Uploads \ made
  /\ AccountUnlocked /\ Fits(Bytes({k}), reserved)
  /\ reserved' = reserved + Bytes({k})
  /\ res' = [res EXCEPT ![k] = "reserved"]
  /\ made' = made \cup {k}
  /\ Goto(r, "presign", {k})
  /\ UNCHANGED <<quota, used, doc, object, clock, ret, exposed, turns>>

HandOut(r) ==
  /\ At(r, "presign")
  /\ url' = url \cup req[r].keys
  /\ Goto(r, "idle", {})
  /\ UNCHANGED <<account, tables, object, made, past, aged, ret, exposed, turns>>

PresignFails(r) ==
  /\ At(r, "presign") /\ Turn
  /\ Goto(r, "release", req[r].keys)
  /\ UNCHANGED <<account, tables, object, made, clock, ret, exposed>>

\* ReleaseUpload takes a reservation back, unless a submission consumed it.
\* Faulty variant: one that looks at the key only.
ReleasableAny(k) == res[k] # "none"
Releasable(k) == res[k] = "reserved"
Release(k) ==
  /\ res' = [res EXCEPT ![k] = "none"]
  /\ reserved' = AtLeast0(reserved - Bytes({k}))

ReleaseUpload(r) ==
  /\ At(r, "release")
  /\ Goto(r, "idle", {})
  /\ \/ /\ AccountUnlocked /\ UNCHANGED turns
        /\ \E k \in req[r].keys :
             IF Releasable(k) THEN Release(k) ELSE UNCHANGED <<res, reserved>>
     \/ Turn /\ UNCHANGED <<res, reserved>>
  /\ UNCHANGED <<quota, used, doc, object, made, clock, ret, exposed>>

\* The client puts the object, any number of times while its URL works.
Put(k) ==
  /\ k \in url
  /\ object' = object \cup {k}
  /\ aged' = aged \ {k}
  /\ UNCHANGED <<account, tables, made, url, past, req, ret, exposed, turns>>

-----------------------------------------------------------------------------
(* Submissions *)

\* The next item is valid: an upload was read and checked, anything else was
\* stored under a key of its own.
Prepare(r, k) ==
  /\ req[r].stage \in {"idle", "prepare"} /\ Cardinality(req[r].keys) < MaxBatch
  /\ \/ k \in (Uploads \cap object) \ req[r].keys /\ UNCHANGED <<object, made>>
     \/ k \in Inputs \ made /\ object' = object \cup {k} /\ made' = made \cup {k}
  /\ Goto(r, "prepare", req[r].keys \cup {k})
  /\ UNCHANGED <<account, tables, clock, ret, exposed, turns>>

\* Another item is not, or the transaction is refused.
GiveUp(r) ==
  /\ At(r, "prepare")
  /\ Goto(r, "undo", req[r].keys)
  /\ UNCHANGED <<account, tables, object, made, clock, ret, exposed, turns>>

\* SubmitScan refuses what is not an image after it was stored, and leaves it.
RefuseScan(r) ==
  /\ At(r, "prepare") /\ Cardinality(req[r].keys) = 1
  /\ Goto(r, "idle", {})
  /\ UNCHANGED <<account, tables, object, made, clock, ret, exposed, turns>>

\* CreateManyWithQuota as far as its last check: the account stays locked.
Consumable(k) == res[k] = "reserved" /\ k \notin past

BeginCreate(r) ==
  LET keys == req[r].keys
      newReserved == reserved - Bytes(keys \cap Uploads) IN
  /\ At(r, "prepare") /\ AccountUnlocked
  /\ \A k \in keys \cap Uploads : Consumable(k)
  /\ newReserved >= 0
  /\ Fits(Bytes(keys), newReserved)
  /\ Goto(r, "tx", keys)
  /\ UNCHANGED <<account, tables, object, made, clock, ret, exposed, turns>>

Created(keys) ==
  /\ used' = used + Bytes(keys)
  /\ reserved' = reserved - Bytes(keys \cap Uploads)
  /\ doc' = [k \in Keys |-> IF k \in keys THEN "live" ELSE doc[k]]
  /\ res' = [k \in Uploads |-> IF k \in keys THEN "consumed" ELSE res[k]]

Commit(r) ==
  /\ At(r, "tx")
  /\ Created(req[r].keys)
  /\ Goto(r, "idle", {})
  /\ UNCHANGED <<quota, object, made, clock, ret, exposed, turns>>

\* The server commits, its answer gets lost: the caller sees an error.
CommitUnanswered(r) ==
  /\ At(r, "tx") /\ Turn
  /\ Created(req[r].keys)
  /\ exposed' = exposed \cup req[r].keys
  /\ Goto(r, "undo", req[r].keys)
  /\ UNCHANGED <<quota, object, made, clock, ret>>

Rollback(r) ==
  /\ At(r, "tx") /\ Turn
  /\ Goto(r, "undo", req[r].keys)
  /\ UNCHANGED <<account, tables, object, made, clock, ret, exposed>>

\* What a failed submission deletes.  Faulty variant: uploads as well.
AllPrepared(keys) == keys
Disposable(keys) == keys \ Uploads

UndoPrepared(r) ==
  /\ At(r, "undo")
  /\ \/ object' = object \ Disposable(req[r].keys) /\ UNCHANGED turns
     \/ Turn /\ \E kept \in SUBSET Disposable(req[r].keys) :
          object' = object \ (Disposable(req[r].keys) \ kept)
  /\ Goto(r, "idle", {})
  /\ UNCHANGED <<account, tables, made, clock, ret, exposed>>

\* A document is completed or has failed (DocumentLifecycle).
Finish(k) ==
  /\ doc[k] = "live"
  /\ doc' = [doc EXCEPT ![k] = "done"]
  /\ UNCHANGED <<account, res, object, made, clock, req, ret, exposed, turns>>

SetQuota ==
  /\ Turn /\ AccountUnlocked
  /\ quota' \in Quotas \ {quota}
  /\ UNCHANGED <<used, reserved, tables, object, made, clock, req, ret, exposed>>

-----------------------------------------------------------------------------
(* Time.  An object is no older than its reservation: by the time it is      *)
(* UPLOAD_TTL old the reservation, made for UPLOAD_TTL, has expired.         *)

CloseUrl(k) ==
  /\ k \in url
  /\ url' = url \ {k}
  /\ UNCHANGED <<account, tables, object, made, past, aged, req, ret, exposed, turns>>

Expire(k) ==
  /\ k \in (Uploads \cap made) \ past
  /\ past' = past \cup {k}
  /\ UNCHANGED <<account, tables, object, made, url, aged, req, ret, exposed, turns>>

Age(k) ==
  /\ k \in (object \cap past) \ aged
  /\ aged' = aged \cup {k}
  /\ UNCHANGED <<account, tables, object, made, url, past, req, ret, exposed, turns>>

-----------------------------------------------------------------------------
(* The retention worker: four passes, one after the other.  Each lists what  *)
(* it will work on and then takes one item after the other.                  *)

NextPhase(phase) ==
  CASE phase = "reservations" -> "inputs"
    [] phase = "inputs"       -> "documents"
    [] phase = "documents"    -> "orphans"
    [] phase = "orphans"      -> "reservations"

\* Faulty variants: only uploads that arrived are refunded; only those that
\* still have a reservation are swept.
ArrivedReservations == Reserved \cap aged
ExpiredReservations == Reserved \cap past
ReservedUploads == Reserved \cap aged
OldUploads == object \cap aged

\* INPUT_TTL and DOCUMENT_TTL have passed for any of the terminal documents.
Listings(phase) ==
  CASE phase = "reservations" -> {ExpiredReservations}
    [] phase = "inputs"       -> SUBSET {k \in Keys : doc[k] = "done"}
    [] phase = "documents"    -> SUBSET {k \in Keys : doc[k] \in {"done", "cleared"}}
    [] phase = "orphans"      -> {OldUploads}

StartPhase ==
  /\ ret.todo = {} /\ ret.item = NoKey
  /\ \E listed \in Listings(NextPhase(ret.phase)) :
       ret' = [phase |-> NextPhase(ret.phase), todo |-> listed, item |-> NoKey]
  /\ UNCHANGED <<account, tables, object, made, clock, req, exposed, turns>>

Takes(phase, k) == ret.phase = phase /\ ret.item = NoKey /\ k \in ret.todo
Holds(phase, k) == ret.phase = phase /\ ret.item = k /\ k # NoKey
Next1(k, item) == ret' = [ret EXCEPT !.todo = @ \ {k}, !.item = item]
DoneWithItem == ret' = [ret EXCEPT !.item = NoKey]

\* objects.Delete, which may fail.
DeleteObject(k) ==
  \/ object' = object \ {k} /\ aged' = aged \ {k} /\ UNCHANGED turns
  \/ Turn /\ UNCHANGED <<object, aged>>

\* cleanupExpiredReservations: the object goes only if the reservation did.
ReleaseExpired(k) ==
  /\ Takes("reservations", k)
  /\ \/ /\ AccountUnlocked /\ UNCHANGED turns
        /\ IF Releasable(k) THEN Release(k) /\ Next1(k, k)
           ELSE Next1(k, NoKey) /\ UNCHANGED <<res, reserved>>
     \/ Turn /\ Next1(k, NoKey) /\ UNCHANGED <<res, reserved>>
  /\ UNCHANGED <<quota, used, doc, object, made, clock, req, exposed>>

DeleteReleased(k) ==
  /\ Holds("reservations", k)
  /\ DeleteObject(k)
  /\ DoneWithItem
  /\ UNCHANGED <<account, tables, made, url, past, req, exposed>>

\* cleanupInputs: an object that cannot be deleted is left for the next pass.
DeleteInput(k) ==
  /\ Takes("inputs", k)
  /\ \/ object' = object \ {k} /\ aged' = aged \ {k} /\ Next1(k, k) /\ UNCHANGED turns
     \/ Turn /\ Next1(k, NoKey) /\ UNCHANGED <<object, aged>>
  /\ UNCHANGED <<account, tables, made, url, past, req, exposed>>

\* The input's bytes are given back, its consumed reservation goes.
\* Faulty variant: a row whose input was cleared before gives them back again.
HasInputAlways(k) == doc[k] # "live"
HasInput(k) == doc[k] = "done"
GiveBack(k) ==
  IF HasInput(k)
  THEN /\ used' = AtLeast0(used - Bytes({k}))
       /\ res' = [u \in Uploads |-> IF u = k /\ res[u] = "consumed" THEN "none" ELSE res[u]]
  ELSE UNCHANGED <<used, res>>

MarkInputExpired(k) ==
  /\ Holds("inputs", k)
  /\ \/ /\ AccountUnlocked /\ UNCHANGED turns
        /\ GiveBack(k)
        /\ doc' = [doc EXCEPT ![k] = IF @ = "done" THEN "cleared" ELSE @]
     \/ Turn /\ UNCHANGED <<used, res, doc>>
  /\ DoneWithItem
  /\ UNCHANGED <<quota, reserved, object, made, clock, req, exposed>>

\* cleanupDocuments: the row goes even if its object could not be deleted.
DeleteDocumentObject(k) ==
  /\ Takes("documents", k)
  /\ IF doc[k] = "done" THEN DeleteObject(k) ELSE UNCHANGED <<object, aged, turns>>
  /\ Next1(k, k)
  /\ UNCHANGED <<account, tables, made, url, past, req, exposed>>

DeleteExpiredDocument(k) ==
  /\ Holds("documents", k)
  /\ \/ /\ AccountUnlocked /\ UNCHANGED turns
        /\ GiveBack(k)
        /\ doc' = [doc EXCEPT ![k] = IF @ \in {"done", "cleared"} THEN "deleted" ELSE @]
     \/ Turn /\ UNCHANGED <<used, res, doc>>
  /\ DoneWithItem
  /\ UNCHANGED <<quota, reserved, object, made, clock, req, exposed>>

\* cleanupOrphanUploads: an unlocked look, then the deletion.
CheckReference(k) ==
  /\ Takes("orphans", k)
  /\ Next1(k, IF k \in Referenced THEN NoKey ELSE k)
  /\ exposed' = IF k \notin Referenced /\ InTx(k) THEN exposed \cup {k} ELSE exposed
  /\ UNCHANGED <<account, tables, object, made, clock, req, turns>>

DeleteOrphan(k) ==
  /\ Holds("orphans", k)
  /\ DeleteObject(k)
  /\ DoneWithItem
  /\ UNCHANGED <<account, tables, made, url, past, req, exposed>>

\* The proxy dies and starts again: migrate.go counts the bytes anew.
Restart ==
  /\ Turn
  /\ req' = [r \in Requests |-> Idle]
  /\ ret' = Resting("orphans")
  /\ used' = Bytes(Referenced) /\ reserved' = Bytes(Reserved)
  /\ UNCHANGED <<quota, tables, object, made, clock, exposed>>

-----------------------------------------------------------------------------
Presigning(r) ==
  \/ \E k \in Uploads : ReserveUpload(r, k)
  \/ HandOut(r) \/ PresignFails(r) \/ ReleaseUpload(r)
EndsTx(r) == Commit(r) \/ CommitUnanswered(r) \/ Rollback(r)
Submitting(r) ==
  \/ \E k \in Keys : Prepare(r, k)
  \/ GiveUp(r) \/ RefuseScan(r) \/ BeginCreate(r) \/ EndsTx(r) \/ UndoPrepared(r)
Retaining ==
  \/ StartPhase
  \/ \E k \in Keys : \/ ReleaseExpired(k) \/ DeleteReleased(k)
                     \/ DeleteInput(k) \/ MarkInputExpired(k)
                     \/ DeleteDocumentObject(k) \/ DeleteExpiredDocument(k)
                     \/ CheckReference(k) \/ DeleteOrphan(k)

Next ==
  \/ \E r \in Requests : Presigning(r) \/ Submitting(r)
  \/ \E k \in Uploads : Put(k) \/ CloseUrl(k) \/ Expire(k) \/ Age(k)
  \/ \E k \in Keys : Finish(k)
  \/ SetQuota \/ Retaining \/ Restart

Spec == Init /\ [][Next]_vars

\* Time passes and a transaction that has begun ends.  The retention loop runs
\* for as long as the proxy does; that it gets the account's lock although
\* submissions take it again and again is PostgreSQL's queue of lock waiters.
Fairness ==
  /\ \A k \in Uploads : WF_vars(CloseUrl(k)) /\ WF_vars(Expire(k)) /\ WF_vars(Age(k))
  /\ \A r \in Requests : WF_vars(EndsTx(r))
  /\ SF_vars(Retaining)
FairSpec == Spec /\ Fairness

-----------------------------------------------------------------------------
(* Properties *)

\* The counters are the bytes of the rows they stand for: storage_used_bytes
\* those of the inputs retained documents refer to, storage_reserved_bytes
\* those of the uploads reserved and not yet submitted.
StorageExact == used = Bytes(Referenced) /\ reserved = Bytes(Reserved)

\* A reservation is consumed for exactly as long as a document refers to its
\* object: a submission consumed it, and retention frees it with the input.
ConsumedWhileReferenced ==
  \A k \in Uploads : res[k] = "consumed" <=> k \in Referenced

\* A queued or processing document has its input: neither the cleanup of
\* reservations, uploads and inputs nor a submission that failed takes it away.
\* The code leaves two windows.  The sweep does not see the row of a submission
\* that is in its transaction, and may delete the object it commits with; and a
\* commit whose answer is lost looks like a failure, so that the input is
\* deleted.  `exposed` has the keys that were in one of them.
LiveInputKept == \A k \in Keys : doc[k] = "live" => k \in object \cup exposed

\* No step commits more bytes, in rows and not in counters, beyond the quota.
Committed == Bytes(Referenced) + Bytes(Reserved)
NeverOversubscribed ==
  [][Committed' > Committed /\ quota # 0 => Committed' <= quota]_vars

\* What the account's owner is promised about an input's bytes.  An upload that
\* was generated and is neither reserved nor referred to is through, and so is
\* what a cleared or deleted document referred to; the object may still be there.
LifeOf ==
  [k \in Keys |->
     IF k \in Referenced THEN "used"
     ELSE IF k \in Reserved THEN "reserved"
     ELSE IF k \in Uploads \cap made \/ doc[k] \in {"cleared", "deleted"} THEN "gone"
     ELSE "new"]

Promise == INSTANCE StoragePromise WITH life <- LifeOf

\* The account's counters and tables together implement that promise: bytes move
\* from reserved to used with the documents of a submission, all or none, and
\* come back exactly once, whoever of a release, a submission and the retention
\* passes gets there first.
KeepsStoragePromise == Promise!Spec

\* Every reservation is consumed or refunded in the end.  ([]<>~P is P ~> ~P.)
ReservationsSettle == \A k \in Uploads : []<>(res[k] # "reserved")

\* An uploaded object nobody refers to is swept in the end (or put back, or
\* submitted), one whose deletion failed included.
Orphan(k) == k \in object /\ k \notin Referenced
UploadsSwept == \A k \in Uploads : []<>~Orphan(k)
=============================================================================
