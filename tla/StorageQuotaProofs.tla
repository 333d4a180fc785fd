------------------------- MODULE StorageQuotaProofs -------------------------
(***************************************************************************)
(* Proofs about StorageQuota for all keys, sizes, quotas, requests and     *)
(* bounds.  The bytes of a set of objects are the elements of a set, so    *)
(* that disjoint unions and differences of keys become sums.               *)
(***************************************************************************)
EXTENDS StorageQuota, FiniteSetTheorems, TLAPS

USE KeysAssumption, SizeAssumption, BoundsAssumption

-----------------------------------------------------------------------------
(* Bytes *)

ByteSet(K) == {b \in K \X (1 .. MaxUploadBytes) : b[2] <= Size[b[1]]}

LEMMA BytesFinite ==
  ASSUME NEW K \in SUBSET Keys
  PROVE  IsFiniteSet(ByteSet(K)) /\ Bytes(K) = Cardinality(ByteSet(K)) /\ Bytes(K) \in Nat
<1>1. IsFiniteSet(K) /\ IsFiniteSet(1 .. MaxUploadBytes)
  BY FS_Subset, FS_Interval
<1>2. IsFiniteSet(K \X (1 .. MaxUploadBytes))
  BY <1>1, FS_Product
<1>3. IsFiniteSet(ByteSet(K))
  BY <1>2, FS_Subset DEF ByteSet
<1> QED BY <1>3, FS_CardinalityType DEF ByteSet, Bytes

LEMMA BytesUnion ==
  ASSUME NEW K \in SUBSET Keys, NEW L \in SUBSET Keys, K \cap L = {}
  PROVE  Bytes(K \cup L) = Bytes(K) + Bytes(L)
<1>1. ByteSet(K \cup L) = ByteSet(K) \cup ByteSet(L) /\ ByteSet(K) \cap ByteSet(L) = {}
  BY DEF ByteSet
<1>2. K \cup L \in SUBSET Keys
  OBVIOUS
<1>3. /\ IsFiniteSet(ByteSet(K)) /\ Bytes(K) = Cardinality(ByteSet(K))
      /\ IsFiniteSet(ByteSet(L)) /\ Bytes(L) = Cardinality(ByteSet(L))
      /\ Bytes(K \cup L) = Cardinality(ByteSet(K \cup L))
      /\ Bytes(K) \in Nat /\ Bytes(L) \in Nat
  BY <1>2, BytesFinite
<1>4. Cardinality(ByteSet(K) \cup ByteSet(L))
        = Cardinality(ByteSet(K)) + Cardinality(ByteSet(L)) - Cardinality(ByteSet(K) \cap ByteSet(L))
  BY <1>3, FS_Union
<1>5. Cardinality(ByteSet(K) \cap ByteSet(L)) = 0
  BY <1>1, FS_EmptySet
<1>6. Bytes(K \cup L) = Cardinality(ByteSet(K) \cup ByteSet(L))
  BY <1>1, <1>3
<1>7. Bytes(K \cup L) = Bytes(K) + Bytes(L) - 0
  BY <1>3, <1>4, <1>5, <1>6, Zenon
<1> QED BY <1>3, <1>7

LEMMA BytesMinus ==
  ASSUME NEW K \in SUBSET Keys, NEW L \in SUBSET K
  PROVE  Bytes(K \ L) = Bytes(K) - Bytes(L)
<1>1. K = (K \ L) \cup L /\ (K \ L) \cap L = {}
  OBVIOUS
<1>2. K \ L \in SUBSET Keys /\ L \in SUBSET Keys
  OBVIOUS
<1>3. Bytes(K) = Bytes(K \ L) + Bytes(L)
  BY <1>1, <1>2, BytesUnion
<1>4. Bytes(K \ L) \in Nat /\ Bytes(L) \in Nat
  BY <1>2, BytesFinite
<1> QED BY <1>3, <1>4

LEMMA BytesOfNone == Bytes({}) = 0
<1>1. ByteSet({}) = {}
  BY DEF ByteSet
<1> QED BY <1>1, BytesFinite, FS_EmptySet

-----------------------------------------------------------------------------
(* The tables and the requests *)

\* A key that was never generated is nowhere.
UnmadeIsUnknown ==
  \A k \in Keys \ made :
    /\ k \notin url /\ doc[k] = "none" /\ (k \in Uploads => res[k] = "none")
    /\ \A r \in Requests : k \notin req[r].keys

\* What is reserved has no document yet; a transaction holds what it checked.
ReservedIsUnused == \A k \in Uploads : res[k] = "reserved" => doc[k] = "none"
TxHoldsReservations ==
  \A r \in Requests : At(r, "tx") => req[r].keys \cap Uploads \subseteq Reserved

\* An input belongs to the one request that stored it, until it has a document.
InputsAreOwned ==
  \A r \in Requests : \A k \in req[r].keys \cap Inputs :
    /\ \A q \in Requests : k \in req[q].keys => q = r
    /\ req[r].stage \in {"prepare", "tx"} => doc[k] = "none"

StagesHaveKeys ==
  \A r \in Requests :
    /\ At(r, "idle") => req[r].keys = {}
    /\ req[r].stage \in {"presign", "release"} => req[r].keys \subseteq Uploads

RetentionKeys ==
  ret.phase = "reservations" => ret.todo \subseteq Uploads /\ ret.item \in Uploads \cup {NoKey}

Structure ==
  /\ TypeOK /\ UnmadeIsUnknown /\ ReservedIsUnused /\ TxHoldsReservations
  /\ InputsAreOwned /\ StagesHaveKeys /\ RetentionKeys

LEMMA InitStructure == Init => Structure
  BY DEF Init, Structure, TypeOK, UnmadeIsUnknown, ReservedIsUnused, TxHoldsReservations,
         InputsAreOwned, StagesHaveKeys, RetentionKeys, Keys, Statuses, Stages, Phases,
         Idle, At, Resting

\* Taking an item of a pass leaves the worker's record well-formed.
LEMMA TakeResult ==
  ASSUME Structure, NEW k \in Keys, NEW item \in Keys \cup {NoKey}, Next1(k, item)
  PROVE  ret'.phase = ret.phase /\ ret'.todo = ret.todo \ {k} /\ ret'.item = item
<1>1. ret \in [phase : Phases, todo : SUBSET Keys, item : Keys \cup {NoKey}]
  BY DEF Structure, TypeOK
<1>2. ret' = [phase |-> ret.phase, todo |-> ret.todo \ {k}, item |-> item]
  BY <1>1 DEF Next1
<1> QED BY <1>2

LEMMA TakeKeepsTypes ==
  ASSUME Structure, NEW k \in Keys, NEW item \in {k, NoKey}, Next1(k, item),
         ret.phase = "reservations" => k \in Uploads
  PROVE  /\ ret' \in [phase : Phases, todo : SUBSET Keys, item : Keys \cup {NoKey}]
         /\ RetentionKeys'
<1>1. ret' = [phase |-> ret.phase, todo |-> ret.todo \ {k}, item |-> item]
  BY DEF Structure, TypeOK, Next1
<1> QED BY <1>1 DEF Structure, TypeOK, RetentionKeys

\* One step per action; the counters stay natural numbers since what leaves them
\* was in them (StorageExact).
LEMMA StructureStep ==
  ASSUME Structure, StorageExact, [Next]_vars
  PROVE  Structure'
<1> USE BytesFinite DEF Structure, TypeOK, UnmadeIsUnknown, ReservedIsUnused,
     TxHoldsReservations, InputsAreOwned, StagesHaveKeys, RetentionKeys, Keys, Statuses,
     Stages, Phases, Idle, At, Goto, Reserved, account, tables, clock
<1>1. ASSUME NEW r \in Requests, NEW k \in Uploads, ReserveUpload(r, k) PROVE Structure'
  BY <1>1 DEF ReserveUpload
<1>2. ASSUME NEW r \in Requests, HandOut(r) PROVE Structure'
  BY <1>2 DEF HandOut
<1>3. ASSUME NEW r \in Requests, PresignFails(r) PROVE Structure'
  BY <1>3 DEF PresignFails, Turn
<1>4. ASSUME NEW r \in Requests, ReleaseUpload(r) PROVE Structure'
  <2>1. Structure' \/ \E k \in Uploads : Releasable(k) /\ Release(k) /\ AccountUnlocked
    BY <1>4 DEF ReleaseUpload, Turn
  <2>2. ASSUME NEW k \in Uploads, Releasable(k), Release(k), AccountUnlocked PROVE Structure'
    <3>1. reserved' \in Nat
      BY <2>2 DEF Release, AtLeast0
    <3> QED BY <1>4, <2>2, <3>1 DEF ReleaseUpload, Release, Releasable, AccountUnlocked, Turn
  <2> QED BY <2>1, <2>2
<1>5. ASSUME NEW r \in Requests, NEW k \in Keys, Prepare(r, k) PROVE Structure'
  BY <1>5 DEF Prepare
<1>6. ASSUME NEW r \in Requests, GiveUp(r) PROVE Structure'
  BY <1>6 DEF GiveUp
<1>7. ASSUME NEW r \in Requests, RefuseScan(r) PROVE Structure'
  BY <1>7 DEF RefuseScan
<1>8. ASSUME NEW r \in Requests, BeginCreate(r) PROVE Structure'
  BY <1>8 DEF BeginCreate, Consumable, AccountUnlocked
<1>9. ASSUME NEW r \in Requests, Commit(r) PROVE Structure'
  <2>1. /\ req[r].keys \in SUBSET Keys /\ req[r].keys \cap Uploads \in SUBSET Reserved
        /\ Reserved \in SUBSET Keys
    BY <1>9 DEF Commit
  <2>2. Bytes(Reserved \ (req[r].keys \cap Uploads))
          = reserved - Bytes(req[r].keys \cap Uploads)
    BY <2>1, BytesMinus DEF StorageExact
  <2>3. Reserved \ (req[r].keys \cap Uploads) \in SUBSET Keys
    BY <2>1
  <2>4. reserved' \in Nat /\ used' \in Nat
    BY <1>9, <2>1, <2>2, <2>3, BytesFinite DEF Commit, Created
  <2>5. TypeOK'
    BY <1>9, <2>4 DEF Commit, Created, Turn
  <2>6. UnmadeIsUnknown' /\ ReservedIsUnused' /\ TxHoldsReservations'
    BY <1>9 DEF Commit, Created, Turn
  <2>7. InputsAreOwned' /\ StagesHaveKeys' /\ RetentionKeys'
    BY <1>9 DEF Commit, Created, Turn
  <2> QED BY <2>5, <2>6, <2>7
<1>10. ASSUME NEW r \in Requests, CommitUnanswered(r) PROVE Structure'
  <2>1. /\ req[r].keys \in SUBSET Keys /\ req[r].keys \cap Uploads \in SUBSET Reserved
        /\ Reserved \in SUBSET Keys
    BY <1>10 DEF CommitUnanswered
  <2>2. Bytes(Reserved \ (req[r].keys \cap Uploads))
          = reserved - Bytes(req[r].keys \cap Uploads)
    BY <2>1, BytesMinus DEF StorageExact
  <2>3. Reserved \ (req[r].keys \cap Uploads) \in SUBSET Keys
    BY <2>1
  <2>4. reserved' \in Nat /\ used' \in Nat
    BY <1>10, <2>1, <2>2, <2>3, BytesFinite DEF CommitUnanswered, Created
  <2>5. TypeOK'
    BY <1>10, <2>4 DEF CommitUnanswered, Created, Turn
  <2>6. UnmadeIsUnknown' /\ ReservedIsUnused' /\ TxHoldsReservations'
    BY <1>10 DEF CommitUnanswered, Created, Turn
  <2>7. InputsAreOwned' /\ StagesHaveKeys' /\ RetentionKeys'
    BY <1>10 DEF CommitUnanswered, Created, Turn
  <2> QED BY <2>5, <2>6, <2>7
<1>11. ASSUME NEW r \in Requests, Rollback(r) PROVE Structure'
  BY <1>11 DEF Rollback, Turn
<1>12. ASSUME NEW r \in Requests, UndoPrepared(r) PROVE Structure'
  BY <1>12 DEF UndoPrepared, Turn, Disposable
<1>13. ASSUME NEW k \in Uploads, Put(k) PROVE Structure'
  BY <1>13 DEF Put
<1>14. ASSUME NEW k \in Uploads, CloseUrl(k) PROVE Structure'
  BY <1>14 DEF CloseUrl
<1>15. ASSUME NEW k \in Uploads, Expire(k) PROVE Structure'
  BY <1>15 DEF Expire
<1>16. ASSUME NEW k \in Uploads, Age(k) PROVE Structure'
  BY <1>16 DEF Age
<1>17. ASSUME NEW k \in Keys, Finish(k) PROVE Structure'
  BY <1>17 DEF Finish
<1>18. ASSUME SetQuota PROVE Structure'
  BY <1>18 DEF SetQuota, Turn
<1>19. ASSUME StartPhase PROVE Structure'
  BY <1>19 DEF StartPhase, Listings, NextPhase, ExpiredReservations, OldUploads
<1>20. ASSUME NEW k \in Keys, ReleaseExpired(k) PROVE Structure'
  <2>1. k \in Uploads /\ (Next1(k, k) \/ Next1(k, NoKey))
    BY <1>20 DEF ReleaseExpired, Takes, Release
  <2>2. /\ ret' \in [phase : Phases, todo : SUBSET Keys, item : Keys \cup {NoKey}]
        /\ RetentionKeys'
    BY <2>1, TakeKeepsTypes
  <2>3. CASE Releasable(k) /\ Release(k) /\ AccountUnlocked /\ UNCHANGED turns
    <3>1. reserved' \in Nat
      BY <2>1, <2>3 DEF Release, AtLeast0
    <3> QED BY <1>20, <2>1, <2>2, <2>3, <3>1 DEF ReleaseExpired, Release, Releasable,
         AccountUnlocked
  <2>4. CASE UNCHANGED <<res, reserved>>
    BY <1>20, <2>2, <2>4 DEF ReleaseExpired, Turn
  <2> QED BY <1>20, <2>3, <2>4 DEF ReleaseExpired
<1>21. ASSUME NEW k \in Keys, DeleteReleased(k) PROVE Structure'
  BY <1>21 DEF DeleteReleased, Holds, DeleteObject, DoneWithItem, Turn
<1>22. ASSUME NEW k \in Keys, DeleteInput(k) PROVE Structure'
  <2>1. /\ ret' \in [phase : Phases, todo : SUBSET Keys, item : Keys \cup {NoKey}]
        /\ RetentionKeys'
    <3>1. Next1(k, k) \/ Next1(k, NoKey)
      BY <1>22 DEF DeleteInput
    <3> QED BY <1>22, <3>1, TakeKeepsTypes DEF DeleteInput, Takes
  <2>2. object' \subseteq object /\ aged' \subseteq aged /\ turns' \in 0 .. MaxTurns
    BY <1>22 DEF DeleteInput, Turn
  <2>3. UNCHANGED <<account, tables, made, url, past, req, exposed>>
    BY <1>22 DEF DeleteInput
  <2> QED BY <2>1, <2>2, <2>3
<1>23. ASSUME NEW k \in Keys, MarkInputExpired(k) PROVE Structure'
  BY <1>23 DEF MarkInputExpired, Holds, DoneWithItem, Turn, GiveBack, HasInput, AtLeast0
<1>24. ASSUME NEW k \in Keys, DeleteDocumentObject(k) PROVE Structure'
  <2>1. /\ ret' \in [phase : Phases, todo : SUBSET Keys, item : Keys \cup {NoKey}]
        /\ RetentionKeys'
    BY <1>24 DEF DeleteDocumentObject, Takes, Next1
  <2>2. object' \subseteq object /\ aged' \subseteq aged /\ turns' \in 0 .. MaxTurns
    BY <1>24 DEF DeleteDocumentObject, DeleteObject, Turn
  <2>3. UNCHANGED <<account, tables, made, url, past, req, exposed>>
    BY <1>24 DEF DeleteDocumentObject
  <2> QED BY <2>1, <2>2, <2>3
<1>25. ASSUME NEW k \in Keys, DeleteExpiredDocument(k) PROVE Structure'
  BY <1>25 DEF DeleteExpiredDocument, Holds, DoneWithItem, Turn, GiveBack, HasInput, AtLeast0
<1>26. ASSUME NEW k \in Keys, CheckReference(k) PROVE Structure'
  <2>1. exposed' \subseteq Keys
    BY <1>26 DEF CheckReference
  <2>2. /\ ret' \in [phase : Phases, todo : SUBSET Keys, item : Keys \cup {NoKey}]
        /\ RetentionKeys'
    BY <1>26 DEF CheckReference, Takes, Next1
  <2>3. UNCHANGED <<account, tables, object, made, clock, req, turns>>
    BY <1>26 DEF CheckReference
  <2> QED BY <2>1, <2>2, <2>3
<1>27. ASSUME NEW k \in Keys, DeleteOrphan(k) PROVE Structure'
  BY <1>27 DEF DeleteOrphan, Holds, DeleteObject, DoneWithItem, Turn
<1>28. ASSUME Restart PROVE Structure'
  BY <1>28 DEF Restart, Turn, Resting, Referenced
<1>29. CASE UNCHANGED vars
  BY <1>29 DEF vars
<1> QED BY <1>1, <1>2, <1>3, <1>4, <1>5, <1>6, <1>7, <1>8, <1>9, <1>10, <1>11, <1>12, <1>13,
     <1>14, <1>15, <1>16, <1>17, <1>18, <1>19, <1>20, <1>21, <1>22, <1>23, <1>24, <1>25,
     <1>26, <1>27, <1>28, <1>29 DEF Next, Presigning, Submitting, EndsTx, Retaining

-----------------------------------------------------------------------------
(* The counters.  Three ways to move bytes: a release takes one upload out   *)
(* of the reserved ones, GiveBack one input out of the used ones, and a      *)
(* submission moves its uploads from the one to the other and adds the rest. *)

LEMMA ReleaseExact ==
  ASSUME Structure, StorageExact, NEW k \in Uploads, Releasable(k), Release(k)
  PROVE  reserved' = Bytes(Reserved')
<1>1. Reserved \in SUBSET Keys /\ {k} \in SUBSET Reserved
  BY DEF Reserved, Releasable, Keys
<1>2. Reserved' = Reserved \ {k}
  BY DEF Structure, TypeOK, Reserved, Release
<1>3. Bytes(Reserved \ {k}) = reserved - Bytes({k}) /\ Bytes(Reserved \ {k}) \in Nat
  BY <1>1, BytesMinus, BytesFinite DEF StorageExact
<1> QED BY <1>2, <1>3 DEF Release, AtLeast0

LEMMA GiveBackExact ==
  ASSUME Structure, StorageExact, NEW k \in Keys, GiveBack(k), UNCHANGED reserved,
         Referenced' = IF HasInput(k) THEN Referenced \ {k} ELSE Referenced
  PROVE  StorageExact'
<1>1. Reserved' = Reserved
  BY DEF Structure, TypeOK, Reserved, GiveBack
<1>2. CASE HasInput(k)
  <2>1. Referenced \in SUBSET Keys /\ {k} \in SUBSET Referenced
    BY <1>2 DEF Referenced, HasInput
  <2>2. Bytes(Referenced \ {k}) = used - Bytes({k}) /\ Bytes(Referenced \ {k}) \in Nat
    BY <2>1, BytesMinus, BytesFinite DEF StorageExact
  <2> QED BY <1>1, <1>2, <2>2 DEF GiveBack, AtLeast0, StorageExact
<1>3. CASE ~HasInput(k)
  BY <1>1, <1>3 DEF GiveBack, StorageExact
<1> QED BY <1>2, <1>3

\* No key of a submission in its transaction has a document.
LEMMA TxKeysAreUnused ==
  ASSUME Structure, NEW r \in Requests, At(r, "tx")
  PROVE  /\ req[r].keys \in SUBSET Keys
         /\ \A k \in req[r].keys : doc[k] = "none"
         /\ req[r].keys \cap Uploads \in SUBSET Reserved
  BY DEF Structure, TypeOK, InputsAreOwned, TxHoldsReservations, ReservedIsUnused,
         At, Keys, Reserved

LEMMA CreatedExact ==
  ASSUME Structure, StorageExact, NEW r \in Requests, At(r, "tx"), Created(req[r].keys)
  PROVE  /\ StorageExact'
         /\ Referenced' = Referenced \cup req[r].keys
         /\ Reserved' = Reserved \ (req[r].keys \cap Uploads)
<1> DEFINE keys == req[r].keys
<1>1. Referenced' = Referenced \cup keys /\ Referenced \cap keys = {}
  BY TxKeysAreUnused DEF Referenced, Created
<1>2. Reserved' = Reserved \ (keys \cap Uploads)
  BY DEF Reserved, Created
<1>3. /\ Referenced \in SUBSET Keys /\ keys \in SUBSET Keys
      /\ Reserved \in SUBSET Keys /\ keys \cap Uploads \in SUBSET Reserved
  BY TxKeysAreUnused DEF Referenced, Reserved, Keys
<1>4. Bytes(Referenced \cup keys) = used + Bytes(keys)
  BY <1>1, <1>3, BytesUnion DEF StorageExact
<1>5. Bytes(Reserved \ (keys \cap Uploads)) = reserved - Bytes(keys \cap Uploads)
  BY <1>3, BytesMinus DEF StorageExact
<1> QED BY <1>1, <1>2, <1>4, <1>5 DEF StorageExact, Created

LEMMA StorageExactStep ==
  ASSUME Structure, StorageExact, [Next]_vars
  PROVE  StorageExact'
<1>1. ASSUME NEW r \in Requests, NEW k \in Uploads, ReserveUpload(r, k) PROVE StorageExact'
  <2>1. Reserved' = Reserved \cup {k} /\ k \notin Reserved /\ Referenced' = Referenced
    BY <1>1 DEF ReserveUpload, Reserved, Referenced, Structure, TypeOK, UnmadeIsUnknown, Keys
  <2>2. Reserved \in SUBSET Keys /\ {k} \in SUBSET Keys
    BY DEF Reserved, Keys
  <2>3. Bytes(Reserved \cup {k}) = Bytes(Reserved) + Bytes({k})
    BY <2>1, <2>2, BytesUnion
  <2> QED BY <1>1, <2>1, <2>3 DEF ReserveUpload, StorageExact
<1>2. ASSUME NEW r \in Requests, ReleaseUpload(r) PROVE StorageExact'
  <2>1. UNCHANGED <<used, doc>> /\ Referenced' = Referenced
    BY <1>2 DEF ReleaseUpload, Referenced
  <2>2. CASE UNCHANGED <<res, reserved>>
    BY <2>1, <2>2 DEF StorageExact, Reserved
  <2>3. ASSUME NEW k \in Uploads, Releasable(k), Release(k) PROVE StorageExact'
    BY <2>1, <2>3, ReleaseExact DEF StorageExact
  <2> QED BY <1>2, <2>2, <2>3 DEF ReleaseUpload, Structure, StagesHaveKeys, At
<1>3. ASSUME NEW r \in Requests, Commit(r) \/ CommitUnanswered(r) PROVE StorageExact'
  BY <1>3, CreatedExact DEF Commit, CommitUnanswered
<1>4. ASSUME NEW k \in Keys, Finish(k) PROVE StorageExact'
  <2>1. Referenced' = Referenced /\ Reserved' = Reserved
    BY <1>4 DEF Finish, Referenced, Reserved, Structure, TypeOK
  <2> QED BY <1>4, <2>1 DEF Finish, StorageExact, account
<1>5. ASSUME NEW k \in Keys, ReleaseExpired(k) PROVE StorageExact'
  <2>1. UNCHANGED <<used, doc>> /\ Referenced' = Referenced /\ k \in Uploads
    BY <1>5 DEF ReleaseExpired, Referenced, Takes, Structure, RetentionKeys
  <2>2. CASE UNCHANGED <<res, reserved>>
    BY <2>1, <2>2 DEF StorageExact, Reserved
  <2>3. CASE Releasable(k) /\ Release(k)
    BY <2>1, <2>3, ReleaseExact DEF StorageExact
  <2> QED BY <1>5, <2>2, <2>3 DEF ReleaseExpired
<1>6. ASSUME NEW k \in Keys, MarkInputExpired(k) \/ DeleteExpiredDocument(k) PROVE StorageExact'
  <2>1. UNCHANGED reserved
    BY <1>6 DEF MarkInputExpired, DeleteExpiredDocument
  <2>2. CASE UNCHANGED <<used, res, doc>>
    BY <2>1, <2>2 DEF StorageExact, Referenced, Reserved
  <2>3. CASE GiveBack(k) /\ doc' = [doc EXCEPT ![k] = IF @ = "done" THEN "cleared" ELSE @]
    <3>1. Referenced' = IF HasInput(k) THEN Referenced \ {k} ELSE Referenced
      BY <2>3 DEF Referenced, HasInput, Structure, TypeOK
    <3> QED BY <2>1, <2>3, <3>1, GiveBackExact
  <2>4. CASE /\ GiveBack(k)
             /\ doc' = [doc EXCEPT ![k] = IF @ \in {"done", "cleared"} THEN "deleted" ELSE @]
    <3>1. Referenced' = IF HasInput(k) THEN Referenced \ {k} ELSE Referenced
      BY <2>4 DEF Referenced, HasInput, Structure, TypeOK
    <3> QED BY <2>1, <2>4, <3>1, GiveBackExact
  <2> QED BY <1>6, <2>2, <2>3, <2>4 DEF MarkInputExpired, DeleteExpiredDocument
<1>7. CASE Restart
  BY <1>7 DEF Restart, StorageExact, Referenced, Reserved, tables
<1>8. CASE UNCHANGED <<used, reserved, tables>>
  BY <1>8 DEF StorageExact, Referenced, Reserved, tables
<1> QED
  BY <1>1, <1>2, <1>3, <1>4, <1>5, <1>6, <1>7, <1>8
  DEF Next, Presigning, Submitting, EndsTx, Retaining, vars, account, tables, HandOut,
      PresignFails, Prepare, GiveUp, RefuseScan, BeginCreate, Rollback, UndoPrepared, Put,
      CloseUrl, Expire, Age, SetQuota, StartPhase, DeleteReleased, DeleteInput,
      DeleteDocumentObject, CheckReference, DeleteOrphan

StorageInv == Structure /\ StorageExact

LEMMA StorageInvariant == Spec => []StorageInv
<1>1. Init => StorageInv
  <2>1. ASSUME Init PROVE Referenced = {} /\ Reserved = {}
    BY <2>1 DEF Init, Referenced, Reserved
  <2> QED BY <2>1, InitStructure, BytesOfNone DEF StorageInv, StorageExact, Init
<1>2. StorageInv /\ [Next]_vars => StorageInv'
  BY StructureStep, StorageExactStep DEF StorageInv
<1> QED BY <1>1, <1>2, PTL DEF Spec

\* The counters, tables, requests and the worker's lists keep their types; no
\* counter ever goes below zero and one transaction at a time holds the account.
THEOREM StorageTypes == Spec => []TypeOK
<1>1. StorageInv => TypeOK
  BY DEF StorageInv, Structure
<1> QED BY <1>1, StorageInvariant, PTL

\* storage_used_bytes and storage_reserved_bytes are the bytes of the rows they
\* stand for, whatever submissions, releases, retention and restarts interleave.
THEOREM CountersExact == Spec => []StorageExact
<1>1. StorageInv => StorageExact
  BY DEF StorageInv
<1> QED BY <1>1, StorageInvariant, PTL

-----------------------------------------------------------------------------
(* Consumed reservations *)

\* An upload's reservation is consumed for exactly as long as a document refers
\* to its object.
THEOREM ConsumedIsReferenced == Spec => []ConsumedWhileReferenced
<1>1. Init => ConsumedWhileReferenced
  BY DEF Init, ConsumedWhileReferenced, Referenced
<1>2. ASSUME StorageInv, ConsumedWhileReferenced, [Next]_vars PROVE ConsumedWhileReferenced'
  <2> USE DEF StorageInv, Structure, TypeOK, ConsumedWhileReferenced, Referenced, Keys
  <2>1. ASSUME NEW r \in Requests, NEW k \in Uploads, ReserveUpload(r, k)
        PROVE  ConsumedWhileReferenced'
    BY <1>2, <2>1 DEF ReserveUpload, UnmadeIsUnknown
  <2>2. ASSUME NEW r \in Requests, ReleaseUpload(r) PROVE ConsumedWhileReferenced'
    <3>1. UNCHANGED doc /\ (UNCHANGED res \/ \E k \in req[r].keys : Releasable(k) /\ Release(k))
      BY <2>2 DEF ReleaseUpload
    <3>2. CASE UNCHANGED res
      BY <1>2, <3>1, <3>2
    <3>3. ASSUME NEW k \in req[r].keys, Releasable(k), Release(k) PROVE ConsumedWhileReferenced'
      BY <1>2, <3>1, <3>3 DEF Release, Releasable
    <3> QED BY <3>1, <3>2, <3>3
  <2>3. ASSUME NEW r \in Requests, Commit(r) \/ CommitUnanswered(r)
        PROVE  ConsumedWhileReferenced'
    BY <1>2, <2>3 DEF Commit, CommitUnanswered, Created
  <2>4. ASSUME NEW k \in Keys, Finish(k) PROVE ConsumedWhileReferenced'
    BY <1>2, <2>4 DEF Finish
  <2>5. ASSUME NEW k \in Keys, ReleaseExpired(k) PROVE ConsumedWhileReferenced'
    BY <1>2, <2>5 DEF ReleaseExpired, Release, Releasable
  <2>6. ASSUME NEW k \in Keys, MarkInputExpired(k) PROVE ConsumedWhileReferenced'
    BY <1>2, <2>6 DEF MarkInputExpired, GiveBack, HasInput
  <2>7. ASSUME NEW k \in Keys, DeleteExpiredDocument(k) PROVE ConsumedWhileReferenced'
    BY <1>2, <2>7 DEF DeleteExpiredDocument, GiveBack, HasInput
  <2>8. CASE UNCHANGED tables
    BY <1>2, <2>8 DEF tables
  <2> QED
    BY <1>2, <2>1, <2>2, <2>3, <2>4, <2>5, <2>6, <2>7, <2>8
    DEF Next, Presigning, Submitting, EndsTx, Retaining, vars, HandOut,
        PresignFails, Prepare, GiveUp, RefuseScan, BeginCreate, Rollback, UndoPrepared, Put,
        CloseUrl, Expire, Age, SetQuota, StartPhase, DeleteReleased, DeleteInput,
        DeleteDocumentObject, CheckReference, DeleteOrphan, Restart
<1> QED BY <1>1, <1>2, StorageInvariant, PTL DEF Spec

-----------------------------------------------------------------------------
(* The quota.  What BeginCreate found to fit still fits when it commits: the *)
(* account stays locked, so nobody changes its counters or its quota.        *)

TxFits ==
  \A r \in Requests : At(r, "tx") =>
    Fits(Bytes(req[r].keys), reserved - Bytes(req[r].keys \cap Uploads))

LEMMA TxFitsStep ==
  ASSUME StorageInv, TxFits, [Next]_vars
  PROVE  TxFits'
<1> USE DEF StorageInv, Structure, TypeOK, TxFits, At
<1>1. ASSUME NEW r \in Requests, BeginCreate(r) PROVE TxFits'
  BY <1>1 DEF BeginCreate, Goto, Fits, account
<1>2. CASE \A r \in Requests : req'[r].stage # "tx"
  BY <1>2
<1>3. CASE /\ UNCHANGED account
           /\ \A r \in Requests : req'[r].stage = "tx" => req'[r] = req[r]
  BY <1>3 DEF account, Fits
<1>4. ASSUME NEW r \in Requests, Commit(r) \/ CommitUnanswered(r) PROVE TxFits'
  BY <1>2, <1>4 DEF Commit, CommitUnanswered, Goto
<1>5. ASSUME NEW r \in Requests,
             \/ \E k \in Uploads : ReserveUpload(r, k)
             \/ ReleaseUpload(r)
      PROVE  TxFits'
  <2>1. AccountUnlocked \/ UNCHANGED account
    BY <1>5 DEF ReserveUpload, ReleaseUpload, account
  <2>2. \A q \in Requests : req'[q].stage = "tx" => req'[q] = req[q]
    <3>1. CASE ReleaseUpload(r)
      BY <3>1 DEF ReleaseUpload, Goto
    <3>2. ASSUME NEW k \in Uploads, ReserveUpload(r, k)
          PROVE  \A q \in Requests : req'[q].stage = "tx" => req'[q] = req[q]
      BY <3>2 DEF ReserveUpload, Goto
    <3> QED BY <1>5, <3>1, <3>2
  <2> QED BY <1>2, <1>3, <2>1, <2>2 DEF AccountUnlocked
<1>6. ASSUME NEW r \in Requests,
             \/ HandOut(r) \/ PresignFails(r) \/ GiveUp(r) \/ RefuseScan(r) \/ Rollback(r)
             \/ UndoPrepared(r) \/ \E k \in Keys : Prepare(r, k)
      PROVE  TxFits'
  <2>1. \A q \in Requests : req'[q].stage = "tx" => req'[q] = req[q]
    BY <1>6 DEF HandOut, PresignFails, GiveUp, RefuseScan, Rollback, UndoPrepared, Prepare, Goto
  <2> QED BY <1>3, <1>6, <2>1
          DEF HandOut, PresignFails, GiveUp, RefuseScan, Rollback, UndoPrepared, Prepare
<1>7. ASSUME UNCHANGED req, AccountUnlocked \/ UNCHANGED account PROVE TxFits'
  BY <1>2, <1>3, <1>7 DEF AccountUnlocked
<1>8. ASSUME SetQuota \/ \E k \in Keys : ReleaseExpired(k) \/ MarkInputExpired(k)
                                          \/ DeleteExpiredDocument(k)
      PROVE  TxFits'
  BY <1>7, <1>8 DEF SetQuota, ReleaseExpired, MarkInputExpired, DeleteExpiredDocument, account
<1>9. CASE Restart
  BY <1>2, <1>9 DEF Restart, Idle
<1> QED
  BY <1>1, <1>3, <1>4, <1>5, <1>6, <1>7, <1>8, <1>9
  DEF Next, Presigning, Submitting, EndsTx, Retaining, vars, account, Put, CloseUrl, Expire,
      Age, Finish, StartPhase, DeleteReleased, DeleteInput, DeleteDocumentObject,
      CheckReference, DeleteOrphan

LEMMA TxFitsInvariant == Spec => []TxFits
<1>1. Init => TxFits
  BY DEF Init, TxFits, Idle, At
<1> QED BY <1>1, TxFitsStep, StorageInvariant, PTL DEF Spec

\* Arithmetic for the theorem below.
LEMMA SumMonotone ==
  ASSUME NEW a \in Nat, NEW b \in Nat, NEW c \in Nat, NEW d \in Nat, a <= c, b <= d
  PROVE  ~(a + b > c + d)
  OBVIOUS

\* No step commits more bytes, in rows and not only in counters, beyond the
\* quota, although a submission checks it in one step and inserts in another.
THEOREM QuotaIsNeverExceeded == Spec => NeverOversubscribed
<1>1. ASSUME StorageInv, StorageInv', TxFits, [Next]_vars
      PROVE  Committed' > Committed /\ quota # 0 => Committed' <= quota
  <2>1. /\ Committed = used + reserved /\ Committed' = used' + reserved'
        /\ used \in Nat /\ reserved \in Nat /\ used' \in Nat /\ reserved' \in Nat /\ quota \in Nat
    BY <1>1 DEF StorageInv, StorageExact, Committed, Structure, TypeOK
  <2>2. ASSUME NEW r \in Requests, NEW k \in Uploads, ReserveUpload(r, k)
        PROVE  quota # 0 => Committed' <= quota
    <3>1. Bytes({k}) \in Nat
      BY BytesFinite DEF Keys
    <3> QED BY <2>1, <2>2, <3>1 DEF ReserveUpload, Fits
  <2>3. ASSUME NEW r \in Requests, Commit(r) \/ CommitUnanswered(r)
        PROVE  quota # 0 => Committed' <= quota
    <3>1. At(r, "tx") /\ Created(req[r].keys)
      BY <2>3 DEF Commit, CommitUnanswered
    <3>2. req[r].keys \in SUBSET Keys /\ req[r].keys \cap Uploads \in SUBSET Keys
      BY <1>1, <3>1, TxKeysAreUnused DEF StorageInv
    <3>3. Bytes(req[r].keys) \in Nat /\ Bytes(req[r].keys \cap Uploads) \in Nat
      BY <3>2, BytesFinite
    <3> QED BY <1>1, <2>1, <3>1, <3>3 DEF TxFits, Fits, Created
  <2>4. ASSUME used' <= used, reserved' <= reserved PROVE ~(Committed' > Committed)
    <3>1. ~(used' + reserved' > used + reserved)
      BY <2>1, <2>4, SumMonotone
    <3> QED BY <2>1, <3>1
  <2>5. ASSUME NEW k \in Keys, Release(k) PROVE reserved' <= reserved
    BY <2>1, <2>5, BytesFinite DEF Release, AtLeast0
  <2>6. ASSUME NEW k \in Keys, GiveBack(k) PROVE used' <= used
    BY <2>1, <2>6, BytesFinite DEF GiveBack, AtLeast0
  <2>7. ASSUME NEW r \in Requests, ReleaseUpload(r) PROVE ~(Committed' > Committed)
    <3>1. req[r].keys \in SUBSET Keys
      BY <1>1 DEF StorageInv, Structure, TypeOK
    <3>2. used' = used
      BY <2>7 DEF ReleaseUpload
    <3>3. reserved' = reserved \/ \E k \in Keys : Release(k)
      BY <2>7, <3>1 DEF ReleaseUpload
    <3>4. used' <= used /\ reserved' <= reserved
      BY <2>1, <2>5, <3>2, <3>3
    <3> QED BY <2>4, <3>4
  <2>8. ASSUME NEW k \in Keys, ReleaseExpired(k) PROVE ~(Committed' > Committed)
    <3>1. used' = used /\ (reserved' = reserved \/ Release(k))
      BY <2>8 DEF ReleaseExpired
    <3>2. used' <= used /\ reserved' <= reserved
      BY <2>1, <2>5, <3>1
    <3> QED BY <2>4, <3>2
  <2>9. ASSUME NEW k \in Keys, MarkInputExpired(k) \/ DeleteExpiredDocument(k)
        PROVE  ~(Committed' > Committed)
    <3>1. reserved' = reserved /\ (used' = used \/ GiveBack(k))
      BY <2>9 DEF MarkInputExpired, DeleteExpiredDocument
    <3>2. used' <= used /\ reserved' <= reserved
      BY <2>1, <2>6, <3>1
    <3> QED BY <2>4, <3>2
  <2>10. CASE Restart
    BY <1>1, <2>1, <2>4, <2>10 DEF Restart, StorageInv, StorageExact
  <2>11. CASE UNCHANGED <<used, reserved>>
    BY <2>1, <2>4, <2>11
  <2> QED
    BY <1>1, <2>2, <2>3, <2>7, <2>8, <2>9, <2>10, <2>11
    DEF Next, Presigning, Submitting, EndsTx, Retaining, vars, account, HandOut,
        PresignFails, Prepare, GiveUp, RefuseScan, BeginCreate, Rollback, UndoPrepared, Put,
        CloseUrl, Expire, Age, Finish, SetQuota, StartPhase, DeleteReleased, DeleteInput,
        DeleteDocumentObject, CheckReference, DeleteOrphan
<1>2. StorageInv /\ StorageInv' /\ TxFits /\ [Next]_vars
        => [Committed' > Committed /\ quota # 0 => Committed' <= quota]_vars
  BY <1>1
<1> QED BY <1>2, StorageInvariant, TxFitsInvariant, PTL DEF Spec, NeverOversubscribed

-----------------------------------------------------------------------------
(* The inputs.  What a transaction holds, what a request has prepared and    *)
(* what the retention worker is about to delete never meet, the two windows  *)
(* apart: a reservation that was released stays so, an upload that is past   *)
(* its time enters no transaction, and terminal documents stay terminal.     *)

TxHasInputs == \A r \in Requests : At(r, "tx") => req[r].keys \subseteq object \cup exposed

PreparedHasInputs ==
  \A r \in Requests : At(r, "prepare") =>
    \A k \in req[r].keys : (k \in Uploads => Consumable(k)) => k \in object

UndoneIsUnused ==
  \A r \in Requests : At(r, "undo") =>
    \A k \in req[r].keys \ Uploads : doc[k] = "none" \/ k \in exposed

Terminal(k) == doc[k] \in {"done", "cleared", "deleted"}

RetentionIsSafe ==
  LET work == (ret.todo \cup {ret.item}) \ {NoKey}
      item == {ret.item} \ {NoKey} IN
  /\ ret.phase = "reservations" =>
       \A k \in item : k \in made /\ doc[k] = "none" /\ res[k] = "none"
  /\ ret.phase \in {"inputs", "documents"} => \A k \in work : Terminal(k)
  /\ ret.phase = "orphans" =>
       /\ work \subseteq past
       /\ \A k \in item : doc[k] = "live" \/ InTx(k) => k \in exposed

KeptInv ==
  /\ TxHasInputs /\ PreparedHasInputs /\ UndoneIsUnused /\ RetentionIsSafe
  /\ LiveInputKept

\* One step per action, and one per conjunct where an action can disturb several.
LEMMA KeptStep ==
  ASSUME Structure, Structure', KeptInv, [Next]_vars
  PROVE  KeptInv'
<1> USE DEF Structure, TypeOK, TxHasInputs, PreparedHasInputs, UndoneIsUnused, RetentionIsSafe,
        KeptInv, LiveInputKept, Terminal, InTx, Consumable, At, Goto, Keys, account, tables,
             clock
<1>1. ASSUME NEW r \in Requests, NEW k \in Uploads, ReserveUpload(r, k) PROVE KeptInv'
  BY <1>1 DEF ReserveUpload, UnmadeIsUnknown
<1>2. ASSUME NEW r \in Requests, HandOut(r) PROVE KeptInv'
  BY <1>2 DEF HandOut
<1>3. ASSUME NEW r \in Requests, PresignFails(r) PROVE KeptInv'
  BY <1>3 DEF PresignFails
<1>4. ASSUME NEW r \in Requests, ReleaseUpload(r) PROVE KeptInv'
  <2>1. TxHasInputs'
    BY <1>4 DEF ReleaseUpload
  <2>2. PreparedHasInputs'
    <3>1. CASE UNCHANGED res
      BY <1>4, <3>1 DEF ReleaseUpload
    <3>2. ASSUME NEW k \in Uploads, Releasable(k), Release(k) PROVE PreparedHasInputs'
      BY <1>4, <3>2 DEF ReleaseUpload, Release, Releasable
    <3> QED BY <1>4, <3>1, <3>2 DEF ReleaseUpload, StagesHaveKeys
  <2>3. UndoneIsUnused'
    BY <1>4 DEF ReleaseUpload
  <2>4. RetentionIsSafe'
    <3>1. CASE UNCHANGED res
      BY <1>4, <3>1 DEF ReleaseUpload
    <3>2. ASSUME NEW k \in Uploads, Releasable(k), Release(k) PROVE RetentionIsSafe'
      BY <1>4, <3>2 DEF ReleaseUpload, Release, Releasable
    <3> QED BY <1>4, <3>1, <3>2 DEF ReleaseUpload, StagesHaveKeys
  <2>5. LiveInputKept'
    BY <1>4 DEF ReleaseUpload
  <2> QED BY <2>1, <2>2, <2>3, <2>4, <2>5
<1>5. ASSUME NEW r \in Requests, NEW k \in Keys, Prepare(r, k) PROVE KeptInv'
  <2>1. TxHasInputs'
    BY <1>5 DEF Prepare
  <2>2. PreparedHasInputs'
    <3>1. object \subseteq object' /\ k \in object' /\ UNCHANGED <<res, past>>
      BY <1>5 DEF Prepare
    <3>2. /\ req' = [req EXCEPT ![r] = [stage |-> "prepare", keys |-> req[r].keys \cup {k}]]
          /\ At(r, "prepare") \/ req[r].keys = {}
      BY <1>5 DEF Prepare, StagesHaveKeys
    <3> QED BY <3>1, <3>2
  <2>3. UndoneIsUnused'
    BY <1>5 DEF Prepare
  <2>4. RetentionIsSafe'
    BY <1>5 DEF Prepare
  <2>5. LiveInputKept'
    BY <1>5 DEF Prepare
  <2> QED BY <2>1, <2>2, <2>3, <2>4, <2>5
<1>6. ASSUME NEW r \in Requests, GiveUp(r) PROVE KeptInv'
  BY <1>6 DEF GiveUp, InputsAreOwned
<1>7. ASSUME NEW r \in Requests, RefuseScan(r) PROVE KeptInv'
  BY <1>7 DEF RefuseScan
<1>8. ASSUME NEW r \in Requests, BeginCreate(r) PROVE KeptInv'
  BY <1>8 DEF BeginCreate
<1>9. ASSUME NEW r \in Requests, Commit(r) PROVE KeptInv'
  <2>1. TxHasInputs'
    BY <1>9 DEF Commit, Created
  <2>2. PreparedHasInputs'
    BY <1>9 DEF Commit, Created
  <2>3. UndoneIsUnused'
    <3>1. ASSUME NEW q \in Requests, q # r, At(q, "undo"), NEW k \in req[q].keys \ Uploads
          PROVE  k \notin req[r].keys
      BY <3>1 DEF InputsAreOwned
    <3> QED BY <1>9, <3>1 DEF Commit, Created
  <2>4. RetentionIsSafe'
    <3>1. /\ UNCHANGED <<ret, past, made, exposed>>
          /\ \A k \in Keys : InTx(k)' => InTx(k)
          /\ \A k \in Keys : doc'[k] = doc[k] \/ k \in req[r].keys
          /\ \A k \in Uploads : res'[k] = res[k] \/ k \in req[r].keys
      BY <1>9 DEF Commit, Created
    <3>2. \A k \in req[r].keys : doc[k] = "none" /\ InTx(k) /\ (k \in Uploads => res[k] =
         "reserved")
      BY <1>9, TxKeysAreUnused DEF Commit, Reserved
    <3>3. ret.phase = "reservations" => ret.item \in Uploads \cup {NoKey}
      BY DEF RetentionKeys
    <3>4. ASSUME ret.phase = "reservations", NEW k \in {ret.item} \ {NoKey} PROVE k \notin
         req[r].keys
      BY <3>2, <3>3, <3>4
    <3>5. ASSUME ret.phase \in {"inputs", "documents"}, NEW k \in (ret.todo \cup {ret.item})
         \ {NoKey}
          PROVE  k \notin req[r].keys
      BY <3>2, <3>5
    <3> QED BY <3>1, <3>2, <3>3, <3>4, <3>5
  <2>5. LiveInputKept'
    BY <1>9 DEF Commit, Created
  <2> QED BY <2>1, <2>2, <2>3, <2>4, <2>5
<1>10. ASSUME NEW r \in Requests, CommitUnanswered(r) PROVE KeptInv'
  <2>1. TxHasInputs'
    BY <1>10 DEF CommitUnanswered, Created
  <2>2. PreparedHasInputs'
    BY <1>10 DEF CommitUnanswered, Created
  <2>3. UndoneIsUnused'
    BY <1>10 DEF CommitUnanswered, Created
  <2>4. RetentionIsSafe'
    <3>1. /\ UNCHANGED <<ret, past, made>> /\ exposed \subseteq exposed'
          /\ \A k \in Keys : InTx(k)' => InTx(k)
          /\ \A k \in Keys : doc'[k] = doc[k] \/ k \in req[r].keys
          /\ \A k \in Uploads : res'[k] = res[k] \/ k \in req[r].keys
      BY <1>10 DEF CommitUnanswered, Created
    <3>2. \A k \in req[r].keys : doc[k] = "none" /\ InTx(k) /\ (k \in Uploads => res[k] =
         "reserved")
      BY <1>10, TxKeysAreUnused DEF CommitUnanswered, Reserved
    <3>3. ret.phase = "reservations" => ret.item \in Uploads \cup {NoKey}
      BY DEF RetentionKeys
    <3>4. ASSUME ret.phase = "reservations", NEW k \in {ret.item} \ {NoKey} PROVE k \notin
         req[r].keys
      BY <3>2, <3>3, <3>4
    <3>5. ASSUME ret.phase \in {"inputs", "documents"}, NEW k \in (ret.todo \cup {ret.item})
         \ {NoKey}
          PROVE  k \notin req[r].keys
      BY <3>2, <3>5
    <3> QED BY <3>1, <3>2, <3>3, <3>4, <3>5
  <2>5. LiveInputKept'
    BY <1>10 DEF CommitUnanswered, Created
  <2> QED BY <2>1, <2>2, <2>3, <2>4, <2>5
<1>11. ASSUME NEW r \in Requests, Rollback(r) PROVE KeptInv'
  BY <1>11 DEF Rollback, InputsAreOwned
<1>12. ASSUME NEW r \in Requests, UndoPrepared(r) PROVE KeptInv'
  BY <1>12 DEF UndoPrepared, Disposable, InputsAreOwned
<1>13. ASSUME NEW k \in Uploads, Put(k) PROVE KeptInv'
  BY <1>13 DEF Put
<1>14. ASSUME NEW k \in Uploads, CloseUrl(k) PROVE KeptInv'
  BY <1>14 DEF CloseUrl
<1>15. ASSUME NEW k \in Uploads, Expire(k) PROVE KeptInv'
  BY <1>15 DEF Expire
<1>16. ASSUME NEW k \in Uploads, Age(k) PROVE KeptInv'
  BY <1>16 DEF Age
<1>17. ASSUME NEW k \in Keys, Finish(k) PROVE KeptInv'
  BY <1>17 DEF Finish
<1>18. ASSUME SetQuota PROVE KeptInv'
  BY <1>18 DEF SetQuota
<1>19. ASSUME StartPhase PROVE KeptInv'
  <2>1. TxHasInputs'
    BY <1>19 DEF StartPhase
  <2>2. PreparedHasInputs'
    BY <1>19 DEF StartPhase
  <2>3. UndoneIsUnused'
    BY <1>19 DEF StartPhase
  <2>4. RetentionIsSafe'
    <3>1. PICK listed \in Listings(NextPhase(ret.phase)) :
            ret' = [phase |-> NextPhase(ret.phase), todo |-> listed, item |-> NoKey]
      BY <1>19 DEF StartPhase
    <3>2. UNCHANGED <<doc, past, exposed, made, res, req>>
      BY <1>19 DEF StartPhase
    <3>3. ret'.item = NoKey /\ ret'.todo = listed /\ ret'.phase = NextPhase(ret.phase)
      BY <3>1
    <3>4. ret'.phase \in {"inputs", "documents"} => \A k \in listed : Terminal(k)
      BY <3>1, <3>3 DEF Listings
    <3>5. ret'.phase = "orphans" => listed \subseteq past
      BY <3>1, <3>3 DEF Listings, OldUploads
    <3> QED BY <3>2, <3>3, <3>4, <3>5
  <2>5. LiveInputKept'
    BY <1>19 DEF StartPhase
  <2> QED BY <2>1, <2>2, <2>3, <2>4, <2>5
<1>20. ASSUME NEW k \in Keys, ReleaseExpired(k) PROVE KeptInv'
  <2>1. TxHasInputs'
    BY <1>20 DEF ReleaseExpired
  <2>2. PreparedHasInputs'
    BY <1>20 DEF ReleaseExpired, Release, Releasable
  <2>3. UndoneIsUnused'
    BY <1>20 DEF ReleaseExpired
  <2>4. RetentionIsSafe'
    <3>1. ret.phase = "reservations" /\ k \in Uploads /\ (Next1(k, k) \/ Next1(k, NoKey))
      BY <1>20 DEF ReleaseExpired, Takes, RetentionKeys
    <3>2. ret'.phase = "reservations" /\ (ret'.item = NoKey \/ ret'.item = k)
      BY <3>1, TakeResult
    <3>3. ret'.item = NoKey \/ (Releasable(k) /\ Release(k))
      BY <1>20, <3>1 DEF ReleaseExpired, Next1
    <3>4. Releasable(k) /\ Release(k) => k \in made /\ doc[k] = "none" /\ res'[k] = "none"
      BY <3>1 DEF Releasable, Release, ReservedIsUnused, UnmadeIsUnknown
    <3>5. UNCHANGED <<doc, made>>
      BY <1>20 DEF ReleaseExpired
    <3> QED BY <3>2, <3>3, <3>4, <3>5
  <2>5. LiveInputKept'
    BY <1>20 DEF ReleaseExpired
  <2> QED BY <2>1, <2>2, <2>3, <2>4, <2>5
<1>21. ASSUME NEW k \in Keys, DeleteReleased(k) PROVE KeptInv'
  <2>1. TxHasInputs'
    BY <1>21 DEF DeleteReleased, Holds, DeleteObject, DoneWithItem, TxHoldsReservations,
         Reserved, RetentionKeys
  <2>2. PreparedHasInputs'
    BY <1>21 DEF DeleteReleased, Holds, DeleteObject, DoneWithItem, RetentionKeys
  <2>3. UndoneIsUnused'
    BY <1>21 DEF DeleteReleased
  <2>4. RetentionIsSafe'
    BY <1>21 DEF DeleteReleased, Holds, DeleteObject, DoneWithItem
  <2>5. LiveInputKept'
    BY <1>21 DEF DeleteReleased, Holds, DeleteObject, DoneWithItem
  <2> QED BY <2>1, <2>2, <2>3, <2>4, <2>5
<1>22. ASSUME NEW k \in Keys, DeleteInput(k) PROVE KeptInv'
  <2>1. TxHasInputs'
    BY <1>22 DEF DeleteInput, Takes, Next1, ReservedIsUnused, TxHoldsReservations, Reserved,
         InputsAreOwned
  <2>2. PreparedHasInputs'
    BY <1>22 DEF DeleteInput, Takes, Next1, ReservedIsUnused, TxHoldsReservations, Reserved,
         InputsAreOwned
  <2>3. UndoneIsUnused'
    BY <1>22 DEF DeleteInput
  <2>4. RetentionIsSafe'
    <3>1. ret.phase = "inputs" /\ k \in ret.todo /\ UNCHANGED doc /\ (Next1(k, k) \/ Next1(k,
         NoKey))
      BY <1>22 DEF DeleteInput, Takes
    <3>2. ret'.phase = "inputs" /\ ret'.todo \subseteq ret.todo /\ ret'.item \in {k, NoKey}
      BY <3>1, TakeResult
    <3>3. \A u \in (ret'.todo \cup {ret'.item}) \ {NoKey} : Terminal(u)
      BY <3>1, <3>2
    <3> QED BY <3>1, <3>2, <3>3
  <2>5. LiveInputKept'
    BY <1>22 DEF DeleteInput, Takes, Next1
  <2> QED BY <2>1, <2>2, <2>3, <2>4, <2>5
<1>23. ASSUME NEW k \in Keys, MarkInputExpired(k) PROVE KeptInv'
  BY <1>23 DEF MarkInputExpired, Holds, DoneWithItem, GiveBack, HasInput
<1>24. ASSUME NEW k \in Keys, DeleteDocumentObject(k) PROVE KeptInv'
  <2>1. TxHasInputs'
    BY <1>24 DEF DeleteDocumentObject, Takes, Next1, ReservedIsUnused, TxHoldsReservations,
         Reserved, InputsAreOwned, DeleteObject
  <2>2. PreparedHasInputs'
    BY <1>24 DEF DeleteDocumentObject, Takes, Next1, ReservedIsUnused, TxHoldsReservations,
         Reserved, InputsAreOwned, DeleteObject
  <2>3. UndoneIsUnused'
    BY <1>24 DEF DeleteDocumentObject
  <2>4. RetentionIsSafe'
    BY <1>24 DEF DeleteDocumentObject, Takes, Next1
  <2>5. LiveInputKept'
    BY <1>24 DEF DeleteDocumentObject, Takes, Next1, DeleteObject
  <2> QED BY <2>1, <2>2, <2>3, <2>4, <2>5
<1>25. ASSUME NEW k \in Keys, DeleteExpiredDocument(k) PROVE KeptInv'
  BY <1>25 DEF DeleteExpiredDocument, Holds, DoneWithItem, GiveBack, HasInput
<1>26. ASSUME NEW k \in Keys, CheckReference(k) PROVE KeptInv'
  BY <1>26 DEF CheckReference, Takes, Next1, Referenced
<1>27. ASSUME NEW k \in Keys, DeleteOrphan(k) PROVE KeptInv'
  BY <1>27 DEF DeleteOrphan, Holds, DeleteObject, DoneWithItem
<1>28. ASSUME Restart PROVE KeptInv'
  BY <1>28 DEF Restart, Resting, Idle
<1>29. CASE UNCHANGED vars
  BY <1>29 DEF vars
<1> QED BY <1>1, <1>2, <1>3, <1>4, <1>5, <1>6, <1>7, <1>8, <1>9, <1>10, <1>11, <1>12, <1>13,
     <1>14, <1>15, <1>16, <1>17, <1>18, <1>19, <1>20, <1>21, <1>22, <1>23, <1>24, <1>25,
     <1>26, <1>27, <1>28, <1>29 DEF Next, Presigning, Submitting, EndsTx, Retaining

\* A queued or processing document has its input object, unless its key was in
\* one of the two windows of LiveInputKept: no release, sweep, cleanup of a
\* failed submission or retention pass takes it away.
THEOREM InputsAreKept == Spec => []LiveInputKept
<1>1. Init => KeptInv
  BY DEF Init, KeptInv, TxHasInputs, PreparedHasInputs, UndoneIsUnused, RetentionIsSafe,
         LiveInputKept, At, Idle, Resting
<1>2. StorageInv /\ StorageInv' /\ KeptInv /\ [Next]_vars => KeptInv'
  BY KeptStep DEF StorageInv
<1>3. KeptInv => LiveInputKept
  BY DEF KeptInv
<1> QED BY <1>1, <1>2, <1>3, StorageInvariant, PTL DEF Spec
-----------------------------------------------------------------------------
(* The promise to the account's owner.  A step of the tables that moves      *)
(* bytes is one step of StoragePromise; every other step leaves the counters *)
(* and every input's life alone.                                             *)

Promised == <<quota, used, reserved, LifeOf>>

\* A generated key's life does not depend on `made`, an unknown one is new.
LEMMA LifeOfKeys ==
  ASSUME Structure, NEW k \in Keys
  PROVE  /\ doc[k] \in {"live", "done"} => LifeOf[k] = "used"
         /\ k \in Reserved => LifeOf[k] = "reserved"
         /\ k \in Inputs /\ doc[k] = "none" => LifeOf[k] = "new"
         /\ k \notin made => LifeOf[k] = "new"
         /\ doc[k] \in {"cleared", "deleted"} /\ k \notin Reserved => LifeOf[k] = "gone"
         /\ k \in Uploads \cap made /\ doc[k] = "none" /\ k \notin Reserved => LifeOf[k] = "gone"
  BY DEF Structure, TypeOK, LifeOf, Referenced, Reserved, ReservedIsUnused, UnmadeIsUnknown, Keys

LEMMA PromiseInit == Init => Promise!Init
<1> SUFFICES ASSUME Init PROVE Promise!Init
  OBVIOUS
<1>1. LifeOf = [k \in Keys |-> "new"]
  BY DEF Init, LifeOf, Referenced, Reserved, Keys
<1> QED BY <1>1 DEF Init, Promise!Init

\* The same tables and the same unknown uploads: the same lives.
LEMMA SameLives ==
  ASSUME Structure, Structure', UNCHANGED tables,
         \A k \in Uploads : k \in made' <=> k \in made
  PROVE  LifeOf' = LifeOf
  BY DEF LifeOf, Referenced, Reserved, tables

\* LifeOf' is known key by key.
LEMMA LivesMove ==
  ASSUME NEW K \in SUBSET Keys, NEW to,
         \A k \in Keys : LifeOf'[k] = IF k \in K THEN to ELSE LifeOf[k]
  PROVE  Promise!Move(K, to)
<1>1. LifeOf' = [k \in Keys |-> LifeOf'[k]]
  BY DEF LifeOf
<1> QED BY <1>1 DEF Promise!Move

LEMMA ReserveIsPromised ==
  ASSUME Structure, Structure', StorageExact, NEW r \in Requests, NEW k \in Uploads,
         ReserveUpload(r, k)
  PROVE  Promise!Reserve(k)
<1>1. k \in Keys \ made /\ LifeOf[k] = "new"
  BY LifeOfKeys DEF ReserveUpload, Keys
<1>2. Referenced' = Referenced /\ Reserved' = Reserved \cup {k} /\ k \notin Referenced
  BY <1>1 DEF ReserveUpload, Reserved, Referenced, Structure, TypeOK, UnmadeIsUnknown
<1>3. \A j \in Keys : LifeOf'[j] = IF j \in {k} THEN "reserved" ELSE LifeOf[j]
  BY <1>2 DEF LifeOf, ReserveUpload
<1>4. Promise!Move({k}, "reserved")
  BY <1>1, <1>3, LivesMove
<1>5. Bytes({k}) \in Nat /\ used \in Nat /\ reserved \in Nat /\ quota \in Nat
  BY <1>1, BytesFinite DEF Structure, TypeOK
<1>6. Promise!WithinQuota
  BY <1>5 DEF Promise!WithinQuota, ReserveUpload, Fits
<1> QED BY <1>1, <1>4, <1>6 DEF Promise!Reserve, ReserveUpload

LEMMA SubmitIsPromised ==
  ASSUME Structure, Structure', StorageExact, TxFits, NEW r \in Requests, At(r, "tx"),
         Created(req[r].keys), UNCHANGED <<quota, made>>
  PROVE  \E K \in SUBSET Keys : \E held \in SUBSET K : Promise!Submit(K, held)
<1>1. PICK K : K = req[r].keys
  OBVIOUS
<1>2. PICK held : held = K \cap Uploads
  OBVIOUS
<1>3. /\ K \in SUBSET Keys /\ \A k \in K : doc[k] = "none"
      /\ held \in SUBSET Reserved /\ held \in SUBSET K
  BY <1>1, <1>2, TxKeysAreUnused
<1>4. /\ Referenced' = Referenced \cup K /\ Reserved' = Reserved \ held
      /\ used' = used + Bytes(K) /\ reserved' = reserved - Bytes(held)
  BY <1>1, <1>2, CreatedExact DEF Created
<1>5. ASSUME NEW k \in K
      PROVE  LifeOf[k] = IF k \in held THEN "reserved" ELSE "new"
  <2>1. k \in Keys /\ doc[k] = "none" /\ (k \in held => k \in Reserved)
    BY <1>3, <1>5
  <2>2. k \notin held => k \in Inputs
    BY <1>2, <1>5, <2>1 DEF Keys
  <2> QED BY <2>1, <2>2, LifeOfKeys
<1>6. \A k \in Keys : LifeOf'[k] = IF k \in K THEN "used" ELSE LifeOf[k]
  <2>1. \A k \in Keys \ K : doc'[k] = doc[k] /\ (k \in Reserved' <=> k \in Reserved)
                            /\ (k \in Referenced' <=> k \in Referenced)
    BY <1>1, <1>3, <1>4 DEF Created
  <2>2. \A k \in K : k \in Referenced'
    BY <1>4
  <2> QED BY <1>3, <2>1, <2>2 DEF LifeOf
<1>7. Promise!Move(K, "used")
  BY <1>3, <1>6, LivesMove
<1>8. /\ Bytes(K) \in Nat /\ Bytes(held) \in Nat
      /\ used \in Nat /\ reserved \in Nat /\ quota \in Nat
  <2>1. held \in SUBSET Keys
    BY <1>3
  <2> QED BY <1>3, <2>1, BytesFinite DEF Structure, TypeOK
<1>9. Fits(Bytes(K), reserved - Bytes(held))
  BY <1>1, <1>2 DEF TxFits
<1>10. Promise!WithinQuota
  BY <1>4, <1>8, <1>9 DEF Promise!WithinQuota, Fits
<1>11. Promise!Submit(K, held)
  BY <1>4, <1>5, <1>7, <1>10 DEF Promise!Submit
<1> QED BY <1>3, <1>11

LEMMA RefundIsPromised ==
  ASSUME Structure, Structure', StorageExact, NEW k \in Uploads, Releasable(k), Release(k),
         UNCHANGED <<quota, used, doc, made>>
  PROVE  Promise!Refund(k)
<1>1. k \in Keys /\ k \in Reserved /\ LifeOf[k] = "reserved" /\ k \in made /\ doc[k] = "none"
  BY LifeOfKeys DEF Reserved, Releasable, Keys, Structure, ReservedIsUnused, UnmadeIsUnknown
<1>2. Referenced' = Referenced /\ Reserved' = Reserved \ {k} /\ k \notin Referenced
  BY <1>1 DEF Referenced, Reserved, Release, Structure, TypeOK
<1>3. \A j \in Keys : LifeOf'[j] = IF j \in {k} THEN "gone" ELSE LifeOf[j]
  BY <1>1, <1>2 DEF LifeOf
<1>4. Promise!Move({k}, "gone")
  BY <1>1, <1>3, LivesMove
<1>5. Reserved \in SUBSET Keys /\ {k} \in SUBSET Reserved
  BY <1>1 DEF Reserved, Keys
<1>6. reserved - Bytes({k}) = Bytes(Reserved \ {k})
  BY <1>5, BytesMinus DEF StorageExact
<1>7. reserved - Bytes({k}) \in Nat
  BY <1>5, <1>6, BytesFinite
<1>8. reserved' = reserved - Bytes({k})
  BY <1>7 DEF Release, AtLeast0
<1> QED BY <1>1, <1>4, <1>8 DEF Promise!Refund

\* A retained row loses its input; of one that has none left, no life changes.
LEMMA GiveBackIsPromised ==
  ASSUME Structure, Structure', StorageExact, NEW k \in Keys, GiveBack(k),
         NEW new, doc' = [doc EXCEPT ![k] = new],
         HasInput(k) => new \in {"cleared", "deleted"},
         ~HasInput(k) => new = doc[k] \/ {new, doc[k]} \subseteq {"cleared", "deleted"},
         UNCHANGED <<quota, reserved, made>>
  PROVE  Promise!GiveBack(k) \/ UNCHANGED Promised
<1>1. Reserved' = Reserved
  BY DEF Reserved, GiveBack, Structure, TypeOK
<1>2. /\ doc \in [Keys -> Statuses]
      /\ \A j \in Keys : j # k => doc'[j] = doc[j]
      /\ doc'[k] = new
  BY DEF Structure, TypeOK
<1>3. CASE HasInput(k)
  <2>1. doc[k] = "done" /\ new \in {"cleared", "deleted"} /\ k \in Referenced /\ LifeOf[k] = "used"
    BY <1>2, <1>3, LifeOfKeys DEF HasInput, Referenced
  <2>2. k \notin Reserved
    BY <2>1 DEF Structure, ReservedIsUnused, Reserved
  <2>3. Referenced' = Referenced \ {k}
    BY <1>2, <2>1 DEF Referenced
  <2>4. \A j \in Keys : LifeOf'[j] = IF j \in {k} THEN "gone" ELSE LifeOf[j]
    BY <1>1, <1>2, <2>1, <2>2, <2>3 DEF LifeOf
  <2>5. Promise!Move({k}, "gone")
    BY <2>4, LivesMove
  <2>6. Referenced \in SUBSET Keys /\ {k} \in SUBSET Referenced
    BY <2>1 DEF Referenced
  <2>7. used - Bytes({k}) = Bytes(Referenced \ {k})
    BY <2>6, BytesMinus DEF StorageExact
  <2>8. used - Bytes({k}) \in Nat
    BY <2>6, <2>7, BytesFinite
  <2>9. used' = used - Bytes({k})
    BY <1>3, <2>8 DEF GiveBack, AtLeast0
  <2> QED BY <2>1, <2>5, <2>9 DEF Promise!GiveBack
<1>4. CASE ~HasInput(k)
  <2>1. Referenced' = Referenced /\ UNCHANGED used
    BY <1>2, <1>4 DEF Referenced, HasInput, GiveBack
  <2>2. \A j \in Keys : doc'[j] \in {"cleared", "deleted"} <=> doc[j] \in {"cleared", "deleted"}
    BY <1>2, <1>4 DEF HasInput
  <2>3. LifeOf' = LifeOf
    BY <1>1, <2>1, <2>2 DEF LifeOf
  <2> QED BY <2>1, <2>3 DEF Promised
<1> QED BY <1>3, <1>4
\* One step per action that moves bytes, changes a document or starts over.
LEMMA StepIsPromised ==
  ASSUME StorageInv, StorageInv', TxFits, [Next]_vars
  PROVE  [Promise!Next]_Promise!vars
<1> USE DEF StorageInv
<1> SUFFICES Promise!Next \/ UNCHANGED Promised
  BY DEF Promise!vars, Promised
<1>1. ASSUME NEW r \in Requests, NEW k \in Uploads, ReserveUpload(r, k)
      PROVE  Promise!Next
  BY <1>1, ReserveIsPromised DEF Promise!Next, Keys
<1>2. ASSUME NEW r \in Requests, Commit(r) \/ CommitUnanswered(r)
      PROVE  Promise!Next
  <2>1. At(r, "tx") /\ Created(req[r].keys) /\ UNCHANGED <<quota, made>>
    BY <1>2 DEF Commit, CommitUnanswered
  <2> QED BY <2>1, SubmitIsPromised DEF Promise!Next
<1>3. ASSUME UNCHANGED account, UNCHANGED tables, \A k \in Uploads : k \in made' <=> k \in made
      PROVE  UNCHANGED Promised
  BY <1>3, SameLives DEF Promised, account
<1>4. ASSUME NEW k \in Uploads, Releasable(k), Release(k), UNCHANGED <<quota, used, doc, made>>
      PROVE  Promise!Next
  BY <1>4, RefundIsPromised DEF Promise!Next, Keys
<1>5. ASSUME NEW r \in Requests, ReleaseUpload(r)
      PROVE  Promise!Next \/ UNCHANGED Promised
  <2>1. UNCHANGED <<quota, used, doc, made>>
    BY <1>5 DEF ReleaseUpload
  <2>2. UNCHANGED <<res, reserved>> \/ \E k \in Uploads : Releasable(k) /\ Release(k)
    BY <1>5 DEF ReleaseUpload, Structure, StagesHaveKeys, At
  <2> QED BY <1>3, <1>4, <2>1, <2>2 DEF account, tables
<1>6. ASSUME NEW k \in Keys, ReleaseExpired(k)
      PROVE  Promise!Next \/ UNCHANGED Promised
  <2>1. UNCHANGED <<quota, used, doc, made>> /\ k \in Uploads
    BY <1>6 DEF ReleaseExpired, Takes, Structure, RetentionKeys
  <2>2. UNCHANGED <<res, reserved>> \/ (Releasable(k) /\ Release(k))
    BY <1>6 DEF ReleaseExpired
  <2> QED BY <1>3, <1>4, <2>1, <2>2 DEF account, tables
<1>7. ASSUME NEW k \in Keys, MarkInputExpired(k)
      PROVE  Promise!Next \/ UNCHANGED Promised
  <2>1. CASE UNCHANGED <<used, res, doc>>
    BY <1>3, <1>7, <2>1 DEF MarkInputExpired, account, tables
  <2>2. CASE GiveBack(k) /\ doc' = [doc EXCEPT ![k] = IF @ = "done" THEN "cleared" ELSE @]
    <3>1. PICK new : new = IF doc[k] = "done" THEN "cleared" ELSE doc[k]
      OBVIOUS
    <3>2. Promise!GiveBack(k) \/ UNCHANGED Promised
      BY <1>7, <2>2, <3>1, GiveBackIsPromised DEF MarkInputExpired, HasInput
    <3> QED BY <3>2 DEF Promise!Next
  <2> QED BY <1>7, <2>1, <2>2 DEF MarkInputExpired
<1>8. ASSUME NEW k \in Keys, DeleteExpiredDocument(k)
      PROVE  Promise!Next \/ UNCHANGED Promised
  <2>1. CASE UNCHANGED <<used, res, doc>>
    BY <1>3, <1>8, <2>1 DEF DeleteExpiredDocument, account, tables
  <2>2. CASE /\ GiveBack(k)
             /\ doc' = [doc EXCEPT ![k] = IF @ \in {"done", "cleared"} THEN "deleted" ELSE @]
    <3>1. PICK new : new = IF doc[k] \in {"done", "cleared"} THEN "deleted" ELSE doc[k]
      OBVIOUS
    <3>2. Promise!GiveBack(k) \/ UNCHANGED Promised
      BY <1>8, <2>2, <3>1, GiveBackIsPromised DEF DeleteExpiredDocument, HasInput
    <3> QED BY <3>2 DEF Promise!Next
  <2> QED BY <1>8, <2>1, <2>2 DEF DeleteExpiredDocument
<1>9. ASSUME NEW k \in Keys, Finish(k)
      PROVE  UNCHANGED Promised
  <2>1. Referenced' = Referenced /\ Reserved' = Reserved /\ UNCHANGED <<account, made>>
    BY <1>9 DEF Finish, Referenced, Reserved, Structure, TypeOK
  <2>2. \A j \in Keys : doc'[j] \in {"cleared", "deleted"} <=> doc[j] \in {"cleared", "deleted"}
    BY <1>9 DEF Finish, Structure, TypeOK
  <2> QED BY <2>1, <2>2 DEF Promised, LifeOf, account
<1>10. ASSUME SetQuota
       PROVE  Promise!Next
  <2>1. LifeOf' = LifeOf
    BY <1>10, SameLives DEF SetQuota
  <2> QED BY <1>10, <2>1 DEF SetQuota, Promise!Next, Promise!SetQuota
<1>11. ASSUME Restart
       PROVE  UNCHANGED Promised
  <2>1. LifeOf' = LifeOf /\ UNCHANGED account
    BY <1>11, SameLives DEF Restart, StorageExact, account
  <2> QED BY <2>1 DEF Promised, account
<1>12. ASSUME NEW r \in Requests, NEW k \in Keys, Prepare(r, k)
       PROVE  UNCHANGED Promised
  BY <1>3, <1>12 DEF Prepare
<1> QED
  BY <1>1, <1>2, <1>3, <1>5, <1>6, <1>7, <1>8, <1>9, <1>10, <1>11, <1>12
  DEF Next, Presigning, Submitting, EndsTx, Retaining, vars, HandOut, PresignFails,
      GiveUp, RefuseScan, BeginCreate, Rollback, UndoPrepared, Put, CloseUrl, Expire, Age,
      StartPhase, DeleteReleased, DeleteInput, DeleteDocumentObject, CheckReference,
      DeleteOrphan

\* Reservations, submissions, retention, lost answers and restarts together
\* implement StoragePromise: every input's bytes are reserved and used at most
\* once and come back once, within the quota in force.
THEOREM StorageRefinement == Spec => KeepsStoragePromise
<1>1. StorageInv /\ StorageInv' /\ TxFits /\ [Next]_vars => [Promise!Next]_Promise!vars
  BY StepIsPromised
<1> QED BY <1>1, PromiseInit, StorageInvariant, TxFitsInvariant, PTL
        DEF Spec, KeepsStoragePromise, Promise!Spec
=============================================================================
