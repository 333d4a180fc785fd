-------------------------- MODULE DocumentPromise --------------------------
(***************************************************************************)
(* What the service promises for a document (SRS.md, "Document lifecycle": *)
(* queued -> processing -> completed or failed) and for the quota it is    *)
(* charged to.  A queued document is claimed, a processing one may go back *)
(* to the queue or settle, a settled one never changes, and settling gives *)
(* back one quota unit only when the service itself is to blame.           *)
(***************************************************************************)
EXTENDS Integers

CONSTANT Docs
VARIABLES
  status,   \* what polling the document shows
  used      \* quota units charged to the account

vars == <<status, used>>

Init == status = [d \in Docs |-> "none"] /\ used = 0

Submit(d) ==
  /\ status[d] = "none"
  /\ status' = [status EXCEPT ![d] = "queued"]
  /\ used' = used + 1

Claim(d) ==
  /\ status[d] = "queued"
  /\ status' = [status EXCEPT ![d] = "processing"]
  /\ UNCHANGED used

Requeue(d) ==
  /\ status[d] = "processing"
  /\ status' = [status EXCEPT ![d] = "queued"]
  /\ UNCHANGED used

Complete(d) ==
  /\ status[d] = "processing"
  /\ status' = [status EXCEPT ![d] = "completed"]
  /\ UNCHANGED used

\* The unit comes back when dispatch or the retry budget failed, not when the
\* worker or the extractor reported a failure.
Fail(d) ==
  /\ status[d] = "processing"
  /\ status' = [status EXCEPT ![d] = "failed"]
  /\ used' \in {used, used - 1}

\* An administrator starts a new quota period.
Reset == used' = 0 /\ UNCHANGED status

Next ==
  \/ \E d \in Docs : Submit(d) \/ Claim(d) \/ Requeue(d) \/ Complete(d) \/ Fail(d)
  \/ Reset

Spec == Init /\ [][Next]_vars

=============================================================================
