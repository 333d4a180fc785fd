--------------------------- MODULE StoragePromise ---------------------------
(***************************************************************************)
(* What the service promises for the storage quota of an account           *)
(* (API_REFERENCE.md, "presign"): the bytes of an input are reserved,      *)
(* become used when a document is created for it, and come back once, from *)
(* where they are, when the reservation or the input is given up.  Nothing *)
(* is reserved or used beyond the quota in force.                          *)
(***************************************************************************)
EXTENDS Integers

CONSTANTS
  Keys,       \* the account's inputs
  Quotas,
  Bytes(_)    \* of a set of inputs

VARIABLES
  quota, used, reserved,
  life        \* of an input: new -> reserved -> used -> gone, with short cuts

vars == <<quota, used, reserved, life>>

Init ==
  /\ quota \in Quotas /\ used = 0 /\ reserved = 0
  /\ life = [k \in Keys |-> "new"]

\* The step leaves no more bytes than the quota allows; 0 is unlimited.
WithinQuota == quota # 0 => used' + reserved' <= quota

\* All inputs of K move on together.
Move(K, to) == life' = [k \in Keys |-> IF k \in K THEN to ELSE life[k]]

Reserve(k) ==
  /\ life[k] = "new" /\ WithinQuota
  /\ Move({k}, "reserved")
  /\ reserved' = reserved + Bytes({k})
  /\ UNCHANGED <<quota, used>>

\* A submission takes all its inputs or none; `held` are those reserved before.
Submit(K, held) ==
  /\ \A k \in K : life[k] = (IF k \in held THEN "reserved" ELSE "new")
  /\ WithinQuota
  /\ Move(K, "used")
  /\ used' = used + Bytes(K)
  /\ reserved' = reserved - Bytes(held)
  /\ UNCHANGED quota

Refund(k) ==
  /\ life[k] = "reserved"
  /\ Move({k}, "gone")
  /\ reserved' = reserved - Bytes({k})
  /\ UNCHANGED <<quota, used>>

GiveBack(k) ==
  /\ life[k] = "used"
  /\ Move({k}, "gone")
  /\ used' = used - Bytes({k})
  /\ UNCHANGED <<quota, reserved>>

\* An administrator may also lower it below what is used.
SetQuota == quota' \in Quotas /\ UNCHANGED <<used, reserved, life>>

Next ==
  \/ \E k \in Keys : Reserve(k) \/ Refund(k) \/ GiveBack(k)
  \/ \E K \in SUBSET Keys : \E held \in SUBSET K : Submit(K, held)
  \/ SetQuota

Spec == Init /\ [][Next]_vars
=============================================================================
