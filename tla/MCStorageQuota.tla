--------------------------- MODULE MCStorageQuota ---------------------------
(***************************************************************************)
(* The instance of StorageQuota for TLC (see Storage.cfg).                 *)
(***************************************************************************)
EXTENDS StorageQuota, TLC

\* Uploads and other inputs differ in size, so that no byte is mistaken.
SizeSmall == [k \in Keys |-> IF k \in Uploads THEN 2 ELSE 1]
=============================================================================
