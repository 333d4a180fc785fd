----------------------------- MODULE MCLocalDev -----------------------------
(***************************************************************************)
(* Instances of LocalDev for TLC.                                          *)
(***************************************************************************)
EXTENDS LocalDev, TLC
=============================================================================
