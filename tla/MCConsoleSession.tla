-------------------------- MODULE MCConsoleSession --------------------------
(***************************************************************************)
(* The instance of ConsoleSession for TLC (see Session.cfg).               *)
(***************************************************************************)
EXTENDS ConsoleSession, TLC
=============================================================================
