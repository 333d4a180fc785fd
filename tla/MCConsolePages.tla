--------------------------- MODULE MCConsolePages ---------------------------
(***************************************************************************)
(* Instances of ConsolePages for TLC.                                      *)
(***************************************************************************)
EXTENDS ConsolePages, TLC

\* What is typed into a field: nothing useful, an empty or a negative number.
TypableSmall == {-1}
=============================================================================
