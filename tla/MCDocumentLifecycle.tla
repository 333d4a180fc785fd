------------------------ MODULE MCDocumentLifecycle ------------------------
(***************************************************************************)
(* Instances of DocumentLifecycle for TLC.                                 *)
(***************************************************************************)
EXTENDS DocumentLifecycle, TLC

\* Attempt ids and callback requests are interchangeable.
Symmetry == Permutations(Attempts) \cup Permutations(Handlers)

=============================================================================
