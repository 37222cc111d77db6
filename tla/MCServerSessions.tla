--------------------------- MODULE MCServerSessions ---------------------------
(* Small instances of ServerSessions for TLC.                              *)
EXTENDS ServerSessions, TLC

\* Handlers, users and counters are interchangeable.
Symmetry ==
  Permutations(Handlers) \cup Permutations(Users) \cup Permutations(Cells)

=============================================================================
