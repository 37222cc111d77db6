------------------------------ MODULE MCTunUDP ------------------------------
(* Small instances of TunUDP for TLC.                                      *)
EXTENDS TunUDP, TLC

\* Datagrams, ids and sockets are interchangeable.
Symmetry ==
  Permutations(Handlers) \cup Permutations(IDs) \cup Permutations(Sockets)

=============================================================================
