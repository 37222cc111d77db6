---------------------------- MODULE MCClientChannel ----------------------------
(***************************************************************************)
(* Instances of ClientChannel for TLC.  Callers, frame loops, links and    *)
(* incoming channels are interchangeable, so safety runs use symmetry.     *)
(***************************************************************************)
EXTENDS ClientChannel, TLC

Symmetry == Permutations(Callers) \cup Permutations(Loops)
              \cup Permutations(Links) \cup Permutations(Inboxes)
=============================================================================
