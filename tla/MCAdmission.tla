----------------------------- MODULE MCAdmission -----------------------------
(* A small instance of Admission: two connections from one address.        *)
EXTENDS Admission, TLC

CONSTANTS c1, c2, d1, d2, host

MCCallers == {c1, c2}
MCData == {d1, d2}

\* d1 is a false positive once d2 is in.
MCBits == d1 :> {1} @@ d2 :> {1, 2}

MCAddress == c1 :> host @@ c2 :> host

\* The clock of c2 is a minute behind.
MCLag == c1 :> 0 @@ c2 :> 1

=============================================================================
