----------------------------- MODULE ReplayWindow -----------------------------
(***************************************************************************)
(* What the replay filter promises, without locks and Bloom filters: every *)
(* request gets one answer, and what was let in is not let in again before *)
(* two rotations have passed.  Turning away what is new is allowed: that   *)
(* is a false positive.                                                    *)
(***************************************************************************)
EXTENDS Naturals

CONSTANTS Callers, Data, None

VARIABLES
  age,      \* rotations since a datum was last let in; Expired: two or more
  request,  \* what a caller asks about (None: nothing)
  answer    \* what it was told last

vars == <<age, request, answer>>

Expired == 2
Ages == 0 .. Expired

Older(n) == IF n = Expired THEN Expired ELSE n + 1

Init ==
  /\ age = [d \in Data |-> Expired]
  /\ request = [c \in Callers |-> None]
  /\ answer = [c \in Callers |-> "none"]

Ask(c, d) ==
  /\ request[c] = None
  /\ request' = [request EXCEPT ![c] = d]
  /\ answer' = [answer EXCEPT ![c] = "none"]
  /\ UNCHANGED age

Reply(c, verdict) ==
  /\ request[c] # None
  /\ request' = [request EXCEPT ![c] = None]
  /\ answer' = [answer EXCEPT ![c] = verdict]

LetIn(c) ==
  /\ request[c] # None /\ age[request[c]] = Expired
  /\ Reply(c, "new")
  /\ age' = [age EXCEPT ![request[c]] = 0]

TurnAway(c) == Reply(c, "replay") /\ UNCHANGED age

Rotate ==
  /\ age' = [d \in Data |-> Older(age[d])]
  /\ UNCHANGED <<request, answer>>

Next ==
  \/ \E c \in Callers : LetIn(c) \/ TurnAway(c) \/ \E d \in Data : Ask(c, d)
  \/ Rotate

Spec == Init /\ [][Next]_vars

=============================================================================
