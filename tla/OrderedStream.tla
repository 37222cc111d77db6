---------------------------- MODULE OrderedStream ----------------------------
(***************************************************************************)
(* What every transport of StealthLink promises of each stream it carries, *)
(* without buffers, pools and goroutines: what is received was sent, in    *)
(* the order in which it was sent, once, and nothing is missing in         *)
(* between.  A stream may be lost at any time, with some of what is on its *)
(* way; what is left of it may still arrive.                               *)
(*                                                                         *)
(* The next-state relation leaves every stream a step of its own, since    *)
(* one event (a connection that fails) may end several of them.            *)
(***************************************************************************)
EXTENDS Naturals, Sequences

CONSTANTS Streams

VARIABLES
  transit,   \* what was sent and not received yet, the oldest first
  received,  \* what was received
  lost       \* the stream has failed

vars == <<transit, received, lost>>

Init ==
  /\ transit = [s \in Streams |-> <<>>]
  /\ received = [s \in Streams |-> <<>>]
  /\ lost = [s \in Streams |-> FALSE]

Begins(p, q) == Len(p) <= Len(q) /\ p = SubSeq(q, 1, Len(p))

Send(s) ==
  /\ ~lost[s] /\ ~lost'[s]
  /\ Begins(transit[s], transit'[s])
  /\ received'[s] = received[s]

Receive(s) ==
  /\ lost'[s] = lost[s]
  /\ received'[s] \o transit'[s] = received[s] \o transit[s]
  /\ Begins(received[s], received'[s])

Lose(s) ==
  /\ lost'[s]
  /\ Begins(transit'[s], transit[s])
  /\ received'[s] = received[s]

Next == \A s \in Streams : Send(s) \/ Receive(s) \/ Lose(s)

Spec == Init /\ [][Next]_vars

=============================================================================
