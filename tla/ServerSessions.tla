---------------------------- MODULE ServerSessions ----------------------------
(***************************************************************************)
(* How the server counts what its users do (core/transport/server.go and   *)
(* firewall.go).  Every request is served by a goroutine of its own that   *)
(* asks the firewall, enters the user's connection count, relays, and      *)
(* leaves the count through deferred calls on every way out.               *)
(*                                                                         *)
(* The counters are shared: a map from users to atomic integers that is    *)
(* filled on demand under fw.mu, and the map of live sessions under s.mu.  *)
(* A step is one critical section or one atomic operation.                 *)
(***************************************************************************)
EXTENDS Integers, FiniteSets

CONSTANTS
  Handlers,  \* goroutines that may serve a request at the same time
  Users,
  Cells,     \* the *int64 counters that can be allocated (a bound)
  Limit,     \* MaxConnectionsPerUser; 0 means no limit
  Kinds,     \* the kinds of request that arrive, out of those of AllKinds
  None

\* direct: a connection over TLS and its like; stream: a QUIC stream; tun: a
\* persistent channel; connect: a FrameConnect that arrives on such a channel.
AllKinds == {"direct", "stream", "tun", "connect"}

ASSUME SessionsAssumption ==
  /\ IsFiniteSet(Handlers)
  /\ Limit \in Nat
  /\ Kinds \subseteq AllKinds
  /\ None \notin Cells

VARIABLES
  counter,   \* fw.userConnCounts: user -> counter
  count,     \* the value of every counter
  sessions,  \* s.sessions: user -> live direct connections, 0 when absent
  pc,        \* what a handler does next
  op,        \* what it needs its counter for
  user,      \* whose request it serves (None: it serves nobody)
  kind,      \* and of what kind that is
  cell       \* the counter that getConnCount returned

vars == <<counter, count, sessions, pc, op, user, kind, cell>>

TypeOK ==
  /\ counter \in [Users -> Cells \cup {None}]
  /\ count \in [Cells -> Nat]
  /\ sessions \in [Users -> Nat]
  /\ pc \in [Handlers -> {"idle", "lookup", "create", "use", "open", "dial",
                          "relay", "unwind"}]
  /\ op \in [Handlers -> {"check", "enter", "leave"}]
  /\ user \in [Handlers -> Users \cup {None}]
  /\ kind \in [Handlers -> AllKinds]
  /\ cell \in [Handlers -> Cells \cup {None}]

Init ==
  /\ counter = [u \in Users |-> None]
  /\ count = [n \in Cells |-> 0]
  /\ sessions = [u \in Users |-> 0]
  /\ pc = [h \in Handlers |-> "idle"]
  /\ op = [h \in Handlers |-> "check"]
  /\ user = [h \in Handlers |-> None]
  /\ kind = [h \in Handlers |-> "direct"]
  /\ cell = [h \in Handlers |-> None]

-----------------------------------------------------------------------------

Goto(h, label) == pc' = [pc EXCEPT ![h] = label]

\* The goroutine ends; its locals are forgotten.
Return(h) ==
  /\ Goto(h, "idle")
  /\ op' = [op EXCEPT ![h] = "check"]
  /\ user' = [user EXCEPT ![h] = None]
  /\ kind' = [kind EXCEPT ![h] = "direct"]
  /\ cell' = [cell EXCEPT ![h] = None]

\* Call the firewall: first find the user's counter, then do o with it.
Firewall(h, o) ==
  /\ op' = [op EXCEPT ![h] = o]
  /\ cell' = [cell EXCEPT ![h] = None]
  /\ Goto(h, "lookup")

\* What follows a successful CheckConnection: OnConnect, or straight to the
\* target for a FrameConnect, which is checked and never counted.
Admitted(h, k) ==
  IF k = "connect"
  THEN Goto(h, "dial") /\ UNCHANGED <<op, cell>>
  ELSE Firewall(h, "enter")

\* A request arrives that no port or address rule refuses.  The limit is asked
\* about only if there is one; a persistent channel is counted unchecked.
Accept(h, u, k) ==
  /\ pc[h] = "idle"
  /\ user' = [user EXCEPT ![h] = u]
  /\ kind' = [kind EXCEPT ![h] = k]
  /\ IF k # "tun" /\ Limit > 0 THEN Firewall(h, "check") ELSE Admitted(h, k)
  /\ UNCHANGED <<counter, count, sessions>>

\* getConnCount, the read-locked lookup.
Lookup(h) ==
  /\ pc[h] = "lookup"
  /\ cell' = [cell EXCEPT ![h] = counter[user[h]]]
  /\ Goto(h, IF counter[user[h]] = None THEN "create" ELSE "use")
  /\ UNCHANGED <<counter, count, sessions, op, user, kind>>

\* A counter that was just allocated.
Fresh(n) == \A u \in Users : counter[u] # n

Allocate(h) ==
  \E n \in Cells :
    /\ Fresh(n)
    /\ counter' = [counter EXCEPT ![user[h]] = n]
    /\ count' = [count EXCEPT ![n] = 0]
    /\ cell' = [cell EXCEPT ![h] = n]

\* getConnCount, the write-locked part: somebody may have been faster.
Create(h) ==
  /\ pc[h] = "create"
  /\ \/ /\ counter[user[h]] # None
        /\ cell' = [cell EXCEPT ![h] = counter[user[h]]]
        /\ UNCHANGED <<counter, count>>
     \/ /\ counter[user[h]] = None
        /\ Allocate(h)
  /\ Goto(h, "use")
  /\ UNCHANGED <<sessions, op, user, kind>>

\* CheckConnection loads the counter, and admits or refuses.
Check(h) ==
  /\ pc[h] = "use" /\ op[h] = "check"
  /\ \/ /\ count[cell[h]] < Limit
        /\ Admitted(h, kind[h])
        /\ UNCHANGED <<user, kind>>
     \/ /\ count[cell[h]] >= Limit
        /\ Return(h)
  /\ UNCHANGED <<counter, count, sessions>>

\* OnConnect.
Enter(h) ==
  /\ pc[h] = "use" /\ op[h] = "enter"
  /\ count' = [count EXCEPT ![cell[h]] = @ + 1]
  /\ Goto(h, CASE kind[h] = "direct" -> "open"
               [] kind[h] = "tun" -> "relay"
               [] OTHER -> "dial")
  /\ UNCHANGED <<counter, sessions, op, user, kind, cell>>

\* handleDirectConnectionWithType also keeps s.sessions.
OpenSession(h) ==
  /\ pc[h] = "open"
  /\ sessions' = [sessions EXCEPT ![user[h]] = @ + 1]
  /\ Goto(h, "dial")
  /\ UNCHANGED <<counter, count, op, user, kind, cell>>

\* The way out of a handler: through the deferred calls if it has any.
Leaving(h) ==
  IF kind[h] = "connect"
  THEN Return(h)
  ELSE Goto(h, "unwind") /\ UNCHANGED <<op, user, kind, cell>>

\* Mutated form: a failed dial returns before the deferred calls are set up.
DialReturns(h) ==
  /\ pc[h] = "dial"
  /\ \/ Goto(h, "relay") /\ UNCHANGED <<op, user, kind, cell>>
     \/ Return(h)
  /\ UNCHANGED <<counter, count, sessions>>

\* The target answers, or the dial fails and the handler returns.
Dial(h) ==
  /\ pc[h] = "dial"
  /\ \/ Goto(h, "relay") /\ UNCHANGED <<op, user, kind, cell>>
     \/ Leaving(h)
  /\ UNCHANGED <<counter, count, sessions>>

\* BidirectionalRelay, the QUIC copy loops, the TUN frame loop or the copy
\* loop of a FrameConnect returns.
RelayEnds(h) ==
  /\ pc[h] = "relay"
  /\ Leaving(h)
  /\ UNCHANGED <<counter, count, sessions>>

\* Mutated form: the entry is deleted when the first session of it ends.
SessionsWithout(u) == 0

\* s.sessions[u]--, and the entry is deleted when nothing is left.
SessionsAfterEnd(u) == IF sessions[u] <= 1 THEN 0 ELSE sessions[u] - 1

\* The deferred calls, in reverse order: the session first ...
Unwind(h) ==
  /\ pc[h] = "unwind"
  /\ sessions' = IF kind[h] = "direct"
                 THEN [sessions EXCEPT ![user[h]] = SessionsAfterEnd(user[h])]
                 ELSE sessions
  /\ Firewall(h, "leave")
  /\ UNCHANGED <<counter, count, user, kind>>

\* ... then OnDisconnect.
Leave(h) ==
  /\ pc[h] = "use" /\ op[h] = "leave"
  /\ count' = [count EXCEPT ![cell[h]] = @ - 1]
  /\ Return(h)
  /\ UNCHANGED <<counter, sessions>>

Serve(h) ==
  \/ Lookup(h) \/ Create(h) \/ Check(h) \/ Enter(h) \/ OpenSession(h)
  \/ Dial(h) \/ RelayEnds(h) \/ Unwind(h) \/ Leave(h)

Next ==
  \E h \in Handlers :
    \/ \E u \in Users, k \in Kinds : Accept(h, u, k)
    \/ Serve(h)

Spec == Init /\ [][Next]_vars

-----------------------------------------------------------------------------
(* Properties.                                                             *)

\* The connection count of a user, as getConnCount would find it.
ConnCount(u) == IF counter[u] = None THEN 0 ELSE count[counter[u]]

\* Handlers between OnConnect and OnDisconnect.
Entered(h) ==
  \/ pc[h] \in {"open", "dial", "relay", "unwind"} /\ kind[h] # "connect"
  \/ pc[h] \in {"lookup", "create", "use"} /\ op[h] = "leave"

EnteredFor(u) == {h \in Handlers : user[h] = u /\ Entered(h)}

\* The count of a user is the number of handlers that entered and have not
\* left, whatever they did in between and however the counter was made: no
\* connection is lost or counted twice (firewall.go:122-149).
CountsAreExact == \A u \in Users : ConnCount(u) = Cardinality(EnteredFor(u))

\* The direct connections of a user whose session is open.
SessionsOf(u) ==
  {h \in Handlers : user[h] = u /\ kind[h] = "direct"
                    /\ pc[h] \in {"dial", "relay", "unwind"}}

\* ActiveSessions (server.go:906-910) counts a user exactly while a direct
\* connection of theirs is between its increment and its deferred decrement.
SessionsAreExact == \A u \in Users : sessions[u] = Cardinality(SessionsOf(u))

\* At the limit no further connection is let through: a user never has more
\* than MaxConnectionsPerUser, which CheckConnection compares the count with
\* before each of them (firewall.go:111-117, transport_test.go:391-393).
LimitHolds == Limit > 0 => \A u \in Users : ConnCount(u) <= Limit

=============================================================================
