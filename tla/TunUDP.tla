-------------------------------- MODULE TunUDP --------------------------------
(***************************************************************************)
(* The UDP associations of one persistent session on the server            *)
(* (handleTUNSession, core/transport/server.go).  The frame reader starts  *)
(* a goroutine for every datagram, so the datagrams of one association     *)
(* race each other to bind its socket, and race the frame that closes the  *)
(* association and the end of the session.                                 *)
(*                                                                         *)
(* A step is one critical section of udpAssocMu or one system call.        *)
(***************************************************************************)
EXTENDS Naturals

CONSTANTS
  Handlers,  \* goroutines of handleFrameUDP that may run at the same time
  IDs,       \* association ids that the client uses
  Sockets,   \* UDP sockets that can be bound (a bound)
  None

ASSUME TunAssumption == None \notin Sockets /\ None \notin IDs

VARIABLES
  live,      \* the frame reader has not met an error yet
  broken,    \* writes to the client fail
  assoc,     \* udpAssociations: id -> socket
  socket,    \* the life of every socket
  relay,     \* the goroutine of relayUDPResponses that reads a socket
  closing,   \* the socket the reader took out of the map and has yet to close
  pc, id, conn  \* a datagram's goroutine: where it is, its id, its socket

vars == <<live, broken, assoc, socket, relay, closing, pc, id, conn>>

TypeOK ==
  /\ live \in BOOLEAN /\ broken \in BOOLEAN
  /\ assoc \in [IDs -> Sockets \cup {None}]
  /\ socket \in [Sockets -> {"unused", "open", "closed"}]
  /\ relay \in [Sockets -> {"none", "running", "done"}]
  /\ closing \in Sockets \cup {None}
  /\ pc \in [Handlers -> {"idle", "lookup", "bind", "insert", "start", "send"}]
  /\ id \in [Handlers -> IDs \cup {None}]
  /\ conn \in [Handlers -> Sockets \cup {None}]
  /\ \A h \in Handlers : pc[h] # "idle" => id[h] # None
  /\ \A h \in Handlers : pc[h] \in {"insert", "start", "send"} => conn[h] # None

Init ==
  /\ live = TRUE /\ broken = FALSE
  /\ assoc = [i \in IDs |-> None]
  /\ socket = [s \in Sockets |-> "unused"]
  /\ relay = [s \in Sockets |-> "none"]
  /\ closing = None
  /\ pc = [h \in Handlers |-> "idle"]
  /\ id = [h \in Handlers |-> None]
  /\ conn = [h \in Handlers |-> None]

-----------------------------------------------------------------------------
(* A datagram's goroutine.                                                 *)

Goto(h, label) == pc' = [pc EXCEPT ![h] = label]

Return(h) ==
  /\ Goto(h, "idle")
  /\ id' = [id EXCEPT ![h] = None]
  /\ conn' = [conn EXCEPT ![h] = None]

\* FrameUDP arrives and the firewall lets its datagram pass.
Datagram(h, i) ==
  /\ live /\ closing = None
  /\ pc[h] = "idle"
  /\ id' = [id EXCEPT ![h] = i]
  /\ Goto(h, "lookup")
  /\ UNCHANGED <<live, broken, assoc, socket, relay, closing, conn>>

\* getOrCreateUDPAssociation looks the id up ...
Lookup(h) ==
  /\ pc[h] = "lookup"
  /\ \/ /\ assoc[id[h]] # None
        /\ conn' = [conn EXCEPT ![h] = assoc[id[h]]]
        /\ Goto(h, "send")
     \/ /\ assoc[id[h]] = None
        /\ Goto(h, "bind")
        /\ UNCHANGED conn
  /\ UNCHANGED <<live, broken, assoc, socket, relay, closing, id>>

\* ... binds a socket without holding the lock ...
Bind(h, s) ==
  /\ pc[h] = "bind"
  /\ socket[s] = "unused"
  /\ socket' = [socket EXCEPT ![s] = "open"]
  /\ conn' = [conn EXCEPT ![h] = s]
  /\ Goto(h, "insert")
  /\ UNCHANGED <<live, broken, assoc, relay, closing, id>>

BindFails(h) ==
  /\ pc[h] = "bind"
  /\ Return(h)
  /\ UNCHANGED <<live, broken, assoc, socket, relay, closing>>

\* Mutated form: the map is not looked up again after the bind.
InsertUnchecked(h) ==
  /\ pc[h] = "insert"
  /\ assoc' = [assoc EXCEPT ![id[h]] = conn[h]]
  /\ Goto(h, "start")
  /\ UNCHANGED <<live, broken, socket, relay, closing, id, conn>>

\* Mutated form: the loser of the race does not close its socket.
InsertLeaks(h) ==
  /\ pc[h] = "insert"
  /\ \/ /\ assoc[id[h]] # None
        /\ conn' = [conn EXCEPT ![h] = assoc[id[h]]]
        /\ Goto(h, "send")
        /\ UNCHANGED assoc
     \/ /\ assoc[id[h]] = None
        /\ assoc' = [assoc EXCEPT ![id[h]] = conn[h]]
        /\ Goto(h, "start")
        /\ UNCHANGED conn
  /\ UNCHANGED <<live, broken, socket, relay, closing, id>>

\* Mutated form: the socket is inserted and nobody starts its relay.
InsertSkipsRelay(h) ==
  /\ pc[h] = "insert" /\ assoc[id[h]] = None
  /\ assoc' = [assoc EXCEPT ![id[h]] = conn[h]]
  /\ Goto(h, "send")
  /\ UNCHANGED <<live, broken, socket, relay, closing, id, conn>>

\* ... and inserts it, unless a datagram of the same id was faster.  Nothing
\* is asked about the session here: it may be over.
Insert(h) ==
  /\ pc[h] = "insert"
  /\ \/ /\ assoc[id[h]] # None
        /\ socket' = [socket EXCEPT ![conn[h]] = "closed"]
        /\ conn' = [conn EXCEPT ![h] = assoc[id[h]]]
        /\ Goto(h, "send")
        /\ UNCHANGED assoc
     \/ /\ assoc[id[h]] = None
        /\ assoc' = [assoc EXCEPT ![id[h]] = conn[h]]
        /\ Goto(h, "start")
        /\ UNCHANGED <<socket, conn>>
  /\ UNCHANGED <<live, broken, relay, closing, id>>

\* go s.relayUDPResponses(...)
StartRelay(h) ==
  /\ pc[h] = "start"
  /\ relay' = [relay EXCEPT ![conn[h]] = "running"]
  /\ Goto(h, "send")
  /\ UNCHANGED <<live, broken, assoc, socket, closing, id, conn>>

\* WriteToUDP, whose result is ignored, or the target does not resolve.
Send(h) ==
  /\ pc[h] = "send"
  /\ Return(h)
  /\ UNCHANGED <<live, broken, assoc, socket, relay, closing>>

-----------------------------------------------------------------------------
(* The relay of a socket, the frame reader and the connection under it.    *)

\* relayUDPResponses returns when its socket is closed, or when a response
\* cannot be written to the client.
RelayEnds(s) ==
  /\ relay[s] = "running"
  /\ socket[s] = "closed" \/ broken
  /\ relay' = [relay EXCEPT ![s] = "done"]
  /\ UNCHANGED <<live, broken, assoc, socket, closing, pc, id, conn>>

\* FrameUDPClose: the entry goes under the lock ...
CloseFrame(i) ==
  /\ live /\ closing = None
  /\ closing' = assoc[i]
  /\ assoc' = [assoc EXCEPT ![i] = None]
  /\ UNCHANGED <<live, broken, socket, relay, pc, id, conn>>

\* ... and its socket is closed after it.
CloseSocket ==
  /\ closing # None
  /\ socket' = [socket EXCEPT ![closing] = "closed"]
  /\ closing' = None
  /\ UNCHANGED <<live, broken, assoc, relay, pc, id, conn>>

Mapped(s) == \E i \in IDs : assoc[i] = s

\* The reader meets an error; the deferred closeUDPAssociations.
SessionEnds ==
  /\ live /\ closing = None
  /\ live' = FALSE
  /\ socket' = [s \in Sockets |-> IF Mapped(s) THEN "closed" ELSE socket[s]]
  /\ assoc' = [i \in IDs |-> None]
  /\ UNCHANGED <<broken, relay, closing, pc, id, conn>>

\* The connection to the client fails for writing.
Break ==
  /\ ~broken /\ broken' = TRUE
  /\ UNCHANGED <<live, assoc, socket, relay, closing, pc, id, conn>>

-----------------------------------------------------------------------------

Handle(h) ==
  \/ Lookup(h) \/ BindFails(h) \/ Insert(h) \/ StartRelay(h) \/ Send(h)
  \/ \E s \in Sockets : Bind(h, s)

Reader == CloseSocket \/ SessionEnds \/ \E i \in IDs : CloseFrame(i)

Next ==
  \/ \E h \in Handlers : Handle(h) \/ \E i \in IDs : Datagram(h, i)
  \/ \E s \in Sockets : RelayEnds(s)
  \/ Reader \/ Break

Spec == Init /\ [][Next]_vars

-----------------------------------------------------------------------------
(* Properties.                                                             *)

\* Somebody will still insert or close s.
InHand(s) ==
  \/ closing = s
  \/ \E h \in Handlers : pc[h] = "insert" /\ conn[h] = s

\* No open socket is forgotten: it is in the map, for FrameUDPClose and the
\* end of the session to find, or a goroutine is about to insert or close it
\* (server.go:553-565, 599-607).
NoSocketForgotten ==
  \A s \in Sockets : socket[s] = "open" => Mapped(s) \/ InHand(s)

\* The map holds open sockets only, each under one id: a datagram is never
\* handed a socket that was closed before it looked.
MapIsSound ==
  \A i \in IDs : assoc[i] # None =>
    /\ socket[assoc[i]] = "open"
    /\ \A j \in IDs : assoc[j] = assoc[i] => j = i
    /\ ~InHand(assoc[i])

\* All datagrams of an association leave from one source port: the socket a
\* goroutine is about to write to is the one in the map, unless the
\* association or the session was closed since (server.go:559-563).
SendsFromTheAssociation ==
  \A h \in Handlers : pc[h] = "send" =>
    \/ assoc[id[h]] = conn[h]
    \/ socket[conn[h]] = "closed" \/ closing = conn[h]

\* Every socket in the map is read by its relay, or is about to be, as long
\* as the client can be written to: responses are not left unread.
MappedIsRelayed ==
  \A s \in Sockets : Mapped(s) =>
    \/ relay[s] = "running"
    \/ \E h \in Handlers : pc[h] = "start" /\ conn[h] = s
    \/ broken

=============================================================================
