----------------------------- MODULE TunUDPProofs -----------------------------
(***************************************************************************)
(* The server's UDP associations, for any number of datagrams, ids and     *)
(* sockets: no open socket is forgotten, the map is sound, all datagrams   *)
(* of an association use its socket, and its responses are read.           *)
(*                                                                         *)
(* Inductive invariant: a socket belongs to one place, the map, the reader *)
(* that closes it, or the one goroutine that bound and has yet to insert   *)
(* it, and as long as it has such a place it is open.                      *)
(***************************************************************************)
EXTENDS TunUDP, TLAPS

\* The goroutines that hold a socket of their own.
InsertsOK ==
  \A h \in Handlers : pc[h] = "insert" =>
    /\ socket[conn[h]] = "open"
    /\ ~Mapped(conn[h]) /\ closing # conn[h]
    /\ \A g \in Handlers \ {h} : pc[g] = "insert" => conn[g] # conn[h]

\* The reader that closes one.
ClosingOK == closing # None => socket[closing] = "open" /\ ~Mapped(closing)

MapOK ==
  \A i \in IDs : assoc[i] # None =>
    /\ socket[assoc[i]] = "open"
    /\ \A j \in IDs : assoc[j] = assoc[i] => j = i

\* SendsFromTheAssociation, from the insertion on.
SourceOK ==
  \A h \in Handlers : pc[h] \in {"start", "send"} =>
    \/ assoc[id[h]] = conn[h]
    \/ socket[conn[h]] = "closed" \/ closing = conn[h]

Inv ==
  /\ TypeOK /\ InsertsOK /\ ClosingOK /\ MapOK
  /\ SourceOK /\ NoSocketForgotten

LEMMA InvImplies == Inv => MapIsSound /\ SendsFromTheAssociation
<1> SUFFICES ASSUME Inv PROVE MapIsSound /\ SendsFromTheAssociation
  OBVIOUS
<1>1. MapIsSound
  BY DEF Inv, TypeOK, MapOK, InsertsOK, ClosingOK, MapIsSound, InHand, Mapped
<1>2. SendsFromTheAssociation
  BY DEF Inv, SourceOK, SendsFromTheAssociation
<1>3. QED BY <1>1, <1>2

LEMMA InitInv == Init => Inv
<1> SUFFICES ASSUME Init PROVE Inv
  OBVIOUS
<1>1. TypeOK
  BY DEF Init, TypeOK
<1>2. InsertsOK /\ ClosingOK /\ MapOK /\ SourceOK
  BY DEF Init, InsertsOK, ClosingOK, MapOK, SourceOK
<1>3. NoSocketForgotten
  BY DEF Init, NoSocketForgotten
<1>4. QED BY <1>1, <1>2, <1>3 DEF Inv

-----------------------------------------------------------------------------
(* The steps of a datagram's goroutine.                                    *)

LEMMA BindStep ==
  ASSUME Inv, NEW h \in Handlers, NEW s \in Sockets, Bind(h, s)
  PROVE  Inv'
<1> USE DEF Inv
<1>1. ~Mapped(s) /\ closing # s /\ \A g \in Handlers : pc[g] = "insert" => conn[g] # s
  BY TunAssumption DEF Bind, TypeOK, MapOK, InsertsOK, ClosingOK, Mapped
<1>2. TypeOK'
  BY TunAssumption DEF TypeOK, Bind, Goto
<1>3. InsertsOK'
  BY <1>1 DEF TypeOK, InsertsOK, Bind, Goto, Mapped
<1>4. ClosingOK' /\ MapOK'
  BY <1>1, TunAssumption DEF TypeOK, ClosingOK, MapOK, Bind, Mapped
<1>5. SourceOK'
  BY DEF TypeOK, SourceOK, Bind, Goto
<1>6. NoSocketForgotten'
  BY DEF TypeOK, NoSocketForgotten, InHand, Mapped, Bind, Goto
<1>7. QED BY <1>2, <1>3, <1>4, <1>5, <1>6

LEMMA InsertStep ==
  ASSUME Inv, NEW h \in Handlers, Insert(h)
  PROVE  Inv'
<1> USE DEF Inv
<1> DEFINE s == conn[h]
           i == id[h]
<1>1. /\ pc[h] = "insert" /\ s \in Sockets /\ i \in IDs
      /\ ~Mapped(s) /\ closing # s /\ socket[s] = "open"
      /\ \A g \in Handlers \ {h} : pc[g] = "insert" => conn[g] # s
  BY DEF Insert, TypeOK, InsertsOK
<1>2. CASE assoc[i] # None
  <2>1. /\ socket' = [socket EXCEPT ![s] = "closed"]
        /\ conn' = [conn EXCEPT ![h] = assoc[i]]
        /\ pc' = [pc EXCEPT ![h] = "send"]
        /\ UNCHANGED <<live, broken, assoc, relay, closing, id>>
    BY <1>2 DEF Insert, Goto
  <2>2. TypeOK'
    BY <1>1, <1>2, <2>1 DEF TypeOK
  <2>3. InsertsOK'
    BY <1>1, <2>1 DEF TypeOK, InsertsOK, Mapped
  <2>4. ClosingOK' /\ MapOK'
    BY <1>1, <2>1 DEF TypeOK, ClosingOK, MapOK, Mapped
  <2>5. SourceOK'
    BY <1>1, <2>1 DEF TypeOK, SourceOK
  <2>6. NoSocketForgotten'
    BY <1>1, <2>1 DEF TypeOK, NoSocketForgotten, InHand, Mapped
  <2>7. QED BY <2>2, <2>3, <2>4, <2>5, <2>6
<1>3. CASE assoc[i] = None
  <2>1. /\ assoc' = [assoc EXCEPT ![i] = s]
        /\ pc' = [pc EXCEPT ![h] = "start"]
        /\ UNCHANGED <<live, broken, socket, relay, closing, id, conn>>
    BY <1>3 DEF Insert, Goto
  <2>2. TypeOK'
    BY <1>1, <2>1 DEF TypeOK
  <2>3. \A t \in Sockets : Mapped(t)' <=> Mapped(t) \/ t = s
    BY <1>1, <1>3, <2>1, TunAssumption DEF TypeOK, Mapped
  <2>4. InsertsOK'
    BY <1>1, <2>1, <2>3 DEF TypeOK, InsertsOK
  <2>5. ClosingOK' /\ MapOK'
    BY <1>1, <2>1, <2>3 DEF TypeOK, ClosingOK, MapOK, Mapped
  <2>6. SourceOK'
    BY <1>1, <1>3, <2>1 DEF TypeOK, SourceOK
  <2>7. NoSocketForgotten'
    BY <1>1, <2>1, <2>3 DEF TypeOK, NoSocketForgotten, InHand
  <2>8. QED BY <2>2, <2>4, <2>5, <2>6, <2>7
<1>4. QED BY <1>2, <1>3

\* The other steps of a goroutine only move it.
LEMMA QuietSteps ==
  ASSUME Inv, NEW h \in Handlers,
         \/ Lookup(h) \/ BindFails(h) \/ StartRelay(h) \/ Send(h)
         \/ \E i \in IDs : Datagram(h, i)
  PROVE  Inv'
<1> USE DEF Inv
<1>1. UNCHANGED <<assoc, socket, closing>>
  BY DEF Lookup, BindFails, StartRelay, Send, Datagram
<1>2. TypeOK'
  <2>1. CASE Lookup(h) \/ StartRelay(h)
    BY <2>1, TunAssumption DEF TypeOK, Lookup, StartRelay, Goto
  <2>2. CASE BindFails(h) \/ Send(h)
    BY <2>2 DEF TypeOK, BindFails, Send, Return, Goto
  <2>3. CASE \E i \in IDs : Datagram(h, i)
    BY <2>3, TunAssumption DEF TypeOK, Datagram, Goto
  <2>4. QED BY <2>1, <2>2, <2>3
<1>3. /\ \A g \in Handlers \ {h} : /\ pc'[g] = pc[g] /\ conn'[g] = conn[g]
                                   /\ id'[g] = id[g]
      /\ pc[h] # "insert" /\ pc'[h] # "insert"
  BY DEF TypeOK, Lookup, BindFails, StartRelay, Send, Datagram, Return, Goto
<1>4. SourceOK'
  <2>1. pc'[h] \in {"start", "send"} =>
          \/ assoc'[id'[h]] = conn'[h]
          \/ socket'[conn'[h]] = "closed" \/ closing' = conn'[h]
    BY DEF TypeOK, SourceOK, Lookup, BindFails, StartRelay, Send, Datagram,
           Return, Goto
  <2>2. QED BY <1>1, <1>3, <2>1 DEF SourceOK
<1>5. InsertsOK' /\ ClosingOK' /\ MapOK' /\ NoSocketForgotten'
  BY <1>1, <1>3 DEF InsertsOK, ClosingOK, MapOK, NoSocketForgotten, InHand, Mapped
<1>6. QED BY <1>2, <1>4, <1>5

-----------------------------------------------------------------------------
(* The steps of the frame reader.                                          *)

LEMMA CloseFrameStep ==
  ASSUME Inv, NEW i \in IDs, CloseFrame(i)
  PROVE  Inv'
<1> USE DEF Inv
<1>1. \A s \in Sockets : Mapped(s)' <=> Mapped(s) /\ s # assoc[i]
  BY TunAssumption DEF TypeOK, CloseFrame, Mapped, MapOK
<1>2. TypeOK' BY DEF TypeOK, CloseFrame
<1>3. InsertsOK'
  BY <1>1 DEF TypeOK, InsertsOK, CloseFrame, Mapped
<1>4. ClosingOK' /\ MapOK'
  BY <1>1 DEF TypeOK, ClosingOK, MapOK, CloseFrame
<1>5. SourceOK'
  BY DEF TypeOK, SourceOK, CloseFrame
<1>6. NoSocketForgotten'
  <2> SUFFICES ASSUME NEW s \in Sockets, socket'[s] = "open"
               PROVE  Mapped(s)' \/ InHand(s)'
    BY DEF NoSocketForgotten
  <2>1. Mapped(s) \/ \E h \in Handlers : pc[h] = "insert" /\ conn[h] = s
    BY TunAssumption DEF NoSocketForgotten, InHand, CloseFrame, TypeOK
  <2>2. UNCHANGED <<pc, conn>> /\ closing' = assoc[i]
    BY DEF CloseFrame
  <2>3. CASE Mapped(s)
    BY <1>1, <2>2, <2>3 DEF InHand
  <2>4. CASE \E h \in Handlers : pc[h] = "insert" /\ conn[h] = s
    BY <2>2, <2>4 DEF InHand
  <2>5. QED BY <2>1, <2>3, <2>4
<1>7. QED BY <1>2, <1>3, <1>4, <1>5, <1>6

LEMMA CloseSocketStep ==
  ASSUME Inv, CloseSocket
  PROVE  Inv'
<1> USE DEF Inv
<1>1. TypeOK' BY DEF TypeOK, CloseSocket
<1>2. InsertsOK' BY DEF TypeOK, InsertsOK, CloseSocket, Mapped
<1>3. ClosingOK' /\ MapOK'
  BY DEF TypeOK, ClosingOK, MapOK, CloseSocket, Mapped
<1>4. SourceOK'
  BY TunAssumption DEF TypeOK, SourceOK, CloseSocket
<1>5. NoSocketForgotten'
  BY DEF TypeOK, NoSocketForgotten, InHand, CloseSocket, Mapped
<1>6. QED BY <1>1, <1>2, <1>3, <1>4, <1>5

LEMMA SessionEndsStep ==
  ASSUME Inv, SessionEnds
  PROVE  Inv'
<1> USE DEF Inv
<1>1. TypeOK' BY DEF TypeOK, SessionEnds
<1>2. InsertsOK'
  BY TunAssumption DEF TypeOK, InsertsOK, SessionEnds, Mapped
<1>3. ClosingOK' /\ MapOK'
  BY DEF TypeOK, ClosingOK, MapOK, SessionEnds, Mapped
<1>4. SourceOK'
  BY TunAssumption DEF TypeOK, SourceOK, SessionEnds, Mapped
<1>5. NoSocketForgotten'
  BY DEF TypeOK, NoSocketForgotten, InHand, SessionEnds, Mapped
<1>6. QED BY <1>1, <1>2, <1>3, <1>4, <1>5

LEMMA Invariance == Spec => []Inv
<1>1. Inv /\ [Next]_vars => Inv'
  <2> SUFFICES ASSUME Inv, [Next]_vars PROVE Inv'
    OBVIOUS
  <2>1. ASSUME NEW h \in Handlers, Handle(h) \/ \E i \in IDs : Datagram(h, i)
        PROVE  Inv'
    BY <2>1, BindStep, InsertStep, QuietSteps DEF Handle
  <2>2. CASE Reader
    BY <2>2, CloseFrameStep, CloseSocketStep, SessionEndsStep DEF Reader
  <2>3. CASE Break \/ \E s \in Sockets : RelayEnds(s)
    <3>1. /\ UNCHANGED <<assoc, socket, closing, pc, id, conn, live>>
          /\ broken' \in BOOLEAN
          /\ relay' \in [Sockets -> {"none", "running", "done"}]
      BY <2>3 DEF Inv, TypeOK, Break, RelayEnds
    <3>2. QED
      BY <3>1 DEF Inv, TypeOK, InsertsOK, ClosingOK, MapOK, SourceOK,
         NoSocketForgotten, InHand, Mapped
  <2>4. CASE UNCHANGED vars
    BY <2>4 DEF vars, Inv, TypeOK, InsertsOK, ClosingOK, MapOK, SourceOK,
       NoSocketForgotten, InHand, Mapped
  <2>5. QED BY <2>1, <2>2, <2>3, <2>4 DEF Next
<1>2. QED BY <1>1, InitInv, PTL DEF Spec

\* While the goroutines of datagrams and the reader race, an open socket can
\* always be found by whoever is to close it (server.go:553-565, 599-616).
THEOREM SocketsRemembered == Spec => []NoSocketForgotten
<1>1. Inv => NoSocketForgotten BY DEF Inv
<1>2. QED BY <1>1, Invariance, PTL

\* The map never hands out a closed socket or one that two ids share.
THEOREM MapSound == Spec => []MapIsSound
  BY InvImplies, Invariance, PTL

\* The datagrams of an association share its source port (server.go:559-563).
THEOREM SharedSource == Spec => []SendsFromTheAssociation
  BY InvImplies, Invariance, PTL

-----------------------------------------------------------------------------
(* Relays.  A relay goes on until its socket is closed, and what is in the *)
(* map is open.                                                            *)

Relayed(s) ==
  \/ relay[s] = "running"
  \/ \E h \in Handlers : pc[h] = "start" /\ conn[h] = s
  \/ broken

\* What is relayed stays so, while it is in the map.
LEMMA StaysRelayed ==
  ASSUME Inv, [Next]_vars, NEW s \in Sockets, Mapped(s), Relayed(s)
  PROVE  Relayed(s)'
<1> USE DEF Inv, TypeOK, Relayed
<1>1. socket[s] = "open"
  BY TunAssumption DEF Mapped, MapOK
<1>2. ASSUME NEW h \in Handlers, NEW t \in Sockets, Bind(h, t)
      PROVE  Relayed(s)'
  BY <1>2 DEF Bind, Goto
<1>3. ASSUME NEW h \in Handlers, Insert(h)
      PROVE  Relayed(s)'
  BY <1>3 DEF Insert, Goto
<1>4. ASSUME NEW h \in Handlers, StartRelay(h)
      PROVE  Relayed(s)'
  BY <1>4 DEF StartRelay, Goto
<1>5. ASSUME NEW h \in Handlers,
             Lookup(h) \/ BindFails(h) \/ Send(h) \/ \E i \in IDs : Datagram(h, i)
      PROVE  Relayed(s)'
  BY <1>5 DEF Lookup, BindFails, Send, Datagram, Return, Goto
<1>6. ASSUME NEW t \in Sockets, RelayEnds(t)
      PROVE  Relayed(s)'
  BY <1>1, <1>6 DEF RelayEnds
<1>7. ASSUME Reader \/ Break \/ UNCHANGED vars
      PROVE  Relayed(s)'
  BY <1>7 DEF Reader, CloseSocket, SessionEnds, CloseFrame, Break, vars
<1>8. QED
  BY <1>2, <1>3, <1>4, <1>5, <1>6, <1>7 DEF Next, Handle

\* What comes into the map has a goroutine that is about to start its relay.
LEMMA EntersRelayed ==
  ASSUME Inv, [Next]_vars, NEW s \in Sockets, ~Mapped(s), Mapped(s)'
  PROVE  Relayed(s)'
<1> USE DEF Inv, TypeOK
<1>1. ASSUME NEW h \in Handlers, Insert(h)
      PROVE  Relayed(s)'
  <2>1. conn[h] = s /\ pc'[h] = "start" /\ conn'[h] = s
    BY <1>1 DEF Insert, Goto, Mapped
  <2>2. QED BY <2>1 DEF Relayed
<1>2. \A i \in IDs : assoc'[i] # s \/ \E h \in Handlers : Insert(h)
  BY TunAssumption
  DEF Next, Handle, Lookup, BindFails, Bind, StartRelay, Send, Datagram,
      RelayEnds, Reader, CloseSocket, SessionEnds, CloseFrame, Break, vars,
      Mapped
<1>3. QED BY <1>1, <1>2 DEF Mapped

\* The responses to an association's datagrams are read as long as the client
\* can be written to: no entry of the map is without a relay, whichever
\* goroutine inserted it and in whatever order sockets were closed
\* (server.go:564-569).
THEOREM ResponsesRead == Spec => []MappedIsRelayed
<1>1. Init => MappedIsRelayed
  BY TunAssumption DEF Init, MappedIsRelayed, Mapped
<1>2. Inv /\ MappedIsRelayed /\ [Next]_vars => MappedIsRelayed'
  BY StaysRelayed, EntersRelayed DEF MappedIsRelayed, Relayed
<1>3. QED BY <1>1, <1>2, Invariance, PTL DEF Spec

=============================================================================
