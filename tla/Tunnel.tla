-------------------------------- MODULE Tunnel --------------------------------
(***************************************************************************)
(* One TCP connection of an application, from the SOCKS proxy of the       *)
(* client to its target (proxy.go, upstream.go, relay.go and the handlers  *)
(* of server.go, with the dial functions of the other transports).         *)
(*                                                                         *)
(*   application --A-- client --W-- server --T-- target                    *)
(*                                                                         *)
(* Each hop carries data `up' to the target and `down' to the application. *)
(* Both handlers shake hands under deadlines, then copy in both            *)
(* directions until both have ended, and only then close their ends.  How  *)
(* the end of one direction is passed on depends on the transport of W.    *)
(***************************************************************************)
EXTENDS Integers, FiniteSets

CONSTANTS
  Kinds,     \* the transports of W that are considered
  MaxSent,   \* bound: data that the application and the target send
  Cap        \* bound: data on its way over one hop in one direction

(* "tls" and "camouflage" are a TLS server (transport "tls", or the TLS     *)
(* half of "any") whose camouflage is off and on: the client does not know *)
(* and dials both in the same way.  "uquic" is a uTLS client of a QUIC     *)
(* server.                                                                 *)
AllKinds == {"tls", "camouflage", "reality", "quic", "uquic", "redstone",
             "masque", "mirage", "webrtc"}

ASSUME TunnelAssumption ==
  /\ Kinds \subseteq AllKinds
  /\ MaxSent \in Nat /\ Cap \in Nat \ {0}

Quic == {"quic", "uquic"}
Streams == Quic \cup {"masque"}

VARIABLES
  kind,      \* the transport of W
  pipe,      \* every direction of every hop
  client,    \* where the SOCKS handler of the client is
  server,    \* where the handler of the server is
  copying,   \* the copy loops that run
  answer,    \* the SOCKS reply the application got
  status,    \* the status byte the server wrote
  patience,  \* the deadline of the client on A
  armed,     \* the other deadlines that are set: of the client and the
             \* server on W
  heard,     \* the parts of the handshake that were sent over W
  sent,      \* how much was sent up and down ...
  got,       \* ... and how much of it arrived at the other end
  told,      \* the directions whose end was seen at the other end
  lost       \* W failed

vars == <<kind, pipe, client, server, copying, answer, status, patience, armed, heard, sent, got, told, lost>>
ends == <<answer, sent, got, told>>

Hops == {"A", "W", "T"}
Dirs == {"up", "down"}
Pipes == Hops \X Dirs
Copies == {"client", "server"} \X Dirs

\* n is on its way; the writer ended the direction; the reader is gone.
Closed == [n |-> 0, fin |-> TRUE, gone |-> TRUE]
Opened == [n |-> 0, fin |-> FALSE, gone |-> FALSE]

Source(c) ==
  CASE c = <<"client", "up">>   -> <<"A", "up">>
    [] c = <<"client", "down">> -> <<"W", "down">>
    [] c = <<"server", "up">>   -> <<"W", "up">>
    [] c = <<"server", "down">> -> <<"T", "down">>

Sink(c) ==
  CASE c = <<"client", "up">>   -> <<"W", "up">>
    [] c = <<"client", "down">> -> <<"A", "down">>
    [] c = <<"server", "up">>   -> <<"T", "up">>
    [] c = <<"server", "down">> -> <<"W", "down">>

Init ==
  /\ kind \in Kinds
  /\ pipe = [p \in Pipes |-> IF p[1] = "A" THEN Opened ELSE Closed]
  /\ client = "request" /\ server = "off"
  /\ copying = {} /\ answer = "none" /\ status = "none"
  /\ patience = "armed" /\ armed = {} /\ heard = {}
  /\ sent = [d \in Dirs |-> 0] /\ got = [d \in Dirs |-> 0]
  /\ told = {} /\ lost = FALSE

-----------------------------------------------------------------------------
(* Closing one end of a hop that writes to `out' and reads from `in'.      *)

\* A QUIC stream only ends its own direction.
EndStream(P, out) == [P EXCEPT ![out].fin = TRUE]

\* What was not read yet makes TCP reset the connection, which may destroy
\* what is still on its way.
CloseEnd(P, out, in) ==
  LET Q == [P EXCEPT ![out].fin = TRUE, ![in].gone = TRUE, ![in].n = 0]
  IN {Q} \cup (IF P[in].n > 0 THEN {[Q EXCEPT ![out].n = 0]} ELSE {})

\* The client or the server closes its end of W.
CloseWire(P, out, in) ==
  IF kind \in Streams THEN {EndStream(P, out)} ELSE CloseEnd(P, out, in)

\* Mutated form: handleTLSConnection does not close either.
HandlerClosesNothing == {"quic", "uquic"}

\* The transports whose server closes the connection after the session; the
\* others hand it to handleDirectConnection, which does not.
HandlerCloses == {"tls", "reality", "redstone"} \cup Quic

-----------------------------------------------------------------------------
(* The handshakes.  A dialer sends `first', and when there is a `rest' waits *)
(* for a "reply" before it sends that; then it waits for the status.  A    *)
(* server goes through stages, each of which reads a part of that name.    *)

\* DialVPNServer posts the credentials to a secret path: NewClient and
\* DialUpstream see to it that there is one.
SecretPathDial == [first |-> {"greeting"}, rest |-> {"address"}]

\* The handshake of TLS carries the mark of the client; then both parts.
RealityDial  == [first |-> {"auth", "address"}, rest |-> {}]
RedstoneDial == [first |-> {"greeting"}, rest |-> {"auth", "address"}]
MasqueDial   == [first |-> {"greeting"}, rest |-> {"address"}]
MirageDial   == [first |-> {"greeting"}, rest |-> {"address"}]

\* The peer connection, or the QUIC connection, was authenticated before.
WebRTCDial == [first |-> {"address"}, rest |-> {}]
QUICDial   == [first |-> {"address"}, rest |-> {}]
UQUICDial  == [first |-> {"address"}, rest |-> {}]

Dialer ==
  CASE kind \in {"tls", "camouflage"} -> SecretPathDial
    [] kind = "reality"    -> RealityDial
    [] kind = "redstone"   -> RedstoneDial
    [] kind = "masque"     -> MasqueDial
    [] kind = "mirage"     -> MirageDial
    [] kind = "webrtc"     -> WebRTCDial
    [] kind = "quic"       -> QUICDial
    [] kind = "uquic"      -> UQUICDial

\* The stage that a server begins with.
TLSServes        == "auth"
RealityServes    == "auth"

\* Mutated form: the camouflage of the configuration is ignored.
CamouflageIgnored == "auth"

\* The camouflage server reads an HTTP request first.
CamouflageServes == "greeting"
RedstoneServes   == "greeting"
MasqueServes     == "greeting"
MirageServes     == "greeting"
WebRTCServes     == "mode"
QUICServes       == "address"

FirstStage ==
  CASE kind = "tls"        -> TLSServes
    [] kind = "camouflage" -> CamouflageServes
    [] kind = "reality"    -> RealityServes
    [] kind = "redstone"   -> RedstoneServes
    [] kind = "masque"     -> MasqueServes
    [] kind = "mirage"     -> MirageServes
    [] kind = "webrtc"     -> WebRTCServes
    [] kind \in Quic       -> QUICServes

\* The mode byte is the first of the address.
Needed(stage) == IF stage = "mode" THEN "address" ELSE stage

\* handleTLSConnection takes the first 56 bytes for credentials: of a POST,
\* too, which it then refuses (ServerRefuses, and never Authenticates).
TakesPost(stage) ==
  stage = "auth" /\ FirstStage = "auth" /\ "greeting" \in heard

\* The server has something to read.
HasInput(stage) == Needed(stage) \in heard \/ TakesPost(stage)

-----------------------------------------------------------------------------
(* The SOCKS handler of the client.                                        *)

\* handleSOCKS: the greeting and the request are read under a deadline.
ReadsRequest ==
  /\ client = "request" /\ patience = "armed"
  /\ client' = "dial"
  /\ UNCHANGED <<kind, pipe, server, copying, ends, status, patience, armed,
                 heard, lost>>

\* It ends without a reply, or after one, and closes its end of A.
LeavesApp(P, reply) ==
  /\ pipe' \in CloseEnd(P, <<"A", "down">>, <<"A", "up">>)
  /\ client' = "done"
  /\ answer' = IF patience = "expired" THEN "none" ELSE reply
  /\ UNCHANGED <<kind, server, copying, status, patience, heard, sent, got,
                 told, lost>>

\* A bad greeting, an unsupported command, or the deadline passed.
RefusesRequest ==
  /\ client = "request"
  /\ \E reply \in {"none", "refused"} : LeavesApp(pipe, reply)
  /\ UNCHANGED armed

\* The deadline passes; only a read or a write of A notices.
AppDeadline ==
  /\ patience = "armed" /\ client # "done"
  /\ patience' = "expired"
  /\ UNCHANGED <<kind, pipe, client, server, copying, ends, status, armed,
                 heard, lost>>

\* The client begins to wait.  HTTP clients wait without a deadline of W.
ArmClient(next) ==
  armed' = IF next = "status" \/ kind \in {"tls", "camouflage", "redstone"}
           THEN armed \cup {"client"} ELSE armed

\* The dialer of the transport opens W and sends the first part.
Dials ==
  LET next == IF Dialer.rest = {} THEN "status" ELSE "reply" IN
  /\ client = "dial"
  /\ pipe' = [p \in Pipes |-> IF p[1] = "W" THEN Opened ELSE pipe[p]]
  /\ heard' = Dialer.first
  /\ client' = next /\ ArmClient(next)
  /\ server' = FirstStage
  /\ UNCHANGED <<kind, copying, ends, status, patience, lost>>

DialFails ==
  /\ client = "dial"
  /\ LeavesApp(pipe, "refused")
  /\ UNCHANGED armed

\* Mutated form: the address is not sent before the status is awaited.
GoesOnSilently ==
  /\ client = "reply" /\ "reply" \in heard
  /\ client' = "status" /\ ArmClient("status")
  /\ UNCHANGED <<kind, pipe, server, copying, ends, status, patience, heard,
                 lost>>

\* The login response, or the response 200: the dialer sends the rest.
GoesOn ==
  /\ client = "reply" /\ "reply" \in heard
  /\ heard' = heard \cup Dialer.rest
  /\ client' = "status" /\ ArmClient("status")
  /\ UNCHANGED <<kind, pipe, server, copying, ends, status, patience, lost>>

\* The status is good: reply, clear the deadline of A and relay.  When that
\* deadline has passed the reply is not written, and nobody looks.
Establishes ==
  /\ client = "status" /\ status = "ok"
  /\ answer' = IF patience = "expired" THEN "none" ELSE "ok"
  /\ patience' = "off" /\ armed' = armed \ {"client"}
  /\ client' = "relay"
  /\ copying' = copying \cup {<<"client", "up">>, <<"client", "down">>}
  /\ UNCHANGED <<kind, pipe, server, status, heard, sent, got, told, lost>>

\* What it waits for is bad, late, or never comes: the byte that refuses a
\* POST is no response 200.
GivesUp ==
  /\ client \in {"reply", "status"}
  /\ \E P \in CloseWire(pipe, <<"W", "up">>, <<"W", "down">>) :
       LeavesApp(P, "refused")
  /\ armed' = armed \ {"client"}

-----------------------------------------------------------------------------
(* The handler of the server.                                              *)

\* Mutated form: nothing is taken back.
ArmOnly(next) ==
  armed' = IF next \in {"dial", "relay", "done"} \/ kind \in Quic
           THEN armed ELSE armed \cup {"server"}

\* What reads the next part of the request has a deadline; QUIC streams have
\* none, and dialling the target needs none.
Arm(next) ==
  armed' = IF next \in {"dial", "relay", "done"} \/ kind \in Quic
           THEN armed \ {"server"} ELSE armed \cup {"server"}

\* A stage is passed: its part was read and is good.
Advance(at, next, reply) ==
  /\ server = at /\ Needed(at) \in heard
  /\ server' = next
  /\ heard' = heard \cup reply
  /\ Arm(next)
  /\ UNCHANGED <<kind, pipe, client, copying, ends, status, patience, lost>>

\* A login, or a HTTP request with a token, is answered.
Greets ==
  Advance("greeting", IF kind = "redstone" THEN "auth" ELSE "mode", {"reply"})

Authenticates == Advance("auth", "mode", {})

\* handleSmartConnection, then handleDirectConnectionWithType.
ReadsMode    == Advance("mode", "address", {})
ReadsAddress == Advance("address", "dial", {})

Handshake == Greets \/ Authenticates \/ ReadsMode \/ ReadsAddress

\* DialTarget succeeds: the status is written and the relay starts.
ServerDials ==
  /\ server = "dial"
  /\ status' = "ok" /\ server' = "relay"
  /\ Arm("relay")
  /\ pipe' = [p \in Pipes |-> IF p[1] = "T" THEN Opened ELSE pipe[p]]
  /\ copying' = copying \cup {<<"server", "up">>, <<"server", "down">>}
  /\ UNCHANGED <<kind, client, ends, patience, heard, lost>>

\* A read fails or is late, the user or the target is refused, or the dial
\* fails.  After the greeting some transports leave the connection open.
ServerRefuses ==
  /\ server \in {"greeting", "auth", "mode", "address", "dial"}
  /\ status' = "refused" /\ server' = "done"
  /\ Arm("done")
  /\ IF server = "greeting" \/ kind \in HandlerCloses
     THEN pipe' \in CloseWire(pipe, <<"W", "down">>, <<"W", "up">>)
     ELSE UNCHANGED pipe
  /\ UNCHANGED <<kind, client, copying, ends, patience, heard, lost>>

-----------------------------------------------------------------------------
(* The relay.                                                              *)

\* One read and the write of what was read.  A write to somebody who is
\* gone may still succeed locally.
Copy(c) ==
  /\ c \in copying /\ pipe[Source(c)].n > 0
  /\ IF pipe[Sink(c)].gone \/ pipe[Sink(c)].fin
     THEN pipe' = [pipe EXCEPT ![Source(c)].n = @ - 1]
     ELSE /\ pipe[Sink(c)].n < Cap
          /\ pipe' = [pipe EXCEPT ![Source(c)].n = @ - 1, ![Sink(c)].n = @ + 1]
  /\ UNCHANGED <<kind, client, server, copying, ends, status, patience, armed,
                 heard, lost>>

\* Mutated form: what was read together with the end is not written.
CopyDropsLast(c) ==
  \/ pipe[Source(c)].gone
  \/ pipe[Source(c)].fin
  \/ pipe[Source(c)].n > 0 /\ (pipe[Sink(c)].gone \/ pipe[Sink(c)].fin)

\* A copy ends when the source has ended, cannot be read any more, or what
\* was read cannot be written.
CopyMayEnd(c) ==
  \/ pipe[Source(c)].gone
  \/ pipe[Source(c)].n = 0 /\ pipe[Source(c)].fin
  \/ pipe[Source(c)].n > 0 /\ (pipe[Sink(c)].gone \/ pipe[Sink(c)].fin)

\* Mutated form: closeWrite knows *net.TCPConn only.
EndsDirectly(c) == c \in {<<"client", "down">>, <<"server", "up">>}

\* closeWrite reaches TCP through a TLS connection, unless something lies
\* between them, as on every server, which peeks at the hello, or the
\* transport is no TLS connection at all.
ClosesWrite(c) ==
  \/ c \in {<<"client", "down">>, <<"server", "up">>}
  \/ c = <<"client", "up">>
       /\ kind \in {"reality", "camouflage", "quic"}

\* Mutated form: CancelRead is missing, so the server reads on when the target
\* has ended.
AfterCopyReadsOn(c) ==
  IF c = <<"server", "up">> /\ kind \in Quic
  THEN CloseEnd(pipe, <<"T", "up">>, <<"T", "down">>)
  ELSE {IF ClosesWrite(c) THEN EndStream(pipe, Sink(c)) ELSE pipe}

\* What a copy that has ended does: closeWrite, or over QUIC, on the
\* server, the end of one direction is the end of both.
AfterCopy(c) ==
  CASE c = <<"server", "up">> /\ kind \in Quic ->
         CloseEnd(pipe, <<"T", "up">>, <<"T", "down">>)
    [] c = <<"server", "down">> /\ kind \in Quic ->
         {[pipe EXCEPT ![<<"W", "up">>].gone = TRUE, ![<<"W", "up">>].n = 0]}
    [] OTHER ->
         {IF ClosesWrite(c) THEN EndStream(pipe, Sink(c)) ELSE pipe}

CopyEnds(c) ==
  /\ c \in copying /\ CopyMayEnd(c)
  /\ copying' = copying \ {c}
  /\ pipe' \in AfterCopy(c)
  /\ UNCHANGED <<kind, client, server, ends, status, patience, armed, heard,
                 lost>>

\* Mutated form: the relay does not wait for the other direction.
FirstEnded(w) == \E d \in Dirs : <<w, d>> \notin copying

\* BidirectionalRelay returns when both directions have ended.
RelayEnded(w) == \A d \in Dirs : <<w, d>> \notin copying

ClientReturns ==
  /\ client = "relay" /\ RelayEnded("client")
  /\ client' = "done"
  /\ \E P \in CloseWire(pipe, <<"W", "up">>, <<"W", "down">>) :
       pipe' \in CloseEnd(P, <<"A", "down">>, <<"A", "up">>)
  /\ copying' = copying \ ({"client"} \X Dirs)
  /\ UNCHANGED <<kind, server, ends, status, patience, armed, heard, lost>>

ServerReturns ==
  /\ server = "relay" /\ RelayEnded("server")
  /\ server' = "done"
  /\ \E P \in CloseEnd(pipe, <<"T", "up">>, <<"T", "down">>) :
       IF kind \in HandlerCloses
       THEN pipe' \in CloseWire(P, <<"W", "down">>, <<"W", "up">>)
       ELSE pipe' = P
  /\ copying' = copying \ ({"server"} \X Dirs)
  /\ UNCHANGED <<kind, client, ends, status, patience, armed, heard, lost>>

-----------------------------------------------------------------------------
(* The application, the target and the network.                            *)

\* The application speaks after the SOCKS reply.
MaySend(d) ==
  CASE d = "up"   -> answer = "ok" /\ ~pipe[<<"A", "up">>].fin
    [] d = "down" -> status = "ok" /\ ~pipe[<<"T", "down">>].fin

First(d) == IF d = "up" THEN <<"A", d>> ELSE <<"T", d>>
Last(d)  == IF d = "up" THEN <<"T", d>> ELSE <<"A", d>>

Sends(d) ==
  LET p == First(d) IN
  /\ MaySend(d) /\ sent[d] < MaxSent
  /\ pipe[p].gone \/ pipe[p].n < Cap
  /\ sent' = [sent EXCEPT ![d] = @ + 1]
  /\ pipe' = IF pipe[p].gone THEN pipe ELSE [pipe EXCEPT ![p].n = @ + 1]
  /\ UNCHANGED <<kind, client, server, copying, answer, status, patience,
                 armed, heard, got, told, lost>>

Reads(d) ==
  LET p == Last(d) IN
  /\ ~pipe[p].gone /\ pipe[p].n > 0
  /\ got' = [got EXCEPT ![d] = @ + 1]
  /\ pipe' = [pipe EXCEPT ![p].n = @ - 1]
  /\ UNCHANGED <<kind, client, server, copying, answer, status, patience,
                 armed, heard, sent, told, lost>>

SeesEnd(d) ==
  LET p == Last(d) IN
  /\ ~pipe[p].gone /\ pipe[p].n = 0 /\ pipe[p].fin /\ d \notin told
  /\ told' = told \cup {d}
  /\ UNCHANGED <<kind, pipe, client, server, copying, answer, status,
                 patience, armed, heard, sent, got, lost>>

\* The application or the target sends nothing more, but still reads.
Stops(d) ==
  LET p == First(d) IN
  /\ ~pipe[p].fin
  /\ pipe' = EndStream(pipe, p)
  /\ UNCHANGED <<kind, client, server, copying, ends, status, patience, armed,
                 heard, lost>>

\* It closes its connection; d is the direction that it writes.
Leaves(d) ==
  LET in == Last(IF d = "up" THEN "down" ELSE "up") IN
  /\ ~pipe[in].gone
  /\ pipe' \in CloseEnd(pipe, First(d), in)
  /\ UNCHANGED <<kind, client, server, copying, ends, status, patience, armed,
                 heard, lost>>

\* W fails at both ends.
Loses ==
  /\ ~lost /\ client \in {"reply", "status", "relay"}
  /\ lost' = TRUE
  /\ pipe' = [p \in Pipes |-> IF p[1] = "W" THEN Closed ELSE pipe[p]]
  /\ UNCHANGED <<kind, client, server, copying, ends, status, patience, armed,
                 heard>>

-----------------------------------------------------------------------------

ClientStep ==
  \/ ReadsRequest \/ RefusesRequest \/ Dials \/ DialFails
  \/ GoesOn \/ Establishes \/ GivesUp \/ ClientReturns

ServerStep == Handshake \/ ServerDials \/ ServerRefuses \/ ServerReturns

CopyStep(c) == Copy(c) \/ CopyEnds(c)

Next ==
  \/ ClientStep \/ ServerStep \/ AppDeadline \/ Loses
  \/ \E c \in Copies : CopyStep(c)
  \/ \E d \in Dirs : Sends(d) \/ Reads(d) \/ SeesEnd(d) \/ Stops(d) \/ Leaves(d)

Spec == Init /\ [][Next]_vars

\* The goroutines run and every wait of a handshake has an end; both ends
\* read what they get.  Nobody has to send, to stop or to leave.
Fairness ==
  /\ WF_vars(ClientStep) /\ WF_vars(ServerStep)
  /\ \A c \in Copies : WF_vars(CopyStep(c))
  /\ \A d \in Dirs : WF_vars(Reads(d)) /\ WF_vars(SeesEnd(d))

FairSpec == Spec /\ Fairness

-----------------------------------------------------------------------------
(* Properties.                                                             *)

TypeOK ==
  /\ kind \in Kinds
  /\ pipe \in [Pipes -> [n : 0 .. Cap, fin : BOOLEAN, gone : BOOLEAN]]
  /\ client \in {"request", "dial", "reply", "status", "relay", "done"}
  /\ server \in {"off", "greeting", "auth", "mode", "address", "dial", "relay", "done"}
  /\ copying \subseteq Copies
  /\ answer \in {"none", "ok", "refused"} /\ status \in {"none", "ok", "refused"}
  /\ patience \in {"armed", "expired", "off"}
  /\ armed \subseteq {"client", "server"}
  /\ heard \subseteq {"greeting", "reply", "auth", "address"}
  /\ sent \in [Dirs -> 0 .. MaxSent] /\ got \in [Dirs -> 0 .. MaxSent]
  /\ told \subseteq Dirs /\ lost \in BOOLEAN

\* Nothing is relayed under a deadline of the handshake: it would cut the
\* connection off seconds later, whatever it carries (proxy.go:188,
\* upstream.go:80, server.go:355 and 364, 655).
RelaysWithoutDeadline ==
  /\ client = "relay" => patience = "off" /\ "client" \notin armed
  /\ server = "relay" => "server" \notin armed

\* Client and server of every transport agree on who speaks next: they never
\* both wait for what the other has not sent, to be saved by a deadline (the
\* dial functions against the handlers of their servers).  That a server
\* understands what it reads is another matter: see Understood.
SomebodySpeaks ==
  ~ /\ \/ client = "reply" /\ "reply" \notin heard
       \/ client = "status" /\ status = "none"
    /\ server \in {"greeting", "auth", "mode", "address"}
    /\ ~HasInput(server)

\* Nobody is served over TLS without camouflage, where the POST of the client is
\* taken for credentials (server.go:343-353, upstream.go:58-66).
PostRefused == kind = "tls" => server # "relay" /\ client # "relay"

\* A server reads what its client sends for what it is, with one exception:
\* the client posts to a secret path always, and a TLS server knows one only
\* with camouflage (client.go:78-80, server.go:316-343).  There no handler ever
\* relays, although README.md:191 speaks of "the plain `tls` transport" and its
\* direct clients.
Understood == (kind # "tls" => ~TakesPost(server)) /\ PostRefused

\* A target that is told the request has ended has got all of it, unless W
\* failed or the application left without waiting.  A QUIC server closes the
\* target's connection at once, which may cut off a target that answers.
WholeRequest ==
  ("up" \in told /\ ~lost /\ ~pipe[<<"A", "down">>].gone
     /\ (kind \in Quic => ~pipe[<<"T", "down">>].fin /\ sent["down"] = 0))
   => got["up"] = sent["up"]

\* An application that is told the answer has ended has got all of it,
\* unless W failed or the target left.
WholeResponse ==
  ("down" \in told /\ ~lost /\ answer = "ok" /\ ~pipe[<<"T", "up">>].gone
     /\ (kind \in Quic => ~pipe[<<"A", "up">>].fin /\ got["up"] = sent["up"]))
   => got["down"] = sent["down"]

Relaying == client = "relay" /\ server = "relay"

\* When the application stops sending, the target learns of it, over the
\* transports whose client passes an end on (relay.go:34).
EndReachesTarget ==
  (Relaying /\ pipe[<<"A", "up">>].fin
     /\ kind \in {"reality", "camouflage", "quic"})
   ~> ("up" \in told \/ lost \/ pipe[<<"T", "up">>].gone)

\* When the target stops sending, the application learns of it: over QUIC,
\* where the server then ends its stream (server.go:838-850); the closeWrite of
\* the other servers does not reach TCP.
EndReachesApp ==
  (Relaying /\ pipe[<<"T", "down">>].fin /\ kind \in Quic)
   ~> ("down" \in told \/ lost \/ pipe[<<"A", "down">>].gone)

\* When both have stopped, or W has failed, both handlers return and close
\* what they hold: no goroutine and no connection is left behind, and the
\* connection of the user is no longer counted.
TunnelEnds ==
  (status = "ok" /\ pipe[<<"A", "up">>].fin /\ pipe[<<"T", "down">>].fin
     /\ (kind \in {"reality"} \cup Quic \/ lost))
   ~> (client = "done" /\ server = "done")

=============================================================================
