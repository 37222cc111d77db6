----------------------------- MODULE TunnelProofs -----------------------------
(***************************************************************************)
(* Over every transport and however the ends, the deadlines and the        *)
(* network behave: the two sides of a handshake agree on who speaks next,  *)
(* no deadline of it survives into the relay, and an end that is told a    *)
(* direction is over has got all that was sent.                            *)
(***************************************************************************)
EXTENDS Tunnel, TLAPS

\* What neither property depends on may change freely in these steps.
Quiet == UNCHANGED <<kind, client, server, status, patience, armed, heard>>

LEMMA QuietSteps ==
  /\ \A c \in Copies : CopyStep(c) => Quiet
  /\ \A d \in Dirs : (Sends(d) \/ Reads(d) \/ SeesEnd(d) \/ Stops(d) \/ Leaves(d))
                       => Quiet
  /\ Loses => Quiet
<1>1. ASSUME NEW c \in Copies, CopyStep(c)  PROVE Quiet
  BY <1>1 DEF CopyStep, Copy, CopyEnds, Quiet
<1>2. ASSUME NEW d \in Dirs,
             Sends(d) \/ Reads(d) \/ SeesEnd(d) \/ Stops(d) \/ Leaves(d)
      PROVE  Quiet
  BY <1>2 DEF Sends, Reads, SeesEnd, Stops, Leaves, Quiet, ends
<1>3. Loses => Quiet
  BY DEF Loses, Quiet
<1>4. QED BY <1>1, <1>2, <1>3

\* The steps that remain are those of the two handlers and the deadline.
LEMMA NextCases ==
  ASSUME [Next]_vars
  PROVE  \/ ReadsRequest \/ RefusesRequest \/ Dials \/ DialFails \/ GoesOn
         \/ Establishes \/ GivesUp \/ ClientReturns \/ AppDeadline
         \/ Greets \/ Authenticates \/ ReadsMode \/ ReadsAddress
         \/ ServerDials \/ ServerRefuses \/ ServerReturns
         \/ Quiet
<1>1. CASE UNCHANGED vars
  BY <1>1 DEF vars, Quiet
<1>2. CASE ClientStep
  BY <1>2 DEF ClientStep
<1>3. CASE ServerStep
  BY <1>3 DEF ServerStep, Handshake
<1>4. QED BY <1>1, <1>2, <1>3, QuietSteps DEF Next

-----------------------------------------------------------------------------
(* Handshakes.                                                             *)

\* The transports whose dialers wait for a reply, and those whose servers
\* begin with the token.
Greeted == {"camouflage", "redstone", "masque", "mirage"}
Tokens == {"tls", "reality"}

\* The tables of dialers and servers, as far as the argument needs them.
LEMMA Tables ==
  ASSUME kind \in AllKinds
  PROVE  /\ Dialer.rest # {} => kind \in Greeted \cup {"tls"}
         /\ kind \in Greeted =>
              FirstStage = "greeting" /\ Dialer.first = {"greeting"}
         /\ kind \notin Greeted =>
              FirstStage = IF kind \in Tokens THEN "auth"
                           ELSE IF kind = "webrtc" THEN "mode" ELSE "address"
         /\ "address" \in Dialer.first \cup Dialer.rest
         /\ kind \in {"reality", "redstone"} =>
              "auth" \in Dialer.first \cup Dialer.rest
         /\ kind \in Greeted \cup {"tls"} => "greeting" \in Dialer.first
         /\ kind = "tls" => "auth" \notin Dialer.first \cup Dialer.rest
         /\ kind = "reality" => "greeting" \notin Dialer.first \cup Dialer.rest
<1> USE DEF AllKinds, Greeted, Tokens, Quic, Dialer, FirstStage, TLSServes,
        RealityServes, CamouflageServes, RedstoneServes, MasqueServes,
        MirageServes, WebRTCServes, QUICServes, SecretPathDial,
        RealityDial, RedstoneDial, MasqueDial, MirageDial, WebRTCDial,
        QUICDial, UQUICDial
<1>1. CASE kind = "tls"         BY <1>1
<1>2. CASE kind = "camouflage"  BY <1>2
<1>3. CASE kind = "reality"     BY <1>3
<1>4. CASE kind = "redstone"    BY <1>4
<1>5. CASE kind = "masque"      BY <1>5
<1>6. CASE kind = "mirage"      BY <1>6
<1>7. CASE kind = "webrtc"      BY <1>7
<1>8. CASE kind = "quic"        BY <1>8
<1>9. CASE kind = "uquic"       BY <1>9
<1>10. QED
  BY <1>1, <1>2, <1>3, <1>4, <1>5, <1>6, <1>7, <1>8, <1>9

\* Which stages a server of a transport passes, and that the one of TLS never
\* gets credentials, ...
StagesOK ==
  /\ kind \in AllKinds
  /\ server = "greeting" => kind \in Greeted
  /\ server = "auth" => kind \in Tokens \cup {"redstone"}
  /\ kind = "tls" => server \in {"off", "auth", "done"} /\ "auth" \notin heard
  /\ kind = "reality" => "greeting" \notin heard

\* ... what was said when the client waits for the status or for a reply, ...
DialerOK ==
  /\ client = "reply" => Dialer.first \subseteq heard /\ Dialer.rest # {}
  /\ client = "status" => Dialer.first \cup Dialer.rest \subseteq heard

\* ... and that a server past the greeting has replied to it.
RepliesOK ==
  kind \in Greeted /\ server \in {"auth", "mode", "address"} => "reply" \in heard

Agree == StagesOK /\ DialerOK /\ RepliesOK

LEMMA AgreeImplies == Agree => SomebodySpeaks
<1> SUFFICES ASSUME Agree, server \in {"greeting", "auth", "mode", "address"},
                    ~HasInput(server)
             PROVE  /\ client = "reply" => "reply" \in heard
                    /\ client # "status"
  BY DEF SomebodySpeaks
<1>0. Needed(server) \notin heard /\ ~TakesPost(server)
  BY DEF HasInput
<1>1. ASSUME kind = "tls", client \in {"reply", "status"}  PROVE FALSE
  <2>1. server = "auth" /\ FirstStage = "auth" /\ "greeting" \in heard
    BY <1>1, Tables DEF Agree, StagesOK, DialerOK, Greeted, Tokens
  <2>2. QED BY <1>0, <2>1 DEF TakesPost
<1>2. ASSUME kind # "tls", client = "reply"  PROVE "reply" \in heard
  <2>1. kind \in Greeted /\ "greeting" \in heard
    BY <1>2, Tables DEF Agree, StagesOK, DialerOK
  <2>2. server # "greeting"
    BY <1>0, <2>1 DEF Needed
  <2>3. QED BY <2>1, <2>2 DEF Agree, RepliesOK
<1>3. ASSUME kind # "tls", client = "status"  PROVE FALSE
  <2>1. Dialer.first \cup Dialer.rest \subseteq heard
    BY <1>3 DEF Agree, DialerOK
  <2>2. Needed(server) \in heard
    BY <1>3, <2>1, Tables DEF Agree, StagesOK, Needed, Tokens
  <2>3. QED BY <1>0, <2>2
<1>4. QED BY <1>1, <1>2, <1>3

\* The stages of the server after its first.
LEMMA AdvanceStep ==
  ASSUME Agree, NEW at, NEW next, NEW reply, Advance(at, next, reply),
         next \in {"auth", "mode", "address", "dial"},
         next = "auth" => kind = "redstone",
         at = "greeting" => "reply" \in reply, reply \subseteq {"reply"},
         at \in {"greeting", "auth", "mode", "address"}
  PROVE  Agree'
<1>1. StagesOK'
  BY DEF Agree, StagesOK, Advance, Needed, Greeted, Tokens
<1>2. DialerOK'
  BY DEF Agree, DialerOK, Advance, Dialer
<1>3. RepliesOK'
  BY DEF Agree, RepliesOK, Advance
<1>4. QED BY <1>1, <1>2, <1>3 DEF Agree

LEMMA AgreeInit == Init => Agree
  BY TunnelAssumption
  DEF Init, Agree, StagesOK, DialerOK, RepliesOK

LEMMA AgreeStep == ASSUME Agree, [Next]_vars  PROVE Agree'
<1>0. Quiet => Agree'
  BY DEF Agree, StagesOK, DialerOK, RepliesOK, Quiet, Dialer
<1>1. ReadsRequest \/ RefusesRequest \/ DialFails \/ GivesUp => Agree'
  BY DEF Agree, StagesOK, DialerOK, RepliesOK, ReadsRequest,
              RefusesRequest, DialFails, GivesUp, LeavesApp, Dialer
<1>2. Dials => Agree'
  <2> SUFFICES ASSUME Dials  PROVE Agree'
    OBVIOUS
  <2>1. /\ kind' = kind /\ kind \in AllKinds
        /\ heard' = Dialer.first /\ server' = FirstStage
        /\ client' = IF Dialer.rest = {} THEN "status" ELSE "reply"
    BY DEF Dials, Agree, StagesOK
  <2>2. Dialer' = Dialer
    BY <2>1 DEF Dialer
  <2>3. StagesOK' /\ RepliesOK'
    BY <2>1, Tables DEF StagesOK, RepliesOK, Greeted, Tokens
  <2>4. DialerOK'
    BY <2>1, <2>2 DEF DialerOK
  <2>5. QED BY <2>3, <2>4 DEF Agree
<1>3. GoesOn => Agree'
  <2> SUFFICES ASSUME GoesOn  PROVE Agree'
    OBVIOUS
  <2>1. /\ kind' = kind /\ server' = server /\ client = "reply"
        /\ client' = "status" /\ heard' = heard \cup Dialer.rest
    BY DEF GoesOn
  <2>2. Dialer' = Dialer
    BY <2>1 DEF Dialer
  <2>3. StagesOK'
    BY <2>1, Tables DEF Agree, StagesOK
  <2>4. QED
    BY <2>1, <2>2, <2>3 DEF Agree, StagesOK, DialerOK, RepliesOK
<1>4. Establishes \/ ClientReturns \/ AppDeadline => Agree'
  BY DEF Agree, StagesOK, DialerOK, RepliesOK, Establishes,
              ClientReturns, AppDeadline, Dialer
<1>5. Greets \/ Authenticates \/ ReadsMode \/ ReadsAddress => Agree'
  <2>1. Greets => Agree'
    BY AdvanceStep DEF Greets
  <2>2. Authenticates \/ ReadsMode \/ ReadsAddress => Agree'
    BY AdvanceStep DEF Authenticates, ReadsMode, ReadsAddress
  <2>3. QED BY <2>1, <2>2
<1>6. ServerDials \/ ServerRefuses \/ ServerReturns => Agree'
  BY DEF Agree, StagesOK, DialerOK, RepliesOK, ServerDials,
              ServerRefuses, ServerReturns, Dialer
<1>7. QED
  BY <1>0, <1>1, <1>2, <1>3, <1>4, <1>5, <1>6, NextCases

LEMMA AgreeInvariance == Spec => []Agree
BY AgreeInit, AgreeStep, PTL DEF Spec

\* Over every transport, client and server never both wait for what the other
\* has not sent: each dial function sends what the handler of its server
\* reads next, in that order (upstream.go:36-84, server.go:337-379, 622-657,
\* and their counterparts in the other transports).  Over TLS without
\* camouflage the server takes the POST for credentials, and then refuses it.
THEOREM NeverBothWait == Spec => []SomebodySpeaks
BY AgreeInvariance, AgreeImplies, PTL

\* What a server reads is what its client sent it for, over every transport
\* but TLS without camouflage (server.go:343).
LEMMA OthersUnderstand == Spec => [](kind # "tls" => ~TakesPost(server))
<1>1. Agree => (kind # "tls" => ~TakesPost(server))
  BY Tables DEF Agree, StagesOK, TakesPost, Greeted, Tokens
<1>2. QED BY <1>1, AgreeInvariance, PTL

\* Nobody is served over TLS without camouflage: a server that takes a POST for
\* credentials never dials a target, and its client never relays
\* (server.go:343-353, upstream.go:58-66).
LEMMA NoRelayBehindPost == Spec => []PostRefused
<1> DEFINE Inv == Agree /\ (kind = "tls" => status # "ok" /\ client # "relay")
<1>1. Init => Inv
  BY AgreeInit DEF Init
<1>2. ASSUME Inv, [Next]_vars  PROVE Inv'
  <2>1. Agree'
    BY <1>2, AgreeStep
  <2>2. Quiet => Inv'
    BY <1>2, <2>1 DEF Quiet
  <2>3. ASSUME kind' = "tls",
               \/ ReadsRequest \/ RefusesRequest \/ Dials \/ DialFails \/ GoesOn
               \/ Establishes \/ GivesUp \/ ClientReturns \/ AppDeadline
        PROVE  status' # "ok" /\ client' # "relay"
    BY <1>2, <2>3 DEF ReadsRequest, RefusesRequest, Dials, DialFails, GoesOn,
       Establishes, GivesUp, ClientReturns, AppDeadline, LeavesApp
  <2>4. ASSUME kind' = "tls",
               \/ Greets \/ Authenticates \/ ReadsMode \/ ReadsAddress
               \/ ServerDials \/ ServerRefuses \/ ServerReturns
        PROVE  status' # "ok" /\ client' # "relay"
    BY <1>2, <2>4 DEF Agree, StagesOK, Greets, Authenticates, ReadsMode,
       ReadsAddress, Advance, ServerDials, ServerRefuses, ServerReturns
  <2>5. QED BY <2>1, <2>2, <2>3, <2>4, <1>2, NextCases
<1>3. Inv => PostRefused
  BY DEF PostRefused, Agree, StagesOK
<1>4. QED BY <1>1, <1>2, <1>3, PTL DEF Spec

\* So only that pairing of a client and a server fails to understand, and it
\* serves nobody (server.go:343, upstream.go:106-109).
THEOREM OnlyPlainTLSRefuses == Spec => []Understood
<1>1. (kind # "tls" => ~TakesPost(server)) /\ PostRefused => Understood
  BY DEF Understood
<1>2. QED BY <1>1, OthersUnderstand, NoRelayBehindPost, PTL

-----------------------------------------------------------------------------
(* Deadlines.                                                              *)

\* A handler relays with every deadline of its own taken back: the client's
\* on both connections, the server's on the connection of the client
\* (proxy.go:188, upstream.go:80, server.go:355, 367 and 660).
THEOREM NoDeadlineInRelay == Spec => []RelaysWithoutDeadline
<1>1. Init => RelaysWithoutDeadline
  BY DEF Init, RelaysWithoutDeadline
<1>2. ASSUME RelaysWithoutDeadline, Agree, [Next]_vars
      PROVE  RelaysWithoutDeadline'
  <2>0. Quiet => RelaysWithoutDeadline'
    BY <1>2 DEF RelaysWithoutDeadline, Quiet
  <2>1. ReadsRequest => RelaysWithoutDeadline'
    BY <1>2 DEF RelaysWithoutDeadline, ReadsRequest
  <2>2. RefusesRequest \/ DialFails \/ GivesUp => RelaysWithoutDeadline'
    BY <1>2 DEF RelaysWithoutDeadline, RefusesRequest, DialFails, GivesUp,
                LeavesApp
  <2>3. Dials => RelaysWithoutDeadline'
    <3> SUFFICES ASSUME Dials PROVE RelaysWithoutDeadline'
      OBVIOUS
    <3>1. client' # "relay"
      BY DEF Dials
    <3>2. server' # "relay"
      BY <1>2, Tables DEF Dials, Agree, StagesOK
    <3>3. QED BY <3>1, <3>2 DEF RelaysWithoutDeadline
  <2>4. GoesOn => RelaysWithoutDeadline'
    BY <1>2 DEF RelaysWithoutDeadline, GoesOn, ArmClient
  <2>5. Establishes => RelaysWithoutDeadline'
    BY <1>2 DEF RelaysWithoutDeadline, Establishes
  <2>6. ClientReturns \/ ServerReturns => RelaysWithoutDeadline'
    BY <1>2 DEF RelaysWithoutDeadline, ClientReturns, ServerReturns
  <2>7. AppDeadline => RelaysWithoutDeadline'
    BY <1>2 DEF RelaysWithoutDeadline, AppDeadline
  <2>8. Greets \/ Authenticates \/ ReadsMode \/ ReadsAddress
          => RelaysWithoutDeadline'
    BY <1>2 DEF RelaysWithoutDeadline, Greets, Authenticates, ReadsMode,
                ReadsAddress, Advance, Arm
  <2>9. ServerDials \/ ServerRefuses => RelaysWithoutDeadline'
    BY <1>2 DEF RelaysWithoutDeadline, ServerDials, ServerRefuses, Arm
  <2>10. QED
    BY <1>2, <2>0, <2>1, <2>2, <2>3, <2>4, <2>5, <2>6, <2>7, <2>8, <2>9,
       NextCases
<1>3. QED BY <1>1, <1>2, AgreeInvariance, PTL DEF Spec

-----------------------------------------------------------------------------
(* What is relayed.                                                        *)

\* The six directions, and the four copies between them.
AU == <<"A", "up">>
WU == <<"W", "up">>
TU == <<"T", "up">>
AD == <<"A", "down">>
WD == <<"W", "down">>
TD == <<"T", "down">>
cUp == <<"client", "up">>
cDown == <<"client", "down">>
sUp == <<"server", "up">>
sDown == <<"server", "down">>

Differ(a, b, c, d, e, f) ==
  /\ a # b /\ a # c /\ a # d /\ a # e /\ a # f
  /\ b # c /\ b # d /\ b # e /\ b # f
  /\ c # d /\ c # e /\ c # f
  /\ d # e /\ d # f /\ e # f

LEMMA Names ==
  /\ Pipes = {AU, WU, TU, AD, WD, TD} /\ Differ(AU, WU, TU, AD, WD, TD)
  /\ Copies = {cUp, cDown, sUp, sDown}
  /\ cUp # cDown /\ cUp # sUp /\ cUp # sDown /\ cDown # sUp /\ cDown # sDown
  /\ sUp # sDown
  BY DEF Pipes, Copies, Hops, Dirs, AU, WU, TU, AD, WD, TD, cUp, cDown, sUp, sDown,
         Differ

LEMMA Ways ==
  /\ Source(cUp) = AU /\ Sink(cUp) = WU /\ Source(cDown) = WD /\ Sink(cDown) = AD
  /\ Source(sUp) = WU /\ Sink(sUp) = TU /\ Source(sDown) = TD /\ Sink(sDown) = WD
  BY DEF Source, Sink, AU, WU, TU, AD, WD, TD, cUp, cDown, sUp, sDown

PipeType == [Pipes -> [n : 0 .. Cap, fin : BOOLEAN, gone : BOOLEAN]]

\* What closing an end changes.
ClosedEnd(P, Q, out, in) ==
  /\ Q \in PipeType
  /\ Q[out].fin = TRUE /\ Q[out].gone = P[out].gone
  /\ Q[in].gone = TRUE /\ Q[in].n = 0 /\ Q[in].fin = P[in].fin
  /\ \/ Q[out].n = P[out].n
     \/ P[in].n > 0 /\ Q[out].n = 0
  /\ \A p \in Pipes \ {out, in} : Q[p] = P[p]

EndedStream(P, Q, out) ==
  /\ Q \in PipeType
  /\ Q[out].fin = TRUE /\ Q[out].gone = P[out].gone /\ Q[out].n = P[out].n
  /\ \A p \in Pipes \ {out} : Q[p] = P[p]

LEMMA EndStreamIs ==
  ASSUME NEW P \in PipeType, NEW out \in Pipes
  PROVE  EndedStream(P, EndStream(P, out), out)
  BY DEF PipeType, EndStream, EndedStream

LEMMA CloseEndIs ==
  ASSUME NEW P \in PipeType, NEW out \in Pipes, NEW in \in Pipes, out # in,
         NEW Q \in CloseEnd(P, out, in)
  PROVE  ClosedEnd(P, Q, out, in)
<1> DEFINE R == [P EXCEPT ![out].fin = TRUE, ![in].gone = TRUE, ![in].n = 0]
           o == [P[out] EXCEPT !.fin = TRUE]
           i == [P[in] EXCEPT !.gone = TRUE, !.n = 0]
<1>1. Cap \in Nat
  BY TunnelAssumption
<1>2. /\ R \in PipeType
      /\ R[out].fin = TRUE /\ R[out].gone = P[out].gone /\ R[out].n = P[out].n
      /\ R[in].gone = TRUE /\ R[in].n = 0 /\ R[in].fin = P[in].fin
      /\ \A p \in Pipes \ {out, in} : R[p] = P[p]
  <2>1. /\ o \in [n : 0 .. Cap, fin : BOOLEAN, gone : BOOLEAN]
        /\ o.fin = TRUE /\ o.gone = P[out].gone /\ o.n = P[out].n
    BY DEF PipeType
  <2>2. /\ i \in [n : 0 .. Cap, fin : BOOLEAN, gone : BOOLEAN]
        /\ i.gone = TRUE /\ i.n = 0 /\ i.fin = P[in].fin
    <3> DEFINE Rec == [n : 0 .. Cap, fin : BOOLEAN, gone : BOOLEAN]
               j == [P[in] EXCEPT !.gone = TRUE]
    <3>1. j \in Rec /\ j.gone = TRUE /\ j.fin = P[in].fin
      BY DEF PipeType
    <3>2. i = [j EXCEPT !.n = 0]
      OBVIOUS
    <3>3. 0 \in 0 .. Cap
      BY <1>1
    <3> HIDE DEF i, j
    <3>4. QED BY <3>1, <3>2, <3>3
  <2>3. R = [P EXCEPT ![out] = o, ![in] = i]
    BY DEF PipeType
  <2> HIDE DEF o, i, R
  <2>4. QED BY <2>1, <2>2, <2>3 DEF PipeType
<1>3. Q = R \/ (P[in].n > 0 /\ Q = [R EXCEPT ![out].n = 0])
  BY DEF CloseEnd
<1> HIDE DEF R
<1>4. CASE Q = R
  BY <1>2, <1>4 DEF ClosedEnd
<1>5. CASE P[in].n > 0 /\ Q = [R EXCEPT ![out].n = 0]
  BY <1>1, <1>2, <1>5 DEF ClosedEnd, PipeType
<1>6. QED BY <1>3, <1>4, <1>5

\* Over QUIC and Masque, the client or the server only ends its stream.
LEMMA CloseWireIs ==
  ASSUME NEW P \in PipeType, NEW out \in Pipes, NEW in \in Pipes, out # in,
         NEW Q \in CloseWire(P, out, in)
  PROVE  /\ kind \in Streams => EndedStream(P, Q, out)
         /\ kind \notin Streams => ClosedEnd(P, Q, out, in)
  BY EndStreamIs, CloseEndIs DEF CloseWire

\* What is on its way over p, whether its writer has ended it, and whether its
\* reader is gone.
N(p) == pipe[p].n
Fin(p) == pipe[p].fin
Gone(p) == pipe[p].gone

OnUp == N(AU) + N(WU) + N(TU) + got["up"]
OnDown == N(AD) + N(WD) + N(TD) + got["down"]

\* The handlers follow each other, and the copies belong to them.
Phases ==
  /\ client \in {"request", "dial"} => server = "off"
  /\ server = "off" => status = "none"
  /\ server = "relay" => status = "ok"
  /\ status = "ok" => server \in {"relay", "done"}
  /\ client = "relay" => status = "ok"
  /\ answer = "ok" => client \in {"relay", "done"} /\ status = "ok"
  /\ cUp \in copying \/ cDown \in copying => client = "relay"
  /\ sUp \in copying \/ sDown \in copying => server = "relay"

\* Nothing is sent before the reply, and what was told is over.
Started ==
  /\ answer # "ok" => sent["up"] = 0
  /\ status # "ok" => sent["down"] = 0 /\ Gone(TU)
  /\ client # "done" => ~Gone(AU)
  /\ client \notin {"relay", "done"} => ~Fin(AD)
  /\ "up" \in told => Fin(TU) /\ N(TU) = 0 /\ status = "ok"
  /\ "down" \in told => Fin(AD) /\ N(AD) = 0

\* Before the target is reached, only the client ends W.
Opening ==
  server \notin {"off", "relay", "done"} /\ ~lost =>
    /\ ~Gone(WU) /\ ~Fin(WD)
    /\ Fin(WU) \/ Gone(WD) => client = "done"

\* Only the copies end the connections of the application and the target.
Copied ==
  /\ sUp \in copying => ~Fin(TU)
  /\ server = "relay" /\ sUp \notin copying => Fin(TU)
  /\ cDown \in copying => ~Fin(AD)
  /\ status = "ok" /\ Gone(TD) => Fin(TU)

\* A handler that relays still reads what it relays, unless W failed or, over
\* QUIC, one of its copies ended both.
Held ==
  /\ client \in {"reply", "status", "relay"} /\ ~lost => ~Gone(WD)
  /\ server = "relay" /\ kind \notin Quic => ~Gone(TD) /\ (~lost => ~Gone(WU))

\* Nothing is delivered that was not sent.
Conserved == OnUp <= sent["up"] /\ OnDown <= sent["down"]

\* The requests that WholeRequest is about: those that nobody has cut off yet.
UpCounts ==
  /\ status = "ok" /\ ~lost /\ ~Gone(AD) /\ ("up" \in told \/ ~Gone(TU))
  /\ kind \in Quic => ~Fin(TD) /\ sent["down"] = 0

\* The application has nothing more to send: it said so, or got no reply.
Refused == client = "done" /\ answer # "ok"
Silent == N(AU) = 0 /\ (Fin(AU) \/ Refused)

\* The end of the request follows its data from hop to hop, and what closes
\* a hop early has nothing to destroy there.
UpOK ==
  /\ OnUp = sent["up"]
  /\ Gone(AU) \/ Fin(WU) \/ (client = "relay" /\ cUp \notin copying) => Silent
  /\ Fin(TU) => Silent /\ N(WU) = 0
  /\ Gone(WU) => Fin(TU)
  /\ client = "relay" /\ cDown \notin copying => Fin(WD) /\ N(WD) = 0
  /\ sDown \notin copying => (N(TD) = 0 /\ (Fin(TD) \/ Gone(TD))) \/ Refused
  /\ sDown \in copying => ~Fin(WD)
  /\ Gone(WD) => Fin(WD) \/ Refused

\* The answers that WholeResponse is about.  Over QUIC a request of which
\* something was lost is gone for good.
DownCounts ==
  /\ status = "ok" /\ ~lost /\ ~Gone(TU) /\ ("down" \in told \/ ~Gone(AD))
  /\ client \in {"relay", "done"} => answer = "ok"
  /\ kind \in Quic => ~Fin(AU) /\ OnUp = sent["up"]

Answered == Fin(TD) /\ N(TD) = 0   \* the target has nothing more to send

\* The end of the answer follows its data; over a transport that is not QUIC
\* the request has ended too when a handler returns.
DownOK ==
  /\ OnDown = sent["down"]
  /\ sDown \notin copying \/ Fin(WD) \/ Gone(TD) => Answered
  /\ Gone(WD) => Fin(WD)
  /\ Fin(AD) \/ (client = "relay" /\ cDown \notin copying) => Fin(WD) /\ N(WD) = 0
  /\ kind \in Quic => (Gone(WU) \/ Fin(WU) => Answered)
  /\ kind \notin Quic =>
       /\ client = "relay" /\ cUp \notin copying => N(AU) = 0 /\ Fin(AU)
       /\ cUp \in copying \/ client \in {"reply", "status"} => ~Fin(WU)
       /\ Gone(WU) => Fin(WU)
       /\ sUp \notin copying => Fin(WU) /\ N(WU) = 0

Relays == /\ Phases /\ Started /\ Opening /\ Copied /\ Held /\ Conserved
          /\ UpCounts => UpOK
          /\ DownCounts => DownOK

DataInv == TypeOK /\ Relays

LEMMA Fields ==
  ASSUME TypeOK
  PROVE  /\ pipe \in PipeType /\ Cap \in Nat /\ MaxSent \in Nat
         /\ \A p \in Pipes : N(p) \in 0 .. Cap /\ Fin(p) \in BOOLEAN /\ Gone(p) \in BOOLEAN
         /\ sent["up"] \in Nat /\ sent["down"] \in Nat
         /\ got["up"] \in Nat /\ got["down"] \in Nat
         /\ sent \in [Dirs -> Nat] /\ got \in [Dirs -> Nat]
         /\ "up" \in Dirs /\ "down" \in Dirs /\ copying \subseteq Copies
  BY TunnelAssumption DEF TypeOK, PipeType, N, Fin, Gone, Dirs

LEMMA InitData == Init => DataInv
<1> SUFFICES ASSUME Init PROVE DataInv
  OBVIOUS
<1>1. /\ \A p \in Pipes : pipe[p] = IF p[1] = "A" THEN Opened ELSE Closed
      /\ client = "request" /\ server = "off" /\ copying = {} /\ answer = "none"
      /\ status = "none" /\ told = {} /\ lost = FALSE
      /\ sent["up"] = 0 /\ sent["down"] = 0 /\ got["up"] = 0 /\ got["down"] = 0
  BY DEF Init, Dirs
<1>2. TypeOK
  <2>1. {Opened, Closed} \subseteq [n : 0 .. Cap, fin : BOOLEAN, gone : BOOLEAN]
    BY TunnelAssumption DEF Opened, Closed
  <2>2. 0 \in 0 .. MaxSent
    BY TunnelAssumption
  <2>3. QED BY <2>1, <2>2 DEF Init, TypeOK
<1>3. \A p \in Pipes : N(p) = 0
  BY <1>1 DEF N, Opened, Closed
<1>4. ~Gone(AU) /\ ~Fin(AD) /\ Gone(TU)
  <2>1. AU[1] = "A" /\ AD[1] = "A" /\ TU[1] # "A"
    BY DEF AU, AD, TU
  <2>2. pipe[AU] = Opened /\ pipe[AD] = Opened /\ pipe[TU] = Closed
    BY <1>1, <2>1, Names
  <2>3. QED BY <2>2 DEF Fin, Gone, Opened, Closed
<1>5. Conserved
  BY <1>1, <1>3, Names DEF Conserved, OnUp, OnDown
<1>6. QED
  BY <1>1, <1>2, <1>4, <1>5 DEF DataInv, Relays, Phases, Started, Opening, Copied, Held,
                                UpCounts, DownCounts

\* The steps of the handshakes that close nothing and relay nothing.
LEMMA TalkKeeps ==
  ASSUME DataInv,
         UNCHANGED <<kind, pipe, copying, ends, status, lost>>,
         \/ client' = client
         \/ client = "request" /\ client' = "dial"
         \/ client = "reply" /\ client' = "status",
         \/ server' = server
         \/ /\ server \in {"greeting", "auth", "mode", "address"}
            /\ server' \in {"auth", "mode", "address", "dial"}
  PROVE  Relays'
<1>1. UNCHANGED <<kind, pipe, copying, answer, sent, got, told, status, lost>>
  BY DEF ends
<1>2. Phases' /\ Started' /\ Opening' /\ Copied' /\ Held' /\ Conserved'
  BY <1>1 DEF DataInv, Relays, Phases, Started, Opening, Copied, Held, Conserved, OnUp,
              OnDown, N, Fin, Gone
<1>3. (UpCounts => UpOK)'
  BY <1>1 DEF DataInv, Relays, UpCounts, UpOK, Silent, Refused, OnUp, N, Fin, Gone
<1>4. (DownCounts => DownOK)'
  BY <1>1 DEF DataInv, Relays, DownCounts, DownOK, Answered, OnUp, OnDown, N, Fin, Gone
<1>5. QED BY <1>2, <1>3, <1>4 DEF Relays

LEMMA TalkSteps ==
  ASSUME DataInv,
         ReadsRequest \/ AppDeadline \/ GoesOn \/ Handshake \/ UNCHANGED vars
  PROVE  pipe' \in PipeType /\ Relays'
<1>1. pipe \in PipeType /\ server \in {"off", "greeting", "auth", "mode", "address",
                                      "dial", "relay", "done"}
  BY Fields DEF DataInv, TypeOK
<1>2. CASE ReadsRequest
  BY <1>1, <1>2, TalkKeeps DEF ReadsRequest
<1>3. CASE AppDeadline
  BY <1>1, <1>3, TalkKeeps DEF AppDeadline, ends
<1>4. CASE GoesOn
  BY <1>1, <1>4, TalkKeeps DEF GoesOn
<1>5. CASE Handshake
  BY <1>1, <1>5, TalkKeeps DEF Handshake, Greets, Authenticates, ReadsMode,
                               ReadsAddress, Advance
<1>6. CASE UNCHANGED vars
  BY <1>1, <1>6, TalkKeeps DEF vars, ends
<1>7. QED BY <1>2, <1>3, <1>4, <1>5, <1>6

\* The handler of the client ends before it relays.
LEMMA LeaveSteps ==
  ASSUME DataInv, RefusesRequest \/ DialFails
  PROVE  pipe' \in PipeType /\ Relays'
<1>1. /\ client \in {"request", "dial"} /\ client' = "done" /\ answer' # "ok"
      /\ pipe' \in CloseEnd(pipe, AD, AU)
      /\ UNCHANGED <<kind, server, copying, status, sent, got, told, lost>>
  BY DEF RefusesRequest, DialFails, LeavesApp, AD, AU
<1>2. status = "none" /\ server = "off"
  BY <1>1 DEF DataInv, Relays, Phases
<1>3. ClosedEnd(pipe, pipe', AD, AU)
  BY <1>1, CloseEndIs, Fields, Names DEF Differ, DataInv
<1>4. /\ pipe' \in PipeType
      /\ Fin(AD)' = TRUE /\ Gone(AU)' = TRUE /\ N(AU)' = 0
      /\ N(AD)' = N(AD) \/ N(AD)' = 0
      /\ \A p \in {WU, TU, WD, TD} : UNCHANGED <<N(p), Fin(p), Gone(p)>>
  BY <1>3, Names DEF ClosedEnd, Differ, N, Fin, Gone
<1>5. Phases' /\ Started' /\ Opening' /\ Copied' /\ Held'
  BY <1>1, <1>2, <1>4 DEF DataInv, Relays, Phases, Started, Opening, Copied, Held
<1>6. Conserved'
  BY <1>1, <1>4, Fields, Names DEF DataInv, Relays, Conserved, OnUp, OnDown
<1>7. ~UpCounts' /\ ~DownCounts'
  BY <1>1, <1>2 DEF UpCounts, DownCounts
<1>8. QED BY <1>4, <1>5, <1>6, <1>7 DEF Relays

LEMMA DialStep ==
  ASSUME DataInv, Dials
  PROVE  pipe' \in PipeType /\ Relays'
<1>1. /\ client = "dial" /\ client' \in {"reply", "status"}
      /\ server' \in {"greeting", "auth", "mode", "address"}
      /\ UNCHANGED <<kind, copying, answer, status, sent, got, told, lost>>
  <2>1. kind \in AllKinds
    BY TunnelAssumption DEF DataInv, TypeOK
  <2>2. FirstStage \in {"greeting", "auth", "mode", "address"}
    BY <2>1, Tables
  <2>3. QED BY <2>2 DEF Dials, ends
<1>2. pipe' \in PipeType /\ \A p \in Pipes : pipe'[p] = IF p[1] = "W" THEN Opened ELSE pipe[p]
  <2>1. Opened \in [n : 0 .. Cap, fin : BOOLEAN, gone : BOOLEAN]
    BY TunnelAssumption DEF Opened
  <2>2. QED BY <2>1, Fields DEF Dials, DataInv, PipeType
<1>3. /\ \A p \in {WU, WD} : N(p)' = 0 /\ Fin(p)' = FALSE /\ Gone(p)' = FALSE
      /\ \A p \in {AU, TU, AD, TD} : UNCHANGED <<N(p), Fin(p), Gone(p)>>
  <2>1. /\ WU[1] = "W" /\ WD[1] = "W"
        /\ AU[1] # "W" /\ TU[1] # "W" /\ AD[1] # "W" /\ TD[1] # "W"
    BY DEF AU, WU, TU, AD, WD, TD
  <2>2. /\ pipe'[WU] = Opened /\ pipe'[WD] = Opened
        /\ \A p \in {AU, TU, AD, TD} : pipe'[p] = pipe[p]
    BY <1>2, <2>1, Names
  <2>3. QED BY <2>2 DEF N, Fin, Gone, Opened
<1>4. status = "none"
  BY <1>1 DEF DataInv, Relays, Phases
<1>5. Phases' /\ Started' /\ Opening' /\ Copied' /\ Held'
  BY <1>1, <1>3, <1>4 DEF DataInv, Relays, Phases, Started, Opening, Copied, Held
<1>6. Conserved'
  BY <1>1, <1>3, Fields, Names DEF DataInv, Relays, Conserved, OnUp, OnDown
<1>7. ~UpCounts' /\ ~DownCounts'
  BY <1>1, <1>4 DEF UpCounts, DownCounts
<1>8. QED BY <1>2, <1>5, <1>6, <1>7 DEF Relays

LEMMA EstablishStep ==
  ASSUME DataInv, Establishes
  PROVE  pipe' \in PipeType /\ Relays'
<1>1. /\ client = "status" /\ client' = "relay" /\ status = "ok" /\ answer # "ok"
      /\ copying' = copying \cup {cUp, cDown}
      /\ UNCHANGED <<kind, pipe, server, status, sent, got, told, lost>>
  BY DEF Establishes, DataInv, Relays, Phases, cUp, cDown
<1>2. /\ cUp \in copying' /\ cDown \in copying'
      /\ sUp \in copying' <=> sUp \in copying
      /\ sDown \in copying' <=> sDown \in copying
  BY <1>1, Names
<1>3. Phases' /\ Started' /\ Opening' /\ Copied' /\ Held' /\ Conserved'
  BY <1>1, <1>2 DEF DataInv, Relays, Phases, Started, Opening, Copied, Held, Conserved,
                    OnUp, OnDown, N, Fin, Gone
<1>4. ~Gone(AU) /\ ~Fin(AD) /\ ~Refused /\ cUp \notin copying
  BY <1>1 DEF DataInv, Relays, Started, Phases, Refused
<1>5. (UpCounts => UpOK)'
  BY <1>1, <1>2, <1>4 DEF DataInv, Relays, UpCounts, UpOK, Silent, Refused, OnUp, N,
                          Fin, Gone
<1>6. (DownCounts => DownOK)'
  BY <1>1, <1>2, <1>4 DEF DataInv, Relays, DownCounts, DownOK, Answered, OnUp, OnDown,
                          N, Fin, Gone
<1>7. QED BY <1>1, <1>3, <1>5, <1>6, Fields DEF Relays, DataInv

LEMMA GiveUpStep ==
  ASSUME DataInv, GivesUp
  PROVE  pipe' \in PipeType /\ Relays'
<1>1. /\ client \in {"reply", "status"} /\ client' = "done" /\ answer' # "ok"
      /\ answer # "ok"
      /\ UNCHANGED <<kind, server, copying, status, sent, got, told, lost>>
  BY DEF GivesUp, LeavesApp, DataInv, Relays, Phases
<1>2. PICK P \in CloseWire(pipe, WU, WD) : pipe' \in CloseEnd(P, AD, AU)
  BY DEF GivesUp, LeavesApp, WU, WD, AD, AU
<1>3. EndedStream(pipe, P, WU) \/ ClosedEnd(pipe, P, WU, WD)
  BY <1>2, CloseWireIs, Fields, Names DEF Differ, DataInv
<1>4. ClosedEnd(P, pipe', AD, AU)
  <2>1. P \in PipeType
    BY <1>3 DEF EndedStream, ClosedEnd
  <2>2. AD \in Pipes /\ AU \in Pipes /\ AD # AU
    BY Names DEF Differ
  <2>3. QED BY <1>2, <2>1, <2>2, CloseEndIs
<1>5. /\ pipe' \in PipeType
      /\ Fin(WU)' = TRUE /\ Gone(WU)' = Gone(WU) /\ N(WU)' \in {N(WU), 0}
      /\ Fin(WD)' = Fin(WD) /\ N(WD)' \in {N(WD), 0}
      /\ Fin(AD)' = TRUE /\ N(AD)' \in {N(AD), 0} /\ Gone(AD)' = Gone(AD)
      /\ Gone(AU)' = TRUE /\ N(AU)' = 0
      /\ \A p \in {TU, TD} : UNCHANGED <<N(p), Fin(p), Gone(p)>>
  BY <1>3, <1>4, Names DEF EndedStream, ClosedEnd, Differ, N, Fin, Gone
<1>6. Phases' /\ Started' /\ Opening' /\ Copied' /\ Held'
  BY <1>1, <1>5 DEF DataInv, Relays, Phases, Started, Opening, Copied, Held
<1>7. Conserved'
  BY <1>1, <1>5, Fields, Names DEF DataInv, Relays, Conserved, OnUp, OnDown
<1>8. Refused' /\ ~DownCounts'
  BY <1>1 DEF Refused, DownCounts
<1>9. (UpCounts => UpOK)'
  <2> SUFFICES ASSUME UpCounts' PROVE UpOK'
    OBVIOUS
  <2>1. UpCounts /\ UpOK /\ sent["up"] = 0
    BY <1>1, <1>5 DEF UpCounts, DataInv, Relays, Started
  <2>2. /\ N(AU) \in Nat /\ N(WU) \in Nat /\ N(TU) \in Nat /\ got["up"] \in Nat
        /\ OnUp = 0
    BY <2>1, Fields, Names DEF DataInv, UpOK
  <2>3. N(AU) = 0 /\ N(WU) = 0 /\ N(TU) = 0 /\ got["up"] = 0
    BY <2>2 DEF OnUp
  <2>4. OnUp' = 0 /\ N(AU)' = 0 /\ N(WU)' = 0
    BY <1>1, <1>5, <2>3 DEF OnUp
  <2>5. QED BY <1>1, <1>5, <1>8, <2>1, <2>4 DEF UpOK, Silent
<1>10. QED BY <1>5, <1>6, <1>7, <1>8, <1>9 DEF Relays

\* The target is reached: nothing was sent yet, and W is as it was opened, unless
\* the client has given up.
LEMMA TargetStep ==
  ASSUME DataInv, ServerDials
  PROVE  pipe' \in PipeType /\ Relays'
<1>1. /\ server = "dial" /\ server' = "relay" /\ status # "ok" /\ status' = "ok"
      /\ copying' = copying \cup {sUp, sDown}
      /\ UNCHANGED <<kind, client, answer, sent, got, told, lost>>
  BY DEF ServerDials, DataInv, Relays, Phases, ends, sUp, sDown
<1>2. pipe' \in PipeType /\ \A p \in Pipes : pipe'[p] = IF p[1] = "T" THEN Opened ELSE pipe[p]
  <2>1. Opened \in [n : 0 .. Cap, fin : BOOLEAN, gone : BOOLEAN]
    BY TunnelAssumption DEF Opened
  <2>2. QED BY <2>1, Fields DEF ServerDials, DataInv, PipeType
<1>3. /\ \A p \in {TU, TD} : N(p)' = 0 /\ Fin(p)' = FALSE /\ Gone(p)' = FALSE
      /\ \A p \in {AU, WU, AD, WD} : UNCHANGED <<N(p), Fin(p), Gone(p)>>
  <2>1. /\ TU[1] = "T" /\ TD[1] = "T"
        /\ AU[1] # "T" /\ WU[1] # "T" /\ AD[1] # "T" /\ WD[1] # "T"
    BY DEF AU, WU, TU, AD, WD, TD
  <2>2. /\ pipe'[TU] = Opened /\ pipe'[TD] = Opened
        /\ \A p \in {AU, WU, AD, WD} : pipe'[p] = pipe[p]
    BY <1>2, <2>1, Names
  <2>3. QED BY <2>2 DEF N, Fin, Gone, Opened
<1>4. /\ answer # "ok" /\ client \notin {"request", "dial", "relay"}
      /\ sent["up"] = 0 /\ sent["down"] = 0 /\ cUp \notin copying /\ cDown \notin copying
      /\ "up" \notin told
  <2>1. client \notin {"request", "dial", "relay"}
    BY <1>1 DEF DataInv, Relays, Phases
  <2>2. cUp \notin copying /\ cDown \notin copying
    BY <2>1 DEF DataInv, Relays, Phases
  <2>3. answer # "ok" /\ sent["up"] = 0
    BY <1>1, <2>1 DEF DataInv, Relays, Started, Phases
  <2>4. sent["down"] = 0 /\ "up" \notin told
    BY <1>1 DEF DataInv, Relays, Started
  <2>5. QED BY <2>1, <2>2, <2>3, <2>4
<1>5. /\ sUp \in copying' /\ sDown \in copying'
      /\ cUp \notin copying' /\ cDown \notin copying'
  BY <1>1, <1>4, Names
<1>6. Phases' /\ Started' /\ Opening' /\ Copied' /\ Held'
  BY <1>1, <1>3, <1>4, <1>5 DEF DataInv, Relays, Phases, Started, Opening, Copied, Held
<1>7. /\ \A p \in {AU, WU, TU, AD, WD, TD} : N(p)' = 0
      /\ OnUp' = 0 /\ OnDown' = 0 /\ Conserved'
  <2>1. /\ N(AU) \in Nat /\ N(WU) \in Nat /\ N(TU) \in Nat /\ got["up"] \in Nat
        /\ N(AD) \in Nat /\ N(WD) \in Nat /\ N(TD) \in Nat /\ got["down"] \in Nat
        /\ OnUp <= 0 /\ OnDown <= 0
    BY <1>4, Fields, Names DEF DataInv, Relays, Conserved
  <2>2. /\ N(AU) = 0 /\ N(WU) = 0 /\ got["up"] = 0
        /\ N(AD) = 0 /\ N(WD) = 0 /\ got["down"] = 0
    BY <2>1 DEF OnUp, OnDown
  <2>3. QED BY <1>1, <1>3, <1>4, <2>2 DEF Conserved, OnUp, OnDown
<1>8. client \in {"reply", "status", "done"}
  BY <1>4 DEF DataInv, TypeOK
<1>9. ~lost => /\ ~Gone(WU) /\ ~Fin(WD)
               /\ Fin(WU) \/ Gone(WD) \/ Gone(AU) => client = "done"
  BY <1>1 DEF DataInv, Relays, Opening, Started
<1>10. (UpCounts => UpOK)'
  BY <1>1, <1>3, <1>4, <1>5, <1>7, <1>9 DEF UpCounts, UpOK, Silent, Refused
<1>11. (DownCounts => DownOK)'
  <2> SUFFICES ASSUME DownCounts' PROVE DownOK'
    OBVIOUS
  <2>1. client \in {"reply", "status"} /\ ~lost
    BY <1>1, <1>4, <1>8 DEF DownCounts
  <2>2. ~Fin(WU) /\ ~Gone(WD) /\ ~Gone(WU) /\ ~Fin(WD) /\ ~Fin(AD)
    BY <1>9, <2>1 DEF DataInv, Relays, Started
  <2>3. QED BY <1>1, <1>3, <1>4, <1>5, <1>7, <2>1, <2>2 DEF DownOK
<1>12. QED BY <1>2, <1>6, <1>7, <1>10, <1>11 DEF Relays

LEMMA RefuseStep ==
  ASSUME DataInv, ServerRefuses
  PROVE  pipe' \in PipeType /\ Relays'
<1>1. /\ server \in {"greeting", "auth", "mode", "address", "dial"} /\ server' = "done"
      /\ status' = "refused" /\ status # "ok"
      /\ UNCHANGED <<kind, client, copying, answer, sent, got, told, lost>>
  BY DEF ServerRefuses, DataInv, Relays, Phases, ends
<1>2. pipe' \in CloseWire(pipe, WD, WU) \/ pipe' = pipe
  BY DEF ServerRefuses, WU, WD
<1>3. EndedStream(pipe, pipe', WD) \/ ClosedEnd(pipe, pipe', WD, WU) \/ pipe' = pipe
  BY <1>2, CloseWireIs, Fields, Names DEF Differ, DataInv
<1>4. /\ pipe' \in PipeType
      /\ N(WU)' \in {N(WU), 0} /\ N(WD)' \in {N(WD), 0} /\ Gone(WD)' = Gone(WD)
      /\ \A p \in {AU, TU, AD, TD} : UNCHANGED <<N(p), Fin(p), Gone(p)>>
  BY <1>3, Fields, Names DEF EndedStream, ClosedEnd, Differ, N, Fin, Gone, DataInv
<1>5. Phases' /\ Started' /\ Opening' /\ Copied' /\ Held'
  BY <1>1, <1>4 DEF DataInv, Relays, Phases, Started, Opening, Copied, Held
<1>6. Conserved'
  BY <1>1, <1>4, Fields, Names DEF DataInv, Relays, Conserved, OnUp, OnDown
<1>7. ~UpCounts' /\ ~DownCounts'
  BY <1>1 DEF UpCounts, DownCounts
<1>8. QED BY <1>4, <1>5, <1>6, <1>7 DEF Relays

LEMMA LoseStep ==
  ASSUME DataInv, Loses
  PROVE  pipe' \in PipeType /\ Relays'
<1>1. /\ lost' = TRUE
      /\ UNCHANGED <<kind, client, server, copying, answer, status, sent, got, told>>
  BY DEF Loses, ends
<1>2. pipe' \in PipeType /\ \A p \in Pipes : pipe'[p] = IF p[1] = "W" THEN Closed ELSE pipe[p]
  <2>1. Closed \in [n : 0 .. Cap, fin : BOOLEAN, gone : BOOLEAN]
    BY TunnelAssumption DEF Closed
  <2>2. QED BY <2>1, Fields DEF Loses, DataInv, PipeType
<1>3. /\ \A p \in {WU, WD} : N(p)' = 0
      /\ \A p \in {AU, TU, AD, TD} : UNCHANGED <<N(p), Fin(p), Gone(p)>>
  <2>1. /\ WU[1] = "W" /\ WD[1] = "W"
        /\ AU[1] # "W" /\ TU[1] # "W" /\ AD[1] # "W" /\ TD[1] # "W"
    BY DEF AU, WU, TU, AD, WD, TD
  <2>2. /\ pipe'[WU] = Closed /\ pipe'[WD] = Closed
        /\ \A p \in {AU, TU, AD, TD} : pipe'[p] = pipe[p]
    BY <1>2, <2>1, Names
  <2>3. QED BY <2>2 DEF N, Fin, Gone, Closed
<1>4. Phases' /\ Started' /\ Opening' /\ Copied' /\ Held'
  BY <1>1, <1>3 DEF DataInv, Relays, Phases, Started, Opening, Copied, Held
<1>5. Conserved'
  BY <1>1, <1>3, Fields, Names DEF DataInv, Relays, Conserved, OnUp, OnDown
<1>6. ~UpCounts' /\ ~DownCounts'
  BY <1>1 DEF UpCounts, DownCounts
<1>7. QED BY <1>2, <1>4, <1>5, <1>6 DEF Relays

\* The handler of the client returns: both copies have ended.
LEMMA ClientReturnStep ==
  ASSUME DataInv, ClientReturns
  PROVE  pipe' \in PipeType /\ Relays'
<1>1. /\ client = "relay" /\ client' = "done" /\ cUp \notin copying /\ cDown \notin copying
      /\ UNCHANGED <<kind, server, answer, status, sent, got, told, lost>>
  BY DEF ClientReturns, RelayEnded, Dirs, cUp, cDown, ends
<1>2. /\ cUp \notin copying' /\ cDown \notin copying'
      /\ sUp \in copying' <=> sUp \in copying
      /\ sDown \in copying' <=> sDown \in copying
  BY <1>1 DEF ClientReturns, Dirs, cUp, cDown, sUp, sDown
<1>3. PICK P \in CloseWire(pipe, WU, WD) : pipe' \in CloseEnd(P, AD, AU)
  BY DEF ClientReturns, WU, WD, AD, AU
<1>4. /\ kind \in Streams => EndedStream(pipe, P, WU)
      /\ kind \notin Streams => ClosedEnd(pipe, P, WU, WD)
  BY <1>3, CloseWireIs, Fields, Names DEF Differ, DataInv
<1>5. ClosedEnd(P, pipe', AD, AU)
  <2>1. P \in PipeType
    BY <1>4 DEF EndedStream, ClosedEnd
  <2>2. AD \in Pipes /\ AU \in Pipes /\ AD # AU
    BY Names DEF Differ
  <2>3. QED BY <1>3, <2>1, <2>2, CloseEndIs
<1>6. /\ pipe' \in PipeType
      /\ Fin(WU)' = TRUE /\ Gone(WU)' = Gone(WU)
      /\ N(WU)' = N(WU) \/ (N(WD) > 0 /\ N(WU)' = 0)
      /\ Fin(WD)' = Fin(WD) /\ N(WD)' \in {N(WD), 0}
      /\ Fin(AD)' = TRUE /\ Gone(AD)' = Gone(AD)
      /\ N(AD)' = N(AD) \/ (N(AU) > 0 /\ N(AD)' = 0)
      /\ Fin(AU)' = Fin(AU) /\ Gone(AU)' = TRUE /\ N(AU)' = 0
      /\ \A p \in {TU, TD} : UNCHANGED <<N(p), Fin(p), Gone(p)>>
  BY <1>4, <1>5, Names DEF EndedStream, ClosedEnd, Differ, N, Fin, Gone
<1>7. Phases' /\ Started' /\ Opening' /\ Copied' /\ Held'
  BY <1>1, <1>2, <1>6 DEF DataInv, Relays, Phases, Started, Opening, Copied, Held
<1>8. Conserved' /\ OnUp' <= OnUp /\ (N(AU) > 0 => OnUp' < OnUp)
  BY <1>1, <1>6, Fields, Names DEF DataInv, Relays, Conserved, OnUp, OnDown
<1>9. (UpCounts => UpOK)'
  <2> SUFFICES ASSUME UpCounts' PROVE UpOK'
    OBVIOUS
  <2>1. UpCounts /\ UpOK
    BY <1>1, <1>6 DEF UpCounts, DataInv, Relays
  <2>2. Silent /\ Silent' /\ ~Refused /\ N(WD) = 0 /\ Fin(WD)
    BY <1>1, <1>6, <2>1 DEF UpOK, Silent, Refused
  <2>3. N(AU)' = N(AU) /\ N(WU)' = N(WU) /\ N(TU)' = N(TU) /\ N(WD)' = 0
    BY <1>6, <2>2 DEF Silent
  <2>4. OnUp' = sent["up"]'
    BY <1>1, <2>1, <2>3 DEF UpOK, OnUp
  <2>5. QED BY <1>1, <1>2, <1>6, <2>1, <2>2, <2>3, <2>4 DEF UpOK
<1>10. (DownCounts => DownOK)'
  <2> SUFFICES ASSUME DownCounts' PROVE DownOK'
    OBVIOUS
  <2>1. kind \in Quic => OnUp = sent["up"] /\ N(AU) = 0
    BY <1>1, <1>6, <1>8, Fields, Names
       DEF DownCounts, DataInv, Relays, Conserved, OnUp
  <2>2. DownCounts /\ DownOK
    BY <1>1, <1>6, <2>1 DEF DownCounts, DataInv, Relays
  <2>3. N(AU) = 0 /\ N(WD) = 0 /\ Fin(WD) /\ Answered
    BY <1>1, <2>1, <2>2 DEF DownOK
  <2>4. N(AD)' = N(AD) /\ N(WD)' = N(WD) /\ N(TD)' = N(TD) /\ N(WU)' = N(WU) /\ Answered'
    BY <1>6, <2>3 DEF Answered
  <2>5. OnDown' = sent["down"]'
    BY <1>1, <2>2, <2>4 DEF DownOK, OnDown
  <2>6. QED BY <1>1, <1>2, <1>6, <2>2, <2>3, <2>4, <2>5 DEF DownOK
<1>11. QED BY <1>6, <1>7, <1>8, <1>9, <1>10 DEF Relays

\* So does the handler of the server; not every transport closes W then.
LEMMA ServerReturnStep ==
  ASSUME DataInv, ServerReturns
  PROVE  pipe' \in PipeType /\ Relays'
<1>1. /\ server = "relay" /\ server' = "done" /\ sUp \notin copying /\ sDown \notin copying
      /\ status = "ok"
      /\ UNCHANGED <<kind, client, answer, status, sent, got, told, lost>>
  BY DEF ServerReturns, RelayEnded, Dirs, sUp, sDown, ends, DataInv, Relays, Phases
<1>2. /\ sUp \notin copying' /\ sDown \notin copying'
      /\ cUp \in copying' <=> cUp \in copying
      /\ cDown \in copying' <=> cDown \in copying
  BY <1>1 DEF ServerReturns, Dirs, cUp, cDown, sUp, sDown
<1>3. PICK P \in CloseEnd(pipe, TU, TD) : pipe' \in CloseWire(P, WD, WU) \/ pipe' = P
  BY DEF ServerReturns, WU, WD, TU, TD
<1>4. ClosedEnd(pipe, P, TU, TD)
  <2>1. TU \in Pipes /\ TD \in Pipes /\ TU # TD /\ pipe \in PipeType
    BY Fields, Names DEF Differ, DataInv
  <2>2. QED BY <1>3, <2>1, CloseEndIs
<1>5. \/ EndedStream(P, pipe', WD)
      \/ kind \notin Quic /\ ClosedEnd(P, pipe', WD, WU)
      \/ pipe' = P
  <2>1. P \in PipeType
    BY <1>4 DEF ClosedEnd
  <2>2. WD \in Pipes /\ WU \in Pipes /\ WD # WU
    BY Names DEF Differ
  <2>3. kind \in Quic => kind \in Streams
    BY DEF Streams
  <2>4. QED BY <1>3, <2>1, <2>2, <2>3, CloseWireIs
<1>6. /\ pipe' \in PipeType
      /\ Fin(TU)' = TRUE /\ Gone(TU)' = Gone(TU)
      /\ N(TU)' = N(TU) \/ (N(TD) > 0 /\ N(TU)' = 0)
      /\ Fin(TD)' = Fin(TD) /\ Gone(TD)' = TRUE /\ N(TD)' = 0
      /\ Gone(WD)' = Gone(WD) /\ (Fin(WD) => Fin(WD)')
      /\ N(WD)' = N(WD) \/ (kind \notin Quic /\ N(WU) > 0 /\ N(WD)' = 0)
      /\ Fin(WU)' = Fin(WU) /\ N(WU)' \in {N(WU), 0}
      /\ kind \in Quic => Gone(WU)' = Gone(WU)
      /\ \A p \in {AU, AD} : UNCHANGED <<N(p), Fin(p), Gone(p)>>
  <2>1. /\ P \in PipeType
        /\ P[TU].fin = TRUE /\ P[TU].gone = Gone(TU)
        /\ P[TU].n = N(TU) \/ (N(TD) > 0 /\ P[TU].n = 0)
        /\ P[TD].fin = Fin(TD) /\ P[TD].gone = TRUE /\ P[TD].n = 0
        /\ \A p \in {AU, WU, AD, WD} : P[p] = pipe[p]
    BY <1>4, Names DEF ClosedEnd, Differ, N, Fin, Gone
  <2>2. CASE EndedStream(P, pipe', WD)
    BY <2>1, <2>2, Names DEF EndedStream, Differ, N, Fin, Gone
  <2>3. CASE kind \notin Quic /\ ClosedEnd(P, pipe', WD, WU)
    BY <2>1, <2>3, Names DEF ClosedEnd, Differ, N, Fin, Gone
  <2>4. CASE pipe' = P
    BY <2>1, <2>4, Names DEF Differ, N, Fin, Gone
  <2>5. QED BY <1>5, <2>2, <2>3, <2>4
<1>7. Phases' /\ Started' /\ Opening' /\ Copied' /\ Held'
  BY <1>1, <1>2, <1>6 DEF DataInv, Relays, Phases, Started, Opening, Copied, Held
<1>8. Conserved' /\ OnUp' <= OnUp
  BY <1>1, <1>6, Fields, Names DEF DataInv, Relays, Conserved, OnUp, OnDown
<1>9. (UpCounts => UpOK)'
  <2> SUFFICES ASSUME UpCounts' PROVE UpOK'
    OBVIOUS
  <2>1. UpCounts /\ UpOK
    BY <1>1, <1>6 DEF UpCounts, DataInv, Relays
  <2>2. Silent /\ Silent' /\ N(WU) = 0 /\ N(WU)' = 0
    BY <1>1, <1>6, <2>1 DEF UpOK, Silent, Refused, DataInv, Relays, Copied
  <2>3. OnUp' = sent["up"]'
    <3>1. CASE N(TD) = 0
      BY <1>1, <1>6, <2>1, <2>2, <3>1 DEF UpOK, OnUp
    <3>2. CASE Refused
      <4>1. sent["up"] = 0 /\ OnUp = 0
        BY <2>1, <3>2 DEF Refused, DataInv, Relays, Started, UpOK
      <4>2. N(TU) = 0
        BY <4>1, Fields, Names DEF DataInv, OnUp
      <4>3. QED BY <1>1, <1>6, <2>2, <4>1, <4>2 DEF OnUp
    <3>3. QED BY <1>1, <2>1, <3>1, <3>2 DEF UpOK
  <2>4. Refused => Refused'
    BY <1>1 DEF Refused
  <2>5. QED BY <1>1, <1>2, <1>6, <2>1, <2>2, <2>3, <2>4 DEF UpOK
<1>10. (DownCounts => DownOK)'
  <2> SUFFICES ASSUME DownCounts' PROVE DownOK'
    OBVIOUS
  <2>1. kind \in Quic => OnUp = sent["up"]
    BY <1>1, <1>8, Fields, Names DEF DownCounts, DataInv, Relays, Conserved, OnUp
  <2>2. DownCounts /\ DownOK
    BY <1>1, <1>6, <2>1 DEF DownCounts, DataInv, Relays
  <2>3. Answered /\ (kind \notin Quic => Fin(WU) /\ N(WU) = 0)
    BY <1>1, <2>2 DEF DownOK
  <2>4. N(AD)' = N(AD) /\ N(WD)' = N(WD) /\ N(TD)' = N(TD) /\ Answered'
    BY <1>6, <2>3 DEF Answered
  <2>5. OnDown' = sent["down"]'
    BY <1>1, <2>2, <2>4 DEF DownOK, OnDown
  <2>6. kind \notin Quic => Fin(WU)' /\ N(WU)' = 0
    BY <1>6, <2>3
  <2>7. QED BY <1>1, <1>2, <1>6, <2>2, <2>4, <2>5, <2>6 DEF DownOK
<1>11. QED BY <1>6, <1>7, <1>8, <1>9, <1>10 DEF Relays

\* What one turn of a copy from s to t changes.
Copied1(c, s, t) ==
  /\ c \in copying /\ N(s) > 0 /\ pipe' \in PipeType
  /\ N(s)' = N(s) - 1
  /\ \/ N(t)' = N(t) + 1 /\ ~Gone(t) /\ ~Fin(t)
     \/ N(t)' = N(t) /\ (Gone(t) \/ Fin(t))
  /\ \A p \in Pipes : Fin(p)' = Fin(p) /\ Gone(p)' = Gone(p)
  /\ \A p \in Pipes \ {s, t} : N(p)' = N(p)
  /\ UNCHANGED <<kind, client, server, copying, answer, status, sent, got, told, lost>>

LEMMA CopyIs ==
  ASSUME DataInv, NEW s \in Pipes, NEW t \in Pipes, s # t,
         NEW c \in Copies, Copy(c), Source(c) = s, Sink(c) = t
  PROVE  Copied1(c, s, t)
<1> DEFINE Rec == [n : 0 .. Cap, fin : BOOLEAN, gone : BOOLEAN]
           a == [pipe[s] EXCEPT !.n = @ - 1]
           b == [pipe[t] EXCEPT !.n = @ + 1]
<1>1. /\ pipe \in [Pipes -> Rec] /\ Cap \in Nat
      /\ c \in copying /\ N(s) > 0
      /\ UNCHANGED <<kind, client, server, copying, answer, status, sent, got, told, lost>>
  BY Fields DEF Copy, DataInv, ends, N, PipeType
<1>2. /\ a \in Rec /\ a.n = N(s) - 1 /\ a.fin = Fin(s) /\ a.gone = Gone(s)
  BY <1>1 DEF N, Fin, Gone
<1>3. CASE Gone(t) \/ Fin(t)
  <2>1. pipe' = [pipe EXCEPT ![s] = a]
    BY <1>1, <1>3 DEF Copy, Gone, Fin
  <2> HIDE DEF a
  <2>2. pipe' \in PipeType
    BY <1>1, <1>2, <2>1 DEF PipeType
  <2>3. pipe'[s] = a /\ \A p \in Pipes \ {s} : pipe'[p] = pipe[p]
    BY <1>1, <2>1
  <2>4. /\ N(s)' = N(s) - 1 /\ N(t)' = N(t)
        /\ \A p \in Pipes : Fin(p)' = Fin(p) /\ Gone(p)' = Gone(p)
        /\ \A p \in Pipes \ {s, t} : N(p)' = N(p)
    BY <1>2, <2>3 DEF N, Fin, Gone
  <2>5. QED BY <1>1, <1>3, <2>2, <2>4 DEF Copied1
<1>4. CASE ~Gone(t) /\ ~Fin(t)
  <2>1. pipe' = [pipe EXCEPT ![s] = a, ![t] = b] /\ N(t) < Cap
    BY <1>1, <1>4 DEF Copy, Gone, Fin, N
  <2>2. b \in Rec /\ b.n = N(t) + 1 /\ b.fin = Fin(t) /\ b.gone = Gone(t)
    BY <1>1, <2>1 DEF N, Fin, Gone
  <2> HIDE DEF a, b
  <2>3. pipe' \in PipeType
    BY <1>1, <1>2, <2>1, <2>2 DEF PipeType
  <2>4. pipe'[s] = a /\ pipe'[t] = b /\ \A p \in Pipes \ {s, t} : pipe'[p] = pipe[p]
    BY <1>1, <2>1
  <2>5. /\ N(s)' = N(s) - 1 /\ N(t)' = N(t) + 1
        /\ \A p \in Pipes : Fin(p)' = Fin(p) /\ Gone(p)' = Gone(p)
        /\ \A p \in Pipes \ {s, t} : N(p)' = N(p)
    BY <1>2, <2>2, <2>4 DEF N, Fin, Gone
  <2>6. QED BY <1>1, <1>4, <2>3, <2>5 DEF Copied1
<1>5. QED BY <1>3, <1>4

LEMMA CopySteps ==
  ASSUME DataInv, NEW c \in Copies, Copy(c)
  PROVE  pipe' \in PipeType /\ Relays'
<1>1. \/ c = cUp /\ Copied1(cUp, AU, WU)
      \/ c = cDown /\ Copied1(cDown, WD, AD)
      \/ c = sUp /\ Copied1(sUp, WU, TU)
      \/ c = sDown /\ Copied1(sDown, TD, WD)
  <2>1. AU # WU /\ WD # AD /\ WU # TU /\ TD # WD
    BY Names DEF Differ
  <2>2. c = cUp \/ c = cDown \/ c = sUp \/ c = sDown
    BY Names
  <2>3. AU \in Pipes /\ WU \in Pipes /\ TU \in Pipes /\ AD \in Pipes /\ WD \in Pipes /\ TD \in Pipes
    BY Names
  <2>4. CASE c = cUp
    BY <2>1, <2>3, <2>4, CopyIs, Ways
  <2>5. CASE c = cDown
    BY <2>1, <2>3, <2>5, CopyIs, Ways
  <2>6. CASE c = sUp
    BY <2>1, <2>3, <2>6, CopyIs, Ways
  <2>7. CASE c = sDown
    BY <2>1, <2>3, <2>7, CopyIs, Ways
  <2>8. QED BY <2>2, <2>4, <2>5, <2>6, <2>7
<1>2. /\ pipe' \in PipeType /\ c \in copying
      /\ UNCHANGED <<kind, client, server, copying, answer, status, sent, got, told, lost>>
      /\ \A p \in {AU, WU, TU, AD, WD, TD} : Fin(p)' = Fin(p) /\ Gone(p)' = Gone(p)
  BY <1>1, Names DEF Copied1
<1>3. /\ c = cDown => ~Fin(AD)
      /\ c = sUp => ~Fin(TU)
  BY <1>2 DEF DataInv, Relays, Copied, Phases
<1>4. /\ c = cUp => /\ N(AU) > 0 /\ N(AU)' = N(AU) - 1
                    /\ \/ N(WU)' = N(WU) + 1 /\ ~Gone(WU) /\ ~Fin(WU)
                       \/ N(WU)' = N(WU) /\ (Gone(WU) \/ Fin(WU))
                    /\ \A p \in {TU, AD, WD, TD} : N(p)' = N(p)
      /\ c = cDown => /\ N(WD) > 0 /\ N(WD)' = N(WD) - 1
                      /\ \/ N(AD)' = N(AD) + 1 /\ ~Gone(AD) /\ ~Fin(AD)
                         \/ N(AD)' = N(AD) /\ (Gone(AD) \/ Fin(AD))
                      /\ \A p \in {AU, WU, TU, TD} : N(p)' = N(p)
      /\ c = sUp => /\ N(WU) > 0 /\ N(WU)' = N(WU) - 1
                    /\ \/ N(TU)' = N(TU) + 1 /\ ~Gone(TU) /\ ~Fin(TU)
                       \/ N(TU)' = N(TU) /\ (Gone(TU) \/ Fin(TU))
                    /\ \A p \in {AU, AD, WD, TD} : N(p)' = N(p)
      /\ c = sDown => /\ N(TD) > 0 /\ N(TD)' = N(TD) - 1
                      /\ \/ N(WD)' = N(WD) + 1 /\ ~Gone(WD) /\ ~Fin(WD)
                         \/ N(WD)' = N(WD) /\ (Gone(WD) \/ Fin(WD))
                      /\ \A p \in {AU, WU, TU, AD} : N(p)' = N(p)
  BY <1>1, Names DEF Copied1, Differ
<1>5. c = cUp \/ c = cDown \/ c = sUp \/ c = sDown
  BY Names
<1>6. Phases' /\ Opening' /\ Copied' /\ Held'
  BY <1>2 DEF DataInv, Relays, Phases, Opening, Copied, Held
<1>7. Started'
  BY <1>2, <1>3, <1>4, <1>5 DEF DataInv, Relays, Started
<1>8. Conserved' /\ OnUp' <= OnUp /\ OnDown' <= OnDown
  BY <1>2, <1>4, <1>5, Fields, Names DEF DataInv, Relays, Conserved, OnUp, OnDown
<1>9. (UpCounts => UpOK)'
  <2> SUFFICES ASSUME UpCounts' PROVE UpOK'
    OBVIOUS
  <2>1. UpCounts /\ UpOK
    BY <1>2 DEF UpCounts, DataInv, Relays
  <2>2. CASE c = cUp
    BY <1>2, <1>4, <2>1, <2>2, Fields, Names DEF DataInv, UpOK, Silent, Refused, OnUp
  <2>3. CASE c = cDown
    BY <1>2, <1>3, <1>4, <2>1, <2>3, Fields, Names
       DEF DataInv, UpOK, Silent, Refused, OnUp
  <2>4. CASE c = sUp
    <3>1. ~Gone(TU) /\ ~Fin(TU)
      BY <1>3, <2>1, <2>4 DEF UpCounts, DataInv, Relays, Started
    <3>2. QED BY <1>2, <1>4, <2>1, <2>4, <3>1, Fields, Names
                 DEF DataInv, UpOK, Silent, Refused, OnUp
  <2>5. CASE c = sDown
    BY <1>2, <1>4, <2>1, <2>5, Fields, Names DEF DataInv, UpOK, Silent, Refused, OnUp
  <2>6. QED BY <1>5, <2>2, <2>3, <2>4, <2>5
<1>10. (DownCounts => DownOK)'
  <2> SUFFICES ASSUME DownCounts' PROVE DownOK'
    OBVIOUS
  <2>1. kind \in Quic => OnUp = sent["up"]
    <3>1. OnUp \in Int /\ OnUp <= sent["up"] /\ sent["up"] \in Int
      BY Fields, Names DEF DataInv, Relays, Conserved, OnUp
    <3>2. kind \in Quic => OnUp' = sent["up"]
      BY <1>2 DEF DownCounts
    <3>3. QED BY <1>8, <3>1, <3>2
  <2>2. DownCounts /\ DownOK
    BY <1>2, <2>1 DEF DownCounts, DataInv, Relays
  <2>3. CASE c = cUp
    BY <1>2, <1>4, <2>2, <2>3, Fields, Names DEF DataInv, DownOK, Answered, OnDown
  <2>4. CASE c = cDown
    <3>1. ~Gone(AD) /\ ~Fin(AD)
      BY <1>3, <2>2, <2>4 DEF DownCounts, DataInv, Relays, Started
    <3>2. QED BY <1>2, <1>4, <2>2, <2>4, <3>1, Fields, Names
                 DEF DataInv, DownOK, Answered, OnDown
  <2>5. CASE c = sUp
    BY <1>2, <1>4, <2>2, <2>5, Fields, Names DEF DataInv, DownOK, Answered, OnDown
  <2>6. CASE c = sDown
    BY <1>2, <1>4, <2>2, <2>6, Fields, Names DEF DataInv, DownOK, Answered, OnDown
  <2>7. QED BY <1>5, <2>3, <2>4, <2>5, <2>6
<1>11. QED BY <1>2, <1>6, <1>7, <1>8, <1>9, <1>10 DEF Relays

\* Why a copy from s to t may end.
Ended(s, t) ==
  Gone(s) \/ (N(s) = 0 /\ Fin(s)) \/ (N(s) > 0 /\ (Gone(t) \/ Fin(t)))

\* What the end of each copy changes; closeWrite does not always end a stream.
EndsLike(c) ==
  /\ pipe' \in PipeType /\ c \in copying /\ copying' = copying \ {c}
  /\ UNCHANGED <<kind, client, server, answer, status, sent, got, told, lost>>

LEMMA CopyEndIs ==
  ASSUME DataInv, NEW c \in Copies, CopyEnds(c)
  PROVE  /\ EndsLike(c)
         /\ c = cUp => Ended(AU, WU) /\ (EndedStream(pipe, pipe', WU) \/ pipe' = pipe)
         /\ c = cDown => Ended(WD, AD) /\ EndedStream(pipe, pipe', AD)
         /\ c = sUp => /\ Ended(WU, TU)
                       /\ IF kind \in Quic THEN ClosedEnd(pipe, pipe', TU, TD)
                          ELSE EndedStream(pipe, pipe', TU)
         /\ c = sDown =>
              /\ Ended(TD, WD)
              /\ IF kind \in Quic
                 THEN pipe' = [pipe EXCEPT ![WU].gone = TRUE, ![WU].n = 0]
                 ELSE EndedStream(pipe, pipe', WD) \/ pipe' = pipe
<1>1. /\ pipe \in PipeType
      /\ AU \in Pipes /\ WU \in Pipes /\ TU \in Pipes /\ AD \in Pipes /\ WD \in Pipes
      /\ TD \in Pipes /\ TU # TD /\ Cap \in Nat
  BY Fields, Names DEF DataInv, Differ
<1>2. /\ c \in copying /\ copying' = copying \ {c} /\ Ended(Source(c), Sink(c))
      /\ UNCHANGED <<kind, client, server, answer, status, sent, got, told, lost>>
      /\ pipe' \in AfterCopy(c)
  BY DEF CopyEnds, CopyMayEnd, Ended, N, Fin, Gone, ends
<1>3. CASE c = cUp
  <2>1. pipe' = IF ClosesWrite(c) THEN EndStream(pipe, WU) ELSE pipe
    BY <1>2, <1>3, Ways DEF AfterCopy, cUp
  <2>2. EndedStream(pipe, pipe', WU) \/ pipe' = pipe
    BY <1>1, <2>1, EndStreamIs
  <2>3. pipe' \in PipeType
    BY <1>1, <2>2 DEF EndedStream
  <2>4. QED BY <1>2, <1>3, <2>2, <2>3, Ways, Names DEF EndsLike
<1>4. CASE c = cDown
  <2>1. ClosesWrite(c)
    BY <1>4 DEF ClosesWrite, cDown
  <2>2. pipe' = EndStream(pipe, AD)
    BY <1>2, <1>4, <2>1, Ways DEF AfterCopy, cDown
  <2>3. EndedStream(pipe, pipe', AD)
    BY <1>1, <2>2, EndStreamIs
  <2>4. pipe' \in PipeType
    BY <2>3 DEF EndedStream
  <2>5. QED BY <1>2, <1>4, <2>3, <2>4, Ways, Names DEF EndsLike
<1>5. CASE c = sUp
  <2>1. CASE kind \in Quic
    <3>1. pipe' \in CloseEnd(pipe, TU, TD)
      BY <1>2, <1>5, <2>1 DEF AfterCopy, sUp, TU, TD
    <3>2. ClosedEnd(pipe, pipe', TU, TD)
      BY <1>1, <3>1, CloseEndIs
    <3>3. pipe' \in PipeType
      BY <3>2 DEF ClosedEnd
    <3>4. QED BY <1>2, <1>5, <2>1, <3>2, <3>3, Ways, Names DEF EndsLike
  <2>2. CASE kind \notin Quic
    <3>1. ClosesWrite(c)
      BY <1>5 DEF ClosesWrite, sUp
    <3>2. pipe' = EndStream(pipe, TU)
      BY <1>2, <1>5, <2>2, <3>1, Ways DEF AfterCopy, sUp
    <3>3. EndedStream(pipe, pipe', TU)
      BY <1>1, <3>2, EndStreamIs
    <3>4. pipe' \in PipeType
      BY <3>3 DEF EndedStream
    <3>5. QED BY <1>2, <1>5, <2>2, <3>3, <3>4, Ways, Names DEF EndsLike
  <2>3. QED BY <2>1, <2>2
<1>6. CASE c = sDown
  <2>1. CASE kind \in Quic
    <3>1. pipe' = [pipe EXCEPT ![WU].gone = TRUE, ![WU].n = 0]
      BY <1>2, <1>6, <2>1 DEF AfterCopy, sDown, WU
    <3>2. pipe' \in PipeType
      <4> DEFINE P == [pipe EXCEPT ![WU].gone = TRUE]
      <4>1. P \in PipeType
        BY <1>1 DEF PipeType
      <4>2. pipe' = [P EXCEPT ![WU].n = 0]
        BY <1>1, <3>1 DEF PipeType
      <4> HIDE DEF P
      <4>3. QED BY <1>1, <4>1, <4>2 DEF PipeType
    <3>3. QED BY <1>2, <1>6, <2>1, <3>1, <3>2, Ways, Names DEF EndsLike
  <2>2. CASE kind \notin Quic
    <3>1. pipe' = IF ClosesWrite(c) THEN EndStream(pipe, WD) ELSE pipe
      BY <1>2, <1>6, <2>2, Ways DEF AfterCopy, sDown
    <3>2. EndedStream(pipe, pipe', WD) \/ pipe' = pipe
      BY <1>1, <3>1, EndStreamIs
    <3>3. pipe' \in PipeType
      BY <1>1, <3>2 DEF EndedStream
    <3>4. QED BY <1>2, <1>6, <2>2, <3>2, <3>3, Ways, Names DEF EndsLike
  <2>3. QED BY <2>1, <2>2
<1>7. QED BY <1>3, <1>4, <1>5, <1>6, Names

LEMMA ClientCopyEnds ==
  ASSUME DataInv, NEW c \in {cUp, cDown}, CopyEnds(c)
  PROVE  pipe' \in PipeType /\ Relays'
<1>1. /\ EndsLike(c)
      /\ c = cUp => Ended(AU, WU) /\ (EndedStream(pipe, pipe', WU) \/ pipe' = pipe)
      /\ c = cDown => Ended(WD, AD) /\ EndedStream(pipe, pipe', AD)
  BY CopyEndIs, Names
<1>2. /\ pipe' \in PipeType /\ c \in copying
      /\ sUp \in copying' <=> sUp \in copying
      /\ sDown \in copying' <=> sDown \in copying
      /\ cUp \in copying' <=> cUp \in copying /\ c # cUp
      /\ cDown \in copying' <=> cDown \in copying /\ c # cDown
      /\ UNCHANGED <<kind, client, server, answer, status, sent, got, told, lost>>
  BY <1>1, Names DEF EndsLike
<1>3. /\ \A p \in {AU, WU, TU, AD, WD, TD} : N(p)' = N(p) /\ Gone(p)' = Gone(p)
      /\ Fin(WU)' = Fin(WU) \/ (c = cUp /\ Fin(WU)')
      /\ Fin(AD)' = Fin(AD) \/ (c = cDown /\ Fin(AD)')
      /\ \A p \in {AU, TU, WD, TD} : Fin(p)' = Fin(p)
  BY <1>1, Names DEF EndedStream, Differ, N, Fin, Gone
<1>4. /\ client = "relay" /\ status = "ok"
      /\ c = cUp => Ended(AU, WU)
      /\ c = cDown => Ended(WD, AD) /\ ~Fin(AD) /\ "down" \notin told
  BY <1>1, <1>2 DEF DataInv, Relays, Phases, Copied, Started
<1>5. Phases' /\ Started' /\ Opening' /\ Copied' /\ Held'
  BY <1>2, <1>3, <1>4 DEF DataInv, Relays, Phases, Started, Opening, Copied, Held
<1>6. OnUp' = OnUp /\ OnDown' = OnDown /\ Conserved'
  BY <1>2, <1>3 DEF DataInv, Relays, Conserved, OnUp, OnDown
<1>7. (Silent' <=> Silent) /\ (Answered' <=> Answered) /\ (Refused' <=> Refused)
  BY <1>2, <1>3 DEF Silent, Answered, Refused
<1>8. N(AU) \in Nat /\ N(WD) \in Nat /\ ~Refused
  BY <1>4, Fields, Names DEF DataInv, Refused
<1>9. (UpCounts => UpOK)'
  <2> SUFFICES ASSUME UpCounts' PROVE UpOK'
    OBVIOUS
  <2>1. UpCounts /\ UpOK
    BY <1>2, <1>3 DEF UpCounts, DataInv, Relays
  <2>2. c = cUp => Silent
    BY <1>4, <1>8, <2>1 DEF UpOK, Silent, Ended
  <2>3. c = cDown => Fin(WD) /\ N(WD) = 0
    BY <1>4, <1>8, <2>1 DEF UpOK, UpCounts, Ended, DataInv, Relays, Held
  <2>4. QED BY <1>2, <1>3, <1>6, <1>7, <2>1, <2>2, <2>3 DEF UpOK
<1>10. (DownCounts => DownOK)'
  <2> SUFFICES ASSUME DownCounts' PROVE DownOK'
    OBVIOUS
  <2>1. DownCounts /\ DownOK
    BY <1>2, <1>3, <1>6 DEF DownCounts, DataInv, Relays
  <2>2. c = cUp =>
          /\ kind \notin Quic => N(AU) = 0 /\ Fin(AU)
          /\ kind \in Quic => Gone(WU) \/ Fin(WU)
    <3>1. ~Gone(AU)
      BY <1>4 DEF DataInv, Relays, Started
    <3>2. QED BY <1>2, <1>4, <1>8, <2>1, <3>1 DEF DownOK, DownCounts, Ended
  <2>3. c = cDown => Fin(WD) /\ N(WD) = 0
    BY <1>4, <1>8, <2>1 DEF DownOK, DownCounts, Ended, DataInv, Relays, Held
  <2>4. QED BY <1>2, <1>3, <1>4, <1>6, <1>7, <2>1, <2>2, <2>3 DEF DownOK
<1>11. QED BY <1>2, <1>5, <1>6, <1>9, <1>10 DEF Relays

LEMMA ServerUpEnds ==
  ASSUME DataInv, CopyEnds(sUp)
  PROVE  pipe' \in PipeType /\ Relays'
<1>1. /\ EndsLike(sUp) /\ Ended(WU, TU)
      /\ IF kind \in Quic THEN ClosedEnd(pipe, pipe', TU, TD)
         ELSE EndedStream(pipe, pipe', TU)
  BY CopyEndIs, Names
<1>2. /\ pipe' \in PipeType /\ sUp \in copying /\ sUp \notin copying'
      /\ sDown \in copying' <=> sDown \in copying
      /\ cUp \in copying' <=> cUp \in copying
      /\ cDown \in copying' <=> cDown \in copying
      /\ UNCHANGED <<kind, client, server, answer, status, sent, got, told, lost>>
  BY <1>1, Names DEF EndsLike
<1>3. /\ Fin(TU)' = TRUE /\ Gone(TU)' = Gone(TU)
      /\ N(TU)' = N(TU) \/ (kind \in Quic /\ N(TD) > 0 /\ N(TU)' = 0)
      /\ Fin(TD)' = Fin(TD)
      /\ kind \in Quic => Gone(TD)' = TRUE /\ N(TD)' = 0
      /\ kind \notin Quic => Gone(TD)' = Gone(TD) /\ N(TD)' = N(TD)
      /\ \A p \in {AU, WU, AD, WD} : UNCHANGED <<N(p), Fin(p), Gone(p)>>
  <2>1. CASE kind \in Quic
    BY <1>1, <2>1, Names DEF ClosedEnd, Differ, N, Fin, Gone
  <2>2. CASE kind \notin Quic
    BY <1>1, <2>2, Names DEF EndedStream, Differ, N, Fin, Gone
  <2>3. QED BY <2>1, <2>2
<1>4. /\ server = "relay" /\ status = "ok" /\ ~Fin(TU) /\ "up" \notin told
  BY <1>2 DEF DataInv, Relays, Phases, Copied, Started
<1>5. Phases' /\ Started' /\ Opening' /\ Copied' /\ Held'
  BY <1>2, <1>3, <1>4 DEF DataInv, Relays, Phases, Started, Opening, Copied, Held
<1>6. Conserved' /\ OnUp' <= OnUp
  BY <1>2, <1>3, Fields, Names DEF DataInv, Relays, Conserved, OnUp, OnDown
<1>7. (Silent' <=> Silent) /\ (Refused' <=> Refused)
  BY <1>2, <1>3 DEF Silent, Refused
<1>8. /\ N(WU) \in Nat /\ N(TD) \in Nat /\ N(AD) \in Nat /\ N(WD) \in Nat
      /\ got["down"] \in Nat
  BY Fields, Names DEF DataInv
<1>9. (UpCounts => UpOK)'
  <2> SUFFICES ASSUME UpCounts' PROVE UpOK'
    OBVIOUS
  <2>1. UpCounts /\ UpOK
    BY <1>2, <1>3 DEF UpCounts, DataInv, Relays
  <2>2. ~Gone(TU) /\ Fin(WU) /\ N(WU) = 0 /\ Silent
    BY <1>1, <1>4, <1>8, <2>1 DEF UpCounts, UpOK, Ended
  <2>3. kind \in Quic => N(TD) = 0
    <3>1. kind \in Quic => OnDown <= 0
      BY <2>1 DEF UpCounts, DataInv, Relays, Conserved
    <3>2. QED BY <1>8, <3>1 DEF OnDown
  <2>4. OnUp' = sent["up"]'
    BY <1>2, <1>3, <1>8, <2>1, <2>3 DEF UpOK, OnUp
  <2>5. QED BY <1>2, <1>3, <1>7, <2>1, <2>2, <2>3, <2>4 DEF UpOK
<1>10. (DownCounts => DownOK)'
  <2> SUFFICES ASSUME DownCounts' PROVE DownOK'
    OBVIOUS
  <2>1. kind \in Quic => OnUp = sent["up"]
    <3>1. OnUp \in Int /\ OnUp <= sent["up"] /\ sent["up"] \in Int
      BY Fields, Names DEF DataInv, Relays, Conserved, OnUp
    <3>2. kind \in Quic => OnUp' = sent["up"]
      BY <1>2 DEF DownCounts
    <3>3. QED BY <1>6, <3>1, <3>2
  <2>2. DownCounts /\ DownOK
    BY <1>2, <1>3, <2>1 DEF DownCounts, DataInv, Relays
  <2>3. ~Gone(TU) /\ (Gone(WU) \/ (N(WU) = 0 /\ Fin(WU)))
    BY <1>1, <1>4, <1>8, <2>2 DEF DownCounts, Ended
  <2>4. kind \in Quic => Answered /\ N(TD) = 0
    BY <2>2, <2>3 DEF DownOK, Answered
  <2>5. kind \notin Quic => Fin(WU) /\ N(WU) = 0
    BY <1>4, <2>2, <2>3 DEF DownCounts, DataInv, Relays, Held
  <2>6. N(TD)' = N(TD) /\ (Answered' <=> Answered)
    BY <1>3, <2>4 DEF Answered
  <2>7. OnDown' = sent["down"]'
    BY <1>2, <1>3, <2>2, <2>6 DEF DownOK, OnDown
  <2>8. QED BY <1>2, <1>3, <2>2, <2>4, <2>5, <2>6, <2>7 DEF DownOK
<1>11. QED BY <1>2, <1>5, <1>6, <1>9, <1>10 DEF Relays

LEMMA ServerDownEnds ==
  ASSUME DataInv, CopyEnds(sDown)
  PROVE  pipe' \in PipeType /\ Relays'
<1>1. /\ EndsLike(sDown) /\ Ended(TD, WD)
      /\ IF kind \in Quic THEN pipe' = [pipe EXCEPT ![WU].gone = TRUE, ![WU].n = 0]
         ELSE EndedStream(pipe, pipe', WD) \/ pipe' = pipe
  BY CopyEndIs, Names
<1>2. /\ pipe' \in PipeType /\ sDown \in copying /\ sDown \notin copying'
      /\ sUp \in copying' <=> sUp \in copying
      /\ cUp \in copying' <=> cUp \in copying
      /\ cDown \in copying' <=> cDown \in copying
      /\ UNCHANGED <<kind, client, server, answer, status, sent, got, told, lost>>
  BY <1>1, Names DEF EndsLike
<1>3. /\ Fin(WD)' = Fin(WD) \/ (kind \notin Quic /\ Fin(WD)')
      /\ N(WD)' = N(WD) /\ Gone(WD)' = Gone(WD)
      /\ Fin(WU)' = Fin(WU)
      /\ kind \in Quic => Gone(WU)' = TRUE /\ N(WU)' = 0
      /\ kind \notin Quic => Gone(WU)' = Gone(WU) /\ N(WU)' = N(WU)
      /\ \A p \in {AU, TU, AD, TD} : UNCHANGED <<N(p), Fin(p), Gone(p)>>
  <2>1. CASE kind \in Quic
    <3>1. pipe \in [Pipes -> [n : 0 .. Cap, fin : BOOLEAN, gone : BOOLEAN]] /\ WU \in Pipes
      BY Fields, Names DEF DataInv, PipeType
    <3>2. /\ pipe'[WU].gone = TRUE /\ pipe'[WU].n = 0 /\ pipe'[WU].fin = pipe[WU].fin
          /\ \A p \in Pipes \ {WU} : pipe'[p] = pipe[p]
      BY <1>1, <2>1, <3>1
    <3>3. QED BY <2>1, <3>2, Names DEF Differ, N, Fin, Gone
  <2>2. CASE kind \notin Quic
    BY <1>1, <2>2, Names DEF EndedStream, Differ, N, Fin, Gone
  <2>3. QED BY <2>1, <2>2
<1>4. server = "relay" /\ status = "ok"
  BY <1>2 DEF DataInv, Relays, Phases
<1>5. Phases' /\ Started' /\ Opening' /\ Copied' /\ Held'
  BY <1>2, <1>3, <1>4 DEF DataInv, Relays, Phases, Started, Opening, Copied, Held
<1>6. Conserved' /\ OnUp' <= OnUp /\ OnDown' = OnDown
  BY <1>2, <1>3, Fields, Names DEF DataInv, Relays, Conserved, OnUp, OnDown
<1>7. (Silent' <=> Silent) /\ (Refused' <=> Refused) /\ (Answered' <=> Answered)
  BY <1>2, <1>3 DEF Silent, Refused, Answered
<1>8. /\ N(TD) \in Nat /\ N(AD) \in Nat /\ N(WD) \in Nat /\ got["down"] \in Nat
  BY Fields, Names DEF DataInv
<1>9. (UpCounts => UpOK)'
  <2> SUFFICES ASSUME UpCounts' PROVE UpOK'
    OBVIOUS
  <2>1. UpCounts /\ UpOK
    BY <1>2, <1>3 DEF UpCounts, DataInv, Relays
  <2>2. kind \in Quic => N(TD) = 0
    <3>1. kind \in Quic => OnDown <= 0
      BY <2>1 DEF UpCounts, DataInv, Relays, Conserved
    <3>2. QED BY <1>8, <3>1 DEF OnDown
  <2>3. kind \in Quic => Gone(TD) /\ Fin(TU) /\ N(WU) = 0
    BY <1>1, <1>4, <2>1, <2>2 DEF Ended, UpCounts, UpOK, DataInv, Relays, Copied
  <2>4. OnUp' = sent["up"]'
    BY <1>2, <1>3, <2>1, <2>3 DEF UpOK, OnUp
  <2>5. (N(TD) = 0 /\ (Fin(TD) \/ Gone(TD))) \/ Refused
    BY <1>1, <1>2, <1>4, <1>8, <2>1, <2>3, <2>2
       DEF Ended, UpOK, DataInv, Relays, Held
  <2>6. ~(client = "relay" /\ cDown \notin copying)
    BY <1>2, <2>1 DEF UpOK
  <2>7. QED BY <1>2, <1>3, <1>7, <2>1, <2>3, <2>4, <2>5, <2>6 DEF UpOK
<1>10. (DownCounts => DownOK)'
  <2> SUFFICES ASSUME DownCounts' PROVE DownOK'
    OBVIOUS
  <2>1. kind \in Quic => OnUp = sent["up"]
    <3>1. OnUp \in Int /\ OnUp <= sent["up"] /\ sent["up"] \in Int
      BY Fields, Names DEF DataInv, Relays, Conserved, OnUp
    <3>2. kind \in Quic => OnUp' = sent["up"]
      BY <1>2 DEF DownCounts
    <3>3. QED BY <1>6, <3>1, <3>2
  <2>2. DownCounts /\ DownOK
    BY <1>2, <1>3, <2>1 DEF DownCounts, DataInv, Relays
  <2>3. Answered
    BY <1>1, <1>8, <2>2 DEF DownOK, Answered, Ended
  <2>4. QED BY <1>2, <1>3, <1>6, <1>7, <2>2, <2>3 DEF DownOK
<1>11. QED BY <1>2, <1>5, <1>6, <1>9, <1>10 DEF Relays

LEMMA CopyEndSteps ==
  ASSUME DataInv, NEW c \in Copies, CopyEnds(c)
  PROVE  pipe' \in PipeType /\ Relays'
  BY Names, ClientCopyEnds, ServerUpEnds, ServerDownEnds

\* What the application and the target write to and read from.
LEMMA Outside ==
  /\ First("up") = AU /\ First("down") = TD /\ Last("up") = TU /\ Last("down") = AD
  /\ Dirs = {"up", "down"} /\ "up" # "down"
  BY DEF First, Last, AU, TD, TU, AD, Dirs

\* Only the amount that is on its way over p changes, to n.
Moved(p, n) ==
  /\ pipe' \in PipeType /\ N(p)' = n
  /\ \A q \in Pipes \ {p} : N(q)' = N(q)
  /\ \A q \in Pipes : Fin(q)' = Fin(q) /\ Gone(q)' = Gone(q)

LEMMA MovedIs ==
  ASSUME DataInv, NEW p \in Pipes, NEW n \in 0 .. Cap, pipe' = [pipe EXCEPT ![p].n = n]
  PROVE  Moved(p, n)
<1> DEFINE Rec == [n : 0 .. Cap, fin : BOOLEAN, gone : BOOLEAN]
           a == [pipe[p] EXCEPT !.n = n]
<1>1. pipe \in [Pipes -> Rec]
  BY Fields DEF DataInv, PipeType
<1>2. a \in Rec /\ a.n = n /\ a.fin = Fin(p) /\ a.gone = Gone(p)
  BY <1>1 DEF Fin, Gone
<1>3. pipe' = [pipe EXCEPT ![p] = a]
  OBVIOUS
<1> HIDE DEF a
<1>4. pipe' \in PipeType
  BY <1>1, <1>2, <1>3 DEF PipeType
<1>5. pipe'[p] = a /\ \A q \in Pipes \ {p} : pipe'[q] = pipe[q]
  BY <1>1, <1>3
<1>6. QED BY <1>2, <1>4, <1>5 DEF Moved, N, Fin, Gone

LEMMA SendUpStep ==
  ASSUME DataInv, Sends("up")
  PROVE  pipe' \in PipeType /\ Relays'
<1>1. /\ answer = "ok" /\ ~Fin(AU)
      /\ sent["up"]' = sent["up"] + 1 /\ sent["down"]' = sent["down"]
      /\ UNCHANGED <<kind, client, server, copying, answer, status, got, told, lost>>
  BY Outside, Fields DEF Sends, MaySend, Fin, AU, DataInv
<1>2. \/ Gone(AU) /\ pipe' = pipe
      \/ ~Gone(AU) /\ N(AU) < Cap /\ pipe' = [pipe EXCEPT ![AU].n = N(AU) + 1]
  BY Outside DEF Sends, N, Gone
<1>3. /\ pipe' \in PipeType
      /\ N(AU)' = IF Gone(AU) THEN N(AU) ELSE N(AU) + 1
      /\ \A p \in {WU, TU, AD, WD, TD} : N(p)' = N(p)
      /\ \A p \in {AU, WU, TU, AD, WD, TD} : Fin(p)' = Fin(p) /\ Gone(p)' = Gone(p)
  <2>1. CASE Gone(AU) /\ pipe' = pipe
    BY <2>1, Fields DEF N, Fin, Gone, DataInv
  <2>2. CASE ~Gone(AU) /\ N(AU) < Cap /\ pipe' = [pipe EXCEPT ![AU].n = N(AU) + 1]
    <3>1. N(AU) + 1 \in 0 .. Cap /\ AU \in Pipes
      BY <2>2, Fields, Names DEF DataInv
    <3>2. Moved(AU, N(AU) + 1)
      BY <2>2, <3>1, MovedIs
    <3>3. QED BY <2>2, <3>2, Names DEF Moved, Differ
  <2>3. QED BY <1>2, <2>1, <2>2
<1>4. Phases' /\ Started' /\ Opening' /\ Copied' /\ Held'
  BY <1>1, <1>3 DEF DataInv, Relays, Phases, Started, Opening, Copied, Held
<1>5. /\ OnUp \in Nat /\ OnUp <= sent["up"] /\ sent["up"] \in Nat
      /\ OnUp' = IF Gone(AU) THEN OnUp ELSE OnUp + 1
      /\ OnDown' = OnDown
  BY <1>1, <1>3, Fields, Names DEF DataInv, Relays, Conserved, OnUp, OnDown
<1>6. Conserved'
  BY <1>1, <1>5 DEF DataInv, Relays, Conserved
<1>7. ~Refused /\ ~Silent /\ ~Refused'
  BY <1>1 DEF Refused, Silent
<1>8. (UpCounts => UpOK)'
  <2> SUFFICES ASSUME UpCounts' PROVE UpOK'
    OBVIOUS
  <2>1. UpCounts /\ UpOK
    BY <1>1, <1>3 DEF UpCounts, DataInv, Relays
  <2>2. ~Gone(AU)
    BY <1>7, <2>1 DEF UpOK
  <2>3. OnUp' = sent["up"]'
    BY <1>1, <1>5, <2>1, <2>2 DEF UpOK
  <2>4. QED BY <1>1, <1>3, <1>7, <2>1, <2>3 DEF UpOK
<1>9. (DownCounts => DownOK)'
  <2> SUFFICES ASSUME DownCounts' PROVE DownOK'
    OBVIOUS
  <2>1. kind \in Quic => OnUp = sent["up"]
    BY <1>1, <1>5 DEF DownCounts
  <2>2. DownCounts /\ DownOK
    BY <1>1, <1>3, <2>1 DEF DownCounts, DataInv, Relays
  <2>3. Answered' <=> Answered
    BY <1>3 DEF Answered
  <2>4. QED BY <1>1, <1>3, <1>5, <2>2, <2>3 DEF DownOK
<1>10. QED BY <1>3, <1>4, <1>6, <1>8, <1>9 DEF Relays

LEMMA SendDownStep ==
  ASSUME DataInv, Sends("down")
  PROVE  pipe' \in PipeType /\ Relays'
<1>1. /\ status = "ok" /\ ~Fin(TD)
      /\ sent["down"]' = sent["down"] + 1 /\ sent["up"]' = sent["up"]
      /\ UNCHANGED <<kind, client, server, copying, answer, status, got, told, lost>>
  BY Outside, Fields DEF Sends, MaySend, Fin, TD, DataInv
<1>2. \/ Gone(TD) /\ pipe' = pipe
      \/ ~Gone(TD) /\ N(TD) < Cap /\ pipe' = [pipe EXCEPT ![TD].n = N(TD) + 1]
  BY Outside DEF Sends, N, Gone
<1>3. /\ pipe' \in PipeType
      /\ N(TD)' = IF Gone(TD) THEN N(TD) ELSE N(TD) + 1
      /\ \A p \in {AU, WU, TU, AD, WD} : N(p)' = N(p)
      /\ \A p \in {AU, WU, TU, AD, WD, TD} : Fin(p)' = Fin(p) /\ Gone(p)' = Gone(p)
  <2>1. CASE Gone(TD) /\ pipe' = pipe
    BY <2>1, Fields DEF N, Fin, Gone, DataInv
  <2>2. CASE ~Gone(TD) /\ N(TD) < Cap /\ pipe' = [pipe EXCEPT ![TD].n = N(TD) + 1]
    <3>1. N(TD) + 1 \in 0 .. Cap /\ TD \in Pipes
      BY <2>2, Fields, Names DEF DataInv
    <3>2. Moved(TD, N(TD) + 1)
      BY <2>2, <3>1, MovedIs
    <3>3. QED BY <2>2, <3>2, Names DEF Moved, Differ
  <2>3. QED BY <1>2, <2>1, <2>2
<1>4. Phases' /\ Started' /\ Opening' /\ Copied' /\ Held'
  BY <1>1, <1>3 DEF DataInv, Relays, Phases, Started, Opening, Copied, Held
<1>5. /\ OnDown \in Nat /\ OnDown <= sent["down"] /\ sent["down"] \in Nat
      /\ OnDown' = IF Gone(TD) THEN OnDown ELSE OnDown + 1
      /\ OnUp' = OnUp
  BY <1>1, <1>3, Fields, Names DEF DataInv, Relays, Conserved, OnUp, OnDown
<1>6. Conserved'
  BY <1>1, <1>5 DEF DataInv, Relays, Conserved
<1>7. ~Answered /\ (Silent' <=> Silent) /\ (Refused' <=> Refused)
  BY <1>1, <1>3 DEF Answered, Silent, Refused
<1>8. (UpCounts => UpOK)'
  <2> SUFFICES ASSUME UpCounts' PROVE UpOK'
    OBVIOUS
  <2>1. UpCounts /\ UpOK
    BY <1>1, <1>3, <1>5 DEF UpCounts, DataInv, Relays
  <2>2. sDown \notin copying => (N(TD)' = 0 /\ Gone(TD)) \/ Refused
    BY <1>1, <1>3, <2>1 DEF UpOK
  <2>3. QED BY <1>1, <1>3, <1>5, <1>7, <2>1, <2>2 DEF UpOK
<1>9. (DownCounts => DownOK)'
  <2> SUFFICES ASSUME DownCounts' PROVE DownOK'
    OBVIOUS
  <2>1. DownCounts /\ DownOK
    BY <1>1, <1>3, <1>5 DEF DownCounts, DataInv, Relays
  <2>2. ~Gone(TD) /\ sDown \in copying /\ ~Fin(WD)
    BY <1>7, <2>1 DEF DownOK
  <2>3. OnDown' = sent["down"]'
    BY <1>1, <1>5, <2>1, <2>2 DEF DownOK
  <2>4. QED BY <1>1, <1>3, <1>5, <1>7, <2>1, <2>2, <2>3 DEF DownOK
<1>10. QED BY <1>3, <1>4, <1>6, <1>8, <1>9 DEF Relays

LEMMA ReadSteps ==
  ASSUME DataInv, NEW d \in Dirs, Reads(d)
  PROVE  pipe' \in PipeType /\ Relays'
<1> DEFINE p == Last(d)
<1>1. /\ ~Gone(p) /\ N(p) > 0 /\ p \in {TU, AD} /\ p \in Pipes
      /\ pipe' = [pipe EXCEPT ![p].n = N(p) - 1]
      /\ got' = [got EXCEPT ![d] = @ + 1]
      /\ UNCHANGED <<kind, client, server, copying, answer, status, sent, told, lost>>
  BY Outside, Names DEF Reads, N, Gone
<1>2. /\ d = "up" => p = TU
      /\ d = "down" => p = AD
  BY Outside
<1> HIDE DEF p
<1>3. N(p) - 1 \in 0 .. Cap
  BY <1>1, Fields DEF DataInv
<1>4. Moved(p, N(p) - 1)
  BY <1>1, <1>3, MovedIs
<1>5. /\ pipe' \in PipeType
      /\ \A q \in {AU, WU, WD, TD} : N(q)' = N(q)
      /\ d = "up" => /\ N(TU) > 0 /\ N(TU)' = N(TU) - 1 /\ N(AD)' = N(AD)
                     /\ got["up"]' = got["up"] + 1 /\ got["down"]' = got["down"]
      /\ d = "down" => /\ N(AD) > 0 /\ N(AD)' = N(AD) - 1 /\ N(TU)' = N(TU)
                       /\ got["down"]' = got["down"] + 1 /\ got["up"]' = got["up"]
      /\ \A q \in {AU, WU, TU, AD, WD, TD} : Fin(q)' = Fin(q) /\ Gone(q)' = Gone(q)
  BY <1>1, <1>2, <1>4, Fields, Names DEF Moved, Differ, DataInv
<1>6. d = "up" \/ d = "down"
  BY Outside
<1>7. Phases' /\ Started' /\ Opening' /\ Copied' /\ Held'
  BY <1>1, <1>5, <1>6 DEF DataInv, Relays, Phases, Started, Opening, Copied, Held
<1>8. OnUp' = OnUp /\ OnDown' = OnDown
  BY <1>5, <1>6, Fields, Names DEF DataInv, OnUp, OnDown
<1>9. Conserved'
  BY <1>1, <1>8 DEF DataInv, Relays, Conserved
<1>10. (Silent' <=> Silent) /\ (Refused' <=> Refused) /\ (Answered' <=> Answered)
  BY <1>1, <1>5 DEF Silent, Refused, Answered
<1>11. (UpCounts => UpOK)'
  BY <1>1, <1>5, <1>8, <1>10 DEF UpCounts, UpOK, DataInv, Relays
<1>12. (DownCounts => DownOK)'
  BY <1>1, <1>5, <1>8, <1>10 DEF DownCounts, DownOK, DataInv, Relays
<1>13. QED BY <1>5, <1>7, <1>9, <1>11, <1>12 DEF Relays

LEMMA EndSteps ==
  ASSUME DataInv, NEW d \in Dirs, SeesEnd(d)
  PROVE  pipe' \in PipeType /\ Relays'
<1>1. /\ pipe' = pipe /\ told' = told \cup {d}
      /\ UNCHANGED <<kind, client, server, copying, answer, status, sent, got, lost>>
      /\ d = "up" => ~Gone(TU) /\ N(TU) = 0 /\ Fin(TU)
      /\ d = "down" => ~Gone(AD) /\ N(AD) = 0 /\ Fin(AD)
  BY Outside DEF SeesEnd, N, Fin, Gone
<1>2. /\ \A q \in {AU, WU, TU, AD, WD, TD} :
           N(q)' = N(q) /\ Fin(q)' = Fin(q) /\ Gone(q)' = Gone(q)
      /\ d = "up" \/ d = "down"
  BY <1>1, Outside DEF N, Fin, Gone
<1>3. /\ "up" \in told' => "up" \in told \/ (d = "up")
      /\ "down" \in told' => "down" \in told \/ (d = "down")
  BY <1>1
<1>4. Phases' /\ Started' /\ Opening' /\ Copied' /\ Held'
  BY <1>1, <1>2, <1>3 DEF DataInv, Relays, Phases, Started, Opening, Copied, Held
<1>5. OnUp' = OnUp /\ OnDown' = OnDown /\ Conserved'
  BY <1>1, <1>2 DEF DataInv, Relays, Conserved, OnUp, OnDown
<1>6. (Silent' <=> Silent) /\ (Refused' <=> Refused) /\ (Answered' <=> Answered)
  BY <1>1, <1>2 DEF Silent, Refused, Answered
<1>7. (UpCounts => UpOK)'
  BY <1>1, <1>2, <1>3, <1>5, <1>6 DEF UpCounts, UpOK, DataInv, Relays
<1>8. (DownCounts => DownOK)'
  BY <1>1, <1>2, <1>3, <1>5, <1>6 DEF DownCounts, DownOK, DataInv, Relays
<1>9. QED BY <1>1, <1>4, <1>5, <1>7, <1>8, Fields DEF Relays, DataInv

LEMMA StopSteps ==
  ASSUME DataInv, NEW d \in Dirs, Stops(d)
  PROVE  pipe' \in PipeType /\ Relays'
<1> DEFINE p == First(d)
<1>1. /\ pipe' = EndStream(pipe, p) /\ p \in {AU, TD} /\ p \in Pipes
      /\ UNCHANGED <<kind, client, server, copying, answer, status, sent, got, told, lost>>
  BY Outside, Names DEF Stops, ends
<1> HIDE DEF p
<1>2. EndedStream(pipe, pipe', p)
  BY <1>1, EndStreamIs, Fields DEF DataInv
<1>3. /\ pipe' \in PipeType
      /\ \A q \in {AU, WU, TU, AD, WD, TD} : N(q)' = N(q) /\ Gone(q)' = Gone(q)
      /\ \A q \in {WU, TU, AD, WD} : Fin(q)' = Fin(q)
      /\ \/ Fin(AU)' = TRUE /\ Fin(TD)' = Fin(TD)
         \/ Fin(TD)' = TRUE /\ Fin(AU)' = Fin(AU)
  BY <1>1, <1>2, Names DEF EndedStream, Differ, N, Fin, Gone
<1>4. Phases' /\ Started' /\ Opening' /\ Copied' /\ Held'
  BY <1>1, <1>3 DEF DataInv, Relays, Phases, Started, Opening, Copied, Held
<1>5. OnUp' = OnUp /\ OnDown' = OnDown /\ Conserved'
  BY <1>1, <1>3 DEF DataInv, Relays, Conserved, OnUp, OnDown
<1>6. (Silent => Silent') /\ (Refused' <=> Refused) /\ (Answered => Answered')
  BY <1>1, <1>3 DEF Silent, Refused, Answered
<1>7. (UpCounts => UpOK)'
  <2> SUFFICES ASSUME UpCounts' PROVE UpOK'
    OBVIOUS
  <2>1. UpCounts /\ UpOK
    BY <1>1, <1>3 DEF UpCounts, DataInv, Relays
  <2>2. QED BY <1>1, <1>3, <1>5, <1>6, <2>1 DEF UpOK
<1>8. (DownCounts => DownOK)'
  <2> SUFFICES ASSUME DownCounts' PROVE DownOK'
    OBVIOUS
  <2>1. DownCounts /\ DownOK
    BY <1>1, <1>3, <1>5 DEF DownCounts, DataInv, Relays
  <2>2. QED BY <1>1, <1>3, <1>5, <1>6, <2>1 DEF DownOK
<1>9. QED BY <1>3, <1>4, <1>5, <1>7, <1>8 DEF Relays

\* The application leaves: what it was told before is whole.
LEMMA AppLeaves ==
  ASSUME DataInv, Leaves("up")
  PROVE  pipe' \in PipeType /\ Relays'
<1>1. /\ pipe' \in CloseEnd(pipe, AU, AD)
      /\ UNCHANGED <<kind, client, server, copying, answer, status, sent, got, told, lost>>
  BY Outside DEF Leaves, ends
<1>2. ClosedEnd(pipe, pipe', AU, AD)
  <2>1. AU \in Pipes /\ AD \in Pipes /\ AU # AD /\ pipe \in PipeType
    BY Names, Fields DEF Differ, DataInv
  <2>2. QED BY <1>1, <2>1, CloseEndIs
<1>3. /\ pipe' \in PipeType
      /\ Fin(AU)' = TRUE /\ Gone(AU)' = Gone(AU)
      /\ N(AU)' = N(AU) \/ (N(AD) > 0 /\ N(AU)' = 0)
      /\ Fin(AD)' = Fin(AD) /\ Gone(AD)' = TRUE /\ N(AD)' = 0
      /\ \A p \in {WU, TU, WD, TD} : UNCHANGED <<N(p), Fin(p), Gone(p)>>
  BY <1>2, Names DEF ClosedEnd, Differ, N, Fin, Gone
<1>4. Phases' /\ Started' /\ Opening' /\ Copied' /\ Held'
  BY <1>1, <1>3 DEF DataInv, Relays, Phases, Started, Opening, Copied, Held
<1>5. Conserved'
  BY <1>1, <1>3, Fields, Names DEF DataInv, Relays, Conserved, OnUp, OnDown
<1>6. ~UpCounts'
  BY <1>3 DEF UpCounts
<1>7. (DownCounts => DownOK)'
  <2> SUFFICES ASSUME DownCounts' PROVE DownOK'
    OBVIOUS
  <2>1. kind \notin Quic /\ "down" \in told
    BY <1>1, <1>3 DEF DownCounts
  <2>2. DownCounts /\ DownOK
    BY <1>1, <1>3, <2>1 DEF DownCounts, DataInv, Relays
  <2>3. N(AD) = 0
    BY <2>1 DEF DataInv, Relays, Started
  <2>4. N(AU)' = N(AU) /\ N(AD)' = N(AD) /\ (Answered' <=> Answered)
    BY <1>3, <2>3 DEF Answered
  <2>5. OnDown' = sent["down"]'
    BY <1>1, <1>3, <2>2, <2>4 DEF DownOK, OnDown
  <2>6. QED BY <1>1, <1>3, <2>1, <2>2, <2>4, <2>5 DEF DownOK
<1>8. QED BY <1>3, <1>4, <1>5, <1>6, <1>7 DEF Relays

LEMMA TargetLeaves ==
  ASSUME DataInv, Leaves("down")
  PROVE  pipe' \in PipeType /\ Relays'
<1>1. /\ pipe' \in CloseEnd(pipe, TD, TU)
      /\ UNCHANGED <<kind, client, server, copying, answer, status, sent, got, told, lost>>
  BY Outside DEF Leaves, ends
<1>2. ClosedEnd(pipe, pipe', TD, TU)
  <2>1. TD \in Pipes /\ TU \in Pipes /\ TD # TU /\ pipe \in PipeType
    BY Names, Fields DEF Differ, DataInv
  <2>2. QED BY <1>1, <2>1, CloseEndIs
<1>3. /\ pipe' \in PipeType
      /\ Fin(TD)' = TRUE /\ Gone(TD)' = Gone(TD)
      /\ N(TD)' = N(TD) \/ (N(TU) > 0 /\ N(TD)' = 0)
      /\ Fin(TU)' = Fin(TU) /\ Gone(TU)' = TRUE /\ N(TU)' = 0
      /\ \A p \in {AU, WU, AD, WD} : UNCHANGED <<N(p), Fin(p), Gone(p)>>
  BY <1>2, Names DEF ClosedEnd, Differ, N, Fin, Gone
<1>4. Phases' /\ Started' /\ Opening' /\ Copied' /\ Held'
  BY <1>1, <1>3 DEF DataInv, Relays, Phases, Started, Opening, Copied, Held
<1>5. Conserved'
  BY <1>1, <1>3, Fields, Names DEF DataInv, Relays, Conserved, OnUp, OnDown
<1>6. ~DownCounts'
  BY <1>3 DEF DownCounts
<1>7. (UpCounts => UpOK)'
  <2> SUFFICES ASSUME UpCounts' PROVE UpOK'
    OBVIOUS
  <2>1. kind \notin Quic /\ "up" \in told
    BY <1>1, <1>3 DEF UpCounts
  <2>2. UpCounts /\ UpOK
    BY <1>1, <1>3, <2>1 DEF UpCounts, DataInv, Relays
  <2>3. N(TU) = 0
    BY <2>1 DEF DataInv, Relays, Started
  <2>4. /\ N(TU)' = N(TU) /\ N(TD)' = N(TD)
        /\ (Silent' <=> Silent) /\ (Refused' <=> Refused)
    BY <1>1, <1>3, <2>3 DEF Silent, Refused
  <2>5. OnUp' = sent["up"]'
    BY <1>1, <1>3, <2>2, <2>4 DEF UpOK, OnUp
  <2>6. QED BY <1>1, <1>3, <2>2, <2>4, <2>5 DEF UpOK
<1>8. QED BY <1>3, <1>4, <1>5, <1>6, <1>7 DEF Relays

LEMMA DataSteps ==
  ASSUME DataInv, [Next]_vars
  PROVE  pipe' \in PipeType /\ Relays'
<1>1. CASE ClientStep
  BY <1>1, TalkSteps, LeaveSteps, DialStep, EstablishStep, GiveUpStep, ClientReturnStep
     DEF ClientStep
<1>2. CASE ServerStep
  BY <1>2, TalkSteps, TargetStep, RefuseStep, ServerReturnStep DEF ServerStep
<1>3. CASE AppDeadline \/ Loses \/ UNCHANGED vars
  BY <1>3, TalkSteps, LoseStep
<1>4. ASSUME NEW c \in Copies, CopyStep(c)
      PROVE  pipe' \in PipeType /\ Relays'
  BY <1>4, CopySteps, CopyEndSteps DEF CopyStep
<1>5. ASSUME NEW d \in Dirs,
             Sends(d) \/ Reads(d) \/ SeesEnd(d) \/ Stops(d) \/ Leaves(d)
      PROVE  pipe' \in PipeType /\ Relays'
  <2>1. d = "up" \/ d = "down"
    BY Outside
  <2>2. CASE Sends(d)
    BY <2>1, <2>2, SendUpStep, SendDownStep
  <2>3. CASE Leaves(d)
    BY <2>1, <2>3, AppLeaves, TargetLeaves
  <2>4. CASE Reads(d) \/ SeesEnd(d) \/ Stops(d)
    BY <2>4, ReadSteps, EndSteps, StopSteps
  <2>5. QED BY <1>5, <2>2, <2>3, <2>4
<1>6. QED BY <1>1, <1>2, <1>3, <1>4, <1>5 DEF Next

-----------------------------------------------------------------------------
\* The types of the variables but for those of pipe and got.
Rest ==
  /\ kind \in Kinds
  /\ client \in {"request", "dial", "reply", "status", "relay", "done"}
  /\ server \in {"off", "greeting", "auth", "mode", "address", "dial", "relay", "done"}
  /\ copying \subseteq Copies
  /\ answer \in {"none", "ok", "refused"} /\ status \in {"none", "ok", "refused"}
  /\ patience \in {"armed", "expired", "off"}
  /\ armed \subseteq {"client", "server"}
  /\ heard \subseteq {"greeting", "reply", "auth", "address"}
  /\ sent \in [Dirs -> 0 .. MaxSent]
  /\ told \subseteq Dirs /\ lost \in BOOLEAN

LEMMA RestKept == ASSUME TypeOK, [Next]_vars PROVE Rest'
<1>1. Rest /\ kind \in AllKinds /\ MaxSent \in Nat
  BY TunnelAssumption DEF TypeOK, Rest
<1>2. CASE ClientStep
  <2>1. /\ Dialer.first \subseteq {"greeting", "reply", "auth", "address"}
        /\ Dialer.rest \subseteq {"greeting", "reply", "auth", "address"}
        /\ FirstStage \in {"greeting", "auth", "mode", "address"}
    BY <1>1 DEF AllKinds, Quic, Dialer, FirstStage, SecretPathDial, RealityDial,
                RedstoneDial, MasqueDial, MirageDial, WebRTCDial, QUICDial, UQUICDial,
                TLSServes, RealityServes, CamouflageServes, RedstoneServes,
                MasqueServes, MirageServes, WebRTCServes, QUICServes
  <2>2. CASE ReadsRequest \/ RefusesRequest \/ DialFails
    BY <1>1, <2>2 DEF ReadsRequest, RefusesRequest, DialFails, LeavesApp, Rest, ends
  <2>3. CASE Dials \/ GoesOn
    BY <1>1, <2>1, <2>3 DEF Dials, GoesOn, ArmClient, Rest, ends
  <2>4. CASE Establishes
    BY <1>1, <2>4 DEF Establishes, Copies, Dirs, Rest
  <2>5. CASE GivesUp
    BY <1>1, <2>5 DEF GivesUp, LeavesApp, Rest
  <2>6. CASE ClientReturns
    BY <1>1, <2>6 DEF ClientReturns, Rest, ends
  <2>7. QED BY <1>2, <2>2, <2>3, <2>4, <2>5, <2>6 DEF ClientStep
<1>3. CASE ServerStep
  <2>1. CASE Handshake
    BY <1>1, <2>1 DEF Handshake, Greets, Authenticates, ReadsMode, ReadsAddress, Advance,
                      Arm, Rest, ends
  <2>2. CASE ServerDials
    BY <1>1, <2>2 DEF ServerDials, Arm, Copies, Dirs, Rest, ends
  <2>3. CASE ServerRefuses \/ ServerReturns
    BY <1>1, <2>3 DEF ServerRefuses, ServerReturns, Arm, Rest, ends
  <2>4. QED BY <1>3, <2>1, <2>2, <2>3 DEF ServerStep
<1>4. CASE AppDeadline \/ Loses \/ UNCHANGED vars
  <2>1. CASE AppDeadline
    BY <1>1, <2>1 DEF AppDeadline, Rest, ends
  <2>2. CASE Loses
    <3>1. lost' = TRUE
      BY <2>2 DEF Loses
    <3>2. UNCHANGED <<kind, client, server, copying, answer, status, patience, armed,
                      heard, sent, told>>
      BY <2>2 DEF Loses, ends
    <3>3. QED BY <1>1, <3>1, <3>2 DEF Rest
  <2>3. CASE UNCHANGED vars
    BY <1>1, <2>3 DEF vars, Rest
  <2>4. QED BY <1>4, <2>1, <2>2, <2>3
<1>5. ASSUME NEW c \in Copies, CopyStep(c) PROVE Rest'
  BY <1>1, <1>5 DEF CopyStep, Copy, CopyEnds, Rest, ends
<1>6. ASSUME NEW d \in Dirs,
             Sends(d) \/ Reads(d) \/ SeesEnd(d) \/ Stops(d) \/ Leaves(d)
      PROVE  Rest'
  <2>1. CASE Sends(d)
    BY <1>1, <2>1 DEF Sends, Rest
  <2>2. CASE Reads(d) \/ SeesEnd(d) \/ Stops(d) \/ Leaves(d)
    BY <1>1, <2>2 DEF Reads, SeesEnd, Stops, Leaves, Rest, ends
  <2>3. QED BY <1>6, <2>1, <2>2
<1>7. QED BY <1>2, <1>3, <1>4, <1>5, <1>6 DEF Next

\* What is delivered is bounded by what was sent.
LEMMA DataKept == DataInv /\ [Next]_vars => DataInv'
<1> SUFFICES ASSUME DataInv, [Next]_vars PROVE DataInv'
  OBVIOUS
<1>1. pipe' \in PipeType /\ Relays' /\ Rest'
  BY DataSteps, RestKept DEF DataInv
<1>2. /\ got' \in [Dirs -> Int] /\ got["up"]' \in Nat /\ got["down"]' \in Nat
      /\ Cap \in Nat /\ MaxSent \in Nat
  <2>1. got' = got \/ \E d \in Dirs : got' = [got EXCEPT ![d] = @ + 1]
    BY DEF Next, ClientStep, ReadsRequest, RefusesRequest, Dials, DialFails, GoesOn,
           Establishes, GivesUp, ClientReturns, LeavesApp, ServerStep, Handshake, Greets,
           Authenticates, ReadsMode, ReadsAddress, Advance, ServerDials, ServerRefuses,
           ServerReturns, AppDeadline, Loses, CopyStep, Copy, CopyEnds, Sends, Reads,
           SeesEnd, Stops, Leaves, ends, vars
  <2>2. QED BY <2>1, Fields DEF DataInv
<1>3. /\ \A p \in Pipes : N(p)' \in Nat
      /\ sent["up"]' \in 0 .. MaxSent /\ sent["down"]' \in 0 .. MaxSent
  BY <1>1, <1>2, Outside DEF PipeType, Rest, N
<1>4. got["up"]' <= sent["up"]' /\ got["down"]' <= sent["down"]'
  BY <1>1, <1>2, <1>3, Names DEF Relays, Conserved, OnUp, OnDown
<1>5. got["up"]' \in 0 .. MaxSent /\ got["down"]' \in 0 .. MaxSent
  BY <1>2, <1>3, <1>4
<1>6. got' \in [Dirs -> 0 .. MaxSent]
  BY <1>2, <1>5, Outside
<1>7. QED BY <1>1, <1>6 DEF DataInv, TypeOK, Rest, PipeType

THEOREM Relayed == Spec => []DataInv
<1>1. Init => DataInv
  BY InitData
<1>2. DataInv /\ [Next]_vars => DataInv'
  BY DataKept
<1>3. QED BY <1>1, <1>2, PTL DEF Spec

\* The types of the state of a connection.
THEOREM TunnelTypes == Spec => []TypeOK
<1>1. DataInv => TypeOK
  BY DEF DataInv
<1>2. QED BY <1>1, Relayed, PTL

\* WholeRequest: a target that is told the request has ended (the read of 0
\* bytes after closeWrite, relay.go) has got all of it.
THEOREM RequestsAreWhole == Spec => []WholeRequest
<1>1. ASSUME DataInv PROVE WholeRequest
  <2> SUFFICES ASSUME "up" \in told, ~lost, ~Gone(AD),
                      kind \in Quic => ~Fin(TD) /\ sent["down"] = 0
               PROVE  got["up"] = sent["up"]
    BY DEF WholeRequest, Gone, Fin, AD, TD
  <2>1. status = "ok" /\ Fin(TU) /\ N(TU) = 0
    BY <1>1 DEF DataInv, Relays, Started
  <2>2. UpOK
    BY <1>1, <2>1 DEF DataInv, Relays, UpCounts
  <2>3. N(AU) = 0 /\ N(WU) = 0 /\ OnUp = sent["up"]
    BY <2>1, <2>2 DEF UpOK, Silent
  <2>4. QED BY <1>1, <2>1, <2>3, Fields DEF OnUp, DataInv
<1>2. DataInv => WholeRequest
  BY <1>1
<1>3. QED BY <1>2, Relayed, PTL

\* WholeResponse: so has an application that is told the answer has ended.
THEOREM ResponsesAreWhole == Spec => []WholeResponse
<1>1. ASSUME DataInv PROVE WholeResponse
  <2> SUFFICES ASSUME "down" \in told, ~lost, answer = "ok", ~Gone(TU),
                      kind \in Quic => ~Fin(AU) /\ got["up"] = sent["up"]
               PROVE  got["down"] = sent["down"]
    BY DEF WholeResponse, Gone, Fin, AU, TU
  <2>1. status = "ok" /\ Fin(AD) /\ N(AD) = 0
    BY <1>1 DEF DataInv, Relays, Started, Phases
  <2>2. kind \in Quic => OnUp = sent["up"]
    BY <1>1, Fields, Names DEF DataInv, Relays, Conserved, OnUp
  <2>3. DownOK
    BY <1>1, <2>1, <2>2 DEF DataInv, Relays, DownCounts
  <2>4. N(WD) = 0 /\ N(TD) = 0 /\ OnDown = sent["down"]
    BY <2>1, <2>3 DEF DownOK, Answered
  <2>5. QED BY <1>1, <2>1, <2>4, Fields DEF OnDown, DataInv
<1>2. DataInv => WholeResponse
  BY <1>1
<1>3. QED BY <1>2, Relayed, PTL

=============================================================================
