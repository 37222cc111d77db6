---------------------------- MODULE ClientChannel ----------------------------
(***************************************************************************)
(* The client's shared transport state and the goroutines that work on it  *)
(* (core/transport/client.go and udp_assoc.go).                            *)
(*                                                                         *)
(* Every SOCKS UDP association runs over one persistent channel: a framed  *)
(* TLS connection or QUIC stream that is opened on first use, read by one  *)
(* frame loop, and replaced after a failure.  The fields of Client are     *)
(* guarded by c.mu, but opening a channel, waiting for a frame and closing *)
(* what was replaced all happen outside the lock.  A step of this module   *)
(* is one critical section, or one of those unlocked operations.           *)
(*                                                                         *)
(* The servers of the list are TLS or QUIC servers.  uQUIC, WebRTC and     *)
(* Masque store a connection that carries no frames (client.go:294, 405,   *)
(* 472); they are outside of this module.                                  *)
(***************************************************************************)
EXTENDS Naturals

CONSTANTS
  Callers,     \* goroutines that open, use and close UDP associations
  Loops,       \* frame loop goroutines that may be alive at the same time
  Links,       \* TLS connections or QUIC streams that can be opened (a bound)
  Candidates,  \* kinds of server in the list: connectLoop tries them all
  Sessions,    \* QUIC connections that can be opened (a bound)
  Inboxes,     \* `incoming' channels that can be made (a bound)
  MaxAssocID,  \* largest association id: 65535 in the code
  Persistent,  \* connectLoop(persistent): TUN mode opens the channel at once
  Main,        \* the goroutine of connectLoop
  Stopper,     \* the goroutine that calls Stop
  None

ASSUME ProcsAssumption ==
  /\ Main # Stopper
  /\ Main \notin Callers \cup Loops /\ Stopper \notin Callers \cup Loops
  /\ Callers \cap Loops = {}

ASSUME DataAssumption ==
  /\ MaxAssocID \in Nat \ {0}
  /\ Persistent \in BOOLEAN
  /\ Candidates \subseteq {"tls", "quic"}
  /\ None \notin Links \cup Sessions \cup Inboxes

Procs == Callers \cup Loops \cup {Main, Stopper}
IDs   == 1 .. MaxAssocID

VARIABLES
  \* fields of Client, guarded by c.mu
  channel,     \* writer, reader and transportCloser, which TLS and QUIC
               \* servers assign together
  quicConn,    \* quicConn and quicTransport
  active,      \* activeServer, activePSK and connected
  loopActive,  \* frameLoopActive
  handlers,    \* udpHandlers: association id -> incoming channel
  nextID,      \* nextUDPAssocID
  stopped,     \* stopChan is closed
  \* what the fields point to
  link,        \* state of every TLS connection or QUIC stream
  over,        \* the QUIC connection a stream belongs to
  session,     \* state of every QUIC connection
  inbox,       \* state of every incoming channel
  panicked,    \* some goroutine closed a channel that was closed already
  \* locals of the goroutines
  pc, cont, held, sess, grab, assoc

client == <<channel, quicConn, active, loopActive, handlers, nextID, stopped>>
network == <<link, over, session>>
vars == <<client, network, inbox, panicked, pc, cont, held, sess, grab, assoc>>

NoHandlers == [i \in IDs |-> None]
Registered == {handlers[i] : i \in IDs} \ {None}

TypeOK ==
  /\ channel \in Links \cup {None}
  /\ quicConn \in Sessions \cup {None}
  /\ active \in BOOLEAN /\ loopActive \in BOOLEAN
  /\ stopped \in BOOLEAN /\ panicked \in BOOLEAN
  /\ handlers \in [IDs -> Inboxes \cup {None}]
  /\ nextID \in 0 .. MaxAssocID
  /\ link \in [Links -> {"unused", "up", "lost", "closed"}]
  /\ over \in [Links -> Sessions \cup {None}]
  /\ session \in [Sessions -> {"unused", "up", "lost", "closed"}]
  /\ inbox \in [Inboxes -> {"unused", "open", "closed"}]
  /\ pc \in [Procs -> {"idle", "ensure", "dial", "install", "register",
                       "open", "capture", "write", "closing", "finish",
                       "top", "read", "drop", "release",
                       "attempt", "connect", "dialed", "run",
                       "failed", "reset", "done"}]
  /\ cont \in [Procs -> {"idle", "register", "capture", "run", "connect",
                         "attempt", "failed", "top", "done"}]
  /\ held \in [Procs -> Links \cup {None}]
  /\ sess \in [Procs -> Sessions \cup {None}]
  /\ grab \in [Procs -> SUBSET Inboxes]
  /\ assoc \in [Callers -> IDs]

\* NewClient, then Start: the connect loop and the SOCKS proxy are running.
Init ==
  /\ channel = None /\ quicConn = None /\ active = FALSE
  /\ loopActive = FALSE /\ handlers = NoHandlers /\ nextID = 0
  /\ stopped = FALSE /\ panicked = FALSE
  /\ link = [k \in Links |-> "unused"] /\ over = [k \in Links |-> None]
  /\ session = [q \in Sessions |-> "unused"]
  /\ inbox = [h \in Inboxes |-> "unused"]
  /\ pc = [p \in Procs |-> IF p = Main THEN "attempt" ELSE "idle"]
  /\ cont = [p \in Procs |-> "idle"]
  /\ held = [p \in Procs |-> None] /\ sess = [p \in Procs |-> None]
  /\ grab = [p \in Procs |-> {}]
  \* no association yet: read only after Register has set it
  /\ assoc = [c \in Callers |-> 1]

-----------------------------------------------------------------------------
(* Steps that several goroutines share.                                    *)

Goto(p, label) == pc' = [pc EXCEPT ![p] = label]

\* close(ch) for every ch of S; Go panics when ch is closed already.
CloseInboxes(S) ==
  /\ panicked' = (panicked \/ \E h \in S : inbox[h] = "closed")
  /\ inbox' = [h \in Inboxes |-> IF h \in S THEN "closed" ELSE inbox[h]]

\* Closing or losing the QUIC connections Q takes their streams down too.
\* Close of a stream ends what it sends: see Readable for the other direction.
CloseLinks(K, Q) ==
  /\ session' = [q \in Sessions |-> IF q \in Q THEN "closed" ELSE session[q]]
  /\ link' = [k \in Links |->
       IF k \in K THEN "closed"
       ELSE IF over[k] \in Q /\ link[k] = "up" THEN "lost" ELSE link[k]]
  /\ UNCHANGED over

\* Mutated form: the swap forgets to clear frameLoopActive.
SwapKeepsLoopFlag(p) ==
  /\ held' = [held EXCEPT ![p] = channel]
  /\ grab' = [grab EXCEPT ![p] = Registered]
  /\ channel' = None /\ handlers' = NoHandlers
  /\ UNCHANGED loopActive

\* Mutated form: the handlers are thrown away instead of being collected.
SwapLosesHandlers(p) ==
  /\ held' = [held EXCEPT ![p] = channel]
  /\ grab' = [grab EXCEPT ![p] = {}]
  /\ channel' = None /\ handlers' = NoHandlers /\ loopActive' = FALSE

\* Mutated form: the map is collected but not replaced.
SwapKeepsHandlers(p) ==
  /\ held' = [held EXCEPT ![p] = channel]
  /\ grab' = [grab EXCEPT ![p] = Registered]
  /\ channel' = None /\ loopActive' = FALSE /\ UNCHANGED handlers

\* The locked part of resetTransportState and dropPersistentChannel: take
\* what must be closed and leave the fields empty.
SwapChannel(p) ==
  /\ held' = [held EXCEPT ![p] = channel]
  /\ grab' = [grab EXCEPT ![p] = Registered]
  /\ channel' = None /\ handlers' = NoHandlers /\ loopActive' = FALSE

\* The locked part of resetTransportState; `next' is where p goes afterwards.
Reset(p, next) ==
  /\ SwapChannel(p)
  /\ sess' = [sess EXCEPT ![p] = quicConn]
  /\ quicConn' = None /\ active' = FALSE
  /\ cont' = [cont EXCEPT ![p] = next]
  /\ Goto(p, "release")
  /\ UNCHANGED <<nextID, stopped, network, inbox, panicked, assoc>>

\* The locked part of dropPersistentChannel.
Drop(l) ==
  /\ pc[l] = "drop"
  /\ SwapChannel(l)
  /\ cont' = [cont EXCEPT ![l] = "idle"]
  /\ Goto(l, "release")
  /\ UNCHANGED <<quicConn, active, nextID, stopped, network, inbox, panicked,
                 sess, assoc>>

\* The unlocked part of both: close everything that was taken.
Release(p) ==
  /\ pc[p] = "release"
  /\ CloseLinks({held[p]} \ {None}, {sess[p]} \ {None})
  /\ CloseInboxes(grab[p])
  /\ held' = [held EXCEPT ![p] = None]
  /\ sess' = [sess EXCEPT ![p] = None]
  /\ grab' = [grab EXCEPT ![p] = {}]
  /\ cont' = [cont EXCEPT ![p] = "idle"]
  /\ Goto(p, cont[p])
  /\ UNCHANGED <<client, assoc>>

-----------------------------------------------------------------------------
(* EnsurePersistentChannel and connectTLSPersistent, for p \in Callers or   *)
(* for Main.  cont[p] is what p does once the channel is there.             *)

Failure(p) ==
  CASE cont[p] = "register" -> "idle"     \* OpenUDPAssociation returns err
    [] cont[p] = "capture"  -> "closing"  \* the SOCKS relay ends
    [] OTHER -> IF pc[p] = "dial" /\ sess[p] = None THEN "failed" ELSE "reset"

EnsureCheck(p) ==
  /\ pc[p] = "ensure"
  /\ IF channel # None THEN Goto(p, cont[p]) /\ UNCHANGED sess
     ELSE /\ sess' = [sess EXCEPT ![p] = quicConn]
          /\ Goto(p, IF quicConn # None \/ active THEN "dial" ELSE Failure(p))
  /\ UNCHANGED <<client, network, inbox, panicked, cont, held, grab, assoc>>

\* The dial, the handshake or the acknowledgement fails or times out.
DialFails(p) ==
  /\ pc[p] = "dial"
  /\ Goto(p, Failure(p))
  /\ sess' = [sess EXCEPT ![p] = None]
  /\ UNCHANGED <<client, network, inbox, panicked, cont, held, grab, assoc>>

DialSucceeds(p, k) ==
  /\ pc[p] = "dial" /\ link[k] = "unused"
  /\ sess[p] # None => session[sess[p]] = "up"
  /\ link' = [link EXCEPT ![k] = "up"]
  /\ over' = [over EXCEPT ![k] = sess[p]]
  /\ held' = [held EXCEPT ![p] = k]
  /\ Goto(p, "install")
  /\ UNCHANGED <<client, session, inbox, panicked, cont, sess, grab, assoc>>

\* connectTLSPersistent stores the connection without looking at the fields.
InstallTLS(p) ==
  /\ pc[p] = "install" /\ sess[p] = None
  /\ channel' = held[p] /\ active' = TRUE
  /\ UNCHANGED <<quicConn, loopActive, handlers, nextID, stopped, network>>

\* Mutated form: the second check under the lock is missing.
InstallQUICUnchecked(p) ==
  /\ pc[p] = "install" /\ sess[p] # None
  /\ channel' = held[p]
  /\ UNCHANGED <<quicConn, active, loopActive, handlers, nextID, stopped,
                 network>>

\* EnsurePersistentChannel checks again: the loser closes its own stream.
InstallQUIC(p) ==
  /\ pc[p] = "install" /\ sess[p] # None
  /\ IF channel = None
     THEN channel' = held[p] /\ UNCHANGED network
     ELSE CloseLinks({held[p]}, {}) /\ UNCHANGED channel
  /\ UNCHANGED <<quicConn, active, loopActive, handlers, nextID, stopped>>

Install(p) ==
  /\ InstallTLS(p) \/ InstallQUIC(p)
  /\ held' = [held EXCEPT ![p] = None]
  /\ sess' = [sess EXCEPT ![p] = None]
  /\ Goto(p, cont[p])
  /\ UNCHANGED <<inbox, panicked, cont, grab, assoc>>

Ensure(p) ==
  \/ EnsureCheck(p) \/ DialFails(p) \/ Install(p)
  \/ \E k \in Links : DialSucceeds(p, k)

-----------------------------------------------------------------------------
(* UDP associations: OpenUDPAssociation, sendUDPFrame, Close.               *)

\* The id after n: a uint16 increment that skips 0.
IDAfter(n) == IF n = MaxAssocID THEN 1 ELSE n + 1

Open(c) ==
  /\ pc[c] = "idle"
  /\ cont' = [cont EXCEPT ![c] = "register"]
  /\ Goto(c, "ensure")
  /\ UNCHANGED <<client, network, inbox, panicked, held, sess, grab, assoc>>

\* Register a fresh incoming channel and start the frame loop if there is
\* none (`go' outside the lock only delays the loop's first step).
Register(c, h) ==
  /\ pc[c] = "register" /\ inbox[h] = "unused"
  /\ nextID' = IDAfter(nextID)
  /\ handlers' = [handlers EXCEPT ![nextID'] = h]
  /\ inbox' = [inbox EXCEPT ![h] = "open"]
  /\ assoc' = [assoc EXCEPT ![c] = nextID']
  /\ loopActive' = TRUE
  /\ IF loopActive THEN Goto(c, "open")
     ELSE \E l \in Loops :
            /\ pc[l] = "idle"
            /\ pc' = [pc EXCEPT ![c] = "open", ![l] = "top"]
  /\ UNCHANGED <<channel, quicConn, active, stopped, network, panicked, cont,
                 held, sess, grab>>

Send(c) ==
  /\ pc[c] = "open"
  /\ cont' = [cont EXCEPT ![c] = "capture"]
  /\ Goto(c, "ensure")
  /\ UNCHANGED <<client, network, inbox, panicked, held, sess, grab, assoc>>

Capture(c) ==
  /\ pc[c] = "capture"
  /\ held' = [held EXCEPT ![c] = channel]
  /\ Goto(c, IF channel = None THEN "closing" ELSE "write")
  /\ UNCHANGED <<client, network, inbox, panicked, cont, sess, grab, assoc>>

\* A write on a lost connection may still succeed locally.
Write(c) ==
  /\ pc[c] = "write"
  /\ \/ link[held[c]] \in {"up", "lost"} /\ Goto(c, "open")
     \/ link[held[c]] \in {"lost", "closed"} /\ Goto(c, "closing")
  /\ held' = [held EXCEPT ![c] = None]
  /\ UNCHANGED <<client, network, inbox, panicked, cont, sess, grab, assoc>>

\* The locked part of unregisterUDPAssociation.
Unregister(p, i) ==
  /\ grab' = [grab EXCEPT ![p] = {handlers[i]} \ {None}]
  /\ handlers' = [handlers EXCEPT ![i] = None]

\* UDPAssociation.Close: the SOCKS control connection ended, or a send failed.
Close(c) ==
  /\ pc[c] \in {"open", "closing"}
  /\ Unregister(c, assoc[c])
  /\ cont' = [cont EXCEPT ![c] = "idle"]
  /\ Goto(c, "finish")
  /\ UNCHANGED <<channel, quicConn, active, loopActive, nextID, stopped,
                 network, inbox, panicked, held, sess, assoc>>

\* Its unlocked part: the close frame (best effort), then close(ch).
FinishClose(p) ==
  /\ pc[p] = "finish"
  /\ CloseInboxes(grab[p])
  /\ grab' = [grab EXCEPT ![p] = {}]
  /\ held' = [held EXCEPT ![p] = None]
  /\ cont' = [cont EXCEPT ![p] = "idle"]
  /\ Goto(p, cont[p])
  /\ UNCHANGED <<client, network, sess, assoc>>

UseAssociation(c) ==
  \/ \E h \in Inboxes : Register(c, h)
  \/ Capture(c) \/ Write(c)
  \/ pc[c] = "closing" /\ Close(c)
  \/ FinishClose(c)

-----------------------------------------------------------------------------
(* runFrameLoop.                                                           *)

LoopTop(l) ==
  /\ pc[l] = "top"
  /\ held' = [held EXCEPT ![l] = channel]
  /\ Goto(l, IF channel = None THEN "drop" ELSE "read")
  /\ UNCHANGED <<client, network, inbox, panicked, cont, sess, grab, assoc>>

\* A stream that was closed on this side still brings what the server sends,
\* until the server, whose session has ended, closes it as well.
Readable(k) ==
  \/ link[k] = "up"
  \/ link[k] = "closed" /\ over[k] # None /\ session[over[k]] = "up"

\* A data frame: its payload is offered to a handler or to the frame inbox
\* without waiting, and dropped when that is full, closed or gone.
LoopFrame(l) ==
  /\ pc[l] = "read" /\ Readable(held[l])
  /\ Goto(l, "top")
  /\ held' = [held EXCEPT ![l] = None]
  /\ UNCHANGED <<client, network, inbox, panicked, cont, sess, grab, assoc>>

\* A FrameUDPClose for id i: unregisterUDPAssociation without a close frame.
LoopCloseFrame(l, i) ==
  /\ pc[l] = "read" /\ Readable(held[l])
  /\ Unregister(l, i)
  /\ cont' = [cont EXCEPT ![l] = "top"]
  /\ Goto(l, "finish")
  /\ UNCHANGED <<channel, quicConn, active, loopActive, nextID, stopped,
                 network, inbox, panicked, held, sess, assoc>>

\* Mutated form: the loop returns without dropping the channel.
LoopErrorReturns(l) ==
  /\ pc[l] = "read" /\ link[held[l]] # "up"
  /\ Goto(l, "idle")
  /\ UNCHANGED <<client, network, inbox, panicked, cont, held, sess, grab,
                 assoc>>

LoopError(l) ==
  /\ pc[l] = "read" /\ link[held[l]] # "up"
  /\ Goto(l, "drop")
  /\ UNCHANGED <<client, network, inbox, panicked, cont, held, sess, grab,
                 assoc>>

LoopRuns(l) ==
  LoopTop(l) \/ LoopError(l) \/ Drop(l) \/ Release(l) \/ FinishClose(l)

-----------------------------------------------------------------------------
(* connectLoop, tryConnectCandidates and connectCandidate.                  *)

\* Before every candidate: stop, or clear the state and connect.
Attempt ==
  /\ pc[Main] = "attempt"
  /\ IF stopped
     THEN /\ Goto(Main, "done")
          /\ UNCHANGED <<client, network, inbox, panicked, cont, held, sess,
                         grab, assoc>>
     ELSE Reset(Main, "connect")

\* A TLS server: connectTLS only probes, connectTLSPersistent dials.
ConnectTLS ==
  /\ pc[Main] = "connect" /\ "tls" \in Candidates
  /\ IF Persistent
     THEN Goto(Main, "dial") /\ UNCHANGED active
     ELSE \/ Goto(Main, "run") /\ active' = TRUE
          \/ Goto(Main, "failed") /\ UNCHANGED active
  /\ cont' = [cont EXCEPT ![Main] = "run"]
  /\ UNCHANGED <<channel, quicConn, loopActive, handlers, nextID, stopped,
                 network, inbox, panicked, held, sess, grab, assoc>>

\* connectQUIC: dial and authenticate ...
ConnectQUIC ==
  /\ pc[Main] = "connect" /\ "quic" \in Candidates
  /\ \/ /\ Goto(Main, "failed")
        /\ UNCHANGED <<session, sess>>
     \/ \E q \in Sessions :
          /\ session[q] = "unused"
          /\ session' = [session EXCEPT ![q] = "up"]
          /\ sess' = [sess EXCEPT ![Main] = q]
          /\ Goto(Main, "dialed")
  /\ UNCHANGED <<client, link, over, inbox, panicked, cont, held, grab, assoc>>

\* ... then store the connection.  TUN mode opens the channel right away.
StoreQUIC ==
  /\ pc[Main] = "dialed"
  /\ quicConn' = sess[Main] /\ active' = TRUE
  /\ cont' = [cont EXCEPT ![Main] = "run"]
  /\ sess' = [sess EXCEPT ![Main] = None]
  /\ Goto(Main, IF Persistent THEN "ensure" ELSE "run")
  /\ UNCHANGED <<channel, loopActive, handlers, nextID, stopped, network,
                 inbox, panicked, held, grab, assoc>>

\* connectCandidate resets after a QUIC channel that could not be opened.
ResetAfterEnsure == pc[Main] = "reset" /\ Reset(Main, "failed")

\* The next candidate, or a new round: connectLoop resets and backs off.
Failed ==
  /\ pc[Main] = "failed"
  /\ \/ /\ Goto(Main, "attempt")
        /\ UNCHANGED <<client, network, inbox, panicked, cont, held, sess,
                       grab, assoc>>
     \/ Reset(Main, "attempt")

\* runLoop waits for stopChan only.
RunEnds ==
  /\ pc[Main] = "run" /\ stopped
  /\ Goto(Main, "done")
  /\ UNCHANGED <<client, network, inbox, panicked, cont, held, sess, grab,
                 assoc>>

ConnectLoop ==
  \/ Attempt \/ ConnectTLS \/ ConnectQUIC \/ StoreQUIC \/ ResetAfterEnsure
  \/ Failed \/ RunEnds \/ Ensure(Main) \/ Release(Main)

\* Stop closes stopChan, then resets the transport state.
Stop ==
  /\ pc[Stopper] = "idle" /\ ~stopped
  /\ stopped' = TRUE
  /\ Goto(Stopper, "reset")
  /\ UNCHANGED <<channel, quicConn, active, loopActive, handlers, nextID,
                 network, inbox, panicked, cont, held, sess, grab, assoc>>

StopReset == pc[Stopper] = "reset" /\ Reset(Stopper, "done")

-----------------------------------------------------------------------------
(* The network: a connection fails or is closed by the server.             *)

LoseLink(k) ==
  /\ link[k] = "up"
  /\ link' = [link EXCEPT ![k] = "lost"]
  /\ UNCHANGED <<client, over, session, inbox, panicked, pc, cont, held, sess,
                 grab, assoc>>

LoseSession(q) ==
  /\ session[q] = "up"
  /\ session' = [session EXCEPT ![q] = "lost"]
  /\ link' = [k \in Links |->
       IF over[k] = q /\ link[k] = "up" THEN "lost" ELSE link[k]]
  /\ UNCHANGED <<client, over, inbox, panicked, pc, cont, held, sess, grab,
                 assoc>>

-----------------------------------------------------------------------------

CallerStep(c) ==
  \/ Open(c) \/ Send(c) \/ Close(c)
  \/ Ensure(c) \/ UseAssociation(c)

LoopStep(l) ==
  \/ LoopRuns(l) \/ LoopFrame(l)
  \/ \E i \in IDs : LoopCloseFrame(l, i)

StopStep == Stop \/ StopReset \/ Release(Stopper)

NetworkStep ==
  \/ \E k \in Links : LoseLink(k)
  \/ \E q \in Sessions : LoseSession(q)

Next ==
  \/ \E c \in Callers : CallerStep(c)
  \/ \E l \in Loops : LoopStep(l)
  \/ ConnectLoop
  \/ StopStep
  \/ NetworkStep

\* The Go scheduler runs every goroutine that can run, every dial ends with
\* an answer or its timeout, and so does every read of a connection that was
\* lost or closed: the server ends a stream that the client has ended, and
\* a QUIC connection without a server times out.  Nothing forces a user to
\* open, use, close or stop, the server to send a frame, or a connection
\* to fail.
Fairness ==
  /\ \A c \in Callers : WF_vars(Ensure(c) \/ UseAssociation(c))
  /\ \A l \in Loops : WF_vars(LoopRuns(l))
  /\ WF_vars(ConnectLoop)
  /\ WF_vars(StopReset \/ Release(Stopper))

Spec == Init /\ [][Next]_vars
FairSpec == Spec /\ Fairness

-----------------------------------------------------------------------------
(* Properties.                                                             *)

\* No incoming channel is closed twice: Close, a FrameUDPClose, a dropped
\* channel and Stop may all want to close it, and close(ch) of a closed
\* channel panics (udp_assoc.go:108, client.go:976 and client.go:1080).
NoPanic == ~panicked

\* A registered handler is always served: some frame loop is alive that will
\* deliver to it, or drop it when the channel fails.  Otherwise its receiver
\* would wait forever (the frameLoopActive hand-over in udp_assoc.go:55-58).
HandlersAreServed ==
  Registered # {} => /\ loopActive
                     /\ \E l \in Loops : pc[l] \notin {"idle", "release"}

\* While ids do not wrap, no open incoming channel is forgotten: it is
\* registered, or some goroutine holds it and is about to close it.
NoInboxIsForgotten ==
  \A h \in Inboxes : inbox[h] = "open" =>
     \/ h \in Registered
     \/ \E p \in Procs : h \in grab[p] /\ pc[p] \in {"finish", "release"}

\* No connection is forgotten: whatever is open is the current channel, or
\* held by a goroutine that will install or close it (the second check of
\* EnsurePersistentChannel, client.go:850-854).
NoLinkIsForgotten ==
  \A k \in Links : link[k] = "up" =>
     \/ k = channel
     \/ \E p \in Procs : held[p] = k /\ pc[p] \in {"install", "release"}

\* Neither is forgotten when the connect loop of TUN mode takes back what it
\* stored, while a caller may be using it (client.go:315-325).
NothingIsForgotten == NoInboxIsForgotten /\ NoLinkIsForgotten

\* A frame loop that waits on a live connection waits on the one the client
\* writes to, unless that one is about to be closed: otherwise the answers
\* to what is sent would never be read.
ReaderIsCurrent ==
  \A l \in Loops : pc[l] = "read" /\ link[held[l]] = "up" =>
     \/ held[l] = channel
     \/ \E p \in Procs : held[p] = held[l] /\ pc[p] = "release"

\* Before Stop, a frame loop that stops on a read error tears down the very
\* channel it was reading, never one that replaced it (udp_assoc.go:122-127).
\* A loop that found no reader at all gives no such promise: see README.
DropsItsOwnChannel ==
  [][\A l \in Loops :
       (pc[l] = "drop" /\ pc'[l] = "release" /\ held[l] # None /\ ~stopped)
         => channel = held[l]]_vars

ChannelLost == channel # None /\ link[channel] # "up"

\* The receiver of h is told, or its association goes on over a connection
\* that was opened in the meantime.
ToldOrServed(h) ==
  \/ inbox[h] = "closed"
  \/ h \in Registered /\ channel # None /\ link[channel] = "up"

\* Two callers that open a channel over TLS both install one, and the frame
\* loop stays with the first (client.go:674-680, udp_assoc.go:55).
AnotherIsRead ==
  \E l \in Loops : pc[l] = "read" /\ held[l] # channel /\ link[held[l]] = "up"

\* When the channel is lost every receiver is told, with nobody calling Close,
\* whoever opened, replaced or reset channels meanwhile (udp_assoc.go:121-127),
\* unless a frame loop waits on another connection than the lost one.  When
\* both are gone, receivers are told again.  With QUIC servers only no loop
\* waits on another one for long: see ReaderIsCurrent.
LossReachesReceivers ==
  \A h \in Inboxes :
    (h \in Registered /\ ChannelLost /\ ~AnotherIsRead) ~> ToldOrServed(h)

=============
