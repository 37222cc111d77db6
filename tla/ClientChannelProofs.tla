------------------------- MODULE ClientChannelProofs -------------------------
(***************************************************************************)
(* What holds of the client's channel for any number of callers, frame     *)
(* loops, connections and associations, and for ids that wrap: nothing is  *)
(* closed twice, and a registered handler always has a live frame loop.    *)
(* Then, while ids do not wrap, no incoming channel is forgotten; and with *)
(* QUIC servers only, no stream is, loops read what is written, and, when  *)
(* not in TUN mode, drop no channel but their own.                         *)
(***************************************************************************)
EXTENDS ClientChannel, FiniteSetTheorems, TLAPS

\* Every next step is a step of one goroutine, or of the network.
LEMMA NextCases ==
  ASSUME Next
  PROVE  \/ \E p \in Procs : EnsureCheck(p) \/ DialFails(p) \/ Install(p)
         \/ \E p \in Procs, k \in Links : DialSucceeds(p, k)
         \/ \E p \in Procs : Release(p) \/ FinishClose(p)
         \/ \E c \in Callers : Open(c) \/ Send(c) \/ Close(c) \/ Capture(c)
                                 \/ Write(c)
         \/ \E c \in Callers, h \in Inboxes : Register(c, h)
         \/ \E l \in Loops : LoopTop(l) \/ LoopFrame(l) \/ LoopError(l)
                               \/ Drop(l)
         \/ \E l \in Loops, i \in IDs : LoopCloseFrame(l, i)
         \/ Attempt \/ ConnectTLS \/ ConnectQUIC \/ StoreQUIC
         \/ ResetAfterEnsure \/ Failed \/ RunEnds \/ Stop \/ StopReset
         \/ NetworkStep
  BY DEF Next, CallerStep, Ensure, UseAssociation, LoopStep, LoopRuns,
         ConnectLoop, StopStep, Procs

-----------------------------------------------------------------------------
(* Type correctness.                                                       *)

\* The helpers that several actions share keep their variables in range.
LEMMA SwapTypes ==
  ASSUME TypeOK, NEW p \in Procs, SwapChannel(p)
  PROVE  /\ channel' \in Links \cup {None} /\ loopActive' \in BOOLEAN
         /\ handlers' \in [IDs -> Inboxes \cup {None}]
         /\ held' \in [Procs -> Links \cup {None}]
         /\ grab' \in [Procs -> SUBSET Inboxes]
<1>1. Registered \in SUBSET Inboxes
  BY DEF Registered, TypeOK
<1>2. QED BY <1>1 DEF SwapChannel, TypeOK, NoHandlers

LEMMA CloseInboxTypes ==
  ASSUME TypeOK, NEW S \in SUBSET Inboxes, CloseInboxes(S)
  PROVE  /\ panicked' \in BOOLEAN
         /\ inbox' \in [Inboxes -> {"unused", "open", "closed"}]
<1>1. panicked' \in BOOLEAN
  BY Zenon DEF CloseInboxes
<1>2. inbox' \in [Inboxes -> {"unused", "open", "closed"}]
  BY DEF CloseInboxes, TypeOK
<1>3. QED BY <1>1, <1>2

LEMMA CloseLinkTypes ==
  ASSUME TypeOK, NEW K \in SUBSET Links, NEW Q \in SUBSET Sessions,
         CloseLinks(K, Q)
  PROVE  /\ link' \in [Links -> {"unused", "up", "lost", "closed"}]
         /\ over' \in [Links -> Sessions \cup {None}]
         /\ session' \in [Sessions -> {"unused", "up", "lost", "closed"}]
<1>1. link' \in [Links -> {"unused", "up", "lost", "closed"}]
  BY DEF CloseLinks, TypeOK
<1>2. session' \in [Sessions -> {"unused", "up", "lost", "closed"}]
  BY DEF CloseLinks, TypeOK
<1>3. QED BY <1>1, <1>2 DEF CloseLinks, TypeOK

LEMMA ResetTypes ==
  ASSUME TypeOK, NEW p \in Procs,
         NEW next \in {"done", "connect", "attempt", "failed"}, Reset(p, next)
  PROVE  TypeOK'
  BY SwapTypes DEF Reset, Goto, TypeOK, network

\* TypeOK is an invariant: every variable keeps the range that the Go types,
\* and the states of the goroutines in client.go and udp_assoc.go, give it.
THEOREM TypeCorrect == Spec => []TypeOK
<1>1. Init => TypeOK
  <2>1. 1 \in IDs /\ 0 \in 0 .. MaxAssocID
    BY DataAssumption DEF IDs
  <2>2. ASSUME Init
        PROVE  /\ pc \in [Procs -> {"attempt", "idle"}]
               /\ cont \in [Procs -> {"idle"}]
               /\ handlers \in [IDs -> {None}]
               /\ assoc \in [Callers -> IDs]
    BY <2>1, <2>2 DEF Init, NoHandlers
  <2>3. ASSUME Init
        PROVE  /\ link \in [Links -> {"unused"}] /\ over \in [Links -> {None}]
               /\ session \in [Sessions -> {"unused"}]
               /\ inbox \in [Inboxes -> {"unused"}]
               /\ held \in [Procs -> {None}] /\ sess \in [Procs -> {None}]
               /\ grab \in [Procs -> {{}}]
    BY <2>3 DEF Init
  <2>4. ASSUME Init
        PROVE  /\ channel = None /\ quicConn = None /\ nextID = 0
               /\ active = FALSE /\ loopActive = FALSE
               /\ stopped = FALSE /\ panicked = FALSE
    BY <2>4 DEF Init
  <2>5. QED BY <2>1, <2>2, <2>3, <2>4 DEF TypeOK
<1>2. TypeOK /\ [Next]_vars => TypeOK'
  <2> SUFFICES ASSUME TypeOK, [Next]_vars PROVE TypeOK'
    OBVIOUS
  <2>1. ASSUME NEW p \in Procs, EnsureCheck(p) PROVE TypeOK'
    BY <2>1 DEF EnsureCheck, Failure, Goto, TypeOK, client, network
  <2>2. ASSUME NEW p \in Procs, DialFails(p) PROVE TypeOK'
    BY <2>2 DEF DialFails, Failure, Goto, TypeOK, client, network
  <2>3. ASSUME NEW p \in Procs, Install(p) PROVE TypeOK'
    <3>1. CASE InstallTLS(p)
      BY <2>3, <3>1 DEF Install, InstallTLS, Goto, TypeOK, network
    <3>2. CASE InstallQUIC(p)
      <4>1. CASE channel = None
        BY <2>3, <3>2, <4>1 DEF Install, InstallQUIC, Goto, TypeOK, network
      <4>2. CASE channel # None
        BY <2>3, <3>2, <4>2
           DEF Install, InstallQUIC, CloseLinks, Goto, TypeOK
      <4>3. QED BY <4>1, <4>2
    <3>3. QED BY <2>3, <3>1, <3>2 DEF Install
  <2>4. ASSUME NEW p \in Procs, NEW k \in Links, DialSucceeds(p, k)
        PROVE  TypeOK'
    BY <2>4 DEF DialSucceeds, Goto, TypeOK, client
  <2>5. ASSUME NEW p \in Procs, Release(p) PROVE TypeOK'
    <3>1. /\ grab[p] \in SUBSET Inboxes
          /\ {held[p]} \ {None} \in SUBSET Links
          /\ {sess[p]} \ {None} \in SUBSET Sessions
      BY DEF TypeOK
    <3>2. QED
      BY <2>5, <3>1, CloseInboxTypes, CloseLinkTypes
         DEF Release, Goto, TypeOK, client
  <2>6. ASSUME NEW p \in Procs, FinishClose(p) PROVE TypeOK'
    <3>1. grab[p] \in SUBSET Inboxes
      BY DEF TypeOK
    <3>2. QED
      BY <2>6, <3>1, CloseInboxTypes DEF FinishClose, Goto, TypeOK, client, network
  <2>7. ASSUME NEW c \in Callers,
               Open(c) \/ Send(c) \/ Capture(c) \/ Write(c)
        PROVE  TypeOK'
    BY <2>7 DEF Open, Send, Capture, Write, Goto, TypeOK, client, network,
                Procs
  <2>8. ASSUME NEW c \in Callers, Close(c) PROVE TypeOK'
    <3>1. handlers[assoc[c]] \in Inboxes \cup {None}
      BY DEF TypeOK
    <3>2. QED BY <2>8, <3>1 DEF Close, Unregister, Goto, TypeOK, network, Procs
  <2>9. ASSUME NEW c \in Callers, NEW h \in Inboxes, Register(c, h)
        PROVE  TypeOK'
    <3>1. nextID' \in IDs
      BY <2>9, DataAssumption DEF Register, IDAfter, TypeOK, IDs
    <3>2. pc' \in [Procs -> {"idle", "ensure", "dial", "install", "register",
                       "open", "capture", "write", "closing", "finish",
                       "top", "read", "drop", "release",
                       "attempt", "connect", "dialed", "run",
                       "failed", "reset", "done"}]
      BY <2>9 DEF Register, Goto, TypeOK
    <3>3. QED BY <2>9, <3>1, <3>2 DEF Register, TypeOK, network, IDs
  <2>10. ASSUME NEW l \in Loops, LoopTop(l) \/ LoopFrame(l) \/ LoopError(l)
         PROVE  TypeOK'
    BY <2>10 DEF LoopTop, LoopFrame, LoopError, Goto, TypeOK, client, network,
                 Procs
  <2>11. ASSUME NEW l \in Loops, Drop(l) PROVE TypeOK'
    BY <2>11, SwapTypes DEF Drop, Goto, TypeOK, network, Procs
  <2>12. ASSUME NEW l \in Loops, NEW i \in IDs, LoopCloseFrame(l, i)
         PROVE  TypeOK'
    <3>1. handlers[i] \in Inboxes \cup {None}
      BY DEF TypeOK
    <3>2. QED
      BY <2>12, <3>1 DEF LoopCloseFrame, Unregister, Goto, TypeOK, network,
                         Procs
  <2>13. ASSUME Attempt \/ ResetAfterEnsure \/ Failed \/ StopReset
         PROVE  TypeOK'
    <3>1. Main \in Procs /\ Stopper \in Procs
      BY DEF Procs
    <3>2. CASE \/ Reset(Main, "connect") \/ Reset(Main, "failed")
               \/ Reset(Main, "attempt") \/ Reset(Stopper, "done")
      BY <3>1, <3>2, ResetTypes
    <3>3. CASE UNCHANGED <<client, network, inbox, panicked, cont, held, sess,
                           grab, assoc>>
               /\ (Goto(Main, "done") \/ Goto(Main, "attempt"))
      BY <3>3, <3>1 DEF Goto, TypeOK, client, network
    <3>4. QED
      BY <2>13, <3>2, <3>3 DEF Attempt, ResetAfterEnsure, Failed, StopReset
  <2>14. ASSUME ConnectTLS \/ ConnectQUIC \/ StoreQUIC \/ RunEnds \/ Stop
         PROVE  TypeOK'
    <3> USE DEF Goto, TypeOK, client, network
    <3>1. Main \in Procs /\ Stopper \in Procs
      BY DEF Procs
    <3>2. CASE ConnectTLS
      BY <3>1, <3>2 DEF ConnectTLS
    <3>3. CASE ConnectQUIC
      BY <3>1, <3>3 DEF ConnectQUIC
    <3>4. CASE StoreQUIC
      BY <3>1, <3>4 DEF StoreQUIC
    <3>5. CASE RunEnds \/ Stop
      BY <3>1, <3>5 DEF RunEnds, Stop
    <3>6. QED BY <2>14, <3>2, <3>3, <3>4, <3>5
  <2>15. ASSUME NetworkStep PROVE TypeOK'
    BY <2>15 DEF NetworkStep, LoseLink, LoseSession, TypeOK, client
  <2>16. CASE UNCHANGED vars
    BY <2>16 DEF TypeOK, vars, client, network
  <2>17. QED
    BY <2>1, <2>2, <2>3, <2>4, <2>5, <2>6, <2>7, <2>8, <2>9, <2>10, <2>11,
       <2>12, <2>13, <2>14, <2>15, <2>16, NextCases
<1>3. QED BY <1>1, <1>2, PTL DEF Spec

-----------------------------------------------------------------------------
(* No channel is closed twice.  The reason is ownership: an open channel is *)
(* in one entry of udpHandlers or was taken out by one goroutine, and only  *)
(* whoever took it closes it.                                              *)

EntriesAreDistinct ==
  \A i, j \in IDs : handlers[i] # None /\ handlers[i] = handlers[j] => i = j

EntriesAreOpen ==
  \A i \in IDs : handlers[i] # None => inbox[handlers[i]] = "open"

TakenAreOpen ==
  \A p \in Procs : \A h \in grab[p] :
     inbox[h] = "open" /\ \A i \in IDs : handlers[i] # h

TakenOnce ==
  \A p, q \in Procs : p # q => grab[p] \cap grab[q] = {}

Ownership ==
  EntriesAreDistinct /\ EntriesAreOpen /\ TakenAreOpen /\ TakenOnce /\ NoPanic

\* The variables that Ownership depends on.
owned == <<handlers, inbox, grab, panicked>>

LEMMA OwnershipUnchanged ==
  ASSUME Ownership, UNCHANGED owned
  PROVE  Ownership'
  BY DEF Ownership, EntriesAreDistinct, EntriesAreOpen, TakenAreOpen, TakenOnce,
         NoPanic, owned

\* Taking some entries out of the map, and nothing else.
LEMMA TakeKeepsOwnership ==
  ASSUME TypeOK, Ownership, NEW p \in Procs, NEW S \in SUBSET IDs,
         handlers' = [i \in IDs |-> IF i \in S THEN None ELSE handlers[i]],
         grab' = [grab EXCEPT ![p] = {handlers[i] : i \in S} \ {None}],
         UNCHANGED <<inbox, panicked>>
  PROVE  Ownership'
<1> USE DEF Ownership
<1>1. EntriesAreDistinct'
  BY DataAssumption DEF EntriesAreDistinct
<1>2. EntriesAreOpen'
  BY DEF EntriesAreOpen
<1>3. \A h \in grab'[p] : \E i \in S : h = handlers[i] /\ h # None
  BY DEF TypeOK
<1>4. \A q \in Procs : q # p => grab'[q] = grab[q]
  BY DEF TypeOK
<1>5. TakenAreOpen'
  <2> SUFFICES ASSUME NEW q \in Procs, NEW h \in grab'[q]
               PROVE  inbox[h] = "open" /\ \A i \in IDs : handlers'[i] # h
    BY DEF TakenAreOpen
  <2>1. CASE q = p
    <3>1. PICK i \in S : h = handlers[i] /\ h # None
      BY <1>3, <2>1
    <3>2. inbox[h] = "open"
      BY <3>1 DEF EntriesAreOpen
    <3>3. \A j \in IDs : handlers'[j] # h
      BY <3>1 DEF EntriesAreDistinct
    <3>4. QED BY <3>2, <3>3
  <2>2. CASE q # p
    <3>1. h \in grab[q]
      BY <2>2, <1>4
    <3>2. h # None
      BY <3>1, DataAssumption DEF TypeOK
    <3>3. QED BY <3>1, <3>2 DEF TakenAreOpen
  <2>3. QED BY <2>1, <2>2
<1>6. TakenOnce'
  <2> SUFFICES ASSUME NEW q \in Procs, NEW r \in Procs, q # r,
                      NEW h \in grab'[q], h \in grab'[r]
               PROVE  FALSE
    BY DEF TakenOnce
  <2>1. CASE q # p /\ r # p
    BY <2>1, <1>4 DEF TakenOnce
  <2>2. CASE q = p
    BY <2>2, <1>3, <1>4 DEF TakenAreOpen
  <2>3. CASE r = p
    BY <2>3, <1>3, <1>4 DEF TakenAreOpen
  <2>4. QED BY <2>1, <2>2, <2>3
<1>7. QED BY <1>1, <1>2, <1>5, <1>6 DEF NoPanic

\* A goroutine closes what it took.
LEMMA CloseKeepsOwnership ==
  ASSUME TypeOK, Ownership, NEW p \in Procs, CloseInboxes(grab[p]),
         grab' = [grab EXCEPT ![p] = {}], UNCHANGED handlers
  PROVE  Ownership'
<1> USE DEF Ownership
<1>1. \A h \in grab[p] : h \in Inboxes /\ inbox[h] = "open"
  BY DEF TakenAreOpen, TypeOK
<1>2. NoPanic'
  BY <1>1 DEF CloseInboxes, NoPanic
<1>3. \A h \in Inboxes : h \notin grab[p] => inbox'[h] = inbox[h]
  BY DEF CloseInboxes
<1>4. EntriesAreDistinct'
  BY DEF EntriesAreDistinct
<1>5. EntriesAreOpen'
  <2> SUFFICES ASSUME NEW i \in IDs, handlers[i] # None
               PROVE  inbox'[handlers[i]] = "open"
    BY DEF EntriesAreOpen
  <2>1. handlers[i] \in Inboxes /\ handlers[i] \notin grab[p]
    BY DEF TakenAreOpen, TypeOK
  <2>2. QED BY <2>1, <1>3 DEF EntriesAreOpen
<1>6. \A q \in Procs : grab'[q] = IF q = p THEN {} ELSE grab[q]
  BY DEF TypeOK
<1>7. TakenAreOpen'
  <2> SUFFICES ASSUME NEW q \in Procs, q # p, NEW h \in grab[q]
               PROVE  inbox'[h] = "open" /\ \A i \in IDs : handlers[i] # h
    BY <1>6 DEF TakenAreOpen
  <2>1. h \in Inboxes /\ h \notin grab[p]
    BY DEF TakenOnce, TypeOK
  <2>2. QED BY <2>1, <1>3 DEF TakenAreOpen
<1>8. TakenOnce'
  BY <1>6 DEF TakenOnce
<1>9. QED BY <1>2, <1>4, <1>5, <1>7, <1>8

LEMMA UnregisterKeepsOwnership ==
  ASSUME TypeOK, Ownership, NEW p \in Procs, NEW i \in IDs, Unregister(p, i),
         UNCHANGED <<inbox, panicked>>
  PROVE  Ownership'
<1>1. handlers' = [j \in IDs |-> IF j \in {i} THEN None ELSE handlers[j]]
  BY DEF Unregister, TypeOK
<1>2. {handlers[j] : j \in {i}} = {handlers[i]}
  OBVIOUS
<1>3. grab' = [grab EXCEPT ![p] = {handlers[j] : j \in {i}} \ {None}]
  BY <1>2 DEF Unregister
<1>4. {i} \in SUBSET IDs
  OBVIOUS
<1>5. QED BY <1>1, <1>3, <1>4, TakeKeepsOwnership

LEMMA SwapKeepsOwnership ==
  ASSUME TypeOK, Ownership, NEW p \in Procs, SwapChannel(p),
         UNCHANGED <<inbox, panicked>>
  PROVE  Ownership'
<1>1. handlers' = [j \in IDs |-> IF j \in IDs THEN None ELSE handlers[j]]
  BY DEF SwapChannel, NoHandlers
<1>2. grab' = [grab EXCEPT ![p] = {handlers[j] : j \in IDs} \ {None}]
  BY DEF SwapChannel, Registered
<1>3. QED BY <1>1, <1>2, TakeKeepsOwnership

\* A fresh channel replaces whatever its id was registered for.
LEMMA RegisterKeepsOwnership ==
  ASSUME TypeOK, Ownership, NEW c \in Callers, NEW h \in Inboxes,
         Register(c, h)
  PROVE  Ownership'
<1> USE DEF Ownership
<1>1. nextID' \in IDs
  BY DataAssumption DEF Register, IDAfter, TypeOK, IDs
<1>2. /\ inbox[h] = "unused" /\ UNCHANGED <<grab, panicked>>
      /\ handlers' = [handlers EXCEPT ![nextID'] = h]
      /\ inbox' = [inbox EXCEPT ![h] = "open"]
  BY DEF Register
<1>3. \A i \in IDs : handlers[i] # h
  BY <1>2, DataAssumption DEF EntriesAreOpen
<1>4. \A i \in IDs : handlers'[i] = IF i = nextID' THEN h ELSE handlers[i]
  BY <1>1, <1>2 DEF TypeOK
<1>5. \A g \in Inboxes : inbox'[g] = IF g = h THEN "open" ELSE inbox[g]
  BY <1>2 DEF TypeOK
<1>6. EntriesAreDistinct'
  BY <1>3, <1>4 DEF EntriesAreDistinct
<1>7. EntriesAreOpen'
  BY <1>4, <1>5 DEF EntriesAreOpen, TypeOK
<1>8. TakenAreOpen'
  <2> SUFFICES ASSUME NEW p \in Procs, NEW g \in grab[p]
               PROVE  inbox'[g] = "open" /\ \A i \in IDs : handlers'[i] # g
    BY <1>2 DEF TakenAreOpen
  <2>1. g \in Inboxes /\ g # h
    BY <1>2 DEF TakenAreOpen, TypeOK
  <2>2. QED BY <2>1, <1>4, <1>5 DEF TakenAreOpen
<1>9. TakenOnce' /\ NoPanic'
  BY <1>2 DEF TakenOnce, NoPanic
<1>10. QED BY <1>6, <1>7, <1>8, <1>9

\* Ownership is an invariant: every goroutine that closes an incoming channel
\* took it out of udpHandlers first.
LEMMA Owned == Spec => []Ownership
<1>1. Init => Ownership
  BY DataAssumption
     DEF Init, Ownership, EntriesAreDistinct, EntriesAreOpen, TakenAreOpen,
         TakenOnce, NoPanic, NoHandlers
<1>2. TypeOK /\ Ownership /\ [Next]_vars => Ownership'
  <2> SUFFICES ASSUME TypeOK, Ownership, [Next]_vars PROVE Ownership'
    OBVIOUS
  <2>1. ASSUME NEW p \in Procs, EnsureCheck(p) \/ DialFails(p) \/ Install(p)
        PROVE  Ownership'
    <3>1. UNCHANGED owned
      BY <2>1
         DEF EnsureCheck, DialFails, Install, InstallTLS, InstallQUIC, owned,
             client
    <3>2. QED BY <3>1, OwnershipUnchanged
  <2>2. ASSUME NEW p \in Procs, NEW k \in Links, DialSucceeds(p, k)
        PROVE  Ownership'
    BY <2>2, OwnershipUnchanged DEF DialSucceeds, owned, client
  <2>3. ASSUME NEW p \in Procs, Release(p) \/ FinishClose(p)
        PROVE  Ownership'
    BY <2>3, CloseKeepsOwnership DEF Release, FinishClose, client
  <2>4. ASSUME NEW c \in Callers, Open(c) \/ Send(c) \/ Capture(c) \/ Write(c)
        PROVE  Ownership'
    BY <2>4, OwnershipUnchanged DEF Open, Send, Capture, Write, owned, client
  <2>5. ASSUME NEW c \in Callers, Close(c) PROVE Ownership'
    <3>1. assoc[c] \in IDs /\ c \in Procs
      BY DEF TypeOK, Procs
    <3>2. QED BY <2>5, <3>1, UnregisterKeepsOwnership DEF Close
  <2>6. ASSUME NEW c \in Callers, NEW h \in Inboxes, Register(c, h)
        PROVE  Ownership'
    BY <2>6, RegisterKeepsOwnership
  <2>7. ASSUME NEW l \in Loops, LoopTop(l) \/ LoopFrame(l) \/ LoopError(l)
        PROVE  Ownership'
    BY <2>7, OwnershipUnchanged
       DEF LoopTop, LoopFrame, LoopError, owned, client
  <2>8. ASSUME NEW l \in Loops, Drop(l) PROVE Ownership'
    BY <2>8, SwapKeepsOwnership DEF Drop, Procs
  <2>9. ASSUME NEW l \in Loops, NEW i \in IDs, LoopCloseFrame(l, i)
        PROVE  Ownership'
    BY <2>9, UnregisterKeepsOwnership DEF LoopCloseFrame, Procs
  <2>10. ASSUME Attempt \/ ResetAfterEnsure \/ Failed \/ StopReset
         PROVE  Ownership'
    <3>1. ASSUME NEW p \in Procs, NEW next, Reset(p, next) PROVE Ownership'
      BY <3>1, SwapKeepsOwnership DEF Reset
    <3>2. CASE UNCHANGED owned
      BY <3>2, OwnershipUnchanged
    <3>3. QED
      BY <2>10, <3>1, <3>2
         DEF Attempt, ResetAfterEnsure, Failed, StopReset, Procs, owned, client
  <2>11. ASSUME ConnectTLS \/ ConnectQUIC \/ StoreQUIC \/ RunEnds \/ Stop
                \/ NetworkStep
         PROVE  Ownership'
    BY <2>11, OwnershipUnchanged
       DEF ConnectTLS, ConnectQUIC, StoreQUIC, RunEnds, Stop, NetworkStep,
           LoseLink, LoseSession, owned, client
  <2>12. CASE UNCHANGED vars
    BY <2>12, OwnershipUnchanged DEF vars, owned, client
  <2>13. QED
    BY <2>1, <2>2, <2>3, <2>4, <2>5, <2>6, <2>7, <2>8, <2>9, <2>10, <2>11,
       <2>12, NextCases
<1>3. QED BY <1>1, <1>2, TypeCorrect, PTL DEF Spec

\* However Close, FrameUDPClose, channel losses, failed attempts and Stop
\* interleave, no incoming channel is closed twice.
THEOREM ClosedOnce == Spec => []NoPanic
<1>1. Ownership => NoPanic
  BY DEF Ownership
<1>2. QED BY <1>1, Owned, PTL

-----------------------------------------------------------------------------
(* A registered handler is served.  frameLoopActive is cleared only where   *)
(* the handlers are thrown out, and a frame loop that ends has done both.   *)

LoopAlive(l) ==
  pc[l] \in {"top", "read", "drop"} \/ (pc[l] = "finish" /\ cont[l] = "top")

Served ==
  /\ (\E i \in IDs : handlers[i] # None) => loopActive
  /\ loopActive => \E l \in Loops : LoopAlive(l)

\* A step of p that registers nothing and leaves p alive if it was a live loop.
LEMMA StepKeepsServed ==
  ASSUME Served, loopActive' = loopActive, NEW p,
         \A i \in IDs : handlers'[i] # None => handlers[i] # None,
         \A l \in Loops : l # p => pc'[l] = pc[l] /\ cont'[l] = cont[l],
         LoopAlive(p) => LoopAlive(p)'
  PROVE  Served'
  BY DEF Served, LoopAlive

LEMMA SwapKeepsServed ==
  ASSUME NEW p, SwapChannel(p)
  PROVE  Served'
  BY DEF SwapChannel, NoHandlers, Served

\* As long as an association is registered, some frame loop is alive that will
\* deliver its datagrams or close it when the channel fails.
THEOREM AlwaysServed == Spec => []HandlersAreServed
<1>1. Init => Served
  BY DEF Init, Served, NoHandlers
<1>2. TypeOK /\ Served /\ [Next]_vars => Served'
  <2> SUFFICES ASSUME TypeOK, Served, [Next]_vars PROVE Served'
    OBVIOUS
  <2> USE DEF Goto, LoopAlive
  <2>1. ASSUME NEW p \in Procs, EnsureCheck(p) \/ DialFails(p)
        PROVE  Served'
    BY <2>1, StepKeepsServed DEF EnsureCheck, DialFails, client, TypeOK, Procs
  <2>2. ASSUME NEW p \in Procs, Install(p) PROVE Served'
    BY <2>2, StepKeepsServed
       DEF Install, InstallTLS, InstallQUIC, TypeOK, Procs
  <2>3. ASSUME NEW p \in Procs, NEW k \in Links, DialSucceeds(p, k)
        PROVE  Served'
    BY <2>3, StepKeepsServed DEF DialSucceeds, client, TypeOK, Procs
  <2>4. ASSUME NEW p \in Procs, Release(p) \/ FinishClose(p)
        PROVE  Served'
    BY <2>4, StepKeepsServed DEF Release, FinishClose, client, TypeOK, Procs
  <2>5. ASSUME NEW c \in Callers, Open(c) \/ Send(c) \/ Capture(c) \/ Write(c)
        PROVE  Served'
    <3>1. c \notin Loops /\ c \in Procs
      BY ProcsAssumption DEF Procs
    <3>2. QED
      BY <2>5, <3>1, StepKeepsServed
         DEF Open, Send, Capture, Write, client, TypeOK, Procs
  <2>6. ASSUME NEW c \in Callers, Close(c) PROVE Served'
    <3>1. c \notin Loops /\ c \in Procs
      BY ProcsAssumption DEF Procs
    <3>2. QED
      BY <2>6, <3>1, StepKeepsServed DEF Close, Unregister, TypeOK, Procs
  <2>7. ASSUME NEW c \in Callers, NEW h \in Inboxes, Register(c, h)
        PROVE  Served'
    <3>1. c \notin Loops /\ c \in Procs /\ Loops \subseteq Procs
      BY ProcsAssumption DEF Procs
    <3>2. loopActive'
      BY <2>7 DEF Register
    <3>3. \E l \in Loops : LoopAlive(l)'
      <4>1. CASE loopActive
        BY <2>7, <3>1, <4>1 DEF Register, Served, TypeOK
      <4>2. CASE ~loopActive
        <5>1. PICK l \in Loops : pc' = [pc EXCEPT ![c] = "open", ![l] = "top"]
          BY <2>7, <4>2 DEF Register
        <5>2. pc'[l] = "top"
          BY <5>1, <3>1 DEF TypeOK
        <5>3. QED BY <5>2
      <4>3. QED BY <4>1, <4>2
    <3>4. QED BY <3>2, <3>3 DEF Served
  <2>8. ASSUME NEW l \in Loops, LoopTop(l) \/ LoopFrame(l) \/ LoopError(l)
        PROVE  Served'
    BY <2>8, StepKeepsServed
       DEF LoopTop, LoopFrame, LoopError, client, TypeOK, Procs
  <2>9. ASSUME NEW l \in Loops, NEW i \in IDs, LoopCloseFrame(l, i)
        PROVE  Served'
    BY <2>9, StepKeepsServed DEF LoopCloseFrame, Unregister, TypeOK, Procs
  <2>10. ASSUME NEW l \in Loops, Drop(l) PROVE Served'
    BY <2>10, SwapKeepsServed DEF Drop
  <2>11. ASSUME Attempt \/ ResetAfterEnsure \/ Failed \/ StopReset
         PROVE  Served'
    <3>1. Main \notin Loops /\ Stopper \notin Loops
      BY ProcsAssumption
    <3>2. ASSUME NEW p \in Procs, NEW next, Reset(p, next) PROVE Served'
      BY <3>2, SwapKeepsServed DEF Reset
    <3>3. CASE /\ UNCHANGED <<client, network, inbox, panicked, cont, held,
                              sess, grab, assoc>>
               /\ Goto(Main, "done") \/ Goto(Main, "attempt")
      <4>1. \A l \in Loops : pc'[l] = pc[l] /\ cont'[l] = cont[l]
        BY <3>1, <3>3 DEF TypeOK, Procs
      <4>2. QED BY <4>1, <3>3 DEF Served, client
    <3>4. QED
      BY <2>11, <3>2, <3>3
         DEF Attempt, ResetAfterEnsure, Failed, StopReset, Procs
  <2>12. ASSUME ConnectTLS \/ ConnectQUIC \/ StoreQUIC \/ RunEnds \/ Stop
         PROVE  Served'
    <3>1. Main \notin Loops /\ Stopper \notin Loops
      BY ProcsAssumption
    <3>2. /\ UNCHANGED <<handlers, loopActive>>
          /\ \A l \in Loops : pc'[l] = pc[l] /\ cont'[l] = cont[l]
      BY <2>12, <3>1
         DEF ConnectTLS, ConnectQUIC, StoreQUIC, RunEnds, Stop, client, TypeOK,
             Procs
    <3>3. QED BY <3>2 DEF Served
  <2>13. CASE NetworkStep \/ UNCHANGED vars
    BY <2>13 DEF NetworkStep, LoseLink, LoseSession, vars, client, Served
  <2>14. QED
    BY <2>1, <2>2, <2>3, <2>4, <2>5, <2>6, <2>7, <2>8, <2>9, <2>10, <2>11,
       <2>12, <2>13, NextCases
<1>3. TypeOK /\ Served => HandlersAreServed
  BY DEF Served, HandlersAreServed, Registered, LoopAlive
<1>4. QED BY <1>1, <1>2, <1>3, TypeCorrect, PTL DEF Spec

-----------------------------------------------------------------------------
(* No incoming channel is forgotten, as long as ids do not wrap: then the   *)
(* entry that Register writes is empty, and everything else that empties an *)
(* entry or closes a channel accounts for it.                               *)

\* Only a goroutine that is about to close them holds incoming channels.
HeldToClose ==
  \A p \in Procs : grab[p] # {} => pc[p] \in {"finish", "release"}

OpenIsKept ==
  \A h \in Inboxes : inbox[h] = "open" =>
    (\E i \in IDs : handlers[i] = h) \/ (\E p \in Procs : h \in grab[p])

\* Ids are given out in order, one for every incoming channel that was made.
Used == {h \in Inboxes : inbox[h] # "unused"}

IdsInOrder ==
  /\ Cardinality(Used) = nextID
  /\ \A i \in IDs : i > nextID => handlers[i] = None

Kept == HeldToClose /\ OpenIsKept

\* Taking entries S out of the map.
LEMMA TakeKeepsOpen ==
  ASSUME TypeOK, Kept, NEW p \in Procs, pc[p] \notin {"finish", "release"},
         NEW S \in SUBSET IDs,
         handlers' = [i \in IDs |-> IF i \in S THEN None ELSE handlers[i]],
         grab' = [grab EXCEPT ![p] = {handlers[i] : i \in S} \ {None}],
         UNCHANGED inbox
  PROVE  OpenIsKept'
<1> SUFFICES ASSUME NEW h \in Inboxes, inbox[h] = "open"
             PROVE  \/ \E i \in IDs : handlers'[i] = h
                    \/ \E q \in Procs : h \in grab'[q]
  BY DEF OpenIsKept
<1>1. grab[p] = {}
  BY DEF Kept, HeldToClose
<1>2. \A q \in Procs : q # p => grab'[q] = grab[q]
  BY DEF TypeOK
<1>3. CASE \E i \in IDs : handlers[i] = h
  <2>1. PICK i \in IDs : handlers[i] = h
    BY <1>3
  <2>2. CASE i \in S
    <3>1. h \in grab'[p]
      BY <2>1, <2>2, DataAssumption DEF TypeOK
    <3>2. QED BY <3>1
  <2>3. CASE i \notin S
    BY <2>1, <2>3
  <2>4. QED BY <2>2, <2>3
<1>4. CASE \E q \in Procs : h \in grab[q]
  BY <1>1, <1>2, <1>4
<1>5. QED BY <1>3, <1>4 DEF Kept, OpenIsKept

LEMMA UnregisterKeepsOpen ==
  ASSUME TypeOK, Kept, NEW p \in Procs, pc[p] \notin {"finish", "release"},
         NEW i \in IDs, Unregister(p, i), UNCHANGED inbox
  PROVE  OpenIsKept'
<1>1. handlers' = [j \in IDs |-> IF j \in {i} THEN None ELSE handlers[j]]
  BY DEF Unregister, TypeOK
<1>2. {handlers[j] : j \in {i}} = {handlers[i]}
  OBVIOUS
<1>3. grab' = [grab EXCEPT ![p] = {handlers[j] : j \in {i}} \ {None}]
  BY <1>2 DEF Unregister
<1>4. {i} \in SUBSET IDs
  OBVIOUS
<1>5. QED BY <1>1, <1>3, <1>4, TakeKeepsOpen

LEMMA SwapKeepsOpen ==
  ASSUME TypeOK, Kept, NEW p \in Procs, pc[p] \notin {"finish", "release"},
         SwapChannel(p), UNCHANGED inbox
  PROVE  OpenIsKept'
<1>1. handlers' = [j \in IDs |-> IF j \in IDs THEN None ELSE handlers[j]]
  BY DEF SwapChannel, NoHandlers
<1>2. grab' = [grab EXCEPT ![p] = {handlers[j] : j \in IDs} \ {None}]
  BY DEF SwapChannel, Registered
<1>3. QED BY <1>1, <1>2, TakeKeepsOpen

\* Nothing but Register and the closing of what was taken moves a channel.
LEMMA KeptUnchanged ==
  ASSUME TypeOK, Kept, UNCHANGED <<handlers, inbox, grab>>, NEW p \in Procs,
         pc[p] \notin {"finish", "release"},
         \A q \in Procs : q # p => pc'[q] = pc[q]
  PROVE  Kept'
<1>1. grab[p] = {}
  BY DEF Kept, HeldToClose
<1>2. QED BY <1>1 DEF Kept, HeldToClose, OpenIsKept

LEMMA CloseKeepsKept ==
  ASSUME TypeOK, Kept, NEW p \in Procs, CloseInboxes(grab[p]),
         grab' = [grab EXCEPT ![p] = {}], UNCHANGED handlers,
         \A q \in Procs : q # p => pc'[q] = pc[q]
  PROVE  Kept'
<1>1. \A q \in Procs : grab'[q] = IF q = p THEN {} ELSE grab[q]
  BY DEF TypeOK
<1>2. HeldToClose'
  BY <1>1 DEF Kept, HeldToClose
<1>3. OpenIsKept'
  <2> SUFFICES ASSUME NEW h \in Inboxes, inbox'[h] = "open"
               PROVE  \/ \E i \in IDs : handlers[i] = h
                      \/ \E q \in Procs : h \in grab'[q]
    BY DEF OpenIsKept
  <2>1. h \notin grab[p] /\ inbox[h] = "open"
    BY DEF CloseInboxes
  <2>2. QED BY <2>1, <1>1 DEF Kept, OpenIsKept
<1>4. QED BY <1>2, <1>3 DEF Kept

LEMMA RegisterKeepsKept ==
  ASSUME TypeOK, Kept, NEW c \in Callers, NEW h \in Inboxes, Register(c, h),
         handlers[nextID'] = None
  PROVE  Kept'
<1>1. /\ handlers' = [handlers EXCEPT ![nextID'] = h]
      /\ inbox' = [inbox EXCEPT ![h] = "open"] /\ grab' = grab
      /\ pc[c] = "register"
  BY DEF Register
<1>2. nextID' \in IDs
  BY DataAssumption DEF Register, IDAfter, TypeOK, IDs
<1>3. \A q \in Procs : pc[q] \in {"finish", "release"} => pc'[q] = pc[q]
  BY <1>1 DEF Register, Goto, TypeOK
<1>4. HeldToClose'
  BY <1>1, <1>3 DEF Kept, HeldToClose
<1>5. handlers'[nextID'] = h
  BY <1>1, <1>2 DEF TypeOK
<1>6. \A i \in IDs : handlers[i] # None => handlers'[i] = handlers[i]
  BY <1>1, <1>2 DEF TypeOK
<1>7. OpenIsKept'
  <2> SUFFICES ASSUME NEW g \in Inboxes, inbox'[g] = "open"
               PROVE  \/ \E i \in IDs : handlers'[i] = g
                      \/ \E q \in Procs : g \in grab'[q]
    BY DEF OpenIsKept
  <2>1. CASE g = h
    BY <2>1, <1>2, <1>5
  <2>2. CASE g # h
    <3>1. inbox[g] = "open"
      BY <2>2, <1>1 DEF TypeOK
    <3>2. CASE \E i \in IDs : handlers[i] = g
      BY <3>2, <1>6, DataAssumption
    <3>3. CASE \E q \in Procs : g \in grab[q]
      BY <3>3, <1>1
    <3>4. QED BY <3>1, <3>2, <3>3 DEF Kept, OpenIsKept
  <2>3. QED BY <2>1, <2>2
<1>8. QED BY <1>4, <1>7 DEF Kept

\* No channel is made unused again, and an id past the last one given out is
\* not in the map.
LEMMA OrderKept ==
  ASSUME TypeOK, IdsInOrder, UNCHANGED nextID,
         \A h \in Inboxes : (inbox'[h] = "unused") <=> (inbox[h] = "unused"),
         \A i \in IDs : handlers'[i] \in {handlers[i], None}
  PROVE  IdsInOrder'
<1>1. Used' = Used
  BY DEF Used
<1>2. QED BY <1>1 DEF IdsInOrder

LEMMA CloseKeepsOrder ==
  ASSUME TypeOK, Ownership, IdsInOrder, NEW p \in Procs,
         CloseInboxes(grab[p]), UNCHANGED <<nextID, handlers>>
  PROVE  IdsInOrder'
<1>1. \A h \in grab[p] : inbox[h] = "open"
  BY DEF Ownership, TakenAreOpen
<1>2. \A h \in Inboxes : inbox'[h] = IF h \in grab[p] THEN "closed" ELSE inbox[h]
  BY DEF CloseInboxes
<1>3. QED BY <1>1, <1>2, OrderKept

\* With an id left, Register writes to an entry that is empty.
LEMMA RegisterKeepsOrder ==
  ASSUME TypeOK, IdsInOrder, NEW c \in Callers, NEW h \in Inboxes,
         Register(c, h),
         IsFiniteSet(Inboxes), Cardinality(Inboxes) <= MaxAssocID
  PROVE  IdsInOrder' /\ handlers[nextID'] = None
<1>1. /\ inbox[h] = "unused" /\ inbox' = [inbox EXCEPT ![h] = "open"]
      /\ handlers' = [handlers EXCEPT ![nextID'] = h]
      /\ nextID' = IDAfter(nextID)
  BY DEF Register
<1>2. Used \in SUBSET Inboxes /\ h \notin Used /\ Used' = Used \cup {h}
  BY <1>1 DEF Used, TypeOK
<1>3. IsFiniteSet(Used)
  BY <1>2, FS_Subset
<1>4. /\ IsFiniteSet(Used')
      /\ Cardinality(Used') = Cardinality(Used) + 1
  BY <1>2, <1>3, FS_AddElement
<1>5. Used' \in SUBSET Inboxes
  BY <1>2
<1>6. Cardinality(Used') <= Cardinality(Inboxes)
  BY <1>5, FS_Subset
<1>7. Cardinality(Inboxes) \in Nat /\ Cardinality(Used) \in Nat
  BY <1>3, FS_CardinalityType
<1>8. nextID' = nextID + 1 /\ nextID' \in IDs
  BY <1>1, <1>4, <1>6, <1>7, DataAssumption DEF IdsInOrder, IDAfter, IDs
<1>9. handlers[nextID'] = None
  BY <1>7, <1>8 DEF IdsInOrder
<1>10. \A i \in IDs : i > nextID' => handlers'[i] = None
  BY <1>1, <1>7, <1>8 DEF IdsInOrder, TypeOK, IDs
<1>11. QED BY <1>4, <1>8, <1>9, <1>10 DEF IdsInOrder

\* While the ids have not been used up, no incoming channel is forgotten,
\* however associations end: an open one is in udpHandlers or about to be
\* closed by the goroutine that took it out.
THEOREM NoneForgotten ==
  ASSUME IsFiniteSet(Inboxes), Cardinality(Inboxes) <= MaxAssocID
  PROVE  Spec => []NoInboxIsForgotten
<1>1. Init => Kept /\ IdsInOrder
  <2> SUFFICES ASSUME Init PROVE Kept /\ IdsInOrder
    OBVIOUS
  <2>1. Used = {} /\ nextID = 0 /\ \A i \in IDs : handlers[i] = None
    BY DEF Init, Used, NoHandlers
  <2>2. IdsInOrder
    BY <2>1, FS_EmptySet DEF IdsInOrder
  <2>3. Kept
    BY DEF Init, Kept, HeldToClose, OpenIsKept
  <2>4. QED BY <2>2, <2>3
<1>2. TypeOK /\ Ownership /\ Kept /\ IdsInOrder /\ [Next]_vars
        => Kept' /\ IdsInOrder'
  <2> SUFFICES ASSUME TypeOK, Ownership, Kept, IdsInOrder, [Next]_vars
               PROVE  Kept' /\ IdsInOrder'
    OBVIOUS
  <2> DEFINE Quiet == UNCHANGED <<handlers, inbox, grab, nextID>>
  <2>1. ASSUME NEW p \in Procs, Quiet, pc[p] \notin {"finish", "release"},
               \A q \in Procs : q # p => pc'[q] = pc[q]
        PROVE  Kept' /\ IdsInOrder'
    <3>1. Kept'
      BY <2>1, KeptUnchanged
    <3>2. IdsInOrder'
      BY <2>1, OrderKept
    <3>3. QED BY <3>1, <3>2
  <2>2. ASSUME NEW p \in Procs, EnsureCheck(p) \/ DialFails(p) \/ Install(p)
        PROVE  Kept' /\ IdsInOrder'
    <3>1. Quiet
      BY <2>2
         DEF EnsureCheck, DialFails, Install, InstallTLS, InstallQUIC, client
    <3>2. pc[p] \notin {"finish", "release"}
      BY <2>2
         DEF EnsureCheck, DialFails, Install, InstallTLS, InstallQUIC
    <3>3. \A q \in Procs : q # p => pc'[q] = pc[q]
      BY <2>2 DEF EnsureCheck, DialFails, Install, Goto, TypeOK
    <3>4. QED BY <2>1, <3>1, <3>2, <3>3
  <2>3. ASSUME NEW p \in Procs, NEW k \in Links, DialSucceeds(p, k)
        PROVE  Kept' /\ IdsInOrder'
    <3>1. Quiet /\ pc[p] \notin {"finish", "release"}
      BY <2>3 DEF DialSucceeds, client
    <3>2. \A q \in Procs : q # p => pc'[q] = pc[q]
      BY <2>3 DEF DialSucceeds, Goto, TypeOK
    <3>3. QED BY <2>1, <3>1, <3>2
  <2>4. ASSUME NEW p \in Procs, Release(p) \/ FinishClose(p)
        PROVE  Kept' /\ IdsInOrder'
    <3>1. /\ CloseInboxes(grab[p]) /\ UNCHANGED <<handlers, nextID>>
          /\ grab' = [grab EXCEPT ![p] = {}]
          /\ \A q \in Procs : q # p => pc'[q] = pc[q]
      BY <2>4 DEF Release, FinishClose, Goto, TypeOK, client
    <3>2. Kept'
      BY <3>1, CloseKeepsKept
    <3>3. IdsInOrder'
      BY <3>1, CloseKeepsOrder
    <3>4. QED BY <3>2, <3>3
  <2>5. ASSUME NEW c \in Callers, Open(c) \/ Send(c) \/ Capture(c) \/ Write(c)
        PROVE  Kept' /\ IdsInOrder'
    <3>1. Quiet /\ pc[c] \notin {"finish", "release"} /\ c \in Procs
      BY <2>5 DEF Open, Send, Capture, Write, client, Procs
    <3>2. \A q \in Procs : q # c => pc'[q] = pc[q]
      BY <2>5 DEF Open, Send, Capture, Write, Goto, TypeOK
    <3>3. QED BY <2>1, <3>1, <3>2
  <2>6. ASSUME NEW p \in Procs, NEW i \in IDs, Unregister(p, i),
               UNCHANGED <<inbox, nextID>>, pc[p] \notin {"finish", "release"},
               pc' = [pc EXCEPT ![p] = "finish"]
        PROVE  Kept' /\ IdsInOrder'
    <3>1. OpenIsKept'
      BY <2>6, UnregisterKeepsOpen
    <3>2. HeldToClose'
      BY <2>6 DEF Unregister, Kept, HeldToClose, TypeOK
    <3>3. IdsInOrder'
      BY <2>6, OrderKept DEF Unregister, TypeOK
    <3>4. QED BY <3>1, <3>2, <3>3 DEF Kept
  <2>7. ASSUME NEW c \in Callers, Close(c) PROVE Kept' /\ IdsInOrder'
    <3>1. assoc[c] \in IDs /\ c \in Procs
      BY DEF TypeOK, Procs
    <3>2. QED BY <2>6, <2>7, <3>1 DEF Close, Goto
  <2>8. ASSUME NEW l \in Loops, NEW i \in IDs, LoopCloseFrame(l, i)
        PROVE  Kept' /\ IdsInOrder'
    BY <2>6, <2>8 DEF LoopCloseFrame, Goto, Procs
  <2>9. ASSUME NEW c \in Callers, NEW h \in Inboxes, Register(c, h)
        PROVE  Kept' /\ IdsInOrder'
    BY <2>9, RegisterKeepsOrder, RegisterKeepsKept
  <2>10. ASSUME NEW l \in Loops, LoopTop(l) \/ LoopFrame(l) \/ LoopError(l)
         PROVE  Kept' /\ IdsInOrder'
    <3>1. Quiet /\ pc[l] \notin {"finish", "release"} /\ l \in Procs
      BY <2>10 DEF LoopTop, LoopFrame, LoopError, client, Procs
    <3>2. \A q \in Procs : q # l => pc'[q] = pc[q]
      BY <2>10 DEF LoopTop, LoopFrame, LoopError, Goto, TypeOK
    <3>3. QED BY <2>1, <3>1, <3>2
  <2>11. ASSUME NEW p \in Procs, SwapChannel(p), UNCHANGED <<inbox, nextID>>,
                pc[p] \notin {"finish", "release"},
                pc' = [pc EXCEPT ![p] = "release"]
         PROVE  Kept' /\ IdsInOrder'
    <3>1. OpenIsKept'
      BY <2>11, SwapKeepsOpen
    <3>2. HeldToClose'
      BY <2>11 DEF SwapChannel, Kept, HeldToClose, TypeOK
    <3>3. IdsInOrder'
      BY <2>11, OrderKept DEF SwapChannel, NoHandlers
    <3>4. QED BY <3>1, <3>2, <3>3 DEF Kept
  <2>12. ASSUME NEW l \in Loops, Drop(l) PROVE Kept' /\ IdsInOrder'
    BY <2>11, <2>12 DEF Drop, Goto, Procs
  <2>13. ASSUME Attempt \/ ResetAfterEnsure \/ Failed \/ StopReset
         PROVE  Kept' /\ IdsInOrder'
    <3>1. Main \in Procs /\ Stopper \in Procs
      BY DEF Procs
    <3>2. ASSUME NEW p \in Procs, NEW next, Reset(p, next),
                 pc[p] \notin {"finish", "release"}
          PROVE  Kept' /\ IdsInOrder'
      BY <2>11, <3>2 DEF Reset, Goto
    <3>3. CASE StopReset
      BY <3>1, <3>2, <3>3 DEF StopReset
    <3>4. CASE Attempt \/ ResetAfterEnsure \/ Failed
      <4>1. pc[Main] \notin {"finish", "release"}
        BY <3>4 DEF Attempt, ResetAfterEnsure, Failed
      <4>2. CASE Reset(Main, "connect") \/ Reset(Main, "failed")
                 \/ Reset(Main, "attempt")
        BY <3>1, <3>2, <4>1, <4>2
      <4>3. CASE Quiet /\ (Goto(Main, "done") \/ Goto(Main, "attempt"))
        <5>1. \A q \in Procs : q # Main => pc'[q] = pc[q]
          BY <4>3 DEF Goto, TypeOK
        <5>2. QED BY <2>1, <3>1, <4>1, <4>3, <5>1
      <4>4. QED
        BY <3>4, <4>2, <4>3 DEF Attempt, ResetAfterEnsure, Failed, client
    <3>5. QED BY <2>13, <3>3, <3>4
  <2>14. ASSUME ConnectTLS \/ ConnectQUIC \/ StoreQUIC \/ RunEnds
         PROVE  Kept' /\ IdsInOrder'
    <3>1. Quiet /\ pc[Main] \notin {"finish", "release"} /\ Main \in Procs
      BY <2>14 DEF ConnectTLS, ConnectQUIC, StoreQUIC, RunEnds, client, Procs
    <3>2. \A q \in Procs : q # Main => pc'[q] = pc[q]
      BY <2>14 DEF ConnectTLS, ConnectQUIC, StoreQUIC, RunEnds, Goto, TypeOK
    <3>3. QED BY <2>1, <3>1, <3>2
  <2>15. ASSUME Stop PROVE Kept' /\ IdsInOrder'
    <3>1. Quiet /\ pc[Stopper] \notin {"finish", "release"}
               /\ Stopper \in Procs
      BY <2>15 DEF Stop, Procs
    <3>2. \A q \in Procs : q # Stopper => pc'[q] = pc[q]
      BY <2>15 DEF Stop, Goto, TypeOK
    <3>3. QED BY <2>1, <3>1, <3>2
  <2>16. CASE NetworkStep \/ UNCHANGED vars
    <3>1. UNCHANGED <<handlers, inbox, grab, nextID, pc>>
      BY <2>16 DEF NetworkStep, LoseLink, LoseSession, vars, client
    <3>2. Kept'
      BY <3>1 DEF Kept, HeldToClose, OpenIsKept
    <3>3. IdsInOrder'
      BY <3>1, OrderKept
    <3>4. QED BY <3>2, <3>3
  <2>17. QED
    BY <2>2, <2>3, <2>4, <2>5, <2>7, <2>8, <2>9, <2>10, <2>12, <2>13, <2>14,
       <2>15, <2>16, NextCases
<1>3. TypeOK /\ Kept => NoInboxIsForgotten
  <2> SUFFICES ASSUME TypeOK, Kept, NEW h \in Inboxes, inbox[h] = "open"
               PROVE  \/ h \in Registered
                      \/ \E p \in Procs : h \in grab[p]
                                          /\ pc[p] \in {"finish", "release"}
    BY DEF NoInboxIsForgotten
  <2>1. CASE \E i \in IDs : handlers[i] = h
    BY <2>1, DataAssumption DEF Registered
  <2>2. CASE \E p \in Procs : h \in grab[p]
    BY <2>2 DEF Kept, HeldToClose
  <2>3. QED BY <2>1, <2>2 DEF Kept, OpenIsKept
<1>4. QED BY <1>1, <1>2, <1>3, TypeCorrect, Owned, PTL DEF Spec

-----------------------------------------------------------------------------
(* With QUIC servers only, EnsurePersistentChannel checks twice before it   *)
(* installs a stream.  Then no stream is forgotten, and every frame loop    *)
(* reads the stream the client writes to.                                  *)

\* A goroutine that dials has a QUIC connection to dial over.
Dialing ==
  /\ active => quicConn # None
  /\ \A p \in Procs : pc[p] \in {"dial", "install", "dialed"} => sess[p] # None

\* What is held or current has been opened.
Opened ==
  /\ channel # None => link[channel] # "unused"
  /\ \A p \in Procs : held[p] # None => link[held[p]] # "unused"

Waiting == \A p \in Procs : pc[p] \in {"read", "install"} => held[p] # None

Streams ==
  Dialing /\ Opened /\ Waiting /\ NoLinkIsForgotten /\ ReaderIsCurrent

\* One goroutine moves, and leaves the shared fields and the network alone.
LEMMA LocalKeepsStreams ==
  ASSUME TypeOK, Streams, NEW p \in Procs,
         UNCHANGED <<channel, quicConn, active, link>>,
         pc[p] \notin {"install", "release"}, pc'[p] # "install",
         \A q \in Procs : q # p =>
            pc'[q] = pc[q] /\ held'[q] = held[q] /\ sess'[q] = sess[q],
         held'[p] \in {None, held[p], channel},
         pc'[p] = "read" => channel # None /\ held'[p] = channel,
         pc'[p] \in {"dial", "dialed"} => sess'[p] # None
  PROVE  Streams'
<1> USE DEF Streams
<1>1. Dialing'
  BY DEF Dialing
<1>2. Opened'
  BY DEF Opened
<1>3. Waiting'
  BY DEF Waiting
<1>4. NoLinkIsForgotten'
  BY DEF NoLinkIsForgotten
<1>5. ReaderIsCurrent'
  <2> SUFFICES ASSUME NEW l \in Loops, pc'[l] = "read", link[held'[l]] = "up"
               PROVE  \/ held'[l] = channel
                      \/ \E q \in Procs : held'[q] = held'[l]
                                            /\ pc'[q] = "release"
    BY DEF ReaderIsCurrent
  <2>1. l \in Procs
    BY DEF Procs
  <2>2. CASE l = p
    BY <2>2
  <2>3. CASE l # p
    BY <2>1, <2>3 DEF ReaderIsCurrent
  <2>4. QED BY <2>2, <2>3
<1>6. QED BY <1>1, <1>2, <1>3, <1>4, <1>5

\* Links go down, and everything else is left alone.
LEMMA LossKeepsStreams ==
  ASSUME TypeOK, Streams,
         UNCHANGED <<channel, quicConn, active, pc, held, sess>>,
         \A k \in Links : /\ link'[k] = "up" => link[k] = "up"
                          /\ link'[k] = "unused" => link[k] = "unused"
  PROVE  Streams'
<1> USE DEF Streams
<1>1. Dialing' /\ Waiting'
  BY DEF Dialing, Waiting
<1>2. Opened'
  BY DEF Opened, TypeOK
<1>3. NoLinkIsForgotten'
  BY DEF NoLinkIsForgotten
<1>4. ReaderIsCurrent'
  <2> SUFFICES ASSUME NEW l \in Loops, pc[l] = "read", link'[held[l]] = "up"
               PROVE  \/ held[l] = channel
                      \/ \E q \in Procs : held[q] = held[l]
                                            /\ pc[q] = "release"
    BY DEF ReaderIsCurrent
  <2>1. l \in Procs
    BY DEF Procs
  <2>2. held[l] \in Links
    BY <2>1 DEF Waiting, TypeOK
  <2>3. QED BY <2>2 DEF ReaderIsCurrent
<1>5. QED BY <1>1, <1>2, <1>3, <1>4

\* A new stream is held by whoever dialled it.
LEMMA DialKeepsStreams ==
  ASSUME TypeOK, Streams, NEW p \in Procs, NEW k \in Links, DialSucceeds(p, k)
  PROVE  Streams'
<1> USE DEF Streams
<1>1. /\ link[k] = "unused" /\ pc[p] = "dial"
      /\ UNCHANGED <<channel, quicConn, active, sess>>
      /\ \A j \in Links : link'[j] = IF j = k THEN "up" ELSE link[j]
      /\ \A q \in Procs : /\ held'[q] = IF q = p THEN k ELSE held[q]
                          /\ pc'[q] = IF q = p THEN "install" ELSE pc[q]
  BY DEF DialSucceeds, Goto, TypeOK, client
<1>2. k # None
  BY DataAssumption
<1>3. Dialing'
  BY <1>1 DEF Dialing
<1>4. Opened'
  <2>1. channel # None => channel \in Links
    BY DEF TypeOK
  <2>2. \A q \in Procs : held[q] # None => held[q] \in Links
    BY DEF TypeOK
  <2>3. QED BY <1>1, <2>1, <2>2 DEF Opened
<1>5. Waiting'
  BY <1>1, <1>2 DEF Waiting
<1>6. NoLinkIsForgotten'
  BY <1>1 DEF NoLinkIsForgotten
<1>7. ReaderIsCurrent'
  <2> SUFFICES ASSUME NEW l \in Loops, pc'[l] = "read", link'[held'[l]] = "up"
               PROVE  \/ held'[l] = channel'
                      \/ \E q \in Procs : held'[q] = held'[l]
                                            /\ pc'[q] = "release"
    BY DEF ReaderIsCurrent
  <2>1. l \in Procs
    BY DEF Procs
  <2>2. l # p /\ pc[l] = "read" /\ held'[l] = held[l]
    BY <1>1, <2>1
  <2>3. held[l] \in Links /\ link[held[l]] # "unused"
    BY <2>1, <2>2 DEF Waiting, Opened, TypeOK
  <2>4. link[held[l]] = "up"
    BY <1>1, <2>2, <2>3
  <2>5. \/ held[l] = channel
        \/ \E q \in Procs : held[q] = held[l] /\ pc[q] = "release"
    BY <2>2, <2>4 DEF ReaderIsCurrent
  <2>6. QED BY <1>1, <2>2, <2>5
<1>8. QED BY <1>3, <1>4, <1>5, <1>6, <1>7

\* Whoever finds a channel installed closes its own stream.
LEMMA InstallKeepsStreams ==
  ASSUME TypeOK, Streams, NEW p \in Procs, Install(p)
  PROVE  Streams'
<1> USE DEF Streams
<1>1. pc[p] = "install" /\ sess[p] # None /\ InstallQUIC(p)
  BY DEF Install, InstallTLS, InstallQUIC, Dialing
<1>2. held[p] \in Links
  BY <1>1 DEF Waiting, TypeOK
<1>3. /\ UNCHANGED <<quicConn, active>>
      /\ pc'[p] \notin {"dial", "install", "dialed", "read", "release"}
      /\ held'[p] = None
      /\ \A q \in Procs : q # p =>
           pc'[q] = pc[q] /\ held'[q] = held[q] /\ sess'[q] = sess[q]
  BY <1>1 DEF Install, InstallQUIC, Goto, TypeOK
<1>4. Dialing' /\ Waiting'
  BY <1>3 DEF Dialing, Waiting
<1>5. CASE channel = None
  <2>1. channel' = held[p] /\ link' = link
    BY <1>1, <1>5 DEF InstallQUIC, network
  <2>2. Opened'
    BY <1>2, <1>3, <2>1, DataAssumption DEF Opened
  <2>3. NoLinkIsForgotten'
    BY <1>3, <1>5, <2>1, DataAssumption DEF NoLinkIsForgotten
  <2>4. ReaderIsCurrent'
    <3> SUFFICES ASSUME NEW l \in Loops, pc'[l] = "read", link[held'[l]] = "up"
                 PROVE  \E q \in Procs : held'[q] = held'[l]
                                           /\ pc'[q] = "release"
      BY <2>1 DEF ReaderIsCurrent
    <3>1. l \in Procs /\ l # p
      BY <1>3 DEF Procs
    <3>2. pc[l] = "read" /\ held'[l] = held[l] /\ held[l] # None
      BY <1>3, <3>1 DEF Waiting
    <3>3. PICK q \in Procs : held[q] = held[l] /\ pc[q] = "release"
      BY <1>5, <3>2 DEF ReaderIsCurrent
    <3>4. QED BY <1>1, <1>3, <3>2, <3>3
  <2>5. QED BY <1>4, <2>2, <2>3, <2>4
<1>6. CASE channel # None
  <2>1. /\ channel' = channel
        /\ \A k \in Links : link'[k] = IF k = held[p] THEN "closed" ELSE link[k]
    BY <1>1, <1>2, <1>6, DataAssumption DEF InstallQUIC, CloseLinks, TypeOK
  <2>2. Opened'
    <3>1. channel \in Links
      BY <1>6 DEF TypeOK
    <3>2. \A q \in Procs : held[q] # None => held[q] \in Links
      BY DEF TypeOK
    <3>3. QED BY <1>3, <2>1, <3>1, <3>2 DEF Opened
  <2>3. NoLinkIsForgotten'
    BY <1>1, <1>3, <2>1 DEF NoLinkIsForgotten
  <2>4. ReaderIsCurrent'
    <3> SUFFICES ASSUME NEW l \in Loops, pc'[l] = "read", link'[held'[l]] = "up"
                 PROVE  \/ held'[l] = channel
                        \/ \E q \in Procs : held'[q] = held'[l]
                                              /\ pc'[q] = "release"
      BY <2>1 DEF ReaderIsCurrent
    <3>1. l \in Procs /\ l # p
      BY <1>3 DEF Procs
    <3>2. pc[l] = "read" /\ held'[l] = held[l] /\ held[l] \in Links
      BY <1>3, <3>1 DEF Waiting, TypeOK
    <3>3. link[held[l]] = "up"
      BY <2>1, <3>2
    <3>4. \/ held[l] = channel
          \/ \E q \in Procs : held[q] = held[l] /\ pc[q] = "release"
      BY <3>2, <3>3 DEF ReaderIsCurrent
    <3>5. QED BY <1>1, <1>3, <3>2, <3>4
  <2>5. QED BY <1>4, <2>2, <2>3, <2>4
<1>7. QED BY <1>5, <1>6

\* What is taken out of the fields is held until it is closed.
LEMMA SwapKeepsStreams ==
  ASSUME TypeOK, Streams, NEW p \in Procs, SwapChannel(p), UNCHANGED link,
         pc[p] \notin {"install", "release"},
         pc' = [pc EXCEPT ![p] = "release"],
         active' => quicConn' # None,
         \A q \in Procs : q # p => sess'[q] = sess[q]
  PROVE  Streams'
<1> USE DEF Streams
<1>1. /\ channel' = None
      /\ \A q \in Procs : /\ held'[q] = IF q = p THEN channel ELSE held[q]
                          /\ pc'[q] = IF q = p THEN "release" ELSE pc[q]
  BY DEF SwapChannel, TypeOK
<1>2. Dialing' /\ Opened' /\ Waiting'
  BY <1>1 DEF Dialing, Opened, Waiting
<1>3. NoLinkIsForgotten'
  BY <1>1 DEF NoLinkIsForgotten
<1>4. ReaderIsCurrent'
  <2> SUFFICES ASSUME NEW l \in Loops, pc'[l] = "read", link[held'[l]] = "up"
               PROVE  \E q \in Procs : held'[q] = held'[l]
                                         /\ pc'[q] = "release"
    BY DEF ReaderIsCurrent
  <2>1. l \in Procs /\ l # p
    BY <1>1 DEF Procs
  <2>2. pc[l] = "read" /\ held'[l] = held[l]
    BY <1>1, <2>1
  <2>3. \/ held[l] = channel
        \/ \E q \in Procs : held[q] = held[l] /\ pc[q] = "release"
    BY <2>2 DEF ReaderIsCurrent
  <2>4. QED BY <1>1, <2>2, <2>3
<1>5. QED BY <1>2, <1>3, <1>4

\* Closing what was taken leaves no reader on a live stream.
LEMMA ReleaseKeepsStreams ==
  ASSUME TypeOK, Streams, NEW p \in Procs, Release(p)
  PROVE  Streams'
<1> USE DEF Streams
<1>1. /\ UNCHANGED <<channel, quicConn, active>>
      /\ pc[p] = "release" /\ held'[p] = None
      /\ pc'[p] \notin {"dial", "install", "dialed", "read", "release"}
      /\ \A q \in Procs : q # p =>
           pc'[q] = pc[q] /\ held'[q] = held[q] /\ sess'[q] = sess[q]
  BY DEF Release, Goto, TypeOK, client
<1>2. \A k \in Links : /\ link'[k] = "up" => link[k] = "up" /\ k # held[p]
                       /\ link'[k] = "unused" => link[k] = "unused"
  BY DataAssumption DEF Release, CloseLinks
<1>3. Dialing' /\ Waiting'
  BY <1>1 DEF Dialing, Waiting
<1>4. Opened'
  <2>1. channel # None => channel \in Links
    BY DEF TypeOK
  <2>2. \A q \in Procs : held[q] # None => held[q] \in Links
    BY DEF TypeOK
  <2>3. QED BY <1>1, <1>2, <2>1, <2>2 DEF Opened
<1>5. NoLinkIsForgotten'
  BY <1>1, <1>2 DEF NoLinkIsForgotten
<1>6. ReaderIsCurrent'
  <2> SUFFICES ASSUME NEW l \in Loops, pc'[l] = "read", link'[held'[l]] = "up"
               PROVE  \/ held'[l] = channel
                      \/ \E q \in Procs : held'[q] = held'[l]
                                            /\ pc'[q] = "release"
    BY <1>1 DEF ReaderIsCurrent
  <2>1. l \in Procs /\ l # p
    BY <1>1 DEF Procs
  <2>2. pc[l] = "read" /\ held'[l] = held[l] /\ held[l] \in Links
    BY <1>1, <2>1 DEF Waiting, TypeOK
  <2>3. link[held[l]] = "up" /\ held[l] # held[p]
    BY <1>2, <2>2
  <2>4. \/ held[l] = channel
        \/ \E q \in Procs : held[q] = held[l] /\ pc[q] = "release"
    BY <2>2, <2>3 DEF ReaderIsCurrent
  <2>5. QED BY <1>1, <2>2, <2>3, <2>4
<1>7. QED BY <1>3, <1>4, <1>5, <1>6

\* Streams is an invariant when every server speaks QUIC: callers, frame loops,
\* connectLoop and Stop may interleave in any way.
LEMMA StreamsKept ==
  ASSUME "tls" \notin Candidates
  PROVE  Spec => []Streams
<1>1. Init => Streams
  <2> SUFFICES ASSUME Init PROVE Streams
    OBVIOUS
  <2>1. /\ channel = None /\ active = FALSE
        /\ \A p \in Procs : held[p] = None /\ pc[p] \in {"attempt", "idle"}
        /\ \A k \in Links : link[k] = "unused"
    BY DEF Init
  <2>2. Dialing
    BY <2>1 DEF Dialing
  <2>3. Opened /\ Waiting
    BY <2>1 DEF Opened, Waiting
  <2>4. NoLinkIsForgotten
    BY <2>1 DEF NoLinkIsForgotten
  <2>5. ReaderIsCurrent
    BY <2>1 DEF ReaderIsCurrent, Procs
  <2>6. QED BY <2>2, <2>3, <2>4, <2>5 DEF Streams
<1>2. TypeOK /\ Streams /\ [Next]_vars => Streams'
  <2> SUFFICES ASSUME TypeOK, Streams, [Next]_vars PROVE Streams'
    OBVIOUS
  <2>1. ASSUME NEW p \in Procs, EnsureCheck(p) PROVE Streams'
    <3>1. /\ UNCHANGED <<channel, quicConn, active, link, held>>
          /\ pc[p] = "ensure" /\ pc'[p] \notin {"install", "read", "dialed"}
          /\ pc'[p] = "dial" => sess'[p] # None
          /\ \A q \in Procs : q # p => pc'[q] = pc[q] /\ sess'[q] = sess[q]
      BY <2>1
         DEF EnsureCheck, Failure, Goto, TypeOK, client, network, Streams,
             Dialing
    <3>2. QED BY <3>1, LocalKeepsStreams
  <2>2. ASSUME NEW p \in Procs, DialFails(p) PROVE Streams'
    <3>1. /\ UNCHANGED <<channel, quicConn, active, link, held>>
          /\ pc[p] = "dial"
          /\ pc'[p] \notin {"install", "read", "dialed", "dial"}
          /\ \A q \in Procs : q # p => pc'[q] = pc[q] /\ sess'[q] = sess[q]
      BY <2>2 DEF DialFails, Failure, Goto, TypeOK, client, network
    <3>2. QED BY <3>1, LocalKeepsStreams
  <2>3. ASSUME NEW p \in Procs, Install(p) \/ Release(p) PROVE Streams'
    BY <2>3, InstallKeepsStreams, ReleaseKeepsStreams
  <2>4. ASSUME NEW p \in Procs, NEW k \in Links, DialSucceeds(p, k)
        PROVE  Streams'
    BY <2>4, DialKeepsStreams
  <2>5. ASSUME NEW p \in Procs, FinishClose(p) PROVE Streams'
    <3>1. /\ UNCHANGED <<channel, quicConn, active, link, sess>>
          /\ pc[p] = "finish" /\ held'[p] = None
          /\ pc'[p] \notin {"install", "read", "dialed", "dial"}
          /\ \A q \in Procs : q # p => pc'[q] = pc[q] /\ held'[q] = held[q]
      BY <2>5 DEF FinishClose, Goto, TypeOK, client, network
    <3>2. QED BY <3>1, LocalKeepsStreams
  <2>6. ASSUME NEW c \in Callers,
               Open(c) \/ Send(c) \/ Close(c) \/ Capture(c) \/ Write(c)
        PROVE  Streams'
    <3>1. /\ UNCHANGED <<channel, quicConn, active, link, sess>>
          /\ c \in Procs /\ pc[c] \notin {"install", "release"}
      BY <2>6 DEF Open, Send, Close, Capture, Write, client, network, Procs
    <3>2. /\ held'[c] \in {None, held[c], channel}
          /\ pc'[c] \notin {"install", "read", "dialed", "dial"}
          /\ \A q \in Procs : q # c => pc'[q] = pc[q] /\ held'[q] = held[q]
      BY <2>6, <3>1 DEF Open, Send, Close, Capture, Write, Goto, TypeOK
    <3>3. QED BY <3>1, <3>2, LocalKeepsStreams
  <2>7. ASSUME NEW c \in Callers, NEW h \in Inboxes, Register(c, h)
        PROVE  Streams'
    <3>1. UNCHANGED <<channel, quicConn, active, link, held, sess>>
      BY <2>7 DEF Register, network
    <3>2. \A q \in Procs :
            \/ pc'[q] = pc[q]
            \/ pc[q] \in {"register", "idle"} /\ pc'[q] \in {"open", "top"}
      BY <2>7 DEF Register, Goto, TypeOK
    <3>3. Dialing' /\ Opened' /\ Waiting'
      BY <3>1, <3>2 DEF Streams, Dialing, Opened, Waiting
    <3>4. NoLinkIsForgotten'
      BY <3>1, <3>2 DEF Streams, NoLinkIsForgotten
    <3>5. ReaderIsCurrent'
      BY <3>1, <3>2 DEF Streams, ReaderIsCurrent, Procs
    <3>6. QED BY <3>3, <3>4, <3>5 DEF Streams
  <2>8. ASSUME NEW l \in Loops, LoopTop(l) \/ LoopFrame(l) \/ LoopError(l)
        PROVE  Streams'
    <3>1. /\ UNCHANGED <<channel, quicConn, active, link, sess>>
          /\ l \in Procs /\ pc[l] \notin {"install", "release"}
      BY <2>8 DEF LoopTop, LoopFrame, LoopError, client, network, Procs
    <3>2. /\ held'[l] \in {None, held[l], channel}
          /\ pc'[l] \notin {"install", "dialed", "dial"}
          /\ pc'[l] = "read" => channel # None /\ held'[l] = channel
          /\ \A q \in Procs : q # l => pc'[q] = pc[q] /\ held'[q] = held[q]
      BY <2>8, <3>1 DEF LoopTop, LoopFrame, LoopError, Goto, TypeOK
    <3>3. QED BY <3>1, <3>2, LocalKeepsStreams
  <2>9. ASSUME NEW l \in Loops, Drop(l) PROVE Streams'
    <3>1. /\ l \in Procs /\ SwapChannel(l) /\ pc[l] = "drop"
          /\ pc' = [pc EXCEPT ![l] = "release"]
          /\ UNCHANGED <<link, active, quicConn, sess>>
      BY <2>9 DEF Drop, Goto, network, Procs
    <3>2. QED BY <3>1, SwapKeepsStreams DEF Streams, Dialing
  <2>10. ASSUME NEW l \in Loops, NEW i \in IDs, LoopCloseFrame(l, i)
         PROVE  Streams'
    <3>1. /\ UNCHANGED <<channel, quicConn, active, link, held, sess>>
          /\ l \in Procs /\ pc[l] = "read"
      BY <2>10 DEF LoopCloseFrame, network, Procs
    <3>2. /\ pc'[l] = "finish" /\ \A q \in Procs : q # l => pc'[q] = pc[q]
      BY <2>10, <3>1 DEF LoopCloseFrame, Goto, TypeOK
    <3>3. QED BY <3>1, <3>2, LocalKeepsStreams
  <2>11. ASSUME NEW p \in Procs, NEW next, Reset(p, next),
                pc[p] \notin {"install", "release"}
         PROVE  Streams'
    <3>1. /\ SwapChannel(p) /\ pc' = [pc EXCEPT ![p] = "release"]
          /\ UNCHANGED link /\ active' = FALSE
          /\ \A q \in Procs : q # p => sess'[q] = sess[q]
      BY <2>11 DEF Reset, Goto, TypeOK, network
    <3>2. QED BY <2>11, <3>1, SwapKeepsStreams
  <2>12. ASSUME NEW p \in Procs, UNCHANGED <<client, link, held, sess>>,
                pc[p] \notin {"install", "release"},
                Goto(p, "done") \/ Goto(p, "attempt") \/ Goto(p, "failed")
         PROVE  Streams'
    <3>1. /\ pc'[p] \notin {"install", "read", "dialed", "dial"}
          /\ \A q \in Procs : q # p => pc'[q] = pc[q]
      BY <2>12 DEF Goto, TypeOK
    <3>2. QED BY <2>12, <3>1, LocalKeepsStreams DEF client
  <2>13. Main \in Procs /\ Stopper \in Procs
    BY DEF Procs
  <2>14. CASE Attempt \/ ResetAfterEnsure \/ Failed \/ RunEnds
    <3>1. pc[Main] \notin {"install", "release"}
      BY <2>14 DEF Attempt, ResetAfterEnsure, Failed, RunEnds
    <3>2. CASE Reset(Main, "connect") \/ Reset(Main, "failed")
               \/ Reset(Main, "attempt")
      BY <3>1, <3>2, <2>11, <2>13
    <3>3. CASE /\ UNCHANGED <<client, link, held, sess>>
               /\ Goto(Main, "done") \/ Goto(Main, "attempt")
      BY <3>1, <3>3, <2>12, <2>13
    <3>4. QED
      BY <2>14, <3>2, <3>3
         DEF Attempt, ResetAfterEnsure, Failed, RunEnds, network
  <2>15. CASE StopReset
    BY <2>15, <2>11, <2>13 DEF StopReset
  <2>16. CASE Stop
    <3>1. /\ UNCHANGED <<channel, quicConn, active, link, held, sess>>
          /\ pc[Stopper] = "idle" /\ pc'[Stopper] = "reset"
          /\ \A q \in Procs : q # Stopper => pc'[q] = pc[q]
      BY <2>16, <2>13 DEF Stop, Goto, TypeOK, network
    <3>2. QED BY <2>13, <3>1, LocalKeepsStreams
  <2>17. CASE ConnectQUIC
    <3>1. /\ UNCHANGED <<channel, quicConn, active, link, held>>
          /\ pc[Main] = "connect" /\ pc'[Main] \in {"failed", "dialed"}
          /\ \A q \in Procs : q # Main => pc'[q] = pc[q] /\ sess'[q] = sess[q]
      BY <2>17, <2>13 DEF ConnectQUIC, Goto, TypeOK, client
    <3>2. pc'[Main] = "dialed" => sess'[Main] # None
      BY <2>17, <2>13, DataAssumption DEF ConnectQUIC, Goto, TypeOK
    <3>3. QED BY <2>13, <3>1, <3>2, LocalKeepsStreams
  <2>18. CASE StoreQUIC
    <3>1. /\ UNCHANGED <<channel, link, held>>
          /\ pc[Main] = "dialed" /\ pc'[Main] \in {"ensure", "run"}
          /\ quicConn' = sess[Main]
          /\ \A q \in Procs : q # Main => pc'[q] = pc[q] /\ sess'[q] = sess[q]
      BY <2>18, <2>13 DEF StoreQUIC, Goto, TypeOK, network
    <3>2. Dialing'
      BY <2>13, <3>1 DEF Streams, Dialing
    <3>3. Opened' /\ Waiting'
      BY <3>1 DEF Streams, Opened, Waiting
    <3>4. NoLinkIsForgotten'
      BY <3>1 DEF Streams, NoLinkIsForgotten
    <3>5. ReaderIsCurrent'
      <4> SUFFICES ASSUME NEW l \in Loops, pc'[l] = "read",
                          link[held[l]] = "up"
                   PROVE  \/ held[l] = channel
                          \/ \E q \in Procs : held[q] = held[l]
                                                /\ pc'[q] = "release"
        BY <3>1 DEF ReaderIsCurrent
      <4>1. l \in Procs /\ pc[l] = "read"
        BY <3>1 DEF Procs
      <4>2. QED BY <4>1, <3>1 DEF Streams, ReaderIsCurrent
    <3>6. QED BY <3>2, <3>3, <3>4, <3>5 DEF Streams
  <2>19. CASE NetworkStep
    <3>1. UNCHANGED <<channel, quicConn, active, pc, held, sess>>
      BY <2>19 DEF NetworkStep, LoseLink, LoseSession, client
    <3>2. \A k \in Links : /\ link'[k] = "up" => link[k] = "up"
                           /\ link'[k] = "unused" => link[k] = "unused"
      BY <2>19 DEF NetworkStep, LoseLink, LoseSession, TypeOK
    <3>3. QED BY <3>1, <3>2, LossKeepsStreams
  <2>20. CASE UNCHANGED vars
    BY <2>20, LossKeepsStreams DEF vars, client, network
  <2>21. ~ConnectTLS
    BY DEF ConnectTLS
  <2>22. QED
    BY <2>1, <2>2, <2>3, <2>4, <2>5, <2>6, <2>7, <2>8, <2>9, <2>10, <2>14,
       <2>15, <2>16, <2>17, <2>18, <2>19, <2>20, <2>21, NextCases
<1>3. QED BY <1>1, <1>2, TypeCorrect, PTL DEF Spec

\* No stream is left open that nobody will use or close, however many
\* associations find no channel at the same time (client.go:850-854).
THEOREM NoneLeftOpen ==
  ASSUME "tls" \notin Candidates
  PROVE  Spec => []NoLinkIsForgotten
<1>1. Streams => NoLinkIsForgotten
  BY DEF Streams
<1>2. QED BY <1>1, StreamsKept, PTL

\* A frame loop that waits on a live stream waits on the one the client writes
\* to, or on one that is about to be closed (udp_assoc.go:108-131).
THEOREM ReadsWhatIsWritten ==
  ASSUME "tls" \notin Candidates
  PROVE  Spec => []ReaderIsCurrent
<1>1. Streams => ReaderIsCurrent
  BY DEF Streams
<1>2. QED BY <1>1, StreamsKept, PTL

-----------------------------------------------------------------------------
(* Before Stop, the frame loop that lost its stream is the only one, and    *)
(* nobody else takes the channel away: the connect loop is done with its    *)
(* resets once it has stored a QUIC connection.                            *)

\* What an association may be doing.
CallerOK(c) ==
  /\ pc[c] \in {"idle", "ensure", "dial", "install", "register", "open",
                "capture", "write", "closing", "finish"}
  /\ pc[c] \in {"ensure", "dial", "install"} => cont[c] \in {"register", "capture"}
  /\ pc[c] = "finish" => cont[c] = "idle"

\* Before a server is found, an association cannot get past its first check.
Unconnected ==
  /\ channel = None /\ quicConn = None /\ ~active
  /\ \A l \in Loops : pc[l] = "idle"
  /\ \A c \in Callers : pc[c] \in {"idle", "ensure"}
                          /\ (pc[c] = "ensure" => cont[c] = "register")

MainOK ==
  /\ pc[Main] \in {"attempt", "connect", "failed", "dialed", "release", "run"}
  /\ pc[Main] = "release" => cont[Main] \in {"connect", "attempt"}
  /\ pc[Main] # "run" => Unconnected

Live == {"top", "read", "finish", "drop"}

LoopOK(l) ==
  /\ pc[l] \in Live \cup {"idle", "release"}
  /\ pc[l] = "release" => cont[l] = "idle"
  /\ pc[l] = "finish" => cont[l] = "top"
  /\ pc[l] \in Live => loopActive
  /\ pc[l] \in {"read", "drop"} /\ held[l] # None => held[l] = channel

Alone == \A l, m \in Loops : pc[l] \in Live /\ pc[m] \in Live => l = m

Owns ==
  ~stopped =>
    /\ pc[Stopper] = "idle" /\ MainOK /\ Alone
    /\ \A c \in Callers : CallerOK(c)
    /\ \A l \in Loops : LoopOK(l)

Shared == <<channel, quicConn, active, loopActive, stopped>>

\* The goroutines are of different kinds.
LEMMA Goroutines ==
  /\ Main \in Procs /\ Stopper \in Procs /\ Main # Stopper
  /\ \A c \in Callers : c \in Procs /\ c \notin Loops /\ c # Main /\ c # Stopper
  /\ \A l \in Loops : l \in Procs /\ l \notin Callers /\ l # Main /\ l # Stopper
  /\ \A p \in Procs : p \in Callers \/ p \in Loops \/ p = Main \/ p = Stopper
  BY ProcsAssumption DEF Procs

\* One goroutine moves and leaves the shared fields alone.
LEMMA LocalKeepsOwns ==
  ASSUME Owns, ~stopped, NEW p \in Procs, p # Stopper, UNCHANGED Shared,
         \A q \in Procs : q # p =>
            pc'[q] = pc[q] /\ held'[q] = held[q] /\ cont'[q] = cont[q],
         p \in Callers =>
           /\ CallerOK(p)'
           /\ pc[Main] # "run" =>
                pc'[p] \in {"idle", "ensure"} /\ (pc'[p] = "ensure" => cont'[p] = "register"),
         p \in Loops =>
           /\ LoopOK(p)' /\ pc[p] # "idle"
           /\ pc'[p] \in Live => pc[p] \in Live,
         p = Main =>
           /\ pc'[Main] \in {"attempt", "connect", "failed", "dialed", "release"}
           /\ pc'[Main] = "release" => cont'[Main] \in {"connect", "attempt"}
           /\ pc[Main] # "run"
  PROVE  Owns'
<1> USE Goroutines
<1>1. /\ pc[Stopper] = "idle" /\ MainOK /\ Alone
      /\ \A c \in Callers : CallerOK(c)
      /\ \A l \in Loops : LoopOK(l)
  BY DEF Owns
<1>2. /\ channel' = channel /\ quicConn' = quicConn /\ active' = active
      /\ loopActive' = loopActive
  BY DEF Shared
<1>3. pc'[Stopper] = "idle"
  BY <1>1
<1>4. \A c \in Callers : CallerOK(c)'
  BY <1>1 DEF CallerOK
<1>5. \A l \in Loops : LoopOK(l)'
  BY <1>1, <1>2 DEF LoopOK
<1>6. Alone'
  <2>1. \A l \in Loops : pc'[l] \in Live => pc[l] \in Live
    OBVIOUS
  <2>2. QED BY <1>1, <2>1 DEF Alone
<1>7. MainOK'
  <2>1. pc'[Main] = "run" <=> pc[Main] = "run"
    OBVIOUS
  <2>2. pc[Main] # "run" => Unconnected'
    <3> SUFFICES ASSUME pc[Main] # "run" PROVE Unconnected'
      OBVIOUS
    <3>1. Unconnected
      BY <1>1 DEF MainOK
    <3>2. p \notin Loops
      BY <3>1 DEF Unconnected
    <3>3. \A l \in Loops : pc'[l] = "idle"
      BY <3>1, <3>2 DEF Unconnected
    <3>4. \A c \in Callers : pc'[c] \in {"idle", "ensure"}
                               /\ (pc'[c] = "ensure" => cont'[c] = "register")
      BY <3>1 DEF Unconnected
    <3>5. QED BY <1>2, <3>1, <3>3, <3>4 DEF Unconnected
  <2>3. QED BY <1>1, <2>1, <2>2 DEF MainOK
<1>8. QED BY <1>3, <1>4, <1>5, <1>6, <1>7 DEF Owns

\* A reset or a drop that leaves no frame loop alive.
LEMMA SwapKeepsOwns ==
  ASSUME TypeOK, Owns, ~stopped, NEW p \in Procs, SwapChannel(p), Goto(p, "release"),
         UNCHANGED stopped,
         \A q \in Procs : q # p => cont'[q] = cont[q],
         \/ p \in Loops /\ pc[p] = "drop" /\ cont'[p] = "idle"
         \/ /\ p = Main /\ pc[Main] \in {"attempt", "failed"}
            /\ cont'[Main] \in {"connect", "attempt"} /\ quicConn' = None /\ ~active'
  PROVE  Owns'
<1> USE Goroutines
<1>1. /\ pc[Stopper] = "idle" /\ MainOK /\ Alone
      /\ \A c \in Callers : CallerOK(c)
      /\ \A l \in Loops : LoopOK(l)
  BY DEF Owns
<1>2. /\ pc'[p] = "release" /\ channel' = None
      /\ \A q \in Procs : q # p => pc'[q] = pc[q] /\ held'[q] = held[q]
  BY DEF Goto, SwapChannel, TypeOK
<1>3. \A l \in Loops : pc'[l] \notin Live /\ (pc'[l] = pc[l] \/ l = p)
  <2>1. CASE p \in Loops
    BY <1>1, <1>2, <2>1 DEF Alone, Live
  <2>2. CASE p = Main
    BY <1>1, <1>2, <2>2 DEF MainOK, Unconnected, Live
  <2>3. QED BY <2>1, <2>2
<1>4. \A l \in Loops : LoopOK(l)'
  BY <1>1, <1>2, <1>3 DEF LoopOK, Live
<1>5. Alone'
  BY <1>3 DEF Alone
<1>6. \A c \in Callers : CallerOK(c)'
  BY <1>1, <1>2 DEF CallerOK
<1>7. MainOK'
  <2>1. CASE p \in Loops
    <3>1. pc[Main] = "run"
      BY <1>1, <2>1 DEF MainOK, Unconnected
    <3>2. QED BY <1>2, <2>1, <3>1 DEF MainOK
  <2>2. CASE p = Main
    BY <1>1, <1>2, <2>2 DEF MainOK, Unconnected
  <2>3. QED BY <2>1, <2>2
<1>8. pc'[Stopper] = "idle"
  BY <1>1, <1>2
<1>9. QED BY <1>4, <1>5, <1>6, <1>7, <1>8 DEF Owns

\* Who is where: only an association dials and installs, and only once the
\* client is connected.
LEMMA Places ==
  ASSUME Owns, ~stopped, NEW p \in Procs
  PROVE  /\ pc[p] \in {"ensure", "dial", "install"} =>
              p \in Callers /\ cont[p] \in {"register", "capture"}
         /\ pc[p] \in {"dial", "install"} => pc[Main] = "run"
         /\ pc[p] = "release" => \/ p \in Loops /\ cont[p] = "idle"
                                 \/ p = Main /\ cont[p] \in {"connect", "attempt"}
         /\ pc[p] = "finish" => \/ p \in Callers /\ cont[p] = "idle" /\ pc[Main] = "run"
                                \/ p \in Loops /\ cont[p] = "top"
         /\ p \in Callers /\ pc[p] \notin {"idle", "ensure"} => pc[Main] = "run"
<1> USE Goroutines
<1>1. /\ pc[Stopper] = "idle" /\ MainOK
      /\ \A c \in Callers : CallerOK(c)
      /\ \A l \in Loops : LoopOK(l)
  BY DEF Owns
<1>2. CASE p \in Callers
  BY <1>1, <1>2 DEF CallerOK, MainOK, Unconnected
<1>3. CASE p \in Loops
  BY <1>1, <1>3 DEF LoopOK, Live
<1>4. CASE p = Main \/ p = Stopper
  BY <1>1, <1>4 DEF MainOK
<1>5. QED BY <1>2, <1>3, <1>4

\* Nothing takes Stop back.
LEMMA StaysStopped == ASSUME [Next]_vars, stopped PROVE stopped'
<1>1. ASSUME NEW p \in Procs, EnsureCheck(p) \/ DialFails(p) \/ Release(p) \/ FinishClose(p)
      PROVE  stopped'
  BY <1>1 DEF EnsureCheck, DialFails, Release, FinishClose, client
<1>2. ASSUME NEW p \in Procs, Install(p) PROVE stopped'
  BY <1>2 DEF Install, InstallTLS, InstallQUIC
<1>3. ASSUME NEW p \in Procs, NEW k \in Links, DialSucceeds(p, k) PROVE stopped'
  BY <1>3 DEF DialSucceeds, client
<1>4. ASSUME NEW c \in Callers, Open(c) \/ Send(c) \/ Close(c) \/ Capture(c) \/ Write(c)
      PROVE  stopped'
  BY <1>4 DEF Open, Send, Close, Capture, Write, client
<1>5. ASSUME NEW c \in Callers, NEW h \in Inboxes, Register(c, h) PROVE stopped'
  BY <1>5 DEF Register
<1>6. ASSUME NEW l \in Loops, LoopTop(l) \/ LoopFrame(l) \/ LoopError(l) \/ Drop(l)
      PROVE  stopped'
  BY <1>6 DEF LoopTop, LoopFrame, LoopError, Drop, client
<1>7. ASSUME NEW l \in Loops, NEW i \in IDs, LoopCloseFrame(l, i) PROVE stopped'
  BY <1>7 DEF LoopCloseFrame
<1>8. CASE Attempt \/ ConnectTLS \/ ConnectQUIC \/ StoreQUIC
  BY <1>8 DEF Attempt, ConnectTLS, ConnectQUIC, StoreQUIC, Reset, client
<1>9. CASE ResetAfterEnsure \/ Failed \/ RunEnds \/ Stop \/ StopReset
  BY <1>9 DEF ResetAfterEnsure, Failed, RunEnds, Stop, StopReset, Reset, client
<1>10. CASE NetworkStep \/ UNCHANGED vars
  BY <1>10 DEF NetworkStep, LoseLink, LoseSession, vars, client
<1>11. QED
  BY <1>1, <1>2, <1>3, <1>4, <1>5, <1>6, <1>7, <1>8, <1>9, <1>10, NextCases

LEMMA OwnsKept ==
  ASSUME "tls" \notin Candidates, ~Persistent
  PROVE  Spec => []Owns
<1> USE Goroutines
<1>1. Init => Owns
  BY DEF Init, Owns, MainOK, Unconnected, Alone, CallerOK, LoopOK, Live
<1>2. TypeOK /\ Streams /\ Owns /\ [Next]_vars => Owns'
  <2> SUFFICES ASSUME TypeOK, Streams, Owns, [Next]_vars, ~stopped, ~stopped'
               PROVE  Owns'
    <3>1. [Next]_vars /\ stopped => stopped'
      BY StaysStopped
    <3>2. stopped' => Owns'
      BY DEF Owns
    <3>3. QED BY <3>1, <3>2
  <2>0. /\ pc[Stopper] = "idle" /\ MainOK /\ Alone
        /\ \A c \in Callers : CallerOK(c)
        /\ \A l \in Loops : LoopOK(l)
    BY DEF Owns
  <2>1. ASSUME NEW p \in Procs, EnsureCheck(p) PROVE Owns'
    <3>1. /\ UNCHANGED Shared /\ p \in Callers /\ pc[p] = "ensure"
          /\ cont[p] \in {"register", "capture"}
          /\ \A q \in Procs : q # p =>
                pc'[q] = pc[q] /\ held'[q] = held[q] /\ cont'[q] = cont[q]
      BY <2>1, Places DEF EnsureCheck, Goto, TypeOK, client, Shared
    <3>2. /\ pc'[p] \in {"idle", "closing", "dial", cont[p]}
          /\ cont'[p] = cont[p]
      BY <2>1, <3>1 DEF EnsureCheck, Failure, Goto, TypeOK
    <3>3. CallerOK(p)'
      BY <3>1, <3>2 DEF CallerOK
    <3>4. pc[Main] # "run" => pc'[p] = "idle"
      <4> SUFFICES ASSUME pc[Main] # "run" PROVE pc'[p] = "idle"
        OBVIOUS
      <4>1. channel = None /\ quicConn = None /\ ~active /\ cont[p] = "register"
        BY <2>0, <3>1 DEF MainOK, Unconnected
      <4>2. QED BY <2>1, <4>1 DEF EnsureCheck, Failure, Goto, TypeOK
    <3>5. QED BY <3>1, <3>3, <3>4, LocalKeepsOwns
  <2>2. ASSUME NEW p \in Procs, NEW k \in Links, DialSucceeds(p, k)
        PROVE  Owns'
    <3>1. pc[p] = "dial" /\ UNCHANGED Shared
      BY <2>2 DEF DialSucceeds, client, Shared
    <3>2. p \in Callers /\ cont[p] \in {"register", "capture"} /\ pc[Main] = "run"
      BY <3>1, Places
    <3>3. \A q \in Procs : q # p =>
             pc'[q] = pc[q] /\ held'[q] = held[q] /\ cont'[q] = cont[q]
      BY <2>2 DEF DialSucceeds, Goto, TypeOK
    <3>4. cont'[p] = cont[p] /\ pc'[p] \in {"install"}
      BY <2>2, <3>2 DEF DialSucceeds, Goto, TypeOK
    <3>5. CallerOK(p)'
      BY <3>2, <3>4 DEF CallerOK
    <3>6. QED BY <3>1, <3>2, <3>3, <3>5, LocalKeepsOwns
  <2>3. ASSUME NEW p \in Procs, DialFails(p) PROVE Owns'
    <3>1. pc[p] = "dial" /\ UNCHANGED Shared
      BY <2>3 DEF DialFails, client, Shared
    <3>2. p \in Callers /\ cont[p] \in {"register", "capture"} /\ pc[Main] = "run"
      BY <3>1, Places
    <3>3. \A q \in Procs : q # p =>
             pc'[q] = pc[q] /\ held'[q] = held[q] /\ cont'[q] = cont[q]
      BY <2>3 DEF DialFails, Goto, TypeOK
    <3>4. cont'[p] = cont[p] /\ pc'[p] \in {"idle", "closing"}
      BY <2>3, <3>2 DEF DialFails, Failure, Goto, TypeOK
    <3>5. CallerOK(p)'
      BY <3>2, <3>4 DEF CallerOK
    <3>6. QED BY <3>1, <3>2, <3>3, <3>5, LocalKeepsOwns
  <2>4. ASSUME NEW p \in Procs, Install(p) PROVE Owns'
    <3>1. pc[p] = "install" /\ sess[p] # None
      BY <2>4 DEF Install, InstallTLS, InstallQUIC, Streams, Dialing
    <3>2. p \in Callers /\ cont[p] \in {"register", "capture"} /\ pc[Main] = "run"
      BY <3>1, Places
    <3>3. /\ channel' = IF channel = None THEN held[p] ELSE channel
          /\ UNCHANGED <<quicConn, active, loopActive, stopped, cont>>
          /\ pc'[p] = cont[p]
          /\ \A q \in Procs : q # p => pc'[q] = pc[q] /\ held'[q] = held[q]
      BY <2>4, <3>1 DEF Install, InstallTLS, InstallQUIC, Goto, TypeOK
    <3>4. \A l \in Loops : LoopOK(l)'
      BY <2>0, <3>2, <3>3 DEF LoopOK
    <3>5. \A c \in Callers : CallerOK(c)'
      BY <2>0, <3>2, <3>3 DEF CallerOK
    <3>6. Alone'
      BY <2>0, <3>2, <3>3 DEF Alone
    <3>7. MainOK' /\ pc'[Stopper] = "idle"
      BY <2>0, <3>2, <3>3 DEF MainOK
    <3>8. QED BY <3>4, <3>5, <3>6, <3>7 DEF Owns
  <2>5. ASSUME NEW p \in Procs, Release(p) \/ FinishClose(p) PROVE Owns'
    <3>1. /\ UNCHANGED Shared /\ pc[p] \in {"release", "finish"}
          /\ pc'[p] = cont[p] /\ cont'[p] = "idle" /\ held'[p] = None
          /\ \A q \in Procs : q # p =>
                pc'[q] = pc[q] /\ held'[q] = held[q] /\ cont'[q] = cont[q]
      BY <2>5 DEF Release, FinishClose, Goto, TypeOK, client, Shared
    <3>2. \/ p \in Loops /\ pc[p] = "release" /\ pc'[p] = "idle"
          \/ p \in Loops /\ pc[p] = "finish" /\ pc'[p] = "top"
          \/ p = Main /\ pc[Main] = "release" /\ pc'[Main] \in {"connect", "attempt"}
          \/ p \in Callers /\ pc'[p] = "idle"
      BY <3>1, Places
    <3>3. p \in Loops => /\ LoopOK(p)'
                         /\ pc'[p] \in Live => pc[p] \in Live
      BY <2>0, <3>1, <3>2 DEF LoopOK, Live, Shared
    <3>4. p \in Callers => CallerOK(p)'
      BY <3>1, <3>2 DEF CallerOK
    <3>5. QED BY <3>1, <3>2, <3>3, <3>4, LocalKeepsOwns
  <2>6. ASSUME NEW c \in Callers,
               Open(c) \/ Send(c) \/ Close(c) \/ Capture(c) \/ Write(c)
        PROVE  Owns'
    <3>1. /\ UNCHANGED Shared /\ c \in Procs
          /\ \A q \in Procs : q # c =>
                pc'[q] = pc[q] /\ held'[q] = held[q] /\ cont'[q] = cont[q]
      BY <2>6 DEF Open, Send, Close, Capture, Write, Goto, TypeOK, client, Shared
    <3>2. \/ pc[c] = "idle" /\ pc'[c] = "ensure" /\ cont'[c] = "register"
          \/ pc[c] = "open" /\ pc'[c] = "ensure" /\ cont'[c] = "capture"
          \/ pc[c] \in {"open", "closing"} /\ pc'[c] = "finish" /\ cont'[c] = "idle"
          \/ pc[c] = "capture" /\ pc'[c] \in {"closing", "write"}
          \/ pc[c] = "write" /\ pc'[c] \in {"open", "closing"}
      BY <2>6, <3>1 DEF Open, Send, Close, Capture, Write, Goto, TypeOK
    <3>3. CallerOK(c)'
      BY <3>2 DEF CallerOK
    <3>4. pc[Main] # "run" => pc'[c] = "ensure" /\ cont'[c] = "register"
      BY <3>1, <3>2, Places
    <3>5. QED BY <3>1, <3>3, <3>4, LocalKeepsOwns
  <2>7. ASSUME NEW c \in Callers, NEW h \in Inboxes, Register(c, h) PROVE Owns'
    <3>1. /\ pc[c] = "register" /\ loopActive' = TRUE
          /\ UNCHANGED <<channel, quicConn, active, stopped, held, cont>>
      BY <2>7 DEF Register
    <3>2. pc[Main] = "run" /\ c \in Procs
      BY <3>1, Places
    <3>3. \/ loopActive /\ pc' = [pc EXCEPT ![c] = "open"]
          \/ /\ ~loopActive
             /\ \E l \in Loops : pc[l] = "idle"
                                   /\ pc' = [pc EXCEPT ![c] = "open", ![l] = "top"]
      BY <2>7 DEF Register, Goto
    <3>4. CASE loopActive /\ pc' = [pc EXCEPT ![c] = "open"]
      <4>1. pc'[c] = "open" /\ \A q \in Procs : q # c => pc'[q] = pc[q]
        BY <3>2, <3>4 DEF TypeOK
      <4>2. CallerOK(c)'
        BY <4>1 DEF CallerOK
      <4>3. UNCHANGED Shared
        BY <3>1, <3>4 DEF Shared, TypeOK
      <4>4. QED BY <3>1, <3>2, <4>1, <4>2, <4>3, LocalKeepsOwns
    <3>5. ASSUME ~loopActive, NEW l \in Loops, pc[l] = "idle",
                 pc' = [pc EXCEPT ![c] = "open", ![l] = "top"]
          PROVE  Owns'
      <4>1. /\ pc'[c] = "open" /\ pc'[l] = "top"
            /\ \A q \in Procs : q # c /\ q # l => pc'[q] = pc[q]
        BY <3>2, <3>5 DEF TypeOK
      <4>2. \A m \in Loops : pc[m] \notin Live
        BY <2>0, <3>5 DEF LoopOK
      <4>3. \A m \in Loops : LoopOK(m)'
        BY <2>0, <3>1, <4>1, <4>2 DEF LoopOK, Live
      <4>4. Alone'
        BY <4>1, <4>2 DEF Alone
      <4>5. \A d \in Callers : CallerOK(d)'
        BY <2>0, <3>1, <4>1 DEF CallerOK
      <4>6. MainOK' /\ pc'[Stopper] = "idle"
        BY <2>0, <3>2, <4>1 DEF MainOK
      <4>7. QED BY <4>3, <4>4, <4>5, <4>6 DEF Owns
    <3>6. QED BY <3>3, <3>4, <3>5
  <2>8. ASSUME NEW l \in Loops,
               \/ LoopTop(l) \/ LoopFrame(l) \/ LoopError(l)
               \/ \E i \in IDs : LoopCloseFrame(l, i)
        PROVE  Owns'
    <3>1. /\ UNCHANGED Shared /\ l \in Procs
          /\ \A q \in Procs : q # l =>
                pc'[q] = pc[q] /\ held'[q] = held[q] /\ cont'[q] = cont[q]
      BY <2>8 DEF LoopTop, LoopFrame, LoopError, LoopCloseFrame, Goto, TypeOK, client,
                  Shared
    <3>2. \/ pc[l] = "top" /\ pc'[l] \in {"drop", "read"} /\ held'[l] = channel
          \/ pc[l] = "read" /\ pc'[l] = "top"
          \/ pc[l] = "read" /\ pc'[l] = "drop" /\ held'[l] = held[l]
          \/ pc[l] = "read" /\ pc'[l] = "finish" /\ cont'[l] = "top"
      BY <2>8, <3>1 DEF LoopTop, LoopFrame, LoopError, LoopCloseFrame, Goto, TypeOK
    <3>3. LoopOK(l)' /\ pc[l] \in Live
      BY <2>0, <3>1, <3>2 DEF LoopOK, Live, Shared
    <3>4. pc[l] # "idle"
      BY <3>2
    <3>5. QED BY <3>1, <3>3, <3>4, LocalKeepsOwns
  <2>9. ASSUME NEW l \in Loops, Drop(l) PROVE Owns'
    <3>1. /\ l \in Procs /\ SwapChannel(l) /\ Goto(l, "release") /\ pc[l] = "drop"
          /\ UNCHANGED stopped
          /\ cont' = [cont EXCEPT ![l] = "idle"]
      BY <2>9 DEF Drop
    <3>2. cont'[l] = "idle" /\ \A q \in Procs : q # l => cont'[q] = cont[q]
      BY <3>1 DEF TypeOK
    <3>3. QED BY <3>1, <3>2, SwapKeepsOwns
  <2>10. ASSUME NEW next \in {"connect", "attempt"}, Reset(Main, next),
                pc[Main] \in {"attempt", "failed"}
         PROVE  Owns'
    <3>1. /\ SwapChannel(Main) /\ Goto(Main, "release") /\ UNCHANGED stopped
          /\ quicConn' = None /\ ~active'
          /\ cont' = [cont EXCEPT ![Main] = next]
      BY <2>10 DEF Reset
    <3>2. cont'[Main] = next /\ \A q \in Procs : q # Main => cont'[q] = cont[q]
      BY <3>1 DEF TypeOK
    <3>3. QED BY <2>10, <3>1, <3>2, SwapKeepsOwns
  <2>11. ASSUME pc[Main] \in {"connect", "failed"}, UNCHANGED <<Shared, held, cont>>,
                Goto(Main, "attempt") \/ Goto(Main, "failed") \/ Goto(Main, "dialed")
         PROVE  Owns'
    <3>1. /\ pc'[Main] \in {"attempt", "failed", "dialed"}
          /\ \A q \in Procs : q # Main => pc'[q] = pc[q]
      BY <2>11 DEF Goto, TypeOK
    <3>2. QED BY <2>11, <3>1, LocalKeepsOwns
  <2>12. CASE Attempt
    BY <2>10, <2>12 DEF Attempt
  <2>13. CASE Failed
    <3>1. CASE Reset(Main, "attempt")
      BY <2>10, <2>13, <3>1 DEF Failed
    <3>2. CASE Goto(Main, "attempt") /\ UNCHANGED <<client, held, cont>>
      BY <2>11, <2>13, <3>2 DEF Failed, client, Shared
    <3>3. QED BY <2>13, <3>1, <3>2 DEF Failed
  <2>14. CASE ConnectQUIC
    <3>1. /\ pc[Main] = "connect" /\ UNCHANGED <<Shared, held, cont>>
          /\ Goto(Main, "failed") \/ Goto(Main, "dialed")
      BY <2>14 DEF ConnectQUIC, client, Shared
    <3>2. QED BY <2>11, <3>1
  <2>15. CASE StoreQUIC
    <3>1. /\ pc[Main] = "dialed" /\ pc'[Main] = "run"
          /\ UNCHANGED <<channel, loopActive, stopped, held>>
          /\ \A q \in Procs : q # Main => pc'[q] = pc[q] /\ cont'[q] = cont[q]
      BY <2>15 DEF StoreQUIC, Goto, TypeOK
    <3>2. \A l \in Loops : LoopOK(l)'
      BY <2>0, <3>1 DEF LoopOK
    <3>3. \A c \in Callers : CallerOK(c)'
      BY <2>0, <3>1 DEF CallerOK
    <3>4. Alone' /\ MainOK' /\ pc'[Stopper] = "idle"
      BY <2>0, <3>1 DEF Alone, MainOK
    <3>5. QED BY <3>2, <3>3, <3>4 DEF Owns
  <2>16. ~ConnectTLS /\ ~ResetAfterEnsure /\ ~RunEnds /\ ~StopReset /\ ~Stop
    BY <2>0 DEF ConnectTLS, ResetAfterEnsure, RunEnds, StopReset, Stop, MainOK
  <2>17. CASE NetworkStep \/ UNCHANGED vars
    <3>1. UNCHANGED <<channel, quicConn, active, loopActive, pc, held, cont>>
      BY <2>17 DEF NetworkStep, LoseLink, LoseSession, vars, client
    <3>2. \A c \in Callers : CallerOK(c)'
      BY <2>0, <3>1 DEF CallerOK
    <3>3. \A l \in Loops : LoopOK(l)'
      BY <2>0, <3>1 DEF LoopOK
    <3>4. MainOK' /\ Alone' /\ pc'[Stopper] = "idle"
      BY <2>0, <3>1 DEF MainOK, Unconnected, Alone
    <3>5. QED BY <3>2, <3>3, <3>4 DEF Owns
  <2>18. QED
    BY <2>1, <2>2, <2>3, <2>4, <2>5, <2>6, <2>7, <2>8, <2>9, <2>12, <2>13, <2>14,
       <2>15, <2>16, <2>17, NextCases
<1>3. QED BY <1>1, <1>2, TypeCorrect, StreamsKept, PTL DEF Spec

\* Before Stop, a frame loop that stops on a read error tears down the channel
\* it was reading (udp_assoc.go:122-127).  With TLS servers the channel may be
\* replaced by the second of two openers, in TUN mode by a reset.
THEOREM DropsOnlyItsOwn ==
  ASSUME "tls" \notin Candidates, ~Persistent
  PROVE  Spec => DropsItsOwnChannel
<1>1. Owns => [\A l \in Loops :
                 (pc[l] = "drop" /\ pc'[l] = "release" /\ held[l] # None /\ ~stopped)
                   => channel = held[l]]_vars
  BY DEF Owns, LoopOK
<1>2. QED BY <1>1, OwnsKept, PTL DEF DropsItsOwnChannel

=============================================================================
