------------------------------- MODULE SocksUDP -------------------------------
(***************************************************************************)
(* One SOCKS UDP ASSOCIATE (handleSOCKSUDPAssociate of                     *)
(* core/transport/proxy.go): the handler, which reads the datagrams of the *)
(* application, a goroutine that waits for the control connection to end,  *)
(* and a receiver, which hands the answers back.  They share the channel   *)
(* `done', the address of the application and the local socket, and any of *)
(* them may be the one that ends the association.                          *)
(*                                                                         *)
(* The association itself belongs to ClientChannel; here it is open until  *)
(* the handler closes it, and served until the client drops its channel,   *)
(* which closes the incoming channel.  It is assumed of the server that it *)
(* sends nothing to an association before it has had a datagram from it: a *)
(* relay starts with the socket of the first one (TunUDP).                 *)
(***************************************************************************)
EXTENDS Naturals, Sequences

CONSTANTS
  Sources,       \* addresses that send to the local socket
  MaxDatagrams,  \* bound: datagrams they send
  MaxAnswers,    \* bound: answers of the server
  InboxSize,     \* capacity of the incoming channel: 64 in the code
  None

ASSUME SocksUDPAssumption ==
  /\ MaxDatagrams \in Nat /\ MaxAnswers \in Nat /\ InboxSize \in Nat \ {0}
  /\ None \notin Sources

VARIABLES
  opener,      \* SetUDPOpener has been called
  control,     \* the control connection; "ended" by the application
  deadline,    \* the handshake's deadline on it
  assoc,       \* the UDP association
  served,      \* the client still has its handler
  socket,      \* the local UDP socket
  queue,       \* the datagrams in the socket: source and whether it parses
  inbox,       \* the incoming channel: answers that wait
  done,        \* the channel `done' is closed
  clientAddr,  \* the source that the answers go to
  pc,          \* what the handler does
  waiter,      \* the goroutine on the control connection
  receiver,    \* the goroutine on the incoming channel
  datagram,    \* what the handler has read
  sent,        \* history: sources of the datagrams that were sent on
  answers,     \* history: the answers that the server has sent
  dropped      \* history: answers that the receiver had no address for

connection == <<opener, control, deadline>>
shared == <<done, clientAddr>>
history == <<sent, answers, dropped>>
vars == <<connection, assoc, served, socket, queue, inbox, shared, pc, waiter,
          receiver, datagram, history>>

Datagrams == Sources \X BOOLEAN

ValuesOK ==
  /\ control \in {"up", "ended", "closed"}
  /\ deadline \in {"armed", "expired", "cleared"}
  /\ assoc \in {"none", "open", "closed"} /\ socket \in {"none", "open", "closed"}
  /\ queue \in Seq(Datagrams) /\ inbox \in Nat
  /\ clientAddr \in Sources \cup {None}
  /\ pc \in {"open", "bind", "reply", "check", "read", "claim", "relay",
             "finish", "unbind", "release", "hangup", "done"}
  /\ waiter \in {"off", "wait", "finish", "done"}
  /\ receiver \in {"off", "wait", "write", "finish", "done"}
  /\ datagram \in Datagrams \cup {None}
  /\ sent \in Seq(Sources) /\ answers \in Nat

TypeOK ==
  /\ ValuesOK
  /\ opener \in BOOLEAN /\ served \in BOOLEAN
  /\ done \in BOOLEAN /\ dropped \in BOOLEAN

\* handleSOCKS has read the command under its deadline of ten seconds.
Init ==
  /\ opener \in BOOLEAN /\ control = "up" /\ deadline = "armed"
  /\ assoc = "none" /\ served = FALSE /\ socket = "none"
  /\ queue = <<>> /\ inbox = 0
  /\ done = FALSE /\ clientAddr = None
  /\ pc = "open" /\ waiter = "off" /\ receiver = "off" /\ datagram = None
  /\ sent = <<>> /\ answers = 0 /\ dropped = FALSE

-----------------------------------------------------------------------------
(* Setting up.  What was opened by then is closed by the deferred calls.   *)

OpenAssociation ==
  /\ pc = "open"
  /\ \/ pc' = "hangup" /\ UNCHANGED <<assoc, served>>   \* no opener, or it fails
     \/ /\ opener
        /\ assoc' = "open" /\ served' = TRUE
        /\ pc' = "bind"
  /\ UNCHANGED <<connection, socket, queue, inbox, shared, waiter, receiver,
                 datagram, history>>

Bind ==
  /\ pc = "bind"
  /\ \/ pc' = "release" /\ UNCHANGED socket
     \/ pc' = "reply" /\ socket' = "open"
  /\ UNCHANGED <<connection, assoc, served, queue, inbox, shared, waiter,
                 receiver, datagram, history>>

\* The reply, then SetDeadline(time.Time{}) and the two goroutines.  A write
\* to an application that is gone may still succeed.
Reply ==
  /\ pc = "reply"
  /\ \/ /\ control = "ended" \/ deadline = "expired"
        /\ pc' = "unbind"
        /\ UNCHANGED <<deadline, waiter, receiver>>
     \/ /\ deadline = "armed"
        /\ deadline' = "cleared"
        /\ waiter' = "wait" /\ receiver' = "wait"
        /\ pc' = "check"
  /\ UNCHANGED <<opener, control, assoc, served, socket, queue, inbox, shared,
                 datagram, history>>

-----------------------------------------------------------------------------
(* done.                                                                   *)

\* doneOnce.Do(func() { close(done) }): whoever comes second does nothing.
Finish == done' = TRUE /\ UNCHANGED clientAddr

\* io.Copy(io.Discard, conn) returns when the application ends the control
\* connection, or the handler closes it.
ControlEnds ==
  /\ waiter = "wait" /\ control # "up"
  /\ waiter' = "finish"
  /\ UNCHANGED <<connection, assoc, served, socket, queue, inbox, shared, pc,
                 receiver, datagram, history>>

WaiterFinishes ==
  /\ waiter = "finish"
  /\ Finish
  /\ waiter' = "done"
  /\ UNCHANGED <<connection, assoc, served, socket, queue, inbox, pc, receiver,
                 datagram, history>>

-----------------------------------------------------------------------------
(* The receiver.                                                           *)

\* Its select takes either when both are ready.
TakeAnswer ==
  /\ receiver = "wait" /\ inbox > 0
  /\ inbox' = inbox - 1
  /\ receiver' = "write"
  /\ UNCHANGED <<connection, assoc, served, socket, queue, shared, pc, waiter,
                 datagram, history>>

\* The read-locked look at clientAddr and the write: an address that was
\* recorded stays, so the two are one step.
WriteAnswer ==
  /\ receiver = "write"
  /\ dropped' = (dropped \/ clientAddr = None)
  /\ \/ /\ clientAddr = None \/ socket = "open"
        /\ receiver' = "wait"
     \/ /\ clientAddr # None    \* WriteToUDP fails, for one when it is closed
        /\ receiver' = "finish"
  /\ UNCHANGED <<connection, assoc, served, socket, queue, inbox, shared, pc,
                 waiter, datagram, sent, answers>>

ReceiverFinishes ==
  /\ receiver = "finish"
  /\ Finish
  /\ receiver' = "done"
  /\ UNCHANGED <<connection, assoc, served, socket, queue, inbox, pc, waiter,
                 datagram, history>>

\* done is closed, or the incoming channel is closed and empty: the receiver
\* goes without telling the handler.
ReceiverReturns ==
  /\ receiver = "wait"
  /\ done \/ (inbox = 0 /\ ~served)
  /\ receiver' = "done"
  /\ UNCHANGED <<connection, assoc, served, socket, queue, inbox, shared, pc,
                 waiter, datagram, history>>

-----------------------------------------------------------------------------
(* The handler's loop.                                                     *)

Check ==
  /\ pc = "check"
  /\ pc' = IF done THEN "unbind" ELSE "read"
  /\ UNCHANGED <<connection, assoc, served, socket, queue, inbox, shared,
                 waiter, receiver, datagram, history>>

\* Mutated form: a read without a deadline.
ReadForever ==
  /\ pc = "read" /\ queue # <<>>
  /\ datagram' = Head(queue) /\ queue' = Tail(queue)
  /\ pc' = "claim"
  /\ UNCHANGED <<connection, assoc, served, socket, inbox, shared, waiter,
                 receiver, history>>

\* A read of at most two seconds: a datagram, the timeout, or an error.
Read ==
  /\ pc = "read"
  /\ \/ /\ queue # <<>>
        /\ datagram' = Head(queue) /\ queue' = Tail(queue)
        /\ pc' = "claim"
     \/ pc' \in {"check", "finish"} /\ UNCHANGED <<queue, datagram>>
  /\ UNCHANGED <<connection, assoc, served, socket, inbox, shared, waiter,
                 receiver, history>>

Source == datagram[1]
Parses == datagram[2]

\* Mutated form: a datagram is sent on before its address is recorded.
ClaimLate ==
  /\ pc = "claim"
  /\ pc' = IF Parses THEN "relay" ELSE "check"
  /\ UNCHANGED <<connection, assoc, served, socket, queue, inbox, shared,
                 waiter, receiver, datagram, history>>

\* The first datagram claims the association for its source, before it is
\* known to parse; those of other sources are dropped.
Claim ==
  /\ pc = "claim"
  /\ clientAddr' = IF clientAddr = None THEN Source ELSE clientAddr
  /\ pc' = IF Source = clientAddr' /\ Parses THEN "relay" ELSE "check"
  /\ UNCHANGED <<connection, assoc, served, socket, queue, inbox, done,
                 waiter, receiver, datagram, history>>

\* assoc.Send.  It may reopen the channel of the client, so it may succeed
\* when the association is no longer served.
Relay ==
  /\ pc = "relay"
  /\ \/ pc' = "check" /\ sent' = Append(sent, Source)
     \/ pc' = "finish" /\ UNCHANGED sent
  /\ datagram' = None
  /\ UNCHANGED <<connection, assoc, served, socket, queue, inbox, shared,
                 waiter, receiver, answers, dropped>>

HandlerFinishes ==
  /\ pc = "finish"
  /\ Finish
  /\ pc' = "unbind"
  /\ UNCHANGED <<connection, assoc, served, socket, queue, inbox, waiter,
                 receiver, datagram, history>>

\* The deferred calls: the socket, the association (which closes its incoming
\* channel if the client still has it), the control connection.
Unbind ==
  /\ pc = "unbind"
  /\ socket' = "closed" /\ queue' = <<>>
  /\ pc' = "release"
  /\ UNCHANGED <<connection, assoc, served, inbox, shared, waiter, receiver,
                 datagram, history>>

ReleaseAssociation ==
  /\ pc = "release"
  /\ assoc' = "closed" /\ served' = FALSE
  /\ pc' = "hangup"
  /\ UNCHANGED <<connection, socket, queue, inbox, shared, waiter, receiver,
                 datagram, history>>

HangUp ==
  /\ pc = "hangup"
  /\ control' = "closed"
  /\ pc' = "done"
  /\ UNCHANGED <<opener, deadline, assoc, served, socket, queue, inbox, shared,
                 waiter, receiver, datagram, history>>

-----------------------------------------------------------------------------
(* The application, the network and the client.                            *)

Arrives(d) ==
  /\ socket = "open" /\ Len(queue) + Len(sent) < MaxDatagrams
  /\ queue' = Append(queue, d)
  /\ UNCHANGED <<connection, assoc, served, socket, inbox, shared, pc, waiter,
                 receiver, datagram, history>>

ApplicationEnds ==
  /\ control = "up"
  /\ control' = "ended"
  /\ UNCHANGED <<opener, deadline, assoc, served, socket, queue, inbox, shared,
                 pc, waiter, receiver, datagram, history>>

DeadlineExpires ==
  /\ deadline = "armed"
  /\ deadline' = "expired"
  /\ UNCHANGED <<opener, control, assoc, served, socket, queue, inbox, shared,
                 pc, waiter, receiver, datagram, history>>

\* An answer reaches the frame loop, which drops it when the inbox is full.
Answered ==
  /\ served /\ sent # <<>> /\ answers < MaxAnswers
  /\ answers' = answers + 1
  /\ inbox' = IF inbox < InboxSize THEN inbox + 1 ELSE inbox
  /\ UNCHANGED <<connection, assoc, served, socket, queue, shared, pc, waiter,
                 receiver, datagram, sent, dropped>>

\* The client drops its channel, and with it the handlers.
Lost ==
  /\ served
  /\ served' = FALSE
  /\ UNCHANGED <<connection, assoc, socket, queue, inbox, shared, pc, waiter,
                 receiver, datagram, history>>

-----------------------------------------------------------------------------

Handler ==
  \/ OpenAssociation \/ Bind \/ Reply
  \/ Check \/ Read \/ Claim \/ Relay
  \/ HandlerFinishes \/ Unbind \/ ReleaseAssociation \/ HangUp

Waiter == ControlEnds \/ WaiterFinishes
Receiver == TakeAnswer \/ WriteAnswer \/ ReceiverFinishes \/ ReceiverReturns

Next ==
  \/ Handler \/ Waiter \/ Receiver
  \/ \E d \in Datagrams : Arrives(d)
  \/ ApplicationEnds \/ DeadlineExpires \/ Answered \/ Lost

Spec == Init /\ [][Next]_vars

\* The three goroutines run, and their waits with a timeout end.
FairSpec == Spec /\ WF_vars(Handler) /\ WF_vars(Waiter) /\ WF_vars(Receiver)

-----------------------------------------------------------------------------
(* Properties.                                                             *)

\* The datagrams that are sent on come from one source, whoever else sends to
\* the local port, and it is the one the answers go to (proxy.go:334-343).
OneSource == \A i \in 1 .. Len(sent) : sent[i] = clientAddr

\* No answer is dropped for want of an address: the handler records it before
\* it sends what is answered (proxy.go:301-306).
AnswersHaveAnAddress == ~dropped

\* When the control connection ends, or the handler gives up, all three
\* goroutines end, and the socket and the association are closed.
AllIsReleased ==
  (control # "up" \/ done) ~>
    /\ pc = "done" /\ waiter \in {"off", "done"} /\ receiver \in {"off", "done"}
    /\ socket # "open" /\ assoc # "open" /\ ~served

=============================================================================
