---------------------------- MODULE MirageSession ----------------------------
(***************************************************************************)
(* One connection of the Mirage transport (core/transport/mirage.go): two  *)
(* byte streams made of HTTP requests.  The response to one GET carries    *)
(* what the server sends; what the client sends goes up in POSTs, one      *)
(* after the other.  On either side a net.Pipe stands between the user of  *)
(* the connection and the goroutines that serve the requests: a write into *)
(* it waits until it was read, or until the pipe is closed.                *)
(*                                                                         *)
(* The server finds the session of a POST in a table, by an id that the    *)
(* client draws at random from 128 bits, so no two clients share one.      *)
(* Items stand for the bytes of a stream; they are numbered.               *)
(***************************************************************************)
EXTENDS Naturals, Sequences

CONSTANTS
  ChunkSize,  \* mirage_chunk_size: what one read of a pipe can return
  MaxBody,    \* mirage_max_body: what the server reads of one POST
  MaxItems    \* bound: items that each side sends

ASSUME MirageAssumption ==
  /\ ChunkSize \in Nat \ {0} /\ MaxBody \in Nat /\ MaxItems \in Nat
  /\ ChunkSize <= MaxBody    \* 16 KiB and 2 MiB

VARIABLES
  \* the client
  client,   \* mirage_dial: not called, waits for the response, returned
  pipe,     \* its pipe
  uplink,   \* mirage_uplink_loop
  pump,     \* the goroutine that copies the response into the pipe
  hold,     \* what that has read and not written yet
  \* the two requests
  get,      \* the GET and its response; "cut": the connection is gone
  down,     \* what is in the response and was not read yet
  post,     \* the current POST, at the server and on its way back
  upload,   \* what the client posts and the session has not read yet
  \* the server
  handler,     \* handle_downlink
  watcher,     \* its goroutine that waits for the request's context
  registered,  \* the session is in the table
  server,      \* the server's pipe
  out,         \* what the handler has read and not written yet
  session,     \* onSession: shakes hands under deadlines, then relays
  target,      \* its connection to the target; "ended": by the target
  \* history
  sentUp, gotUp, sentDown, gotDown

clientVars == <<client, pipe, uplink, pump, hold>>
serverVars == <<handler, watcher, registered, server, out, session, target>>
histories == <<sentUp, gotUp, sentDown, gotDown>>
vars == <<clientVars, get, down, post, upload, serverVars, histories>>

TypeOK ==
  /\ client \in {"idle", "dialing", "up", "failed"}
  /\ pipe \in {"none", "open", "closed"} /\ server \in {"none", "open", "closed"}
  /\ uplink \in {"off", "read", "post", "answer", "break", "close", "done"}
  /\ pump \in {"off", "read", "write", "break", "close", "done"}
  /\ get \in {"none", "sent", "open", "refused", "ended", "cut"}
  /\ post \in {"none", "arrived", "write", "ok", "gone", "notfound"}
  /\ handler \in {"off", "start", "pump", "write", "delete", "shut", "done"}
  /\ watcher \in {"off", "wait", "done"} /\ target \in {"none", "open", "ended"}
  /\ session \in {"off", "shake", "relay", "done"}
  /\ registered \in BOOLEAN
  /\ {hold, down, upload, out, gotUp, gotDown} \subseteq Seq(1 .. MaxItems)
  /\ sentUp \in 0 .. MaxItems /\ sentDown \in 0 .. MaxItems

Init ==
  /\ client = "idle" /\ pipe = "none" /\ uplink = "off" /\ pump = "off"
  /\ get = "none" /\ post = "none"
  /\ handler = "off" /\ watcher = "off" /\ registered = FALSE
  /\ server = "none" /\ session = "off" /\ target = "none"
  /\ hold = <<>> /\ down = <<>> /\ upload = <<>> /\ out = <<>>
  /\ sentUp = 0 /\ gotUp = <<>> /\ sentDown = 0 /\ gotDown = <<>>

From(s, n) == SubSeq(s, n + 1, Len(s))
First(s, n) == SubSeq(s, 1, IF n < Len(s) THEN n ELSE Len(s))
Following(n, k) == [i \in 1 .. k |-> n + i]   \* the k items after item n

-----------------------------------------------------------------------------
(* Opening: mirage_dial and the first half of handle_downlink.             *)

Dial ==
  /\ client = "idle"
  /\ client' = "dialing" /\ get' = "sent"
  /\ UNCHANGED <<pipe, uplink, pump, hold, down, post, upload, serverVars,
                 histories>>

\* Bad credentials get the decoy page.
Refuse ==
  /\ get = "sent" /\ handler = "off"
  /\ get' = "refused" /\ handler' = "done"
  /\ UNCHANGED <<clientVars, down, post, upload, watcher, registered, server,
                 out, session, target, histories>>

\* Mutated form: the session is not entered into the table.
AcceptUnregistered ==
  /\ get = "sent" /\ handler = "off"
  /\ server' = "open" /\ handler' = "start"
  /\ UNCHANGED <<clientVars, get, down, post, upload, watcher, registered, out,
                 session, target, histories>>

\* The pipe is made and registered ...
Accept ==
  /\ get = "sent" /\ handler = "off"
  /\ server' = "open" /\ registered' = TRUE
  /\ handler' = "start"
  /\ UNCHANGED <<clientVars, get, down, post, upload, watcher, out, session,
                 target, histories>>

\* ... the goroutines are started, and only then is the header sent.
Start ==
  /\ handler = "start"
  /\ watcher' = "wait" /\ session' = "shake"
  /\ get' = IF get = "sent" THEN "open" ELSE get
  /\ handler' = "pump"
  /\ UNCHANGED <<clientVars, down, post, upload, registered, server, out,
                 target, histories>>

Dialed ==
  /\ client = "dialing" /\ get \in {"open", "ended"}
  /\ client' = "up" /\ pipe' = "open" /\ uplink' = "read" /\ pump' = "read"
  /\ UNCHANGED <<hold, get, down, post, upload, serverVars, histories>>

DialFails ==
  /\ client = "dialing" /\ get \in {"refused", "cut"}
  /\ client' = "failed"
  /\ UNCHANGED <<pipe, uplink, pump, hold, get, down, post, upload, serverVars,
                 histories>>

-----------------------------------------------------------------------------
(* mirage_conn.Close, once: the response's body, then the pipe.            *)

CloseConn ==
  /\ get' = IF get \in {"open", "ended"} THEN "cut" ELSE get
  /\ down' = <<>>
  /\ pipe' = "closed"

\* The user of the connection, or mirage_dial_vpn after an error.
UserCloses ==
  /\ pipe = "open"
  /\ CloseConn
  /\ UNCHANGED <<client, uplink, pump, hold, post, upload, serverVars,
                 histories>>

-----------------------------------------------------------------------------
(* mirage_uplink_loop.                                                     *)

\* The user writes, and the loop reads, up to a chunk.
UplinkReads(k) ==
  /\ uplink = "read" /\ pipe = "open"
  /\ sentUp + k <= MaxItems
  /\ upload' = Following(sentUp, k)
  /\ sentUp' = sentUp + k
  /\ uplink' = "post"
  /\ UNCHANGED <<client, pipe, pump, hold, get, down, post, serverVars, gotUp,
                 sentDown, gotDown>>

UplinkReadFails ==
  /\ uplink = "read" /\ pipe = "closed"
  /\ uplink' = "break"
  /\ UNCHANGED <<client, pipe, pump, hold, get, down, post, upload, serverVars,
                 histories>>

\* client.Do sends the request, or cannot.
UplinkPosts ==
  /\ uplink = "post"
  /\ \/ post' = "arrived" /\ uplink' = "answer" /\ UNCHANGED upload
     \/ uplink' = "break" /\ upload' = <<>> /\ UNCHANGED post
  /\ UNCHANGED <<client, pipe, pump, hold, get, down, serverVars, histories>>

\* The answer, or an error while the server may still be at work.
UplinkAnswered ==
  /\ uplink = "answer"
  /\ \/ post = "ok" /\ uplink' = "read" /\ post' = "none"
     \/ uplink' = "break" /\ UNCHANGED post
  /\ UNCHANGED <<client, pipe, pump, hold, get, down, upload, serverVars,
                 histories>>

UplinkBreaks ==
  /\ uplink = "break"
  /\ pipe' = "closed"
  /\ uplink' = "close"
  /\ UNCHANGED <<client, pump, hold, get, down, post, upload, serverVars,
                 histories>>

UplinkCloses ==
  /\ uplink = "close"
  /\ CloseConn
  /\ uplink' = "done"
  /\ UNCHANGED <<client, pump, hold, post, upload, serverVars, histories>>

Uplink ==
  \/ UplinkReadFails \/ UplinkPosts \/ UplinkAnswered
  \/ UplinkBreaks \/ UplinkCloses

-----------------------------------------------------------------------------
(* The goroutine that copies the response into the pipe.                   *)

PumpReads ==
  /\ pump = "read" /\ get \in {"open", "ended"} /\ down # <<>>
  /\ hold' = down /\ down' = <<>>
  /\ pump' = "write"
  /\ UNCHANGED <<client, pipe, uplink, get, post, upload, serverVars, histories>>

PumpReadFails ==
  /\ pump = "read"
  /\ get = "cut" \/ (get = "ended" /\ down = <<>>)
  /\ pump' = "break"
  /\ UNCHANGED <<client, pipe, uplink, hold, get, down, post, upload,
                 serverVars, histories>>

\* The user reads some of it.
UserReads(k) ==
  /\ pump = "write" /\ pipe = "open" /\ k <= Len(hold)
  /\ gotDown' = gotDown \o First(hold, k)
  /\ hold' = From(hold, k)
  /\ pump' = IF k = Len(hold) THEN "read" ELSE "write"
  /\ UNCHANGED <<client, pipe, uplink, get, down, post, upload, serverVars,
                 sentUp, gotUp, sentDown>>

PumpWriteFails ==
  /\ pump = "write" /\ pipe = "closed"
  /\ hold' = <<>>
  /\ pump' = "break"
  /\ UNCHANGED <<client, pipe, uplink, get, down, post, upload, serverVars,
                 histories>>

PumpBreaks ==
  /\ pump = "break"
  /\ pipe' = "closed"
  /\ pump' = "close"
  /\ UNCHANGED <<client, uplink, hold, get, down, post, upload, serverVars,
                 histories>>

PumpCloses ==
  /\ pump = "close"
  /\ CloseConn
  /\ pump' = "done"
  /\ UNCHANGED <<client, uplink, hold, post, upload, serverVars, histories>>

Pump ==
  \/ PumpReads \/ PumpReadFails \/ PumpWriteFails \/ PumpBreaks \/ PumpCloses

-----------------------------------------------------------------------------
(* handle_uplink.                                                          *)

\* Mutated form: the server reads less of a POST than the client sends.
BodyShort == First(upload, MaxBody - 1)

\* io.ReadAll(io.LimitReader(r.Body, mirage_max_body)).
Body == First(upload, MaxBody)

UploadFinds ==
  /\ post = "arrived"
  /\ \/ /\ registered
        /\ post' = "write" /\ upload' = Body
     \/ /\ ~registered
        /\ post' = "notfound" /\ upload' = <<>>
     \/ /\ get = "cut"            \* the body cannot be read
        /\ post' = "gone" /\ upload' = <<>>
  /\ UNCHANGED <<clientVars, get, down, serverVars, histories>>

\* pump.Write: the session reads some of it, or all.
SessionReads(k) ==
  /\ post = "write" /\ server = "open" /\ session \in {"shake", "relay"}
  /\ k <= Len(upload)
  /\ gotUp' = gotUp \o First(upload, k)
  /\ upload' = From(upload, k)
  /\ post' = IF k = Len(upload) THEN "ok" ELSE "write"
  /\ UNCHANGED <<clientVars, get, down, serverVars, sentUp, sentDown, gotDown>>

UploadFails ==
  /\ post = "write" /\ server = "closed"
  /\ post' = "gone" /\ upload' = <<>>
  /\ UNCHANGED <<clientVars, get, down, serverVars, histories>>

Upload == UploadFinds \/ UploadFails

-----------------------------------------------------------------------------
(* The second half of handle_downlink, and the session.                    *)

\* The session writes, and the handler reads, up to a chunk.
SessionWrites(k) ==
  /\ handler = "pump" /\ server = "open" /\ session \in {"shake", "relay"}
  /\ sentDown + k <= MaxItems
  /\ out' = Following(sentDown, k)
  /\ sentDown' = sentDown + k
  /\ handler' = "write"
  /\ UNCHANGED <<clientVars, get, down, post, upload, watcher, registered,
                 server, session, target, sentUp, gotUp, gotDown>>

\* handleDirectConnection reached the target, and relays ...
SessionDials ==
  /\ session = "shake"
  /\ session' = "relay" /\ target' = "open"
  /\ UNCHANGED <<clientVars, get, down, post, upload, handler, watcher,
                 registered, server, out, histories>>

\* ... or returns, as it does after every error of its handshake.  It does not
\* close the connection.
SessionFails ==
  /\ session = "shake"
  /\ session' = "done"
  /\ UNCHANGED <<clientVars, get, down, post, upload, handler, watcher,
                 registered, server, out, target, histories>>

\* BidirectionalRelay returns when both copies have ended.  Each may end with
\* the pipe, or with the target; but the one that reads the target has no
\* deadline, and notices that the pipe is closed only when the target sends.
SessionReturns ==
  /\ session = "relay"
  /\ server = "closed" \/ target = "ended"
  /\ session' = "done" /\ target' = "none"
  /\ UNCHANGED <<clientVars, get, down, post, upload, handler, watcher,
                 registered, server, out, histories>>

\* The target ends its connection, or that fails.
TargetEnds ==
  /\ target = "open"
  /\ target' = "ended"
  /\ UNCHANGED <<clientVars, get, down, post, upload, handler, watcher,
                 registered, server, out, session, histories>>

Session == SessionDials \/ SessionFails \/ SessionReturns

\* A write to a connection that is gone fails, sooner or later.
HandlerWrites ==
  /\ handler = "write"
  /\ \/ /\ get = "open"
        /\ down' = down \o out
        /\ handler' = "pump"
     \/ /\ get = "cut"
        /\ handler' \in {"pump", "delete"}
        /\ UNCHANGED down
  /\ out' = <<>>
  /\ UNCHANGED <<clientVars, get, post, upload, watcher, registered, server,
                 session, target, histories>>

HandlerReadFails ==
  /\ handler = "pump" /\ server = "closed"
  /\ handler' = "delete"
  /\ UNCHANGED <<clientVars, get, down, post, upload, watcher, registered,
                 server, out, session, target, histories>>

\* The deferred function: the table, then the pipe; then the response ends.
HandlerDeletes ==
  /\ handler = "delete"
  /\ registered' = FALSE
  /\ handler' = "shut"
  /\ UNCHANGED <<clientVars, get, down, post, upload, watcher, server, out,
                 session, target, histories>>

HandlerShuts ==
  /\ handler = "shut"
  /\ server' = "closed"
  /\ get' = IF get = "open" THEN "ended" ELSE get
  /\ handler' = "done"
  /\ UNCHANGED <<clientVars, down, post, upload, watcher, registered, out,
                 session, target, histories>>

\* Mutated form: nobody waits for the request's context.
WatcherSleeps ==
  /\ watcher = "wait" /\ handler = "done"
  /\ server' = "closed"
  /\ watcher' = "done"
  /\ UNCHANGED <<clientVars, get, down, post, upload, handler, registered, out,
                 session, target, histories>>

\* The context ends with the client's connection, or with the handler.
WatcherShuts ==
  /\ watcher = "wait" /\ (get = "cut" \/ handler = "done")
  /\ server' = "closed"
  /\ watcher' = "done"
  /\ UNCHANGED <<clientVars, get, down, post, upload, handler, registered, out,
                 session, target, histories>>

Handler ==
  \/ Start \/ HandlerWrites \/ HandlerReadFails \/ HandlerDeletes \/ HandlerShuts

-----------------------------------------------------------------------------

\* The connection of the GET fails.
Fails ==
  /\ get \in {"sent", "open", "ended"}
  /\ get' = "cut" /\ down' = <<>>
  /\ UNCHANGED <<clientVars, post, upload, serverVars, histories>>

Next ==
  \/ Dial \/ Refuse \/ Accept \/ Dialed \/ DialFails
  \/ UserCloses
  \/ \E k \in 1 .. ChunkSize : UplinkReads(k) \/ SessionWrites(k)
  \/ \E k \in 1 .. MaxItems : SessionReads(k) \/ UserReads(k)
  \/ Uplink \/ Pump \/ Upload \/ Handler \/ WatcherShuts
  \/ Session \/ TargetEnds \/ Fails

Spec == Init /\ [][Next]_vars

\* The goroutines run.  The handshake of a session has deadlines; its relay is
\* sure to return only when the pipe is closed and the target has ended.  The
\* client's user reads what is there (each copy loop of the SOCKS proxy does,
\* until it fails).  Nobody has to write, to close, to answer or to end.
FairSpec ==
  /\ Spec
  /\ WF_vars(Dialed \/ DialFails) /\ WF_vars(Uplink) /\ WF_vars(Pump)
  /\ WF_vars(Upload) /\ WF_vars(Handler) /\ WF_vars(WatcherShuts)
  /\ WF_vars(SessionDials \/ SessionFails)
  /\ WF_vars(server = "closed" /\ target = "ended" /\ SessionReturns)
  /\ WF_vars(\E k \in 1 .. MaxItems : UserReads(k))

-----------------------------------------------------------------------------
(* Properties.                                                             *)

\* The refinement: two streams, made of what the requests and the goroutines
\* hold.  What the client sends is lost with its pipe or its uplink loop, or
\* when a POST is refused; what the server sends, with the pipe or the GET.
Transit == [
  up   |-> upload,
  down |-> IF pipe = "closed" THEN <<>>
           ELSE hold \o (IF get = "cut" THEN <<>> ELSE down \o out) ]

Lost == [
  up   |-> \/ pipe = "closed" \/ uplink = "break"
           \/ post \in {"gone", "notfound"},
  down |-> pipe = "closed" \/ get = "cut" ]

Streams == INSTANCE OrderedStream
  WITH Streams  <- {"up", "down"},
       transit  <- Transit,
       received <- [up |-> gotUp, down |-> gotDown],
       lost     <- Lost

\* Requests that are separate at the HTTP level make two ordered streams:
\* nothing is doubled, overtakes or goes missing, until the connection ends.
KeepsOrder == Streams!Spec

\* A POST is answered with the decoy page only after its session is over: it
\* cannot come before the session is in the table (mirage.go:289-296), and
\* does not outlive it unnoticed.
UploadsFindTheSession == post = "notfound" => handler \in {"shut", "done"}

\* However the connection ends, both sides end: no goroutine of the transport
\* stays, the table entry is deleted, and what waits in the pipes is let go.
\* The session ends, too, unless its target holds on: it reads that without a
\* deadline (relay.go:30).
AllEnds ==
  (pipe = "closed" \/ get = "cut" \/ handler = "done") ~>
    /\ client # "dialing" /\ pipe # "open" /\ server # "open" /\ ~registered
    /\ uplink \in {"off", "done"} /\ pump \in {"off", "done"}
    /\ handler \in {"off", "done"} /\ watcher # "wait"
    /\ post \notin {"arrived", "write"}
    /\ session = "relay" => target = "open"
    /\ session # "shake"

=============================================================================
