------------------------------ MODULE FrameLink ------------------------------
(***************************************************************************)
(* A persistent channel from one end to the other: the batching writer     *)
(* (FrameWriter), the connection, and the frame loop that reads it         *)
(* (FrameReader and the buffer pool of core/transport/framing.go,          *)
(* runFrameLoop of udp_assoc.go).                                          *)
(*                                                                         *)
(* A frame is read into a buffer of a pool that all readers of the process *)
(* share, handed on, and its buffer released; the next reader overwrites   *)
(* it.  Frames are handed to receivers that take them in their own time.   *)
(* What a frame contains is its number.                                    *)
(***************************************************************************)
EXTENDS FrameWriter

CONSTANTS
  Receivers,  \* UDP associations, and the inbox of the other frames
  InboxSize,  \* how many frames wait for a receiver: 64 and 256 in the code
  Buffers,    \* bound: buffers that the pool can make
  None

ASSUME LinkAssumption == InboxSize \in Nat \ {0} /\ None \notin Buffers

VARIABLES
  loop,      \* the frame loop: next header, payload, dispatch, release
  read,      \* how many frames the loop has taken from the connection
  buffer,    \* the buffer it holds
  pool,      \* the buffers that nobody uses
  content,   \* number of the frame that a buffer holds; 0: another reader's
  inbox,     \* what waits for every receiver
  got        \* history: what every receiver has taken

reader == <<loop, read, buffer, pool, content, inbox, got>>

LinkInit ==
  /\ Init
  /\ loop = "header" /\ read = 0 /\ buffer = None
  /\ pool = Buffers /\ content = [b \in Buffers |-> 0]
  /\ inbox = [r \in Receivers |-> <<>>] /\ got = [r \in Receivers |-> <<>>]

-----------------------------------------------------------------------------
(* FrameReader.                                                            *)

\* ReadFrame has the header and takes a buffer.
ReadHeader ==
  /\ loop = "header" /\ read < Len(wire)
  /\ \E b \in pool :
       /\ buffer' = b
       /\ pool' = pool \ {b}
  /\ loop' = "payload"
  /\ UNCHANGED <<read, content, inbox, got>>

\* Mutated form: the buffer goes back to the pool once it is filled.
ReadPayloadReleases ==
  /\ loop = "payload"
  /\ read' = read + 1
  /\ content' = [content EXCEPT ![buffer] = wire[read'][1]]
  /\ pool' = pool \cup {buffer}
  /\ loop' = "dispatch"
  /\ UNCHANGED <<buffer, inbox, got>>

\* The payload is there.
ReadPayload ==
  /\ loop = "payload"
  /\ read' = read + 1
  /\ content' = [content EXCEPT ![buffer] = wire[read'][1]]
  /\ loop' = "dispatch"
  /\ UNCHANGED <<buffer, pool, inbox, got>>

\* The connection has failed: an error instead of a header, or in the middle
\* of a frame, whose buffer goes back to the pool.
ReadFails ==
  /\ broken /\ loop \in {"header", "payload"}
  /\ pool' = pool \cup ({buffer} \ {None})
  /\ buffer' = None
  /\ loop' = "failed"
  /\ UNCHANGED <<read, content, inbox, got>>

-----------------------------------------------------------------------------
(* The frame loop.                                                         *)

\* Mutated form: a send that waits for the receiver.
DispatchWaits(r) ==
  /\ loop = "dispatch" /\ Len(inbox[r]) < InboxSize
  /\ inbox' = [inbox EXCEPT ![r] = Append(@, content[buffer])]
  /\ loop' = "release"
  /\ UNCHANGED <<read, buffer, pool, content, got>>

\* dispatchUDPFrame or enqueueFrame: a copy is offered to the receiver the
\* frame is for, and dropped when that is not ready for it.
Dispatch(r) ==
  /\ loop = "dispatch"
  /\ inbox' = IF Len(inbox[r]) < InboxSize
              THEN [inbox EXCEPT ![r] = Append(@, content[buffer])] ELSE inbox
  /\ loop' = "release"
  /\ UNCHANGED <<read, buffer, pool, content, got>>

\* frame.Release().
Release ==
  /\ loop = "release"
  /\ pool' = pool \cup {buffer}
  /\ buffer' = None
  /\ loop' = "header"
  /\ UNCHANGED <<read, content, inbox, got>>

FrameLoop ==
  \/ ReadHeader \/ ReadPayload \/ ReadFails \/ Release
  \/ \E r \in Receivers : Dispatch(r)

Take(r) ==
  /\ inbox[r] # <<>>
  /\ got' = [got EXCEPT ![r] = Append(@, Head(inbox[r]))]
  /\ inbox' = [inbox EXCEPT ![r] = Tail(@)]
  /\ UNCHANGED <<loop, read, buffer, pool, content>>

\* The reader of another connection reads a frame into a buffer of the pool
\* and releases it.
AnotherReader(b) ==
  /\ b \in pool
  /\ content' = [content EXCEPT ![b] = 0]
  /\ UNCHANGED <<loop, read, buffer, pool, inbox, got>>

-----------------------------------------------------------------------------

ReaderStep ==
  \/ FrameLoop
  \/ \E r \in Receivers : Take(r)
  \/ \E b \in Buffers : AnotherReader(b)

LinkNext ==
  \/ Next /\ UNCHANGED reader
  \/ ReaderStep /\ UNCHANGED vars

LinkSpec == LinkInit /\ [][LinkNext]_<<vars, reader>>

\* The writer's fairness, and a frame loop that runs.  Receivers need not
\* take anything.
FairLinkSpec ==
  /\ LinkSpec
  /\ WF_vars(TimerExpires) /\ WF_vars(SendToken) /\ WF_vars(Flusher)
  /\ WF_reader(FrameLoop /\ UNCHANGED vars)

-----------------------------------------------------------------------------
(* Properties.                                                             *)

Increasing(s) == \A i, j \in 1 .. Len(s) : i < j => s[i] < s[j]

\* Receivers see the frames that were written, with what was in them, in
\* order and once, although the buffers of the pool are used again at once,
\* and frames for a receiver that is full are dropped.
HandedIntact ==
  \A r \in Receivers :
    LET s == got[r] \o inbox[r]
    IN Increasing(s) /\ \A i \in 1 .. Len(s) : s[i] \in 1 .. read

\* What is on its way from WriteTypedFrame to the frame loop.
Transit ==
  SubSeq(wire, read + 1, Len(wire)) \o (IF broken THEN <<>> ELSE batch)

Stream == INSTANCE OrderedStream
  WITH Streams  <- {"frames"},
       transit  <- [s \in {"frames"} |-> Transit],
       received <- [s \in {"frames"} |-> SubSeq(wire, 1, read)],
       lost     <- [s \in {"frames"} |-> broken]

\* Batches, timers, Close and failing writes included, the channel is a
\* stream: until a write fails every frame that was accepted arrives, and
\* what arrives is never out of order, doubled or after a gap.
KeepsOrder == Stream!Spec

\* A frame that waits in a batch, or was written, is read by the frame loop,
\* without anybody calling Flush and although no receiver takes what it is
\* given, unless the writer is closed or the connection fails.
FramesArrive ==
  \A f \in 1 .. MaxFrames :
    (Len(accepted) >= f) ~> (read >= f \/ closed \/ broken)

=============================================================================
