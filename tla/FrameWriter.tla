----------------------------- MODULE FrameWriter -----------------------------
(***************************************************************************)
(* The batching frame writer of a persistent channel                       *)
(* (core/transport/framing.go).  Goroutines append frames to a batch under *)
(* fw.mu; the batch is written out when it is half full, when somebody     *)
(* calls Flush, or two milliseconds after the last frame, by way of a      *)
(* timer, a channel of one token and the autoFlusher goroutine.            *)
(*                                                                         *)
(* A step is one critical section of fw.mu or one channel operation.  A    *)
(* frame is a pair of its number and of its size with the header; oversize *)
(* frames, which the writer skips, do not appear.                          *)
(***************************************************************************)
EXTENDS Naturals, Sequences

CONSTANTS
  Sizes,      \* the sizes of the frames that are written
  MaxBatch,   \* maxBatchSize
  MaxFrames,  \* bound: frames that are written in a behaviour
  MaxFiring   \* bound: timer callbacks under way at the same time

ASSUME WriterAssumption ==
  /\ MaxBatch \in Nat /\ Sizes \subseteq 1 .. MaxBatch
  /\ MaxFrames \in Nat /\ MaxFiring \in Nat \ {0}

VARIABLES
  batch, batchSize,  \* the frames that wait, and fw.batchSize
  timer,     \* flushTimer: not created yet, running, or expired or stopped
  firing,    \* callbacks of the timer that have not reached flushChan
  token,     \* flushChan is full
  flusher,   \* autoFlusher: waits, is about to flush, has returned
  closed,    \* closeChan is closed
  closer,    \* what Close does next
  broken,    \* a write has failed; from then on all do
  accepted,  \* history: the frames that were appended to the batch
  wire       \* the frames that reached the connection

vars == <<batch, batchSize, timer, firing, token, flusher, closed, closer,
          broken, accepted, wire>>

Frames == Nat \X Sizes

TypeOK ==
  /\ batch \in Seq(Frames) /\ batchSize \in 0 .. MaxBatch
  /\ timer \in {"none", "running", "idle"}
  /\ firing \in 0 .. MaxFiring /\ token \in BOOLEAN
  /\ flusher \in {"wait", "flush", "done"}
  /\ closed \in BOOLEAN /\ closer \in {"idle", "stop", "flush"}
  /\ broken \in BOOLEAN
  /\ accepted \in Seq(Frames) /\ wire \in Seq(Frames)

Init ==
  /\ batch = <<>> /\ batchSize = 0
  /\ timer = "none" /\ firing = 0 /\ token = FALSE
  /\ flusher = "wait" /\ closed = FALSE /\ closer = "idle"
  /\ broken = FALSE /\ accepted = <<>> /\ wire = <<>>

-----------------------------------------------------------------------------
(* Pieces of the critical sections.                                        *)

\* w.Write(buf) after what is on the wire already.  A failed write may leave
\* the first frames of the buffer there.
Write(before, buf) ==
  \/ /\ ~broken
     /\ wire' = before \o buf
     /\ UNCHANGED broken
  \/ /\ broken' = TRUE
     /\ \E k \in 0 .. Len(buf) : /\ broken => k = 0
                                 /\ k > 0 => k < Len(buf)
                                 /\ wire' = before \o SubSeq(buf, 1, k)

\* Mutated form: the buffer is not emptied.
FlushKeepsBuffer ==
  IF batchSize = 0
  THEN UNCHANGED <<batch, batchSize, broken, wire>>
  ELSE Write(wire, batch) /\ batchSize' = 0 /\ UNCHANGED batch

\* flushLocked: the batch is dropped even if it could not be written.
FlushLocked ==
  IF batchSize = 0
  THEN UNCHANGED <<batch, batchSize, broken, wire>>
  ELSE Write(wire, batch) /\ batch' = <<>> /\ batchSize' = 0

\* Mutated form: a timer that exists is not started again.
ScheduleOnce == timer' = IF timer = "none" THEN "running" ELSE timer

\* scheduleFlush: AfterFunc the first time, Reset later, whatever the timer
\* did meanwhile.
ScheduleFlush == timer' = "running"

NextFrame(n) == <<Len(accepted) + 1, n>>

Overflows(n) == batchSize + n > MaxBatch

\* What is in the batch and on the wire once there is room for a frame.
KeptFor(n) == IF Overflows(n) THEN <<>> ELSE batch
KeptSizeFor(n) == IF Overflows(n) THEN 0 ELSE batchSize
SentFor(n) == IF Overflows(n) THEN wire \o batch ELSE wire

\* Making room fails: the error is returned and the frame is not appended.
NoRoom(n) ==
  /\ Overflows(n)
  /\ Write(wire, batch) /\ broken'
  /\ batch' = <<>> /\ batchSize' = 0
  /\ UNCHANGED <<timer, accepted>>

\* The frame joins the batch, which is not written yet.
Batched(n) ==
  /\ Overflows(n) => ~broken
  /\ batch' = Append(KeptFor(n), NextFrame(n))
  /\ batchSize' = KeptSizeFor(n) + n
  /\ wire' = SentFor(n)
  /\ accepted' = Append(accepted, NextFrame(n))
  /\ ScheduleFlush
  /\ UNCHANGED broken

-----------------------------------------------------------------------------
(* The operations.                                                         *)

HalfFull(n) == KeptSizeFor(n) + n >= MaxBatch \div 2

\* Mutated form: the frame overtakes the batch.
WriteTypedFrameFirst(n) ==
  /\ Len(accepted) < MaxFrames
  /\ \/ NoRoom(n)
     \/ Batched(n) /\ ~HalfFull(n)
     \/ /\ HalfFull(n)
        /\ Overflows(n) => ~broken
        /\ Write(SentFor(n), <<NextFrame(n)>> \o KeptFor(n))
        /\ batch' = <<>> /\ batchSize' = 0
        /\ accepted' = Append(accepted, NextFrame(n))
        /\ UNCHANGED timer
  /\ UNCHANGED <<firing, token, flusher, closed, closer>>

\* WriteTypedFrame flushes a batch that is half full with the new frame.
WriteTypedFrame(n) ==
  /\ Len(accepted) < MaxFrames
  /\ \/ NoRoom(n)
     \/ Batched(n) /\ ~HalfFull(n)
     \/ /\ HalfFull(n)
        /\ Overflows(n) => ~broken
        /\ Write(SentFor(n), Append(KeptFor(n), NextFrame(n)))
        /\ batch' = <<>> /\ batchSize' = 0
        /\ accepted' = Append(accepted, NextFrame(n))
        /\ UNCHANGED timer
  /\ UNCHANGED <<firing, token, flusher, closed, closer>>

\* WriteFrame does not.
WriteFrame(n) ==
  /\ Len(accepted) < MaxFrames
  /\ NoRoom(n) \/ Batched(n)
  /\ UNCHANGED <<firing, token, flusher, closed, closer>>

\* Flush, called by whoever wants the batch out at once.
Flush ==
  /\ FlushLocked
  /\ UNCHANGED <<timer, firing, token, flusher, closed, closer, accepted>>

\* The two milliseconds are over: the callback runs in a goroutine of its own.
TimerExpires ==
  /\ timer = "running" /\ firing < MaxFiring
  /\ timer' = "idle"
  /\ firing' = firing + 1
  /\ UNCHANGED <<batch, batchSize, token, flusher, closed, closer, broken,
                 accepted, wire>>

\* Its select: a token that finds the channel full is dropped.
SendToken ==
  /\ firing > 0
  /\ firing' = firing - 1
  /\ token' = TRUE
  /\ UNCHANGED <<batch, batchSize, timer, flusher, closed, closer, broken,
                 accepted, wire>>

\* autoFlusher: a token, or the end; either may be chosen if both are there.
TakeToken ==
  /\ flusher = "wait" /\ token
  /\ token' = FALSE
  /\ flusher' = "flush"
  /\ UNCHANGED <<batch, batchSize, timer, firing, closed, closer, broken,
                 accepted, wire>>

AutoFlush ==
  /\ flusher = "flush"
  /\ FlushLocked
  /\ flusher' = "wait"
  /\ UNCHANGED <<timer, firing, token, closed, closer, accepted>>

FlusherReturns ==
  /\ flusher = "wait" /\ closed
  /\ flusher' = "done"
  /\ UNCHANGED <<batch, batchSize, timer, firing, token, closed, closer,
                 broken, accepted, wire>>

\* Close, by one goroutine at a time: the channel, the timer, a last flush.
CloseChan ==
  /\ closer = "idle"
  /\ closed' = TRUE
  /\ closer' = "stop"
  /\ UNCHANGED <<batch, batchSize, timer, firing, token, flusher, broken,
                 accepted, wire>>

\* flushTimer is read without fw.mu: one that was just created may be missed.
StopTimer ==
  /\ closer = "stop"
  /\ \/ timer' = IF timer = "running" THEN "idle" ELSE timer
     \/ UNCHANGED timer
  /\ closer' = "flush"
  /\ UNCHANGED <<batch, batchSize, firing, token, flusher, closed, broken,
                 accepted, wire>>

LastFlush ==
  /\ closer = "flush"
  /\ FlushLocked
  /\ closer' = "idle"
  /\ UNCHANGED <<timer, firing, token, flusher, closed, accepted>>

Flusher == TakeToken \/ AutoFlush \/ FlusherReturns
Closing == StopTimer \/ LastFlush

Next ==
  \/ \E n \in Sizes : WriteTypedFrame(n) \/ WriteFrame(n)
  \/ Flush \/ TimerExpires \/ SendToken \/ Flusher \/ CloseChan \/ Closing

Spec == Init /\ [][Next]_vars

\* Timers expire, callbacks and the autoFlusher run.
FairSpec ==
  Spec /\ WF_vars(TimerExpires) /\ WF_vars(SendToken) /\ WF_vars(Flusher)

-----------------------------------------------------------------------------
(* Properties.                                                             *)

\* Until a write fails, what is on the wire and in the batch is what was
\* accepted, in order: nothing is lost, doubled or overtaken.
NothingLost == ~broken => wire \o batch = accepted

\* Whatever fails, the other end reads a prefix of it: no frame is written
\* after a missing one, and none is written again.
WireIsPrefix ==
  /\ Len(wire) <= Len(accepted)
  /\ wire = SubSeq(accepted, 1, Len(wire))

\* A frame that waits has somebody who will flush it: the timer, a callback,
\* a token or the autoFlusher.  The wake-up is never lost between them, as
\* long as the writer is open.
WaitingIsScheduled ==
  batch # <<>> /\ ~closed =>
    timer = "running" \/ firing > 0 \/ token \/ flusher = "flush"

\* So a frame leaves the batch without anybody calling Flush, unless the
\* writer is closed.
FramesLeave ==
  \A f \in 1 .. MaxFrames :
    (\E i \in 1 .. Len(batch) : batch[i][1] = f)
      ~> (closed \/ ~\E i \in 1 .. Len(batch) : batch[i][1] = f)

=============================================================================
