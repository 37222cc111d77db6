--------------------------- MODULE FrameWriterProofs ---------------------------
(***************************************************************************)
(* The batching writer and the channel it feeds, for any frame sizes,      *)
(* batch limit, pool and receivers: frames reach the connection in order   *)
(* and once, a frame that waits is never without a wake-up; writer,        *)
(* connection and frame loop together implement OrderedStream, and what    *)
(* is handed to receivers is intact.                                       *)
(***************************************************************************)
EXTENDS FrameLink, SequenceTheorems, TLAPS

-----------------------------------------------------------------------------
(* Sequences.                                                              *)

IsStart(w, a) == Len(w) <= Len(a) /\ w = SubSeq(a, 1, Len(w))

\* The first elements of a concatenation.
LEMMA StartOfConcat ==
  ASSUME NEW S, NEW w \in Seq(S), NEW b \in Seq(S), NEW k \in 0 .. Len(b)
  PROVE  /\ w \o SubSeq(b, 1, k) \in Seq(S)
         /\ IsStart(w \o SubSeq(b, 1, k), w \o b)
<1> DEFINE c == w \o SubSeq(b, 1, k)
           a == w \o b
<1>1. /\ SubSeq(b, 1, k) \in Seq(S) /\ Len(SubSeq(b, 1, k)) = k
      /\ \A i \in 1 .. k : SubSeq(b, 1, k)[i] = b[i]
  OBVIOUS
<1>2. /\ c \in Seq(S) /\ Len(c) = Len(w) + k
      /\ a \in Seq(S) /\ Len(a) = Len(w) + Len(b)
  BY <1>1
<1>3. \A i \in 1 .. Len(c) : c[i] = a[i]
  BY <1>1, <1>2
<1>4. /\ SubSeq(a, 1, Len(c)) \in Seq(S) /\ Len(SubSeq(a, 1, Len(c))) = Len(c)
      /\ \A i \in 1 .. Len(c) : SubSeq(a, 1, Len(c))[i] = a[i]
  BY <1>2
<1> HIDE DEF c, a
<1>5. c = SubSeq(a, 1, Len(c))
  BY <1>2, <1>3, <1>4, SeqEqual
<1>6. QED BY <1>2, <1>5 DEF IsStart, c, a

LEMMA AppendMoves ==
  ASSUME NEW S, NEW w \in Seq(S), NEW b \in Seq(S), NEW f \in S
  PROVE  /\ w \o Append(b, f) = Append(w \o b, f)
         /\ w \o <<>> = w /\ <<>> \o w = w
  OBVIOUS

\* A start stays a start when the whole grows.
LEMMA StartGrows ==
  ASSUME NEW S, NEW w \in Seq(S), NEW a \in Seq(S), NEW f \in S, IsStart(w, a)
  PROVE  IsStart(w, Append(a, f))
  BY DEF IsStart

-----------------------------------------------------------------------------
(* The invariant.                                                          *)

\* The buffer and its size agree on whether there is something to flush.
BatchOK == batch # <<>> => batchSize # 0

\* Only Close ends the autoFlusher and stops the timer.
FlusherOK ==
  /\ flusher = "done" => closed
  /\ closer # "idle" => closed

Inv == TypeOK /\ BatchOK /\ FlusherOK /\ NothingLost /\ WireIsPrefix
       /\ WaitingIsScheduled

LEMMA InitInv == Init => Inv
<1> SUFFICES ASSUME Init PROVE Inv
  OBVIOUS
<1>1. TypeOK
  <2>1. <<>> \in Seq(Frames) /\ 0 \in 0 .. MaxBatch /\ 0 \in 0 .. MaxFiring
    BY WriterAssumption
  <2>2. QED BY <2>1 DEF Init, TypeOK
<1>2. NothingLost /\ WireIsPrefix
  BY DEF Init, NothingLost, WireIsPrefix
<1>3. BatchOK /\ FlusherOK /\ WaitingIsScheduled
  BY DEF Init, BatchOK, FlusherOK, WaitingIsScheduled
<1>4. QED BY <1>1, <1>2, <1>3 DEF Inv

\* A write puts a prefix of the whole on the wire, and all of it unless it
\* fails.
LEMMA WriteKeeps ==
  ASSUME NEW before \in Seq(Frames), NEW buf \in Seq(Frames),
         NEW all \in Seq(Frames), Write(before, buf), broken \in BOOLEAN,
         ~broken => before \o buf = all,
         broken => before = wire /\ IsStart(wire, all)
  PROVE  /\ wire' \in Seq(Frames) /\ broken' \in BOOLEAN
         /\ IsStart(wire', all)
         /\ ~broken' => wire' = all
         /\ broken => broken'
<1>1. CASE ~broken /\ wire' = before \o buf /\ broken' = broken
  <2>1. wire' = all /\ IsStart(all, all)
    BY <1>1 DEF IsStart
  <2>2. QED BY <1>1, <2>1
<1>2. CASE broken' = TRUE /\ \E k \in 0 .. Len(buf) :
             /\ broken => k = 0
             /\ wire' = before \o SubSeq(buf, 1, k)
  <2>1. PICK k \in 0 .. Len(buf) : /\ broken => k = 0
                                   /\ wire' = before \o SubSeq(buf, 1, k)
    BY <1>2
  <2>2. CASE broken
    <3>1. SubSeq(buf, 1, 0) = <<>> /\ before \o <<>> = before
      OBVIOUS
    <3>2. QED BY <1>2, <2>1, <2>2, <3>1
  <2>3. CASE ~broken
    <3>1. wire' \in Seq(Frames) /\ IsStart(wire', before \o buf)
      BY <2>1, StartOfConcat
    <3>2. QED BY <1>2, <2>3, <3>1
  <2>4. QED BY <2>2, <2>3
<1>3. QED BY <1>1, <1>2 DEF Write

\* flushLocked keeps the order and leaves an empty batch.
LEMMA FlushKeeps ==
  ASSUME Inv, FlushLocked, accepted' = accepted
  PROVE  /\ batch' = <<>> /\ batchSize' = 0
         /\ wire' \in Seq(Frames) /\ broken' \in BOOLEAN
         /\ NothingLost' /\ WireIsPrefix'
<1>1. CASE batchSize = 0
  <2>1. batch = <<>> /\ UNCHANGED <<batch, batchSize, broken, wire>>
    BY <1>1 DEF Inv, BatchOK, FlushLocked
  <2>2. QED BY <1>1, <2>1 DEF Inv, TypeOK, NothingLost, WireIsPrefix
<1>2. CASE batchSize # 0
  <2>1. Write(wire, batch) /\ batch' = <<>> /\ batchSize' = 0
    BY <1>2 DEF FlushLocked
  <2>2. /\ wire' \in Seq(Frames) /\ broken' \in BOOLEAN
        /\ IsStart(wire', accepted)
        /\ ~broken' => wire' = accepted
    BY <2>1, WriteKeeps DEF Inv, TypeOK, NothingLost, WireIsPrefix, IsStart
  <2>3. wire' \o <<>> = wire'
    BY <2>2
  <2>4. QED BY <2>1, <2>2, <2>3 DEF NothingLost, WireIsPrefix, IsStart
<1>3. QED BY <1>1, <1>2

\* What follows from an empty batch.
LEMMA EmptyBatch ==
  ASSUME batch' = <<>>
  PROVE  BatchOK' /\ WaitingIsScheduled'
  BY DEF BatchOK, WaitingIsScheduled

-----------------------------------------------------------------------------
(* The operations.                                                         *)

LEMMA FlushSteps ==
  ASSUME Inv, Flush \/ AutoFlush \/ LastFlush
  PROVE  Inv'
<1>1. FlushLocked /\ UNCHANGED <<timer, firing, token, closed, accepted>>
  BY DEF Flush, AutoFlush, LastFlush
<1>2. /\ batch' = <<>> /\ batchSize' = 0
      /\ wire' \in Seq(Frames) /\ broken' \in BOOLEAN
      /\ NothingLost' /\ WireIsPrefix'
  BY <1>1, FlushKeeps
<1>3. /\ flusher' \in {"wait", "flush", "done"}
      /\ closer' \in {"idle", "stop", "flush"}
      /\ flusher' = "done" => closed'
      /\ closer' # "idle" => closed'
  BY DEF Inv, TypeOK, FlusherOK, Flush, AutoFlush, LastFlush
<1>4. TypeOK' /\ FlusherOK'
  BY <1>1, <1>2, <1>3, WriterAssumption DEF Inv, TypeOK, FlusherOK
<1>5. QED BY <1>2, <1>4, EmptyBatch DEF Inv

\* A frame that joins the batch: the two halves in which it may.
LEMMA Joins ==
  ASSUME Inv, NEW n \in Sizes, Overflows(n) => ~broken
  PROVE  /\ NextFrame(n) \in Frames
         /\ KeptFor(n) \in Seq(Frames) /\ SentFor(n) \in Seq(Frames)
         /\ KeptSizeFor(n) \in Nat /\ KeptSizeFor(n) + n \in 1 .. MaxBatch
         /\ ~broken => SentFor(n) \o Append(KeptFor(n), NextFrame(n))
                         = Append(accepted, NextFrame(n))
         /\ broken => SentFor(n) = wire
         /\ IsStart(SentFor(n), Append(accepted, NextFrame(n)))
         /\ IsStart(wire, Append(accepted, NextFrame(n)))
<1> USE DEF Inv, TypeOK
<1>1. NextFrame(n) \in Frames
  BY DEF NextFrame, Frames
<1>2. n \in Nat \ {0} /\ n <= MaxBatch /\ MaxBatch \in Nat
  BY WriterAssumption
<1>3. /\ KeptFor(n) \in Seq(Frames) /\ SentFor(n) \in Seq(Frames)
      /\ ~broken => SentFor(n) \o KeptFor(n) = accepted
      /\ broken => SentFor(n) = wire
  BY DEF KeptFor, SentFor, NothingLost
<1>4. KeptSizeFor(n) \in Nat /\ KeptSizeFor(n) + n \in 1 .. MaxBatch
  BY <1>2 DEF KeptSizeFor, Overflows
<1>5. IsStart(SentFor(n), accepted) /\ IsStart(wire, accepted)
  <2>1. IsStart(wire, accepted)
    BY DEF WireIsPrefix, IsStart
  <2>2. CASE Overflows(n)
    <3>1. SentFor(n) = accepted
      BY <2>2 DEF SentFor, NothingLost
    <3>2. QED BY <2>1, <3>1 DEF IsStart
  <2>3. CASE ~Overflows(n)
    BY <2>1, <2>3 DEF SentFor
  <2>4. QED BY <2>1, <2>2, <2>3
<1>6. ~broken => SentFor(n) \o Append(KeptFor(n), NextFrame(n))
                   = Append(accepted, NextFrame(n))
  BY <1>1, <1>3, AppendMoves
<1>7. QED BY <1>1, <1>3, <1>4, <1>5, <1>6, StartGrows

LEMMA NoRoomStep ==
  ASSUME Inv, NEW n \in Sizes, NoRoom(n),
         UNCHANGED <<firing, token, flusher, closed, closer>>
  PROVE  Inv'
<1>1. /\ wire' \in Seq(Frames) /\ broken' \in BOOLEAN
      /\ IsStart(wire', accepted) /\ broken'
  BY WriteKeeps DEF NoRoom, Inv, TypeOK, NothingLost, WireIsPrefix, IsStart
<1>2. /\ batch' = <<>> /\ batchSize' = 0 /\ UNCHANGED <<timer, accepted>>
  BY DEF NoRoom
<1>3. NothingLost' /\ WireIsPrefix'
  BY <1>1, <1>2 DEF NothingLost, WireIsPrefix, IsStart
<1>4. TypeOK' /\ FlusherOK'
  BY <1>1, <1>2, WriterAssumption DEF Inv, TypeOK, FlusherOK
<1>5. QED BY <1>2, <1>3, <1>4, EmptyBatch DEF Inv

LEMMA BatchedStep ==
  ASSUME Inv, NEW n \in Sizes, Batched(n),
         UNCHANGED <<firing, token, flusher, closed, closer>>
  PROVE  Inv'
<1> DEFINE f == NextFrame(n)
<1>1. /\ batch' = Append(KeptFor(n), f) /\ batchSize' = KeptSizeFor(n) + n
      /\ wire' = SentFor(n) /\ accepted' = Append(accepted, f)
      /\ timer' = "running" /\ broken' = broken
      /\ Overflows(n) => ~broken
  BY DEF Batched, ScheduleFlush
<1>2. /\ f \in Frames
      /\ KeptFor(n) \in Seq(Frames) /\ SentFor(n) \in Seq(Frames)
      /\ KeptSizeFor(n) \in Nat /\ KeptSizeFor(n) + n \in 1 .. MaxBatch
      /\ ~broken => SentFor(n) \o Append(KeptFor(n), f) = Append(accepted, f)
      /\ IsStart(SentFor(n), Append(accepted, f))
  BY <1>1, Joins
<1> HIDE DEF f
<1>3. NothingLost' /\ WireIsPrefix'
  BY <1>1, <1>2 DEF NothingLost, WireIsPrefix, IsStart
<1>4. TypeOK'
  BY <1>1, <1>2 DEF Inv, TypeOK
<1>5. BatchOK' /\ FlusherOK' /\ WaitingIsScheduled'
  BY <1>1, <1>2 DEF Inv, BatchOK, FlusherOK, WaitingIsScheduled
<1>6. QED BY <1>3, <1>4, <1>5 DEF Inv

LEMMA WriteThroughStep ==
  ASSUME Inv, NEW n \in Sizes,
         Overflows(n) => ~broken,
         Write(SentFor(n), Append(KeptFor(n), NextFrame(n))),
         batch' = <<>>, batchSize' = 0,
         accepted' = Append(accepted, NextFrame(n)),
         UNCHANGED <<timer, firing, token, flusher, closed, closer>>
  PROVE  Inv'
<1> DEFINE f == NextFrame(n)
           b == Append(KeptFor(n), f)
           a == Append(accepted, f)
<1>1. /\ f \in Frames
      /\ KeptFor(n) \in Seq(Frames) /\ SentFor(n) \in Seq(Frames)
      /\ ~broken => SentFor(n) \o b = a
      /\ broken => SentFor(n) = wire /\ IsStart(wire, a)
  BY Joins
<1>2. b \in Seq(Frames) /\ a \in Seq(Frames) /\ broken \in BOOLEAN
  BY <1>1 DEF Inv, TypeOK
<1>3. Write(SentFor(n), b) /\ accepted' = a
  OBVIOUS
<1> HIDE DEF f, b, a
<1>4. /\ wire' \in Seq(Frames) /\ broken' \in BOOLEAN
      /\ IsStart(wire', a)
      /\ ~broken' => wire' = a
  BY <1>1, <1>2, <1>3, WriteKeeps
<1>5. wire' \o <<>> = wire'
  BY <1>4
<1>6. NothingLost' /\ WireIsPrefix'
  BY <1>3, <1>4, <1>5 DEF NothingLost, WireIsPrefix, IsStart
<1>7. TypeOK' /\ FlusherOK'
  BY <1>2, <1>3, <1>4, WriterAssumption DEF Inv, TypeOK, FlusherOK
<1>8. QED BY <1>6, <1>7, EmptyBatch DEF Inv

\* The timer, the token, the autoFlusher and Close do not touch the frames.
LEMMA WakeupSteps ==
  ASSUME Inv, \/ TimerExpires \/ SendToken \/ TakeToken \/ FlusherReturns
              \/ CloseChan \/ StopTimer
  PROVE  Inv'
<1>1. UNCHANGED <<batch, batchSize, broken, accepted, wire>>
  BY DEF TimerExpires, SendToken, TakeToken, FlusherReturns, CloseChan, StopTimer
<1>2. NothingLost' /\ WireIsPrefix' /\ BatchOK'
  BY <1>1 DEF Inv, NothingLost, WireIsPrefix, BatchOK
<1>3. TypeOK'
  <2>1. /\ batch' \in Seq(Frames) /\ batchSize' \in 0 .. MaxBatch
        /\ broken' \in BOOLEAN
        /\ accepted' \in Seq(Frames) /\ wire' \in Seq(Frames)
    BY <1>1 DEF Inv, TypeOK
  <2>2. firing' \in 0 .. MaxFiring
    BY WriterAssumption DEF Inv, TypeOK, TimerExpires, SendToken, TakeToken,
       FlusherReturns, CloseChan, StopTimer
  <2>3. /\ timer' \in {"none", "running", "idle"} /\ token' \in BOOLEAN
        /\ flusher' \in {"wait", "flush", "done"} /\ closed' \in BOOLEAN
        /\ closer' \in {"idle", "stop", "flush"}
    BY DEF Inv, TypeOK, TimerExpires, SendToken, TakeToken, FlusherReturns,
       CloseChan, StopTimer
  <2>4. QED BY <2>1, <2>2, <2>3 DEF TypeOK
<1>4. FlusherOK'
  BY DEF Inv, FlusherOK, TimerExpires, SendToken, TakeToken, FlusherReturns,
     CloseChan, StopTimer
<1>5. WaitingIsScheduled'
  <2> SUFFICES ASSUME batch' # <<>>, ~closed'
               PROVE  timer' = "running" \/ firing' > 0 \/ token'
                        \/ flusher' = "flush"
    BY DEF WaitingIsScheduled
  <2>1. CASE TimerExpires \/ SendToken \/ TakeToken
    BY <2>1, WriterAssumption DEF Inv, TypeOK, WaitingIsScheduled, TimerExpires,
       SendToken, TakeToken
  <2>2. CASE FlusherReturns \/ CloseChan \/ StopTimer
    BY <2>2 DEF Inv, FlusherOK, FlusherReturns, CloseChan, StopTimer
  <2>3. QED BY <2>1, <2>2
<1>6. QED BY <1>2, <1>3, <1>4, <1>5 DEF Inv

LEMMA StepInv == Inv /\ [Next]_vars => Inv'
<1> SUFFICES ASSUME Inv, [Next]_vars PROVE Inv'
  OBVIOUS
<1>1. ASSUME NEW n \in Sizes, WriteTypedFrame(n) \/ WriteFrame(n) PROVE Inv'
  <2>1. UNCHANGED <<firing, token, flusher, closed, closer>>
    BY <1>1 DEF WriteTypedFrame, WriteFrame
  <2>2. CASE NoRoom(n) BY <2>1, <2>2, NoRoomStep
  <2>3. CASE Batched(n) BY <2>1, <2>3, BatchedStep
  <2>4. CASE /\ Overflows(n) => ~broken
             /\ Write(SentFor(n), Append(KeptFor(n), NextFrame(n)))
             /\ batch' = <<>> /\ batchSize' = 0
             /\ accepted' = Append(accepted, NextFrame(n))
             /\ UNCHANGED timer
    BY <2>1, <2>4, WriteThroughStep
  <2>5. QED BY <1>1, <2>2, <2>3, <2>4 DEF WriteTypedFrame, WriteFrame
<1>2. CASE UNCHANGED vars
  BY <1>2 DEF vars, Inv, TypeOK, BatchOK, FlusherOK, NothingLost, WireIsPrefix,
     WaitingIsScheduled
<1>3. QED
  BY <1>1, <1>2, FlushSteps, WakeupSteps DEF Next, Flusher, Closing

LEMMA Invariance == Spec => []Inv
<1>1. QED BY StepInv, InitInv, PTL DEF Spec

\* As long as writes succeed no frame is lost, doubled or reordered between
\* WriteTypedFrame and the connection (framing.go:289-325, 380-388).
THEOREM FramesInOrder == Spec => []NothingLost
<1>1. Inv => NothingLost BY DEF Inv
<1>2. QED BY <1>1, Invariance, PTL

\* A failing connection truncates the stream and does not tear a hole into it.
THEOREM PrefixOnTheWire == Spec => []WireIsPrefix
<1>1. Inv => WireIsPrefix BY DEF Inv
<1>2. QED BY <1>1, Invariance, PTL

\* Timer, callback, token and autoFlusher never lose a wake-up between them,
\* for any number of callbacks under way (framing.go:358-399).
THEOREM AlwaysScheduled == Spec => []WaitingIsScheduled
<1>1. Inv => WaitingIsScheduled BY DEF Inv
<1>2. QED BY <1>1, Invariance, PTL

-----------------------------------------------------------------------------
(* The channel is a stream.                                                *)

\* Parts of sequences.
LEMMA Parts ==
  ASSUME NEW S, NEW w \in Seq(S), NEW k \in 0 .. Len(w)
  PROVE  /\ SubSeq(w, 1, k) \in Seq(S) /\ Len(SubSeq(w, 1, k)) = k
         /\ SubSeq(w, k + 1, Len(w)) \in Seq(S)
         /\ SubSeq(w, 1, k) \o SubSeq(w, k + 1, Len(w)) = w
<1>1. Len(w) \in Nat /\ k \in Nat /\ k <= Len(w) /\ \A i \in 1 .. Len(w) : w[i] \in S
  OBVIOUS
<1>2. SubSeq(w, 1, k) \in Seq(S) /\ Len(SubSeq(w, 1, k)) = k
  <2>1. \A i \in 1 .. k : w[i] \in S
    BY <1>1
  <2>2. QED BY <1>1, <2>1, SubSeqProperties
<1>3. SubSeq(w, k + 1, Len(w)) \in Seq(S)
  <2>1. \A i \in k + 1 .. Len(w) : w[i] \in S
    BY <1>1
  <2>2. k + 1 \in Int /\ Len(w) \in Int
    BY <1>1
  <2>3. QED BY <2>1, <2>2, SubSeqProperties
<1>4. SubSeq(w, 1, k) \o SubSeq(w, k + 1, Len(w)) = SubSeq(w, 1, Len(w))
  <2>1. /\ 1 \in 1 .. Len(w) + 1 /\ k \in 1 - 1 .. Len(w)
        /\ Len(w) \in k .. Len(w)
    BY <1>1
  <2>2. QED BY <2>1, ConcatAdjacentSubSeq
<1>5. QED BY <1>2, <1>3, <1>4, SubSeqFull

\* A concatenation begins like its first part.
LEMMA ConcatBegins ==
  ASSUME NEW S, NEW w \in Seq(S), NEW b \in Seq(S), NEW k \in 0 .. Len(w)
  PROVE  SubSeq(w \o b, 1, k) = SubSeq(w, 1, k)
<1>1. CASE k = 0
  BY <1>1, SubSeqEmpty
<1>2. CASE k # 0
  <2>1. 1 \in 1 .. Len(w) /\ k \in 1 .. Len(w)
    BY <1>2
  <2>2. QED BY <2>1, SubSeqOfConcat1
<1>3. QED BY <1>1, <1>2

LEMMA ConcatStarts ==
  ASSUME NEW S, NEW w \in Seq(S), NEW b \in Seq(S)
  PROVE  w \o b \in Seq(S) /\ IsStart(w, w \o b)
<1>1. /\ w \o b \in Seq(S) /\ Len(w) <= Len(w \o b) /\ Len(w) \in 0 .. Len(w)
  BY ConcatProperties
<1>2. SubSeq(w \o b, 1, Len(w)) = w
  BY <1>1, ConcatBegins, SubSeqFull
<1>3. QED BY <1>1, <1>2 DEF IsStart

\* What begins with a start is that and a rest.
LEMMA StartAndRest ==
  ASSUME NEW S, NEW w \in Seq(S), NEW a \in Seq(S), IsStart(w, a)
  PROVE  \E t \in Seq(S) : a = w \o t
<1>1. Len(w) \in 0 .. Len(a) /\ w = SubSeq(a, 1, Len(w))
  BY DEF IsStart
<1>2. QED BY <1>1, Parts

LEMMA StartIsReflexive ==
  ASSUME NEW S, NEW w \in Seq(S)
  PROVE  IsStart(w, w)
  BY SubSeqFull DEF IsStart

LEMMA StartIsTransitive ==
  ASSUME NEW S, NEW u \in Seq(S), NEW w \in Seq(S), NEW a \in Seq(S),
         IsStart(u, w), IsStart(w, a)
  PROVE  IsStart(u, a)
<1>1. PICK t \in Seq(S) : w = u \o t
  BY StartAndRest
<1>2. PICK v \in Seq(S) : a = w \o v
  BY StartAndRest
<1>3. a = u \o (t \o v) /\ t \o v \in Seq(S)
  BY <1>1, <1>2, ConcatAssociative, ConcatProperties
<1>4. QED BY <1>3, ConcatStarts

\* What follows the same start is the same.
LEMMA SameRest ==
  ASSUME NEW S, NEW u \in Seq(S), NEW v \in Seq(S), NEW z \in Seq(S),
         u \o v = u \o z
  PROVE  v = z
<1>1. /\ Len(u \o v) = Len(u) + Len(v) /\ Len(u \o z) = Len(u) + Len(z)
      /\ Len(u) \in Nat /\ Len(v) \in Nat /\ Len(z) \in Nat
  BY ConcatProperties
<1>2. Len(v) = Len(z)
  BY <1>1
<1>3. ASSUME NEW i \in 1 .. Len(v) PROVE v[i] = z[i]
  <2>1. /\ (u \o v)[Len(u) + i] = v[i] /\ (u \o z)[Len(u) + i] = z[i]
    BY <1>1, <1>2, ConcatProperties
  <2>2. QED BY <2>1
<1>4. QED BY <1>2, <1>3, SeqEqual

\* A sequence cut in two, with something behind it.
LEMMA Cut ==
  ASSUME NEW S, NEW w \in Seq(S), NEW b \in Seq(S), NEW k \in 0 .. Len(w)
  PROVE  /\ SubSeq(w, 1, k) \o (SubSeq(w, k + 1, Len(w)) \o b) = w \o b
         /\ SubSeq(w, k + 1, Len(w)) \o b \in Seq(S)
         /\ SubSeq(w, k + 1, Len(w)) \o b
              = SubSeq(w \o b, k + 1, Len(w \o b))
<1> DEFINE u == SubSeq(w, 1, k)
           v == SubSeq(w, k + 1, Len(w))
           a == w \o b
           z == SubSeq(a, k + 1, Len(a))
<1>1. u \in Seq(S) /\ v \in Seq(S) /\ u \o v = w
  BY Parts
<1>2. a \in Seq(S) /\ k \in 0 .. Len(a)
  BY ConcatProperties
<1>3. SubSeq(a, 1, k) = u
  BY ConcatBegins
<1>4. z \in Seq(S) /\ SubSeq(a, 1, k) \o z = a
  <2> HIDE DEF a
  <2>1. QED BY <1>2, Parts
<1> HIDE DEF u, v, z
<1>5. u \o (v \o b) = a /\ v \o b \in Seq(S)
  <2>1. (u \o v) \o b = u \o (v \o b)
    <3>1. u \in Seq(S) /\ v \in Seq(S) /\ b \in Seq(S)
      BY <1>1
    <3>2. QED BY <3>1, ConcatAssociative
  <2>2. v \o b \in Seq(S)
    BY <1>1, ConcatProperties
  <2>3. QED BY <1>1, <2>1, <2>2
<1>6. v \o b = z
  <2>1. u \o (v \o b) = u \o z
    BY <1>3, <1>4, <1>5
  <2>2. QED BY <1>1, <1>4, <1>5, <2>1, SameRest
<1>7. QED BY <1>5, <1>6 DEF u, v, z

\* What a start has before an index, the whole has too; what it has after it,
\* the whole begins with there.
LEMMA StartsAgree ==
  ASSUME NEW S, NEW w \in Seq(S), NEW a \in Seq(S), IsStart(w, a),
         NEW k \in 0 .. Len(w)
  PROVE  /\ SubSeq(w, 1, k) = SubSeq(a, 1, k)
         /\ IsStart(SubSeq(w, k + 1, Len(w)), SubSeq(a, k + 1, Len(a)))
<1>1. PICK t \in Seq(S) : a = w \o t
  BY StartAndRest
<1>2. SubSeq(a, 1, k) = SubSeq(w, 1, k)
  BY <1>1, ConcatBegins
<1>3. SubSeq(a, k + 1, Len(a)) = SubSeq(w, k + 1, Len(w)) \o t
  BY <1>1, Cut
<1>4. SubSeq(w, k + 1, Len(w)) \in Seq(S)
  BY Parts
<1>5. QED BY <1>2, <1>3, <1>4, ConcatStarts

\* What a write leaves on the wire.
LEMMA WriteShape ==
  ASSUME NEW before \in Seq(Frames), NEW buf \in Seq(Frames), Write(before, buf),
         wire \in Seq(Frames), IsStart(wire, before), broken => before = wire
  PROVE  /\ IsStart(wire, wire')
         /\ broken => wire' = wire /\ broken'
         /\ ~broken /\ broken' =>
              \E k \in 0 .. Len(buf) : /\ k > 0 => k < Len(buf)
                                      /\ wire' = before \o SubSeq(buf, 1, k)
<1>1. CASE ~broken /\ wire' = before \o buf /\ broken' = broken
  <2>1. IsStart(before, wire') /\ wire' \in Seq(Frames)
    BY <1>1, ConcatStarts
  <2>2. QED BY <1>1, <2>1, StartIsTransitive
<1>2. CASE broken' = TRUE /\ \E k \in 0 .. Len(buf) :
             /\ broken => k = 0
             /\ k > 0 => k < Len(buf)
             /\ wire' = before \o SubSeq(buf, 1, k)
  <2>1. PICK k \in 0 .. Len(buf) : /\ broken => k = 0
                                   /\ k > 0 => k < Len(buf)
                                   /\ wire' = before \o SubSeq(buf, 1, k)
    BY <1>2
  <2>2. SubSeq(buf, 1, k) \in Seq(Frames)
    BY Parts
  <2>3. IsStart(before, wire') /\ wire' \in Seq(Frames)
    BY <2>1, <2>2, ConcatStarts
  <2>4. IsStart(wire, wire')
    BY <2>3, StartIsTransitive
  <2>5. ASSUME broken PROVE wire' = wire
    <3>1. SubSeq(buf, 1, k) = <<>>
      BY <2>1, <2>5, SubSeqEmpty
    <3>2. QED BY <2>1, <2>5, <3>1, ConcatEmptySeq
  <2>6. QED BY <1>2, <2>1, <2>4, <2>5
<1>3. QED BY <1>1, <1>2 DEF Write

\* What any step does to the wire: it grows unless a write has failed, and a
\* write that fails puts nothing there that was not accepted before the step.
Shape ==
  /\ IsStart(wire, wire')
  /\ broken => wire' = wire /\ broken'
  /\ ~broken /\ broken' => IsStart(wire', accepted)
  /\ \/ accepted' = accepted
     \/ \E n \in Sizes : accepted' = Append(accepted, NextFrame(n))

LEMMA SameWire == ASSUME Inv, UNCHANGED <<wire, broken, accepted>> PROVE Shape
<1>1. wire \in Seq(Frames)
  BY DEF Inv, TypeOK
<1>2. QED BY <1>1, StartIsReflexive DEF Shape

\* The batch is written.
LEMMA BatchWritten ==
  ASSUME Inv, Write(wire, batch), accepted' = accepted
  PROVE  Shape
<1>1. /\ wire \in Seq(Frames) /\ batch \in Seq(Frames)
      /\ ~broken => wire \o batch = accepted
  BY DEF Inv, TypeOK, NothingLost
<1>2. IsStart(wire, wire)
  BY <1>1, StartIsReflexive
<1>3. /\ IsStart(wire, wire')
      /\ broken => wire' = wire /\ broken'
      /\ ~broken /\ broken' =>
           \E k \in 0 .. Len(batch) : wire' = wire \o SubSeq(batch, 1, k)
  BY <1>1, <1>2, WriteShape
<1>4. ASSUME ~broken, broken' PROVE IsStart(wire', accepted)
  BY <1>1, <1>3, <1>4, StartOfConcat
<1>5. QED BY <1>3, <1>4 DEF Shape

\* The batch is written with the new frame, or the new frame alone.
LEMMA WrittenThrough ==
  ASSUME Inv, NEW n \in Sizes, Overflows(n) => ~broken,
         Write(SentFor(n), Append(KeptFor(n), NextFrame(n))),
         accepted' = Append(accepted, NextFrame(n))
  PROVE  Shape
<1> DEFINE f == NextFrame(n)
           b == KeptFor(n)
           w == SentFor(n)
<1>1. /\ f \in Frames /\ b \in Seq(Frames) /\ w \in Seq(Frames)
      /\ broken => w = wire
  BY Joins
<1>2. /\ wire \in Seq(Frames) /\ batch \in Seq(Frames)
      /\ ~broken => w \o b = accepted
  BY DEF Inv, TypeOK, NothingLost, KeptFor, SentFor
<1>3. IsStart(wire, w)
  <2>1. IsStart(wire, wire \o batch)
    BY <1>2, ConcatStarts
  <2>2. IsStart(wire, wire)
    BY <1>2, StartIsReflexive
  <2>3. QED BY <2>1, <2>2 DEF SentFor
<1>4. Write(w, Append(b, f)) /\ accepted' = Append(accepted, f)
  OBVIOUS
<1> HIDE DEF f, b, w
<1>5. Append(b, f) \in Seq(Frames) /\ Len(Append(b, f)) = Len(b) + 1
  BY <1>1, AppendProperties
<1>6. /\ IsStart(wire, wire')
      /\ broken => wire' = wire /\ broken'
      /\ ~broken /\ broken' =>
           \E k \in 0 .. Len(Append(b, f)) :
             /\ k > 0 => k < Len(Append(b, f))
             /\ wire' = w \o SubSeq(Append(b, f), 1, k)
  BY <1>1, <1>2, <1>3, <1>4, <1>5, WriteShape
<1>7. ASSUME ~broken, broken' PROVE IsStart(wire', accepted)
  <2>1. PICK k \in 0 .. Len(Append(b, f)) :
          /\ k > 0 => k < Len(Append(b, f))
          /\ wire' = w \o SubSeq(Append(b, f), 1, k)
    BY <1>6, <1>7
  <2>2. k \in 0 .. Len(b)
    BY <1>1, <1>5, <2>1
  <2>3. SubSeq(Append(b, f), 1, k) = SubSeq(b, 1, k)
    <3>1. Append(b, f) = b \o <<f>> /\ <<f>> \in Seq(Frames)
      BY <1>1, AppendIsConcat
    <3>2. QED BY <1>1, <2>2, <3>1, ConcatBegins
  <2>4. QED BY <1>1, <1>2, <1>7, <2>1, <2>2, <2>3, StartOfConcat
<1>8. accepted' = Append(accepted, NextFrame(n))
  OBVIOUS
<1>9. QED BY <1>6, <1>7, <1>8 DEF Shape

LEMMA StepShape == ASSUME Inv, [Next]_vars PROVE Shape
<1>1. ASSUME NEW n \in Sizes, WriteTypedFrame(n) \/ WriteFrame(n) PROVE Shape
  <2>1. CASE NoRoom(n)
    BY <2>1, BatchWritten DEF NoRoom
  <2>2. CASE Batched(n)
    <3>1. /\ wire' = SentFor(n) /\ broken' = broken
          /\ accepted' = Append(accepted, NextFrame(n))
          /\ NextFrame(n) \in Frames
          /\ broken => SentFor(n) = wire
      BY <2>2, Joins DEF Batched
    <3>2. IsStart(wire, wire \o batch) /\ IsStart(wire, wire)
      <4>1. wire \in Seq(Frames) /\ batch \in Seq(Frames)
        BY DEF Inv, TypeOK
      <4>2. QED BY <4>1, StartIsReflexive, ConcatStarts
    <3>3. IsStart(wire, wire')
      BY <3>1, <3>2 DEF SentFor
    <3>4. QED BY <3>1, <3>3 DEF Shape
  <2>3. CASE /\ Overflows(n) => ~broken
             /\ Write(SentFor(n), Append(KeptFor(n), NextFrame(n)))
             /\ accepted' = Append(accepted, NextFrame(n))
    BY <2>3, WrittenThrough
  <2>4. QED BY <1>1, <2>1, <2>2, <2>3 DEF WriteTypedFrame, WriteFrame
<1>2. CASE Flush \/ AutoFlush \/ LastFlush
  <2>1. FlushLocked /\ accepted' = accepted
    BY <1>2 DEF Flush, AutoFlush, LastFlush
  <2>2. CASE Write(wire, batch)
    BY <2>1, <2>2, BatchWritten
  <2>3. CASE UNCHANGED <<wire, broken>>
    BY <2>1, <2>3, SameWire
  <2>4. QED BY <2>1, <2>2, <2>3 DEF FlushLocked
<1>3. CASE \/ TimerExpires \/ SendToken \/ TakeToken \/ FlusherReturns
           \/ CloseChan \/ StopTimer
  <2>1. UNCHANGED <<wire, broken, accepted>>
    BY <1>3 DEF TimerExpires, SendToken, TakeToken, FlusherReturns, CloseChan,
       StopTimer
  <2>2. QED BY <2>1, SameWire
<1>4. CASE UNCHANGED vars
  BY <1>4, SameWire DEF vars
<1>5. QED BY <1>1, <1>2, <1>3, <1>4 DEF Next, Flusher, Closing

\* The frame loop has not read past the wire.
LinkInv ==
  /\ Inv
  /\ read \in 0 .. Len(wire)
  /\ loop = "payload" => read < Len(wire)

LEMMA ReaderSteps ==
  ASSUME LinkInv, ReaderStep
  PROVE  \/ UNCHANGED read /\ (loop' = "payload" => read < Len(wire))
         \/ read' = read + 1 /\ read < Len(wire) /\ loop' # "payload"
<1>1. CASE FrameLoop
  BY <1>1 DEF FrameLoop, ReadHeader, ReadPayload, ReadFails, Release, Dispatch,
     LinkInv
<1>2. CASE (\E r \in Receivers : Take(r)) \/ \E b \in Buffers : AnotherReader(b)
  BY <1>2 DEF Take, AnotherReader, LinkInv
<1>3. QED BY <1>1, <1>2 DEF ReaderStep

LEMMA LinkInvariance == LinkSpec => []LinkInv
<1>1. LinkInit => LinkInv
  <2> SUFFICES ASSUME LinkInit PROVE LinkInv
    OBVIOUS
  <2>1. Inv
    BY InitInv DEF LinkInit
  <2>2. QED BY <2>1 DEF LinkInit, LinkInv, Inv, TypeOK
<1>2. LinkInv /\ [LinkNext]_<<vars, reader>> => LinkInv'
  <2> SUFFICES ASSUME LinkInv, [LinkNext]_<<vars, reader>> PROVE LinkInv'
    OBVIOUS
  <2>1. Inv /\ wire \in Seq(Frames)
    BY DEF LinkInv, Inv, TypeOK
  <2>2. CASE [Next]_vars /\ UNCHANGED reader
    <3>1. Inv' /\ wire' \in Seq(Frames)
      BY <2>1, <2>2, StepInv DEF Inv, TypeOK
    <3>2. Len(wire) <= Len(wire')
      BY <2>1, <2>2, StepShape DEF Shape, IsStart
    <3>3. QED BY <2>1, <2>2, <3>1, <3>2 DEF LinkInv, reader
  <2>3. CASE ReaderStep /\ UNCHANGED vars
    <3>1. Inv'
      BY <2>1, <2>3, StepInv
    <3>2. wire' = wire
      BY <2>3 DEF vars
    <3>3. QED BY <2>1, <2>3, <3>1, <3>2, ReaderSteps DEF LinkInv
  <2>4. QED BY <2>2, <2>3 DEF LinkNext
<1>3. QED BY <1>1, <1>2, PTL DEF LinkSpec

\* What the writer does, seen as a stream: a frame is sent, or the stream is
\* lost, or nothing happens.
LEMMA WriterRefines ==
  ASSUME LinkInv, [Next]_vars, UNCHANGED reader
  PROVE  [Stream!Next]_(Stream!vars)
<1> DEFINE rest == SubSeq(wire, read + 1, Len(wire))
<1>1. /\ wire \in Seq(Frames) /\ batch \in Seq(Frames) /\ accepted \in Seq(Frames)
      /\ read \in 0 .. Len(wire) /\ broken \in BOOLEAN /\ read' = read
      /\ ~broken => wire \o batch = accepted
  BY DEF LinkInv, Inv, TypeOK, NothingLost, reader
<1>2. /\ wire' \in Seq(Frames) /\ batch' \in Seq(Frames) /\ broken' \in BOOLEAN
      /\ ~broken' => wire' \o batch' = accepted'
  BY StepInv DEF LinkInv, Inv, TypeOK, NothingLost
<1>3. Shape
  BY StepShape DEF LinkInv
<1>4. /\ SubSeq(wire', 1, read) = SubSeq(wire, 1, read)
      /\ read \in 0 .. Len(wire')
  BY <1>1, <1>2, <1>3, StartsAgree DEF Shape, IsStart
<1>5. broken => Transit = rest /\ rest \in Seq(Frames)
  BY <1>1, Parts, ConcatEmptySeq DEF Transit
<1>6. ~broken => Transit = SubSeq(accepted, read + 1, Len(accepted))
  <2>1. rest \o batch = SubSeq(wire \o batch, read + 1, Len(wire \o batch))
    BY <1>1, Cut
  <2>2. ~broken => Transit = rest \o batch
    BY DEF Transit
  <2>3. QED BY <1>1, <2>1, <2>2
<1>7. broken' => Transit' = SubSeq(wire', read + 1, Len(wire'))
  BY <1>1, <1>2, <1>4, Parts, ConcatEmptySeq DEF Transit
<1>8. ~broken' => Transit' = SubSeq(accepted', read + 1, Len(accepted'))
  <2>1. SubSeq(wire', read + 1, Len(wire')) \o batch'
          = SubSeq(wire' \o batch', read + 1, Len(wire' \o batch'))
    BY <1>2, <1>4, Cut
  <2>2. ~broken' => Transit' = SubSeq(wire', read + 1, Len(wire')) \o batch'
    BY <1>1 DEF Transit
  <2>3. QED BY <1>2, <2>1, <2>2
<1>9. CASE broken
  <2>1. Transit' = Transit /\ broken' = broken
    BY <1>1, <1>2, <1>3, <1>5, <1>7, <1>9 DEF Shape
  <2>2. QED BY <1>1, <1>4, <2>1 DEF Stream!vars
<1>10. CASE ~broken /\ broken'
  <2>1. IsStart(wire', accepted)
    BY <1>3, <1>10 DEF Shape
  <2>2. IsStart(Transit', Transit)
    BY <1>1, <1>2, <1>4, <1>6, <1>7, <1>10, <2>1, StartsAgree
  <2>3. Stream!Lose("frames")
    BY <1>1, <1>4, <1>10, <2>2 DEF Stream!Lose, Stream!Begins, IsStart
  <2>4. QED BY <2>3 DEF Stream!Next
<1>11. CASE ~broken /\ ~broken'
  <2>1. IsStart(accepted, accepted')
    <3>1. CASE accepted' = accepted
      BY <1>1, <3>1, StartIsReflexive
    <3>2. CASE \E n \in Sizes : accepted' = Append(accepted, NextFrame(n))
      <4>1. PICK n \in Sizes : accepted' = Append(accepted, NextFrame(n))
        BY <3>2
      <4>2. NextFrame(n) \in Frames
        BY <1>1 DEF NextFrame, Frames
      <4>3. QED BY <1>1, <4>1, <4>2, StartIsReflexive, StartGrows
    <3>3. QED BY <1>3, <3>1, <3>2 DEF Shape
  <2>2. accepted' \in Seq(Frames) /\ read \in 0 .. Len(accepted)
    <3>1. Len(accepted) = Len(wire) + Len(batch)
      BY <1>1, <1>11, ConcatProperties
    <3>2. accepted' \in Seq(Frames)
      BY <1>2, <1>11, ConcatProperties
    <3>3. QED BY <1>1, <3>1, <3>2
  <2>3. IsStart(Transit, Transit')
    BY <1>1, <1>6, <1>8, <1>11, <2>1, <2>2, StartsAgree
  <2>4. Stream!Send("frames")
    BY <1>1, <1>4, <1>11, <2>3 DEF Stream!Send, Stream!Begins, IsStart
  <2>5. QED BY <2>4 DEF Stream!Next
<1>12. QED BY <1>9, <1>10, <1>11

\* What the frame loop does, seen as a stream: a frame is received, or nothing
\* happens.
LEMMA ReaderRefines ==
  ASSUME LinkInv, ReaderStep, UNCHANGED vars
  PROVE  [Stream!Next]_(Stream!vars)
<1> DEFINE behind == IF broken THEN <<>> ELSE batch
<1>1. /\ wire \in Seq(Frames) /\ behind \in Seq(Frames) /\ read \in 0 .. Len(wire)
  BY DEF LinkInv, Inv, TypeOK
<1>2. /\ wire' = wire /\ behind' = behind /\ broken' = broken
  BY DEF vars
<1>3. CASE UNCHANGED read
  BY <1>2, <1>3 DEF Stream!vars, Transit
<1>4. CASE read' = read + 1 /\ read < Len(wire)
  <2>1. read' \in 0 .. Len(wire)
    BY <1>1, <1>4
  <2>2. Transit = SubSeq(wire, read + 1, Len(wire)) \o behind
    BY DEF Transit
  <2>3. Transit' = SubSeq(wire, read' + 1, Len(wire)) \o behind
    BY <1>2 DEF Transit
  <2> HIDE DEF behind
  <2>4. /\ SubSeq(wire, 1, read) \o Transit = wire \o behind
        /\ SubSeq(wire, 1, read') \o Transit' = wire \o behind
    BY <1>1, <2>1, <2>2, <2>3, Cut
  <2>5. IsStart(SubSeq(wire, 1, read), SubSeq(wire, 1, read'))
    <3>1. /\ SubSeq(wire, 1, read) \in Seq(Frames) /\ Len(SubSeq(wire, 1, read)) = read
          /\ SubSeq(wire, 1, read') \in Seq(Frames)
          /\ Len(SubSeq(wire, 1, read')) = read'
      BY <1>1, <2>1, Parts
    <3>2. SubSeq(SubSeq(wire, 1, read'), 1, read) = SubSeq(wire, 1, read)
      <4>1. IsStart(SubSeq(wire, 1, read'), wire)
        <5> DEFINE u == SubSeq(wire, 1, read')
        <5>1. u = SubSeq(wire, 1, read')
          OBVIOUS
        <5>2. Len(u) = read'
          BY <3>1
        <5> HIDE DEF u
        <5>3. Len(u) <= Len(wire)
          BY <1>1, <2>1, <5>2
        <5>4. u = SubSeq(wire, 1, Len(u))
          BY <5>1, <5>2
        <5>5. IsStart(u, wire)
          BY <5>3, <5>4 DEF IsStart
        <5>6. QED BY <5>5 DEF u
      <4>2. read \in 0 .. Len(SubSeq(wire, 1, read'))
        BY <1>1, <1>4, <3>1
      <4>3. QED BY <1>1, <3>1, <4>1, <4>2, StartsAgree
    <3>3. QED BY <1>1, <1>4, <3>1, <3>2 DEF IsStart
  <2>6. Stream!Receive("frames")
    BY <1>2, <2>4, <2>5 DEF Stream!Receive, Stream!Begins, IsStart
  <2>7. QED BY <2>6 DEF Stream!Next
<1>5. QED BY <1>3, <1>4, ReaderSteps

\* The persistent channel, with its batches, timers, failing writes and Close,
\* implements an ordered stream (framing.go:215-248, 289-411).
THEOREM ChannelIsStream == LinkSpec => KeepsOrder
<1>1. LinkInit => Stream!Init
  <2> SUFFICES ASSUME LinkInit PROVE Stream!Init
    OBVIOUS
  <2>1. /\ wire = <<>> /\ batch = <<>> /\ read = 0 /\ broken = FALSE
    BY DEF LinkInit, Init
  <2>2. SubSeq(wire, 1, read) = <<>> /\ SubSeq(wire, read + 1, Len(wire)) = <<>>
    BY <2>1, SubSeqEmpty
  <2>3. Transit = <<>>
    BY <2>1, <2>2 DEF Transit
  <2>4. QED BY <2>1, <2>2, <2>3 DEF Stream!Init
<1>2. LinkInv /\ [LinkNext]_<<vars, reader>> => [Stream!Next]_(Stream!vars)
  <2> SUFFICES ASSUME LinkInv, [LinkNext]_<<vars, reader>>
               PROVE  [Stream!Next]_(Stream!vars)
    OBVIOUS
  <2>1. CASE [Next]_vars /\ UNCHANGED reader
    BY <2>1, WriterRefines
  <2>2. CASE ReaderStep /\ UNCHANGED vars
    BY <2>2, ReaderRefines
  <2>3. QED BY <2>1, <2>2 DEF LinkNext
<1>3. QED BY <1>1, <1>2, LinkInvariance, PTL DEF LinkSpec, KeepsOrder, Stream!Spec

-----------------------------------------------------------------------------
(* What the receivers get.                                                 *)

ReaderTypes ==
  /\ loop \in {"header", "payload", "dispatch", "release", "failed"}
  /\ pool \subseteq Buffers /\ content \in [Buffers -> Nat]
  /\ buffer \in Buffers \cup {None}
  /\ inbox \in [Receivers -> Seq(Nat)] /\ got \in [Receivers -> Seq(Nat)]

\* The frame loop has a buffer of its own from the header to the release.
BufferOK ==
  /\ loop \in {"payload", "dispatch", "release"} => buffer \in Buffers \ pool
  /\ loop = "dispatch" => content[buffer] = read /\ read > 0

Numbered == \A i \in 1 .. Len(accepted) : accepted[i][1] = i

\* The newest frame that may have been handed on.
Newest == IF loop = "dispatch" THEN read - 1 ELSE read

HandedOK ==
  \A r \in Receivers :
    LET s == got[r] \o inbox[r]
    IN Increasing(s) /\ \A i \in 1 .. Len(s) : s[i] \in 1 .. Newest

ReaderInv == ReaderTypes /\ BufferOK /\ HandedOK

LEMMA NumberedStep ==
  ASSUME LinkInv, Numbered, [Next]_vars
  PROVE  Numbered'
<1>1. accepted \in Seq(Frames)
  BY DEF LinkInv, Inv, TypeOK
<1>2. \/ accepted' = accepted
      \/ \E n \in Sizes : accepted' = Append(accepted, NextFrame(n))
  BY StepShape DEF LinkInv, Shape
<1>3. ASSUME NEW n \in Sizes, accepted' = Append(accepted, NextFrame(n))
      PROVE  Numbered'
  <2>1. NextFrame(n) \in Frames /\ NextFrame(n)[1] = Len(accepted) + 1
    BY <1>1 DEF NextFrame, Frames
  <2>2. /\ Len(accepted') = Len(accepted) + 1
        /\ \A i \in 1 .. Len(accepted) : accepted'[i] = accepted[i]
        /\ accepted'[Len(accepted) + 1] = NextFrame(n)
    BY <1>1, <1>3, <2>1, AppendProperties
  <2>3. QED BY <1>1, <2>1, <2>2 DEF Numbered
<1>4. QED BY <1>2, <1>3 DEF Numbered

\* What is on the wire carries its number.
LEMMA WireNumbered ==
  ASSUME LinkInv, Numbered, NEW i \in 1 .. Len(wire)
  PROVE  wire[i][1] = i
<1>1. /\ wire \in Seq(Frames) /\ accepted \in Seq(Frames)
      /\ Len(wire) <= Len(accepted) /\ wire = SubSeq(accepted, 1, Len(wire))
  BY DEF LinkInv, Inv, TypeOK, WireIsPrefix
<1>2. wire[i] = accepted[i] /\ i \in 1 .. Len(accepted)
  BY <1>1
<1>3. QED BY <1>2 DEF Numbered

\* A newer frame may follow older ones.
LEMMA IncreasingGrows ==
  ASSUME NEW s \in Seq(Nat), NEW k \in Nat, NEW m \in Nat, Increasing(s),
         \A i \in 1 .. Len(s) : s[i] \in 1 .. m, m < k
  PROVE  /\ Increasing(Append(s, k))
         /\ \A i \in 1 .. Len(Append(s, k)) : Append(s, k)[i] \in 1 .. k
<1>1. /\ Len(Append(s, k)) = Len(s) + 1
      /\ \A i \in 1 .. Len(s) : Append(s, k)[i] = s[i]
      /\ Append(s, k)[Len(s) + 1] = k
  BY AppendProperties
<1> DEFINE t == Append(s, k)
<1> HIDE DEF t
<1>2. /\ Len(t) = Len(s) + 1 /\ \A i \in 1 .. Len(s) : t[i] = s[i]
      /\ t[Len(s) + 1] = k
  BY <1>1 DEF t
<1>3. Increasing(t)
  <2> SUFFICES ASSUME NEW i \in 1 .. Len(t), NEW j \in 1 .. Len(t), i < j
               PROVE  t[i] < t[j]
    BY DEF Increasing
  <2>1. i \in 1 .. Len(s) /\ s[i] \in Nat /\ s[i] <= m /\ t[i] = s[i]
    BY <1>2
  <2>2. CASE j \in 1 .. Len(s)
    BY <1>2, <2>1, <2>2 DEF Increasing
  <2>3. CASE j = Len(s) + 1
    BY <1>2, <2>1, <2>3
  <2>4. QED BY <1>2, <2>2, <2>3
<1>4. \A i \in 1 .. Len(t) : t[i] \in 1 .. k
  BY <1>2
<1>5. QED BY <1>3, <1>4 DEF t

LEMMA DispatchStep ==
  ASSUME LinkInv, ReaderInv, NEW r \in Receivers, Dispatch(r)
  PROVE  ReaderInv'
<1>1. /\ content[buffer] = read /\ read \in Nat /\ read > 0
      /\ buffer \in Buffers \ pool /\ loop = "dispatch"
      /\ inbox \in [Receivers -> Seq(Nat)] /\ got \in [Receivers -> Seq(Nat)]
  BY DEF Dispatch, ReaderInv, BufferOK, ReaderTypes, LinkInv
<1>2. /\ loop' = "release" /\ UNCHANGED <<read, buffer, pool, content, got>>
      /\ inbox' = IF Len(inbox[r]) < InboxSize
                  THEN [inbox EXCEPT ![r] = Append(@, content[buffer])] ELSE inbox
  BY DEF Dispatch
<1>3. inbox' \in [Receivers -> Seq(Nat)]
  <2>1. Append(inbox[r], read) \in Seq(Nat)
    BY <1>1, AppendProperties
  <2>2. QED BY <1>1, <1>2, <2>1
<1>4. ReaderTypes' /\ BufferOK'
  BY <1>1, <1>2, <1>3 DEF ReaderInv, ReaderTypes, BufferOK
<1>5. HandedOK'
  <2> SUFFICES ASSUME NEW q \in Receivers
               PROVE  LET s == got[q] \o inbox'[q]
                      IN /\ Increasing(s)
                         /\ \A i \in 1 .. Len(s) : s[i] \in 1 .. read
    BY <1>2 DEF HandedOK, Newest
  <2> DEFINE s == got[q] \o inbox[q]
  <2>1. s \in Seq(Nat) /\ Increasing(s) /\ \A i \in 1 .. Len(s) : s[i] \in 1 .. read - 1
    BY <1>1, ConcatProperties DEF ReaderInv, HandedOK, Newest
  <2>2. CASE inbox'[q] = inbox[q]
    <3>1. \A i \in 1 .. Len(s) : s[i] \in 1 .. read
      BY <1>1, <2>1
    <3>2. QED BY <2>1, <2>2, <3>1
  <2>3. CASE inbox'[q] = Append(inbox[q], read)
    <3>1. got[q] \o inbox'[q] = Append(s, read)
      BY <1>1, <2>3, AppendMoves
    <3>2. /\ Increasing(Append(s, read))
          /\ \A i \in 1 .. Len(Append(s, read)) : Append(s, read)[i] \in 1 .. read
      <4> HIDE DEF s
      <4>1. read - 1 \in Nat /\ read - 1 < read
        BY <1>1
      <4>2. QED BY <1>1, <2>1, <4>1, IncreasingGrows
    <3>3. QED BY <3>1, <3>2
  <2>4. QED BY <1>1, <1>2, <2>2, <2>3
<1>6. QED BY <1>4, <1>5 DEF ReaderInv

\* Nothing is handed on or taken.
LEMMA SameHanded ==
  ASSUME ReaderInv, UNCHANGED <<inbox, got>>, Newest \in Nat,
         Newest' \in Nat, Newest <= Newest'
  PROVE  HandedOK'
<1> SUFFICES ASSUME NEW r \in Receivers
             PROVE  LET s == got[r] \o inbox[r]
                    IN /\ Increasing(s)
                       /\ \A i \in 1 .. Len(s) : s[i] \in 1 .. Newest'
  BY DEF HandedOK
<1> DEFINE s == got[r] \o inbox[r]
<1>1. /\ Increasing(s) /\ \A i \in 1 .. Len(s) : s[i] \in 1 .. Newest
  BY DEF ReaderInv, HandedOK
<1> HIDE DEF s
<1>2. \A i \in 1 .. Len(s) : s[i] \in 1 .. Newest'
  BY <1>1
<1>3. QED BY <1>1, <1>2 DEF s

LEMMA ReadSteps ==
  ASSUME LinkInv, Numbered, ReaderInv, UNCHANGED vars,
         ReadHeader \/ ReadPayload \/ ReadFails \/ Release
         \/ \E b \in Buffers : AnotherReader(b)
  PROVE  ReaderInv'
<1>1. /\ UNCHANGED <<inbox, got>> /\ read \in Nat
      /\ wire \in Seq(Frames) /\ wire' = wire
      /\ loop = "payload" => read < Len(wire)
  BY DEF ReadHeader, ReadPayload, ReadFails, Release, AnotherReader, vars,
     LinkInv, Inv, TypeOK
<1>2. CASE ReadHeader
  <2>1. ReaderTypes' /\ BufferOK'
    BY <1>2 DEF ReadHeader, ReaderInv, ReaderTypes, BufferOK
  <2>2. HandedOK'
    BY <1>1, <1>2, SameHanded DEF ReadHeader, Newest
  <2>3. QED BY <2>1, <2>2 DEF ReaderInv
<1>3. CASE ReadPayload
  <2>1. /\ loop = "payload" /\ read' = read + 1 /\ loop' = "dispatch"
        /\ buffer \in Buffers \ pool /\ UNCHANGED <<buffer, pool>>
        /\ content' = [content EXCEPT ![buffer] = wire[read + 1][1]]
    BY <1>3 DEF ReadPayload, ReaderInv, BufferOK
  <2>2. wire[read + 1][1] = read + 1
    <3>1. read + 1 \in 1 .. Len(wire)
      BY <1>1, <2>1
    <3>2. QED BY <3>1, WireNumbered
  <2>3. ReaderTypes' /\ BufferOK'
    BY <1>1, <2>1, <2>2 DEF ReaderInv, ReaderTypes, BufferOK
  <2>4. HandedOK'
    BY <1>1, <2>1, SameHanded DEF Newest
  <2>5. QED BY <2>3, <2>4 DEF ReaderInv
<1>4. CASE ReadFails
  <2>1. ReaderTypes' /\ BufferOK'
    BY <1>4 DEF ReadFails, ReaderInv, ReaderTypes, BufferOK
  <2>2. HandedOK'
    BY <1>1, <1>4, SameHanded DEF ReadFails, Newest
  <2>3. QED BY <2>1, <2>2 DEF ReaderInv
<1>5. CASE Release
  <2>1. ReaderTypes' /\ BufferOK'
    BY <1>5 DEF Release, ReaderInv, ReaderTypes, BufferOK
  <2>2. HandedOK'
    BY <1>1, <1>5, SameHanded DEF Release, Newest
  <2>3. QED BY <2>1, <2>2 DEF ReaderInv
<1>6. CASE \E b \in Buffers : AnotherReader(b)
  <2>1. PICK b \in pool : content' = [content EXCEPT ![b] = 0]
    BY <1>6 DEF AnotherReader
  <2>2. UNCHANGED <<loop, read, buffer, pool>>
    BY <1>6 DEF AnotherReader
  <2>3. ReaderTypes' /\ BufferOK'
    BY <1>1, <2>1, <2>2 DEF ReaderInv, ReaderTypes, BufferOK
  <2>4. HandedOK'
    BY <1>1, <2>2, SameHanded DEF Newest, ReaderInv, BufferOK
  <2>5. QED BY <2>3, <2>4 DEF ReaderInv
<1>7. QED BY <1>2, <1>3, <1>4, <1>5, <1>6

\* Taking the oldest frame moves it from the inbox to what was got.
LEMMA TakeStep ==
  ASSUME LinkInv, ReaderInv, NEW r \in Receivers, Take(r)
  PROVE  ReaderInv'
<1>1. /\ inbox \in [Receivers -> Seq(Nat)] /\ got \in [Receivers -> Seq(Nat)]
      /\ inbox[r] # <<>> /\ UNCHANGED <<loop, read, buffer, pool, content>>
      /\ got' = [got EXCEPT ![r] = Append(got[r], Head(inbox[r]))]
      /\ inbox' = [inbox EXCEPT ![r] = Tail(inbox[r])]
  BY DEF Take, ReaderInv, ReaderTypes
<1>2. /\ Head(inbox[r]) \in Nat /\ Tail(inbox[r]) \in Seq(Nat)
      /\ inbox[r] = <<Head(inbox[r])>> \o Tail(inbox[r])
  <2>1. inbox[r] \in Seq(Nat)
    BY <1>1
  <2> DEFINE b == inbox[r]
  <2> HIDE DEF b
  <2>2. ASSUME b \in Seq(Nat), b # <<>>
        PROVE  Head(b) \in Nat /\ Tail(b) \in Seq(Nat) /\ b = <<Head(b)>> \o Tail(b)
    BY <2>2
  <2>3. QED BY <1>1, <2>1, <2>2 DEF b
<1>3. got'[r] \o inbox'[r] = got[r] \o inbox[r]
  <2> DEFINE h == Head(inbox[r])
             t == Tail(inbox[r])
             g == got[r]
  <2>1. g \in Seq(Nat) /\ h \in Nat /\ <<h>> \in Seq(Nat) /\ t \in Seq(Nat)
    BY <1>1, <1>2
  <2>2. got'[r] = Append(g, h) /\ inbox'[r] = t
    BY <1>1
  <2>3. inbox[r] = <<h>> \o t
    BY <1>2
  <2> HIDE DEF h, t, g
  <2>4. Append(g, h) = g \o <<h>>
    BY <2>1, AppendIsConcat
  <2>5. (g \o <<h>>) \o t = g \o (<<h>> \o t)
    BY <2>1, ConcatAssociative
  <2>6. QED BY <2>2, <2>3, <2>4, <2>5 DEF g
<1>4. ReaderTypes' /\ BufferOK'
  <2>1. Append(got[r], Head(inbox[r])) \in Seq(Nat)
    BY <1>1, <1>2, AppendProperties
  <2>2. QED BY <1>1, <1>2, <2>1 DEF ReaderInv, ReaderTypes, BufferOK
<1>5. ASSUME NEW q \in Receivers PROVE got'[q] \o inbox'[q] = got[q] \o inbox[q]
  BY <1>1, <1>3
<1>6. HandedOK'
  BY <1>1, <1>5 DEF ReaderInv, HandedOK, Newest
<1>7. QED BY <1>4, <1>6 DEF ReaderInv

LEMMA ReaderInvariance == LinkSpec => [](LinkInv /\ Numbered /\ ReaderInv)
<1>1. LinkInit => Numbered /\ ReaderInv
  <2> SUFFICES ASSUME LinkInit PROVE Numbered /\ ReaderInv
    OBVIOUS
  <2>1. Numbered /\ BufferOK
    <3>1. accepted = <<>> /\ loop = "header"
      BY DEF LinkInit, Init
    <3>2. Numbered
      BY <3>1 DEF Numbered
    <3>3. BufferOK
      BY <3>1 DEF BufferOK
    <3>4. QED BY <3>2, <3>3
  <2>2. ReaderTypes
    <3>1. <<>> \in Seq(Nat) /\ 0 \in Nat
      OBVIOUS
    <3>2. QED BY <3>1 DEF LinkInit, ReaderTypes
  <2>3. HandedOK
    <3> SUFFICES ASSUME NEW r \in Receivers
                 PROVE  LET s == got[r] \o inbox[r]
                        IN Increasing(s) /\ \A i \in 1 .. Len(s) : s[i] \in 1 .. Newest
      BY DEF HandedOK
    <3> DEFINE s == got[r] \o inbox[r]
    <3>1. s = <<>>
      BY DEF LinkInit
    <3> HIDE DEF s
    <3>2. Len(s) = 0
      BY <3>1
    <3>3. Increasing(s) /\ \A i \in 1 .. Len(s) : s[i] \in 1 .. Newest
      BY <3>2 DEF Increasing
    <3>4. QED BY <3>3 DEF s
  <2>4. QED BY <2>1, <2>2, <2>3 DEF ReaderInv
<1>2. LinkInv /\ Numbered /\ ReaderInv /\ [LinkNext]_<<vars, reader>>
        => Numbered' /\ ReaderInv'
  <2> SUFFICES ASSUME LinkInv, Numbered, ReaderInv, [LinkNext]_<<vars, reader>>
               PROVE  Numbered' /\ ReaderInv'
    OBVIOUS
  <2>1. CASE [Next]_vars /\ UNCHANGED reader
    <3>1. Numbered'
      BY <2>1, NumberedStep
    <3>2. ReaderInv'
      BY <2>1 DEF reader, ReaderInv, ReaderTypes, BufferOK, HandedOK, Newest
    <3>3. QED BY <3>1, <3>2
  <2>2. CASE ReaderStep /\ UNCHANGED vars
    <3>1. Numbered'
      BY <2>2 DEF vars, Numbered
    <3>2. ReaderInv'
      BY <2>2, ReadSteps, DispatchStep, TakeStep DEF ReaderStep, FrameLoop
    <3>3. QED BY <3>1, <3>2
  <2>3. QED BY <2>1, <2>2 DEF LinkNext
<1>3. QED BY <1>1, <1>2, LinkInvariance, PTL DEF LinkSpec

\* However small the inboxes and the pool, and however often its buffers are used
\* again, receivers see intact frames in order (framing.go:413-489,
\* udp_assoc.go:112-190).
THEOREM FramesIntact == LinkSpec => []HandedIntact
<1>1. LinkInv /\ ReaderInv => HandedIntact
  <2> SUFFICES ASSUME LinkInv, ReaderInv, NEW r \in Receivers
               PROVE  LET s == got[r] \o inbox[r]
                      IN Increasing(s) /\ \A i \in 1 .. Len(s) : s[i] \in 1 .. read
    BY DEF HandedIntact
  <2> DEFINE s == got[r] \o inbox[r]
  <2>1. Increasing(s) /\ \A i \in 1 .. Len(s) : s[i] \in 1 .. Newest
    BY DEF ReaderInv, HandedOK
  <2>2. Newest \in Int /\ Newest <= read /\ read \in Nat
    BY DEF Newest, LinkInv
  <2> HIDE DEF s
  <2>3. \A i \in 1 .. Len(s) : s[i] \in 1 .. read
    BY <2>1, <2>2
  <2>4. QED BY <2>1, <2>3 DEF s
<1>2. QED BY <1>1, ReaderInvariance, PTL

=============================================================================
