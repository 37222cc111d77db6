-------------------------- MODULE MirageSessionProofs --------------------------
(***************************************************************************)
(* The Mirage transport, for any chunk size, body limit and number of      *)
(* items: an upload meets its session until that is over, and the separate *)
(* requests of a connection implement two ordered streams.                 *)
(***************************************************************************)
EXTENDS MirageSession, SequenceTheorems, TLAPS

Items == 1 .. MaxItems

-----------------------------------------------------------------------------
(* Sequences.                                                              *)

\* First and From cut a sequence in two.
LEMMA FirstAndFrom ==
  ASSUME NEW s \in Seq(Items), NEW n \in 0 .. Len(s)
  PROVE  /\ First(s, n) \in Seq(Items) /\ From(s, n) \in Seq(Items)
         /\ First(s, n) \o From(s, n) = s
         /\ Len(From(s, n)) = Len(s) - n
<1>1. Len(s) \in Nat
  OBVIOUS
<1>2. First(s, n) = SubSeq(s, 1, n) /\ From(s, n) = SubSeq(s, n + 1, Len(s))
  BY <1>1 DEF First, From
<1>3. /\ \A i \in 1 .. n : s[i] \in Items
      /\ \A i \in n + 1 .. Len(s) : s[i] \in Items
  BY <1>1, ElementOfSeq
<1>4. SubSeq(s, 1, n) \in Seq(Items)
  BY <1>1, <1>3, SubSeqProperties
<1>5. /\ SubSeq(s, n + 1, Len(s)) \in Seq(Items)
      /\ Len(SubSeq(s, n + 1, Len(s))) = Len(s) - n
  BY <1>1, <1>3, SubSeqProperties
<1>6. SubSeq(s, 1, n) \o SubSeq(s, n + 1, Len(s)) = SubSeq(s, 1, Len(s))
  <2>1. /\ 1 \in 1 .. Len(s) + 1 /\ n \in 1 - 1 .. Len(s)
        /\ Len(s) \in n .. Len(s)
    BY <1>1
  <2>2. QED BY <2>1, ConcatAdjacentSubSeq
<1>7. SubSeq(s, 1, Len(s)) = s
  BY SubSeqFull
<1>8. QED BY <1>2, <1>4, <1>5, <1>6, <1>7

\* What is read at most is all there is.
LEMMA FirstOfLess ==
  ASSUME NEW s \in Seq(Items), NEW n \in Nat, Len(s) <= n
  PROVE  First(s, n) = s
<1>1. Len(s) \in Nat /\ SubSeq(s, 1, Len(s)) = s
  BY SubSeqFull
<1>2. ~(n < Len(s))
  BY <1>1
<1>3. QED BY <1>1, <1>2 DEF First

\* New items are numbered within the bound.
LEMMA FollowingItems ==
  ASSUME NEW n \in Nat, NEW k \in Nat, n + k <= MaxItems
  PROVE  Following(n, k) \in Seq(Items) /\ Len(Following(n, k)) = k
<1>1. MaxItems \in Nat
  BY MirageAssumption
<1>2. \A i \in 1 .. k : n + i \in Items
  BY <1>1 DEF Items
<1>3. [i \in 1 .. k |-> n + i] \in Seq(Items)
  BY <1>2, IsASeq
<1>4. Following(n, k) = [i \in 1 .. k |-> n + i]
  BY DEF Following
<1> DEFINE f == [i \in 1 .. k |-> n + i]
<1>5. DOMAIN f = 1 .. k /\ DOMAIN f = 1 .. Len(f) /\ Len(f) \in Nat
  BY <1>3, LenProperties
<1> HIDE DEF f
<1>6. Len(f) = k
  BY <1>5
<1>7. QED BY <1>3, <1>4, <1>6 DEF f

\* A sequence begins with itself, with nothing, and with its first part.
LEMMA Beginnings ==
  ASSUME NEW s \in Seq(Items), NEW t \in Seq(Items)
  PROVE  /\ Streams!Begins(s, s) /\ Streams!Begins(<<>>, s)
         /\ s \o t \in Seq(Items) /\ Streams!Begins(s, s \o t)
<1>1. /\ s \o t \in Seq(Items) /\ Len(s \o t) = Len(s) + Len(t)
      /\ Len(s) \in Nat /\ Len(t) \in Nat
  BY ConcatProperties
<1>2. SubSeq(s \o t, 1, Len(s)) = s
  <2>1. CASE Len(s) = 0
    BY <2>1, SubSeqEmpty, EmptySeq
  <2>2. CASE Len(s) # 0
    <3>1. 1 \in 1 .. Len(s) /\ Len(s) \in 1 .. Len(s)
      BY <1>1, <2>2
    <3>2. QED BY <3>1, SubSeqOfConcat1, SubSeqFull
  <2>3. QED BY <2>1, <2>2
<1>3. SubSeq(s, 1, Len(s)) = s
  BY SubSeqFull
<1>4. Len(<<>>) = 0 /\ SubSeq(s, 1, 0) = <<>>
  BY SubSeqEmpty
<1>5. QED BY <1>1, <1>2, <1>3, <1>4 DEF Streams!Begins

-----------------------------------------------------------------------------
(* The invariant.                                                          *)

\* Who is there: the client's goroutines once the header came, which is sent
\* after the session was registered.
Phases ==
  /\ client = "idle" => get = "none"
  /\ client # "up" => pipe = "none" /\ uplink = "off" /\ pump = "off"
  /\ client = "up" \/ get \in {"open", "ended"} => handler \notin {"off", "start"}
  /\ registered = TRUE <=> handler \in {"start", "pump", "write", "delete"}

\* One POST at a time: the next one is made when the last one was read whole.
Posts ==
  /\ uplink \in {"off", "read", "post"} => post = "none"
  /\ uplink \in {"off", "read"} \/ post = "ok" => upload = <<>>
  /\ Len(upload) <= ChunkSize

Buffers ==
  /\ pump # "write" => hold = <<>>
  /\ handler # "write" => out = <<>>

IInv == TypeOK /\ Phases /\ Posts /\ Buffers /\ UploadsFindTheSession

LEMMA InitIInv == Init => IInv
<1> SUFFICES ASSUME Init PROVE IInv
  OBVIOUS
<1>1. MaxItems \in Nat /\ ChunkSize \in Nat /\ Len(<<>>) = 0 /\ <<>> \in Seq(1 .. MaxItems)
  BY MirageAssumption
<1>2. TypeOK
  <2>1. /\ hold = <<>> /\ down = <<>> /\ upload = <<>> /\ out = <<>>
        /\ gotUp = <<>> /\ gotDown = <<>> /\ sentUp = 0 /\ sentDown = 0
    BY DEF Init
  <2>2. {hold, down, upload, out, gotUp, gotDown} \subseteq Seq(1 .. MaxItems)
    BY <1>1, <2>1
  <2>3. sentUp \in 0 .. MaxItems /\ sentDown \in 0 .. MaxItems
    BY <1>1, <2>1
  <2>4. QED BY <2>2, <2>3 DEF Init, TypeOK
<1>3. Phases /\ Posts /\ Buffers /\ UploadsFindTheSession
  BY <1>1 DEF Init, Phases, Posts, Buffers, UploadsFindTheSession
<1>4. QED BY <1>2, <1>3 DEF IInv

LEMMA Types ==
  ASSUME TypeOK
  PROVE  /\ {hold, down, upload, out, gotUp, gotDown} \subseteq Seq(Items)
         /\ <<>> \in Seq(Items) /\ sentUp \in Nat /\ sentDown \in Nat
         /\ MaxItems \in Nat /\ ChunkSize \in Nat /\ MaxBody \in Nat
         /\ ChunkSize <= MaxBody
  BY MirageAssumption, EmptySeq DEF TypeOK, Items

\* The steps that add to a stream, or take from it.
LEMMA TransferTypes ==
  ASSUME IInv,
         \/ \E k \in 1 .. ChunkSize : UplinkReads(k) \/ SessionWrites(k)
         \/ \E k \in 1 .. MaxItems : SessionReads(k) \/ UserReads(k)
  PROVE  TypeOK'
<1> USE DEF Items
<1>1. /\ TypeOK /\ {hold, down, upload, out, gotUp, gotDown} \subseteq Seq(Items)
      /\ sentUp \in Nat /\ sentDown \in Nat /\ MaxItems \in Nat /\ ChunkSize \in Nat
  BY Types DEF IInv
<1>2. ASSUME NEW k \in 1 .. ChunkSize, UplinkReads(k) PROVE TypeOK'
  <2>1. /\ upload' \in Seq(Items) /\ sentUp' \in 0 .. MaxItems
    BY <1>1, <1>2, FollowingItems DEF UplinkReads
  <2>2. QED BY <1>1, <1>2, <2>1 DEF UplinkReads, TypeOK, serverVars
<1>3. ASSUME NEW k \in 1 .. ChunkSize, SessionWrites(k) PROVE TypeOK'
  <2>1. /\ out' \in Seq(Items) /\ sentDown' \in 0 .. MaxItems
    BY <1>1, <1>3, FollowingItems DEF SessionWrites
  <2>2. QED BY <1>1, <1>3, <2>1 DEF SessionWrites, TypeOK, clientVars
<1>4. ASSUME NEW k \in 1 .. MaxItems, SessionReads(k) PROVE TypeOK'
  <2>1. /\ upload \in Seq(Items) /\ k \in 0 .. Len(upload) /\ gotUp \in Seq(Items)
    BY <1>1, <1>4 DEF SessionReads
  <2>2. /\ upload' \in Seq(Items) /\ gotUp' \in Seq(Items)
    BY <1>4, <2>1, FirstAndFrom, ConcatProperties DEF SessionReads
  <2>3. QED
    BY <1>1, <1>4, <2>2 DEF SessionReads, TypeOK, clientVars, serverVars
<1>5. ASSUME NEW k \in 1 .. MaxItems, UserReads(k) PROVE TypeOK'
  <2>1. /\ hold \in Seq(Items) /\ k \in 0 .. Len(hold) /\ gotDown \in Seq(Items)
    BY <1>1, <1>5 DEF UserReads
  <2>2. /\ hold' \in Seq(Items) /\ gotDown' \in Seq(Items)
    BY <1>5, <2>1, FirstAndFrom, ConcatProperties DEF UserReads
  <2>3. QED BY <1>1, <1>5, <2>2 DEF UserReads, TypeOK, serverVars
<1>6. QED BY <1>2, <1>3, <1>4, <1>5

LEMMA StepTypes ==
  ASSUME IInv, [Next]_vars
  PROVE  TypeOK'
<1> USE DEF Items, clientVars, serverVars, histories
<1>1. /\ TypeOK /\ {hold, down, upload, out, gotUp, gotDown} \subseteq Seq(Items)
      /\ <<>> \in Seq(Items)
  BY Types DEF IInv
<1>2. CASE \/ \E k \in 1 .. ChunkSize : UplinkReads(k) \/ SessionWrites(k)
           \/ \E k \in 1 .. MaxItems : SessionReads(k) \/ UserReads(k)
  BY <1>2, TransferTypes
<1>3. CASE Dial \/ Refuse \/ Accept \/ Dialed \/ DialFails
  BY <1>1, <1>3 DEF Dial, Refuse, Accept, Dialed, DialFails, TypeOK
<1>4. CASE UserCloses \/ Session \/ TargetEnds \/ Fails \/ WatcherShuts
  BY <1>1, <1>4 DEF UserCloses, CloseConn, Session, SessionDials, SessionFails,
                    SessionReturns, TargetEnds, Fails, WatcherShuts, TypeOK
<1>5. CASE Uplink
  BY <1>1, <1>5 DEF Uplink, UplinkReadFails, UplinkPosts, UplinkAnswered,
                    UplinkBreaks, UplinkCloses, CloseConn, TypeOK
<1>6. CASE Pump
  BY <1>1, <1>6 DEF Pump, PumpReads, PumpReadFails, PumpWriteFails, PumpBreaks,
                    PumpCloses, CloseConn, TypeOK
<1>7. CASE Upload
  <2>1. registered => First(upload, MaxBody) = upload
    BY <1>1, Types, FirstOfLess DEF IInv, Posts
  <2>2. upload' \in {upload, <<>>}
    BY <1>7, <2>1 DEF Upload, UploadFinds, UploadFails, Body
  <2>3. QED BY <1>1, <1>7, <2>2 DEF Upload, UploadFinds, UploadFails, TypeOK
<1>8. CASE Handler
  <2>1. down \o out \in Seq(Items)
    BY <1>1, ConcatProperties
  <2>2. QED
    BY <1>1, <1>8, <2>1 DEF Handler, Start, HandlerWrites, HandlerReadFails,
                            HandlerDeletes, HandlerShuts, TypeOK
<1>9. CASE UNCHANGED vars
  BY <1>1, <1>9 DEF vars, TypeOK
<1>10. QED BY <1>2, <1>3, <1>4, <1>5, <1>6, <1>7, <1>8, <1>9 DEF Next

\* Every step keeps who is there, one POST at a time, and the buffers.
LEMMA StepIInv ==
  ASSUME IInv, [Next]_vars
  PROVE  IInv'
<1> USE DEF clientVars, serverVars, histories, Phases, Posts, Buffers,
            UploadsFindTheSession
<1>1. /\ TypeOK /\ Phases /\ Posts /\ Buffers /\ UploadsFindTheSession
      /\ ChunkSize \in Nat /\ MaxItems \in Nat /\ Len(<<>>) = 0
  BY Types DEF IInv
<1> DEFINE Rest == Phases /\ Posts /\ Buffers /\ UploadsFindTheSession
<1> SUFFICES Rest'
  BY StepTypes DEF IInv
<1>2. ASSUME NEW k \in 1 .. ChunkSize, UplinkReads(k) PROVE Rest'
  <2>1. Len(upload') = k
    BY <1>1, <1>2, Types, FollowingItems DEF UplinkReads
  <2>2. QED BY <1>1, <1>2, <2>1 DEF UplinkReads
<1>3. ASSUME NEW k \in 1 .. ChunkSize, SessionWrites(k) PROVE Rest'
  BY <1>1, <1>3 DEF SessionWrites
<1>4. ASSUME NEW k \in 1 .. MaxItems, SessionReads(k) PROVE Rest'
  <2>1. upload \in Seq(Items) /\ k \in 0 .. Len(upload) /\ Len(upload) \in Nat
    BY <1>1, <1>4, Types DEF SessionReads
  <2>2. upload' \in Seq(Items) /\ Len(upload') = Len(upload) - k
    BY <1>4, <2>1, FirstAndFrom DEF SessionReads
  <2>3. k = Len(upload) => upload' = <<>>
    BY <2>2, EmptySeq
  <2>4. Len(upload') <= ChunkSize
    BY <1>1, <2>1, <2>2
  <2>5. QED BY <1>1, <1>4, <2>3, <2>4 DEF SessionReads
<1>5. ASSUME NEW k \in 1 .. MaxItems, UserReads(k) PROVE Rest'
  <2>1. hold \in Seq(Items) /\ k \in 0 .. Len(hold)
    BY <1>1, <1>5, Types DEF UserReads
  <2>2. hold' \in Seq(Items) /\ Len(hold') = Len(hold) - k
    BY <1>5, <2>1, FirstAndFrom DEF UserReads
  <2>3. k = Len(hold) => hold' = <<>>
    BY <2>2, EmptySeq
  <2>4. QED BY <1>1, <1>5, <2>3 DEF UserReads
<1>6. CASE Dial \/ Refuse \/ Accept \/ Dialed \/ DialFails
  BY <1>1, <1>6 DEF Dial, Refuse, Accept, Dialed, DialFails, TypeOK
<1>7. CASE UserCloses \/ Session \/ TargetEnds \/ Fails \/ WatcherShuts
  <2>1. CASE UserCloses
    BY <1>1, <2>1 DEF UserCloses, CloseConn, TypeOK
  <2>2. CASE Session \/ TargetEnds \/ WatcherShuts
    <3>1. /\ UNCHANGED <<clientVars, get, down, post, upload, handler, registered>>
          /\ UNCHANGED out
      BY <2>2 DEF Session, SessionDials, SessionFails, SessionReturns,
                  TargetEnds, WatcherShuts
    <3>2. QED BY <1>1, <3>1
  <2>3. CASE Fails
    BY <1>1, <2>3 DEF Fails, TypeOK
  <2>4. QED BY <1>7, <2>1, <2>2, <2>3
<1>8. CASE Uplink
  <2>1. upload' \in {upload, <<>>}
    BY <1>8 DEF Uplink, UplinkReadFails, UplinkPosts, UplinkAnswered,
                UplinkBreaks, UplinkCloses
  <2>2. Len(upload') <= ChunkSize
    BY <1>1, <2>1
  <2>3. QED
    BY <1>1, <1>8, <2>2 DEF Uplink, UplinkReadFails, UplinkPosts, UplinkAnswered,
                            UplinkBreaks, UplinkCloses, CloseConn, TypeOK
<1>9. CASE Pump
  <2>1. CASE PumpReads \/ PumpReadFails \/ PumpWriteFails
    BY <1>1, <2>1 DEF PumpReads, PumpReadFails, PumpWriteFails, TypeOK
  <2>2. CASE PumpBreaks \/ PumpCloses
    BY <1>1, <2>2 DEF PumpBreaks, PumpCloses, CloseConn, TypeOK
  <2>3. QED BY <1>9, <2>1, <2>2 DEF Pump
<1>10. CASE Upload
  <2>1. upload' \in {upload, <<>>}
    <3>1. First(upload, MaxBody) = upload
      BY <1>1, Types, FirstOfLess
    <3>2. QED BY <1>10, <3>1 DEF Upload, UploadFinds, UploadFails, Body
  <2>2. Len(upload') <= ChunkSize
    BY <1>1, <2>1
  <2>3. QED
    BY <1>1, <1>10, <2>2 DEF Upload, UploadFinds, UploadFails, TypeOK
<1>11. CASE Handler
  BY <1>1, <1>11 DEF Handler, Start, HandlerWrites, HandlerReadFails,
                     HandlerDeletes, HandlerShuts, TypeOK
<1>12. CASE UNCHANGED vars
  BY <1>1, <1>12 DEF vars
<1> HIDE DEF Rest
<1>13. QED
  BY <1>2, <1>3, <1>4, <1>5, <1>6, <1>7, <1>8, <1>9, <1>10, <1>11, <1>12 DEF Next

LEMMA Invariance == Spec => []IInv
  BY InitIInv, StepIInv, PTL DEF Spec

\* An upload is answered with the decoy page only when its session is over: it
\* meets the session's table entry from its beginning to its end
\* (mirage.go:289-296, 330-352).
THEOREM UploadsMeetTheirSession == Spec => []UploadsFindTheSession
  BY Invariance, PTL DEF IInv

-----------------------------------------------------------------------------
(* The refinement.                                                         *)

UpLost == Lost.up
DownLost == Lost.down
DownWay == Transit.down   \* the way of what the server sends

\* A step of one stream: sent, received, or lost.
Moves(l, ll, w, ww, r, rr) ==
  \/ ~l /\ ~ll /\ Streams!Begins(w, ww) /\ rr = r
  \/ ll = l /\ rr \o ww = r \o w /\ Streams!Begins(r, rr)
  \/ ll /\ Streams!Begins(ww, w) /\ rr = r

\* A step that leaves a stream alone, or loses some of it.
LEMMA Rests ==
  ASSUME NEW l, NEW ll, NEW w \in Seq(Items), NEW ww, NEW r \in Seq(Items),
         \/ ll = l /\ ww = w
         \/ ll /\ ww \in {w, <<>>}
  PROVE  Moves(l, ll, w, ww, r, r)
  BY Beginnings DEF Moves

LEMMA Associates ==
  \A a, b, c \in Seq(Items) : (a \o b) \o c = a \o (b \o c)
  BY ConcatAssociative

\* A reader takes the first of what is on the way.
LEMMA Moved ==
  ASSUME NEW l, NEW w \in Seq(Items), NEW v \in Seq(Items), NEW r \in Seq(Items),
         NEW k \in 0 .. Len(w)
  PROVE  Moves(l, l, w \o v, From(w, k) \o v, r, r \o First(w, k))
<1>1. PICK f \in Seq(Items), g \in Seq(Items) :
        f = First(w, k) /\ g = From(w, k) /\ f \o g = w
  BY FirstAndFrom
<1>2. (f \o g) \o v = f \o (g \o v)
  BY Associates, Zenon
<1>3. PICK h \in Seq(Items) : h = g \o v
  BY ConcatProperties
<1>4. (r \o f) \o h = r \o (f \o h)
  BY Associates, Zenon
<1>5. Streams!Begins(r, r \o f)
  BY Beginnings
<1>6. QED BY <1>1, <1>2, <1>3, <1>4, <1>5 DEF Moves

\* What the client sends is in the POST, from its chunk to the session.
LEMMA UpMoves ==
  ASSUME IInv, [Next]_vars
  PROVE  Moves(UpLost, UpLost', upload, upload', gotUp, gotUp')
<1> USE DEF clientVars, serverVars, histories, UpLost, Lost, Phases, Posts
<1>1. /\ TypeOK /\ Phases /\ Posts /\ upload \in Seq(Items) /\ gotUp \in Seq(Items)
      /\ <<>> \in Seq(Items)
  BY Types DEF IInv
<1> DEFINE Left == /\ gotUp' = gotUp
                   /\ \/ UpLost' = UpLost /\ upload' = upload
                      \/ UpLost' /\ upload' \in {upload, <<>>}
<1>2. CASE Left
  BY <1>1, <1>2, Rests
<1>3. ASSUME NEW k \in 1 .. ChunkSize, UplinkReads(k)
      PROVE  Moves(UpLost, UpLost', upload, upload', gotUp, gotUp')
  <2>1. upload = <<>> /\ ~UpLost /\ ~UpLost' /\ gotUp' = gotUp
    BY <1>1, <1>3 DEF UplinkReads
  <2>2. upload' \in Seq(Items)
    BY StepTypes, <1>3 DEF TypeOK, Items
  <2>3. Streams!Begins(upload, upload')
    BY <2>1, <2>2, Beginnings
  <2>4. QED BY <2>1, <2>3 DEF Moves
<1>4. ASSUME NEW k \in 1 .. MaxItems, SessionReads(k)
      PROVE  Moves(UpLost, UpLost', upload, upload', gotUp, gotUp')
  <2>1. k \in 0 .. Len(upload) /\ UpLost' = UpLost
    BY <1>1, <1>4 DEF SessionReads
  <2>2. /\ gotUp' = gotUp \o First(upload, k) /\ upload' = From(upload, k)
    BY <1>4 DEF SessionReads
  <2>3. upload \o <<>> = upload /\ From(upload, k) \o <<>> = From(upload, k)
    BY <1>1, <2>1, FirstAndFrom, ConcatEmptySeq
  <2>4. Moves(UpLost, UpLost, upload \o <<>>, From(upload, k) \o <<>>,
              gotUp, gotUp \o First(upload, k))
    BY <1>1, <2>1, Moved
  <2>5. QED BY <2>1, <2>2, <2>3, <2>4
<1>5. CASE \/ \E k \in 1 .. ChunkSize : SessionWrites(k)
           \/ \E k \in 1 .. MaxItems : UserReads(k)
  BY <1>1, <1>2, <1>5 DEF SessionWrites, UserReads
<1>6. CASE Dial \/ Refuse \/ Accept \/ Dialed \/ DialFails
  <2>1. Left
    BY <1>1, <1>6 DEF Dial, Refuse, Accept, Dialed, DialFails, TypeOK
  <2>2. QED BY <1>2, <2>1
<1>7. CASE UserCloses \/ Session \/ TargetEnds \/ Fails \/ WatcherShuts
  <2>1. Left
    BY <1>1, <1>7 DEF UserCloses, CloseConn, Session, SessionDials, SessionFails,
                      SessionReturns, TargetEnds, Fails, WatcherShuts
  <2>2. QED BY <1>2, <2>1
<1>8. CASE Uplink
  <2>1. Left
    BY <1>1, <1>8 DEF Uplink, UplinkReadFails, UplinkPosts, UplinkAnswered,
                      UplinkBreaks, UplinkCloses, CloseConn, TypeOK
  <2>2. QED BY <1>2, <2>1
<1>9. CASE Pump
  <2>1. Left
    BY <1>1, <1>9 DEF Pump, PumpReads, PumpReadFails, PumpWriteFails, PumpBreaks,
                      PumpCloses, CloseConn, TypeOK
  <2>2. QED BY <1>2, <2>1
<1>10. CASE Upload
  <2>1. First(upload, MaxBody) = upload
    BY <1>1, Types, FirstOfLess
  <2>2. Left
    BY <1>1, <1>10, <2>1 DEF Upload, UploadFinds, UploadFails, Body
  <2>3. QED BY <1>2, <2>2
<1>11. CASE Handler
  <2>1. Left
    BY <1>1, <1>11 DEF Handler, Start, HandlerWrites, HandlerReadFails,
                       HandlerDeletes, HandlerShuts
  <2>2. QED BY <1>2, <2>1
<1>12. CASE UNCHANGED vars
  BY <1>1, <1>2, <1>12 DEF vars
<1>13. QED
  BY <1>3, <1>4, <1>5, <1>6, <1>7, <1>8, <1>9, <1>10, <1>11, <1>12 DEF Next

\* What the server sends is in the handler, in the response, and in the
\* goroutine that copies that, in this order.
LEMMA DownMoves ==
  ASSUME IInv, [Next]_vars
  PROVE  Moves(DownLost, DownLost', DownWay, DownWay', gotDown, gotDown')
<1> USE DEF clientVars, serverVars, histories, DownLost, Lost
<1>1. /\ TypeOK /\ Phases /\ Buffers /\ gotDown \in Seq(Items)
      /\ {hold, down, out} \subseteq Seq(Items) /\ <<>> \in Seq(Items)
  BY Types DEF IInv
<1> DEFINE behind == IF get = "cut" THEN <<>> ELSE down \o out
<1>2. behind \in Seq(Items) /\ hold \o behind \in Seq(Items)
  <2>1. behind \in Seq(Items)
    BY <1>1, ConcatProperties
  <2>2. QED BY <1>1, <2>1, ConcatProperties
<1>3. DownWay = (IF pipe = "closed" THEN <<>> ELSE hold \o behind)
  BY DEF DownWay, Transit
<1>4. DownWay \in Seq(Items)
  BY <1>1, <1>2, <1>3
<1>5. DownWay' = (IF pipe' = "closed" THEN <<>>
                  ELSE hold' \o (IF get' = "cut" THEN <<>> ELSE down' \o out'))
  BY DEF DownWay, Transit
<1> DEFINE Left == /\ gotDown' = gotDown
                   /\ \/ DownLost' = DownLost /\ DownWay' = DownWay
                      \/ DownLost' /\ DownWay' \in {DownWay, <<>>}
           Goal == Moves(DownLost, DownLost', DownWay, DownWay', gotDown, gotDown')
<1> SUFFICES Goal
  OBVIOUS
<1>6. CASE Left
  BY <1>1, <1>4, <1>6, Rests
<1>7. ASSUME gotDown' = gotDown, pipe' = "closed" PROVE Goal
  BY <1>1, <1>4, <1>5, <1>6, <1>7
<1>8. ASSUME UNCHANGED <<pipe, hold, gotDown>>, get' = "cut" PROVE Goal
  <2>1. CASE pipe = "closed"
    BY <1>7, <1>8, <2>1
  <2>2. CASE pipe # "closed"
    <3>1. DownWay' = hold /\ DownWay = hold \o behind
      BY <1>1, <1>3, <1>5, <1>8, <2>2, ConcatEmptySeq
    <3>2. Streams!Begins(hold, hold \o behind)
      BY <1>1, <1>2, Beginnings
    <3>3. QED BY <1>8, <3>1, <3>2 DEF Moves
  <2>3. QED BY <2>1, <2>2
<1>9. ASSUME UNCHANGED <<pipe, hold, gotDown, down, out>>, get # "cut", get' # "cut"
      PROVE  Goal
  BY <1>3, <1>5, <1>6, <1>9
<1>10. ASSUME UNCHANGED <<pipe, get, hold, gotDown, down, out>> PROVE Goal
  BY <1>3, <1>5, <1>6, <1>10
<1> HIDE DEF Goal, Left
<1>11. ASSUME NEW k \in 1 .. ChunkSize, SessionWrites(k) PROVE Goal
  <2>1. /\ out = <<>> /\ out' \in Seq(Items) /\ gotDown' = gotDown
        /\ UNCHANGED <<pipe, hold, get, down>>
    BY <1>1, <1>11, StepTypes DEF SessionWrites, TypeOK, Items, Buffers
  <2>2. CASE pipe = "closed"
    BY <1>7, <2>1, <2>2
  <2>3. CASE get = "cut"
    BY <1>8, <2>1, <2>3
  <2>4. CASE pipe # "closed" /\ get # "cut"
    <3>1. DownWay = hold \o (down \o out) /\ DownWay' = hold \o (down \o out')
      BY <1>3, <1>5, <2>1, <2>4
    <3>2. down \o out = down
      BY <1>1, <2>1, ConcatEmptySeq
    <3>3. hold \o down \in Seq(Items) /\ hold \o (down \o out') = (hold \o down) \o out'
      <4>1. hold \in Seq(Items) /\ down \in Seq(Items) /\ out' \in Seq(Items)
        BY <1>1, <2>1
      <4>2. QED BY <4>1, ConcatAssociative, ConcatProperties
    <3>4. Streams!Begins(DownWay, DownWay')
      BY <2>1, <3>1, <3>2, <3>3, Beginnings
    <3>5. ~DownLost /\ ~DownLost'
      BY <2>1, <2>4
    <3>6. QED BY <2>1, <3>4, <3>5 DEF Moves, Goal
  <2>5. QED BY <2>2, <2>3, <2>4
<1>12. ASSUME NEW k \in 1 .. MaxItems, UserReads(k) PROVE Goal
  <2>1. /\ hold \in Seq(Items) /\ k \in 0 .. Len(hold) /\ pipe # "closed"
        /\ UNCHANGED <<pipe, get, down, out>>
        /\ hold' = From(hold, k) /\ gotDown' = gotDown \o First(hold, k)
    BY <1>1, <1>12 DEF UserReads
  <2>2. /\ DownWay = hold \o behind /\ DownWay' = From(hold, k) \o behind
        /\ DownLost' = DownLost
    BY <1>3, <1>5, <2>1
  <2> HIDE DEF behind
  <2>3. Moves(DownLost, DownLost, hold \o behind, From(hold, k) \o behind,
              gotDown, gotDown \o First(hold, k))
    BY <1>1, <1>2, <2>1, Moved
  <2>4. QED BY <2>1, <2>2, <2>3 DEF Goal
<1>13. CASE \/ \E k \in 1 .. ChunkSize : UplinkReads(k)
            \/ \E k \in 1 .. MaxItems : SessionReads(k)
  BY <1>10, <1>13 DEF UplinkReads, SessionReads
<1>14. CASE Dial \/ Refuse \/ Accept \/ Dialed \/ DialFails
  <2>1. CASE Dial \/ Refuse
    BY <1>1, <1>9, <2>1 DEF Dial, Refuse, Phases
  <2>2. CASE Accept \/ DialFails
    BY <1>10, <2>2 DEF Accept, DialFails
  <2>3. CASE Dialed
    <3>1. /\ pipe = "none" /\ pipe' = "open"
          /\ UNCHANGED <<get, hold, down, out, gotDown>>
      BY <1>1, <2>3 DEF Dialed, Phases
    <3>2. DownWay' = DownWay /\ DownLost' = DownLost /\ gotDown' = gotDown
      BY <1>3, <1>5, <3>1
    <3>3. QED BY <1>6, <3>2 DEF Left
  <2>4. QED BY <1>14, <2>1, <2>2, <2>3
<1>15. CASE UserCloses
  BY <1>7, <1>15 DEF UserCloses, CloseConn
<1>16. CASE Session \/ TargetEnds \/ WatcherShuts \/ Upload \/ UNCHANGED vars
  BY <1>10, <1>16 DEF Session, SessionDials, SessionFails, SessionReturns, TargetEnds,
                      WatcherShuts, Upload, UploadFinds, UploadFails, vars
<1>17. CASE Fails
  BY <1>8, <1>17 DEF Fails
<1>18. CASE Uplink
  BY <1>7, <1>10, <1>18 DEF Uplink, UplinkReadFails, UplinkPosts, UplinkAnswered,
                            UplinkBreaks, UplinkCloses, CloseConn
<1>19. CASE Pump
  <2>1. CASE PumpReads
    <3>1. /\ hold = <<>> /\ get # "cut" /\ hold' = down /\ down' = <<>>
          /\ UNCHANGED <<pipe, get, out, gotDown>>
      BY <1>1, <2>1 DEF PumpReads, Buffers
    <3>2. /\ <<>> \o out = out /\ <<>> \o (down \o out) = down \o out
      <4>1. down \in Seq(Items) /\ out \in Seq(Items) /\ down \o out \in Seq(Items)
        BY <1>1, ConcatProperties
      <4>2. QED BY <4>1, ConcatEmptySeq
    <3>3. DownWay' = DownWay /\ DownLost' = DownLost
      BY <1>3, <1>5, <3>1, <3>2
    <3>4. QED BY <1>6, <3>1, <3>3 DEF Left
  <2>2. CASE PumpReadFails
    BY <1>10, <2>2 DEF PumpReadFails
  <2>3. CASE PumpWriteFails \/ PumpBreaks \/ PumpCloses
    BY <1>7, <2>3 DEF PumpWriteFails, PumpBreaks, PumpCloses, CloseConn
  <2>4. QED BY <1>19, <2>1, <2>2, <2>3 DEF Pump
<1>20. CASE Handler
  <2>1. CASE Start \/ HandlerShuts
    <3>1. /\ UNCHANGED <<pipe, hold, gotDown, down, out>>
          /\ \/ get # "cut" /\ get' # "cut"
             \/ get = "cut" /\ get' = "cut"
      BY <2>1 DEF Start, HandlerShuts
    <3>2. QED BY <1>8, <1>9, <3>1
  <2>2. CASE HandlerReadFails \/ HandlerDeletes
    BY <1>10, <2>2 DEF HandlerReadFails, HandlerDeletes
  <2>3. CASE HandlerWrites /\ get = "cut"
    BY <1>8, <2>3 DEF HandlerWrites
  <2>4. CASE HandlerWrites /\ get # "cut"
    <3>1. /\ down' = down \o out /\ out' = <<>>
          /\ UNCHANGED <<pipe, get, hold, gotDown>>
      BY <2>4 DEF HandlerWrites
    <3>2. (down \o out) \o <<>> = down \o out
      BY <1>1, ConcatProperties, ConcatEmptySeq
    <3>3. DownWay' = DownWay /\ DownLost' = DownLost
      BY <1>3, <1>5, <2>4, <3>1, <3>2
    <3>4. QED BY <1>6, <3>1, <3>3 DEF Left
  <2>5. QED BY <1>20, <2>1, <2>2, <2>3, <2>4 DEF Handler
<1>21. QED
  BY <1>11, <1>12, <1>13, <1>14, <1>15, <1>16, <1>17, <1>18, <1>19, <1>20 DEF Next

LEMMA SameForBoth ==
  ASSUME NEW x
  PROVE  [up |-> x, down |-> x] = [s \in {"up", "down"} |-> x]
<1>1. PICK f : f = [up |-> x, down |-> x]
  OBVIOUS
<1>2. DOMAIN f = {"up", "down"} /\ f["up"] = x /\ f["down"] = x
  BY <1>1
<1>3. f = [s \in DOMAIN f |-> f[s]]
  BY <1>1
<1>4. QED BY <1>1, <1>2, <1>3

\* Requests that are separate at the HTTP level, goroutines and pipes of the
\* Mirage transport implement two ordered streams (mirage.go:139-262, 272-364).
THEOREM RequestsAreStreams == Spec => KeepsOrder
<1>1. Init => Streams!Init
  <2> SUFFICES ASSUME Init PROVE Streams!Init
    OBVIOUS
  <2>1. /\ hold = <<>> /\ down = <<>> /\ upload = <<>> /\ out = <<>>
        /\ gotUp = <<>> /\ gotDown = <<>> /\ get = "none" /\ pipe = "none"
        /\ uplink = "off" /\ post = "none"
    BY DEF Init
  <2>2. <<>> \o (<<>> \o <<>>) = <<>>
    BY ConcatEmptySeq, EmptySeq
  <2>3. /\ Transit = [up |-> <<>>, down |-> <<>>]
        /\ Lost = [up |-> FALSE, down |-> FALSE]
    BY <2>1, <2>2 DEF Transit, Lost
  <2>4. [up |-> gotUp, down |-> gotDown] = [up |-> <<>>, down |-> <<>>]
    BY <2>1
  <2>5. QED BY <2>3, <2>4, SameForBoth DEF Streams!Init
<1>2. IInv /\ [Next]_vars => [Streams!Next]_(Streams!vars)
  <2> SUFFICES ASSUME IInv, [Next]_vars PROVE Streams!Next
    OBVIOUS
  <2>1. /\ Moves(UpLost, UpLost', upload, upload', gotUp, gotUp')
        /\ Moves(DownLost, DownLost', DownWay, DownWay', gotDown, gotDown')
    BY UpMoves, DownMoves
  <2>2. Streams!Send("up") \/ Streams!Receive("up") \/ Streams!Lose("up")
    BY <2>1 DEF Moves, UpLost, Lost, Transit, Streams!Send, Streams!Receive,
                Streams!Lose
  <2>3. Streams!Send("down") \/ Streams!Receive("down") \/ Streams!Lose("down")
    BY <2>1 DEF Moves, DownLost, DownWay, Lost, Transit, Streams!Send,
                Streams!Receive, Streams!Lose
  <2>4. QED BY <2>2, <2>3 DEF Streams!Next
<1>3. QED BY <1>1, <1>2, Invariance, PTL DEF Spec, KeepsOrder, Streams!Spec

=============================================================================
