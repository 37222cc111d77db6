---------------------------- MODULE ClientProofs ----------------------------
(***************************************************************************)
(* What holds of the two parts of the client around its channel.           *)
(*                                                                         *)
(* A SOCKS UDP association (SocksUDP) has one source, and an address for   *)
(* every answer, for any number of sources, datagrams and answers.         *)
(*                                                                         *)
(* The search for a server (Attempts) passes over nobody and ranks what    *)
(* never failed before what cools down, for any subscriptions, weights and *)
(* transports.                                                             *)
(***************************************************************************)
EXTENDS SocksUDP, Attempts, FiniteSetTheorems, SequenceTheorems, TLAPS

-----------------------------------------------------------------------------
(* A SOCKS UDP association.                                                *)

\* What the handler is about to send on comes from the source that claimed
\* the association.
Claimed ==
  /\ pc \in {"claim", "relay"} => datagram \in Datagrams
  /\ pc = "relay" => Source = clientAddr

\* Whoever has been sent on has claimed the association.
SentIsClaimed == sent # <<>> => clientAddr # None

\* What waits in the incoming channel, or is in the receiver's hands, answers
\* a datagram that was sent on.
AnswersFollow == inbox > 0 \/ receiver = "write" => sent # <<>>

IInv ==
  ValuesOK /\ OneSource /\ AnswersHaveAnAddress
         /\ Claimed /\ SentIsClaimed /\ AnswersFollow

\* Both at the start ...
LEMMA InitOK == Init => IInv
<1> SUFFICES ASSUME Init PROVE IInv
  OBVIOUS
<1>1. ValuesOK
  BY DEF Init, ValuesOK
<1>2. OneSource /\ AnswersHaveAnAddress
  BY DEF Init, OneSource, AnswersHaveAnAddress
<1>3. Claimed /\ SentIsClaimed /\ AnswersFollow
  BY DEF Init, Claimed, SentIsClaimed, AnswersFollow
<1> QED
  BY <1>1, <1>2, <1>3 DEF IInv

\* ... after a step of the handler ...
LEMMA HandlerOK == IInv /\ Handler => IInv'
<1> SUFFICES ASSUME IInv, Handler PROVE IInv'
  OBVIOUS
<1> USE SocksUDPAssumption
<1>1. CASE OpenAssociation
  BY <1>1 DEF IInv, ValuesOK, OneSource, AnswersHaveAnAddress, Claimed,
       SentIsClaimed, AnswersFollow, OpenAssociation, connection, shared, history,
       Source
<1>2. CASE Bind
  BY <1>2 DEF IInv, ValuesOK, OneSource, AnswersHaveAnAddress, Claimed,
       SentIsClaimed, AnswersFollow, Bind, connection, shared, history, Source
<1>3. CASE Reply
  BY <1>3 DEF IInv, ValuesOK, OneSource, AnswersHaveAnAddress, Claimed,
       SentIsClaimed, AnswersFollow, Reply, shared, history, Source
<1>4. CASE Check
  BY <1>4 DEF IInv, ValuesOK, OneSource, AnswersHaveAnAddress, Claimed,
       SentIsClaimed, AnswersFollow, Check, connection, shared, history, Source
<1>5. CASE Read
  <2>1. ValuesOK'
    <3>1. queue # <<>> => Head(queue) \in Datagrams /\ Tail(queue) \in Seq(Datagrams)
      BY HeadTailProperties DEF IInv, ValuesOK
    <3> QED
      BY <1>5, <3>1 DEF IInv, ValuesOK, Read, connection, shared, history
  <2> QED
    BY <1>5, <2>1 DEF IInv, ValuesOK, OneSource, AnswersHaveAnAddress, Claimed,
         SentIsClaimed, AnswersFollow, Read, connection, shared, history
<1>6. CASE Claim
  <2>1. datagram \in Datagrams /\ datagram' = datagram
    BY <1>6 DEF IInv, Claimed, Claim
  <2>2. Source \in Sources /\ Source' = Source
    BY <2>1 DEF Source, Datagrams
  <2>3. OneSource' /\ SentIsClaimed'
    BY <1>6 DEF IInv, OneSource, SentIsClaimed, Claim, history
  <2>4. ValuesOK' /\ Claimed'
    BY <1>6, <2>1, <2>2
       DEF IInv, ValuesOK, Claimed, Claim, connection, history
  <2> QED
    BY <1>6, <2>3, <2>4
       DEF IInv, AnswersHaveAnAddress, AnswersFollow, Claim, history
<1>7. CASE Relay
  <2>1. Source \in Sources /\ Source = clientAddr
    BY <1>7 DEF IInv, Relay, Claimed, Source, Datagrams
  <2>2. OneSource'
    BY <1>7, <2>1 DEF IInv, ValuesOK, OneSource, Relay, shared
  <2>3. ValuesOK'
    BY <1>7, <2>1 DEF IInv, ValuesOK, Relay, connection, shared
  <2> QED
    BY <1>7, <2>1, <2>2, <2>3
       DEF IInv, ValuesOK, AnswersHaveAnAddress, Claimed, SentIsClaimed,
           AnswersFollow, Relay, shared
<1>8. CASE HandlerFinishes
  BY <1>8 DEF IInv, ValuesOK, OneSource, AnswersHaveAnAddress, Claimed,
       SentIsClaimed, AnswersFollow, HandlerFinishes, Finish, connection, history,
       Source
<1>9. CASE Unbind
  BY <1>9 DEF IInv, ValuesOK, OneSource, AnswersHaveAnAddress, Claimed,
       SentIsClaimed, AnswersFollow, Unbind, connection, shared, history, Source
<1>10. CASE ReleaseAssociation
  BY <1>10 DEF IInv, ValuesOK, OneSource, AnswersHaveAnAddress, Claimed,
       SentIsClaimed, AnswersFollow, ReleaseAssociation, connection, shared,
       history, Source
<1>11. CASE HangUp
  BY <1>11 DEF IInv, ValuesOK, OneSource, AnswersHaveAnAddress, Claimed,
       SentIsClaimed, AnswersFollow, HangUp, shared, history, Source
<1> QED
  BY <1>1, <1>2, <1>3, <1>4, <1>5, <1>6, <1>7, <1>8, <1>9, <1>10, <1>11
     DEF Handler

\* ... of the other two goroutines ...
LEMMA GoroutinesOK == IInv /\ (Waiter \/ Receiver) => IInv'
<1> SUFFICES ASSUME IInv, Waiter \/ Receiver PROVE IInv'
  OBVIOUS
<1> USE SocksUDPAssumption
<1> USE DEF IInv, ValuesOK, OneSource, AnswersHaveAnAddress, Claimed, SentIsClaimed,
        AnswersFollow, connection, shared, history, Source
<1>1. CASE ControlEnds
  BY <1>1 DEF ControlEnds
<1>2. CASE WaiterFinishes
  BY <1>2 DEF WaiterFinishes, Finish
<1>3. CASE TakeAnswer
  BY <1>3 DEF TakeAnswer
<1>4. CASE WriteAnswer
  <2>1. clientAddr # None
    BY <1>4 DEF WriteAnswer
  <2>2. AnswersHaveAnAddress'
    BY <1>4, <2>1 DEF WriteAnswer
  <2> QED
    BY <1>4, <2>2 DEF WriteAnswer
<1>5. CASE ReceiverFinishes
  BY <1>5 DEF ReceiverFinishes, Finish
<1>6. CASE ReceiverReturns
  BY <1>6 DEF ReceiverReturns
<1> QED
  BY <1>1, <1>2, <1>3, <1>4, <1>5, <1>6 DEF Waiter, Receiver

\* ... and of what surrounds them.
LEMMA OthersOK ==
  IInv /\ ((\E d \in Datagrams : Arrives(d)) \/ ApplicationEnds
             \/ DeadlineExpires \/ Answered \/ Lost) => IInv'
<1> SUFFICES ASSUME IInv,
                    (\E d \in Datagrams : Arrives(d)) \/ ApplicationEnds
                      \/ DeadlineExpires \/ Answered \/ Lost
             PROVE  IInv'
  OBVIOUS
<1> USE SocksUDPAssumption
<1> USE DEF IInv, ValuesOK, OneSource, AnswersHaveAnAddress, Claimed, SentIsClaimed,
        AnswersFollow, connection, shared, history, Source
<1>1. ASSUME NEW d \in Datagrams, Arrives(d) PROVE IInv'
  BY <1>1 DEF Arrives
<1>2. CASE ApplicationEnds
  BY <1>2 DEF ApplicationEnds
<1>3. CASE DeadlineExpires
  BY <1>3 DEF DeadlineExpires
<1>4. CASE Answered
  BY <1>4 DEF Answered
<1>5. CASE Lost
  BY <1>5 DEF Lost
<1> QED
  BY <1>1, <1>2, <1>3, <1>4, <1>5

LEMMA Inductive == Spec => []IInv
<1>1. IInv /\ [Next]_vars => IInv'
  <2> SUFFICES ASSUME IInv, [Next]_vars PROVE IInv'
    OBVIOUS
  <2>1. CASE UNCHANGED vars
    BY <2>1 DEF IInv, ValuesOK, OneSource, AnswersHaveAnAddress, Claimed,
         SentIsClaimed, AnswersFollow, vars, connection, shared, history, Source
  <2> QED
    BY <2>1, HandlerOK, GoroutinesOK, OthersOK DEF Next
<1> QED
  BY <1>1, InitOK, PTL DEF Spec

\* What a SOCKS UDP association sends on comes from one source, the one that
\* is answered (proxy.go:334-343).
THEOREM SourceIsOne == Spec => []OneSource
BY Inductive, PTL DEF IInv

\* The receiver has an address for every answer (proxy.go:301-306).
THEOREM EveryAnswerAddressed == Spec => []AnswersHaveAnAddress
BY Inductive, PTL DEF IInv

-----------------------------------------------------------------------------
(* The search for a server.                                                *)

\* What a round is made of; the cool down is not bounded here.
RoundOK ==
  /\ servers \in Lists
  /\ failures \in [Keys -> Nat] /\ cooling \in [Keys -> Nat]
  /\ todo \in Seq(Groups)
  /\ phase = "dial" => todo # <<>>

SearchInv == RoundOK /\ NobodyIsPassedOver

\* A server has one transport, or TLS and QUIC in either order.
LEMMA VariantsAre ==
  ASSUME NEW s \in Servers
  PROVE  \/ \E t \in Single : Variants(s) = <<t>>
         \/ Variants(s) = <<"quic", "tls">>
         \/ Variants(s) = <<"tls", "quic">>
  BY DEF Variants

\* Sorting the transports of a server leaves none out and puts the better one
\* first.
LEMMA RankedIs ==
  ASSUME NEW s \in Servers
  PROVE  \/ /\ Ranked(s) = Variants(s)
            /\ Len(Variants(s)) = 2 =>
                 ~ (Score(s, Variants(s)[2]) < Score(s, Variants(s)[1]))
         \/ /\ Ranked(s) = <<Variants(s)[2], Variants(s)[1]>>
            /\ Len(Variants(s)) = 2
            /\ Score(s, Variants(s)[2]) < Score(s, Variants(s)[1])
  BY DEF Ranked

\* The group of a server has all its transports, however they are sorted.
LEMMA GroupOK ==
  ASSUME NEW s \in Servers
  PROVE  /\ Group(s) \in Groups
         /\ DOMAIN Ranked(s) = 1 .. Len(Ranked(s))
         /\ Len(Ranked(s)) \in {1, 2}
         /\ \A i \in DOMAIN Variants(s) :
              \E j \in 1 .. Len(Ranked(s)) : Ranked(s)[j] = Variants(s)[i]
<1>1. CASE \E t \in Single : Variants(s) = <<t>>
  BY <1>1, RankedIs DEF Group, Groups
<1>2. CASE Variants(s) = <<"quic", "tls">>
  <2>1. Ranked(s) = <<"quic", "tls">> \/ Ranked(s) = <<"tls", "quic">>
    BY <1>2, RankedIs
  <2> QED
    BY <1>2, <2>1 DEF Group, Groups
<1>3. CASE Variants(s) = <<"tls", "quic">>
  <2>1. Ranked(s) = <<"quic", "tls">> \/ Ranked(s) = <<"tls", "quic">>
    BY <1>3, RankedIs
  <2> QED
    BY <1>3, <2>1 DEF Group, Groups
<1> QED
  BY <1>1, <1>2, <1>3, VariantsAre

\* A score is a number; a candidate that never failed has less than one that
\* cools down, whatever the weights.
LEMMA Scores ==
  ASSUME RoundOK, NEW s \in Servers, NEW t
  PROVE  /\ Score(s, t) \in Int
         /\ Unknown(s, t) => Score(s, t) <= 2250
         /\ Cools(s, t) => Score(s, t) > 5000
<1> DEFINE k == Key(s, t)
<1> DEFINE w == 2000 \div Weight[s]
<1>1. k \in Keys
  BY DEF Key, Keys
<1>2. failures[k] \in Nat /\ cooling[k] \in Nat
  BY <1>1 DEF RoundOK
<1>3. PICK n \in Nat \ {0} : Weight[s] = n
  BY AttemptsAssumption
<1>4. w \in 0 .. 2000
  <2>1. (2000 \div n) \in 0 .. 2000
    BY SMT
  <2> QED
    BY <1>3, <2>1
<1>5. Score(s, t) =
        w + (IF failures[k] = 0 THEN 250 ELSE 150 + 800 * failures[k])
          + (IF cooling[k] = 0 THEN 0 ELSE 5000 + 1000 * cooling[k])
  BY DEF Score
<1> HIDE DEF w, k
<1>6. /\ Score(s, t) \in Int
      /\ failures[k] = 0 /\ cooling[k] = 0 => Score(s, t) <= 2250
      /\ cooling[k] > 0 => Score(s, t) > 5000
  BY <1>2, <1>4, <1>5
<1> QED
  BY <1>6 DEF Unknown, Cools, k

\* The best transport of a server comes first.
LEMMA BestFirst ==
  ASSUME RoundOK, NEW s \in Servers,
         NEW n \in DOMAIN Ranked(s)
  PROVE  GroupScore(s) <= Score(s, Ranked(s)[n])
<1> DEFINE r == Ranked(s)
<1>1. n \in 1 .. Len(r) /\ Len(r) \in {1, 2}
  BY GroupOK
<1>2. \A t : Score(s, t) \in Int
  BY Scores
<1>3. Len(r) = 2 => ~ (Score(s, r[2]) < Score(s, r[1]))
  <2>1. CASE Ranked(s) = Variants(s) /\
             (Len(Variants(s)) = 2 =>
                ~ (Score(s, Variants(s)[2]) < Score(s, Variants(s)[1])))
    BY <2>1
  <2>2. CASE /\ Ranked(s) = <<Variants(s)[2], Variants(s)[1]>>
             /\ Len(Variants(s)) = 2
             /\ Score(s, Variants(s)[2]) < Score(s, Variants(s)[1])
    <3>1. r[1] = Variants(s)[2] /\ r[2] = Variants(s)[1]
      BY <2>2
    <3>2. Score(s, r[1]) < Score(s, r[2])
      BY <2>2, <3>1
    <3>3. Score(s, r[1]) \in Int /\ Score(s, r[2]) \in Int
      BY <1>2
    <3> HIDE DEF r
    <3> QED
      BY <3>2, <3>3
  <2> QED
    BY <2>1, <2>2, RankedIs
<1>4. Score(s, r[1]) \in Int /\ Score(s, r[2]) \in Int
  BY <1>2
<1>5. n = 1 \/ (n = 2 /\ Len(r) = 2)
  BY <1>1
<1>6. GroupScore(s) = Score(s, r[1])
  BY DEF GroupScore
<1> HIDE DEF r
<1>7. Score(s, r[1]) <= Score(s, r[n])
  BY <1>3, <1>4, <1>5
<1> QED
  BY <1>6, <1>7 DEF r

-----------------------------------------------------------------------------
(* A ranking is a permutation.                                             *)

\* What is ranked: finitely many servers.
LEMMA ListsAre ==
  ASSUME RoundOK
  PROVE  /\ servers \in Seq(Servers) /\ Len(servers) \in Nat
         /\ \A i \in Indices : servers[i] \in Servers
         /\ IsFiniteSet(Indices)
<1>1. servers \in Seq(Servers)
  BY AttemptsAssumption DEF RoundOK
<1>2. Len(servers) \in Nat /\ \A i \in Indices : servers[i] \in Servers
  BY <1>1, LenProperties, ElementOfSeq DEF Indices
<1>3. IsFiniteSet(Indices)
  <2>1. Len(servers) \in Int /\ 1 \in Int
    BY <1>2
  <2> QED
    BY <2>1, FS_Interval DEF Indices
<1> QED
  BY <1>1, <1>2, <1>3

\* No server is put before itself, so an order that the sort accepts has each
\* of them once.
LEMMA Everybody ==
  ASSUME RoundOK,
         NEW order \in [Indices -> Indices], IsRanking(order),
         NEW i \in Indices
  PROVE  \E j \in Indices : order[j] = i
<1>1. \A j \in Indices : ~ Before(j, j)
  <2> SUFFICES ASSUME NEW j \in Indices PROVE ~ Before(j, j)
    OBVIOUS
  <2>1. servers[j] \in Servers
    BY ListsAre
  <2>2. GroupScore(servers[j]) \in Int
    BY <2>1, Scores DEF GroupScore
  <2>3. Weight[servers[j]] \in Nat
    BY <2>1, AttemptsAssumption
  <2>4. j \in Int
    BY ListsAre DEF Indices
  <2> QED
    BY <2>2, <2>3, <2>4 DEF Before
<1>2. \A m, n \in Indices : m # n => order[m] # order[n]
  <2> SUFFICES ASSUME NEW m \in Indices, NEW n \in Indices, m # n
               PROVE  order[m] # order[n]
    OBVIOUS
  <2>1. m < n \/ n < m
    BY ListsAre DEF Indices
  <2>2. Before(order[m], order[n]) \/ Before(order[n], order[m])
    BY <2>1 DEF IsRanking
  <2>3. order[m] \in Indices
    OBVIOUS
  <2> QED
    BY <1>1, <2>2, <2>3
<1>3. order \in Injection(Indices, Indices)
  BY <1>2 DEF Injection, IsInjective
<1>4. order \in Surjection(Indices, Indices)
  BY <1>3, FS_Injection, ListsAre
<1> QED
  BY <1>4 DEF Surjection
\* So a round begins with every transport of every server of the list.
LEMMA RankFollows ==
  ASSUME RoundOK, Rank
  PROVE  /\ RoundOK' /\ NobodyIsPassedOver'
         /\ \E order \in [Indices -> Indices] :
              /\ IsRanking(order)
              /\ todo' = [i \in Indices |-> Group(servers[order[i]])]
<1>1. PICK order \in [Indices -> Indices] :
        /\ IsRanking(order)
        /\ todo' = [i \in Indices |-> Group(servers[order[i]])]
  BY DEF Rank
<1> DEFINE g(i) == Group(servers[order[i]])
<1>2. \A i \in Indices : servers[order[i]] \in Servers /\ g(i) \in Groups
  BY ListsAre, GroupOK
<1>3. todo' \in Seq(Groups) /\ Len(todo') = Len(servers)
  <2>1. todo' = [i \in 1 .. Len(servers) |-> g(i)]
    BY <1>1 DEF Indices
  <2>2. \A i \in 1 .. Len(servers) : g(i) \in Groups
    BY <1>2 DEF Indices
  <2>3. Len(servers) \in Nat
    BY ListsAre
  <2> HIDE DEF g
  <2> QED
    BY <2>1, <2>2, <2>3
<1>4. RoundOK'
  BY <1>3 DEF RoundOK, Rank
<1>5. ASSUME NEW s \in round', NEW i \in DOMAIN Variants(s)
      PROVE  Waits(s, Variants(s)[i])'
  <2>1. PICK n \in Indices : s = servers[n]
    BY DEF Rank
  <2>2. PICK m \in Indices : order[m] = n
    BY <1>1, Everybody
  <2>3. s \in Servers
    BY <2>1, ListsAre
  <2>4. todo'[m] = Group(s)
    BY <1>1, <2>1, <2>2
  <2>5. PICK j \in 1 .. Len(Ranked(s)) : Ranked(s)[j] = Variants(s)[i]
    BY <2>3, GroupOK
  <2>6. todo'[m].server = s /\ todo'[m].left = Ranked(s)
    BY <2>4 DEF Group
  <2>7. m \in 1 .. Len(todo')
    BY <1>3 DEF Indices
  <2>8. \E l \in 1 .. Len(todo'[m].left) : todo'[m].left[l] = Variants(s)[i]
    BY <2>5, <2>6
  <2> QED
    BY <2>6, <2>7, <2>8 DEF Waits
<1>6. NobodyIsPassedOver'
  BY <1>5 DEF NobodyIsPassedOver, Variants, Primary
<1> QED
  BY <1>1, <1>4, <1>6

\* A cool down is a number of seconds.
LEMMA Cooldowns ==
  ASSUME NEW n \in Nat
  PROVE  Cooldown(n) \in Nat
<1>1. n = 0 \/ n \in {1, 2, 3, 4, 5} \/ ~ (n = 0 \/ n < 6)
  OBVIOUS
<1>2. \A m \in {1, 2, 3, 4, 5} : 2 ^ m \in Nat
  <2>1. 2 ^ 1 \in Nat /\ 2 ^ 2 \in Nat /\ 2 ^ 3 \in Nat /\ 2 ^ 4 \in Nat
        /\ 2 ^ 5 \in Nat
    OBVIOUS
  <2> QED
    BY <2>1, Zenon
<1>3. CASE n \in {1, 2, 3, 4, 5}
  <2>1. n # 0 /\ n < 6
    BY <1>3
  <2> QED
    BY <1>2, <1>3, <2>1, Zenon DEF Cooldown
<1>4. CASE n = 0 \/ ~ (n = 0 \/ n < 6)
  BY <1>4 DEF Cooldown
<1> QED
  BY <1>1, <1>3, <1>4

\* The transports that a group may have left, and what Tail leaves of two.
Lefts == {<<t>> : t \in Single} \cup
           {<<"tls">>, <<"quic">>, <<"tls", "quic">>, <<"quic", "tls">>}

LEMMA OneOfTwo ==
  ASSUME NEW q \in Lefts, Len(q) = 2
  PROVE  Len(Tail(q)) = 1 /\ Tail(q)[1] = q[2] /\ Tail(q) \in Lefts
<1>1. CASE q = <<"tls", "quic">>
  <2>1. Tail(q) = <<"quic">>
    BY <1>1
  <2> QED
    BY <1>1, <2>1 DEF Lefts
<1>2. CASE q = <<"quic", "tls">>
  <2>1. Tail(q) = <<"tls">>
    BY <1>2
  <2> QED
    BY <1>2, <2>1 DEF Lefts
<1>3. CASE \E t : q = <<t>>
  BY <1>3
<1> QED
  BY <1>1, <1>2, <1>3 DEF Lefts

\* A failure takes away the transport that was dialled, or refuses the server.
LEMMA FailFollows ==
  ASSUME SearchInv, Fails
  PROVE  SearchInv'
<1> DEFINE g == Head(todo)
<1>1. /\ todo # <<>> /\ todo \in Seq(Groups) /\ g \in Groups
      /\ Tail(todo) \in Seq(Groups) /\ Len(Tail(todo)) = Len(todo) - 1
      /\ \A i \in 1 .. Len(Tail(todo)) : Tail(todo)[i] = todo[i + 1]
      /\ Len(todo) \in Nat /\ g = todo[1]
  <2>1. todo # <<>> /\ todo \in Seq(Groups)
    BY DEF SearchInv, RoundOK, Fails
  <2>2. Len(todo) \in Nat /\ g = todo[1]
    BY <2>1, LenProperties
  <2> QED
    BY <2>1, <2>2, HeadTailProperties
<1>2. PICK k \in Keys : CountFailure(k)
  <2>1. Candidate[1] \in Servers
    BY <1>1 DEF Candidate, Server, Groups
  <2>2. Key(Candidate[1], Candidate[2]) \in Keys
    BY <2>1 DEF Key, Keys
  <2> QED
    BY <2>2 DEF Fails
<1>3. failures' \in [Keys -> Nat] /\ cooling' \in [Keys -> Nat]
  <2>1. failures' \in [Keys -> Nat]
    BY <1>2 DEF CountFailure, SearchInv, RoundOK
  <2>2. Cooldown(failures'[k]) \in Nat
    <3>1. failures'[k] \in Nat
      BY <2>1
    <3> QED
      BY <3>1, Cooldowns
  <2>3. cooling' = [cooling EXCEPT ![k] = Cooldown(failures'[k])]
    BY <1>2 DEF CountFailure
  <2> QED
    BY <2>1, <2>2, <2>3 DEF SearchInv, RoundOK
<1>4. /\ tried' = tried \cup {<<g.server, g.left[1]>>}
      /\ round' = round /\ servers' = servers /\ phase' = "attempt"
      /\ g.server \in Servers /\ Len(g.left) \in {1, 2}
  <2>1. Candidate = <<g.server, g.left[1]>>
    BY <1>1 DEF Candidate, Server, Groups
  <2>2. g.server \in Servers /\ Len(g.left) \in {1, 2}
    BY <1>1 DEF Groups
  <2> QED
    BY <2>1, <2>2 DEF Fails
<1>5. CASE NextVariant /\ denied' = denied /\ Len(g.left) = 1
  <2>1. todo' = Tail(todo)
    BY <1>5 DEF NextVariant
  <2>2. RoundOK'
    BY <1>1, <1>3, <1>4, <2>1 DEF SearchInv, RoundOK
  <2>3. \A s, t : Waits(s, t) => Waits(s, t)' \/ <<s, t>> \in tried'
    <3> SUFFICES ASSUME NEW s, NEW t, Waits(s, t), <<s, t>> \notin tried'
                 PROVE  Waits(s, t)'
      OBVIOUS
    <3>1. PICK i \in 1 .. Len(todo) :
            /\ todo[i].server = s
            /\ \E j \in 1 .. Len(todo[i].left) : todo[i].left[j] = t
      BY DEF Waits
    <3>2. i # 1
      BY <1>1, <1>4, <1>5, <3>1
    <3>3. i - 1 \in 1 .. Len(todo') /\ todo'[i - 1] = todo[i]
      BY <1>1, <2>1, <3>2
    <3> QED
      BY <3>1, <3>3 DEF Waits
  <2> QED
    BY <1>4, <1>5, <2>2, <2>3
       DEF SearchInv, NobodyIsPassedOver, Variants, Primary
<1>6. CASE NextVariant /\ denied' = denied /\ Len(g.left) = 2
  <2>1. todo' = [todo EXCEPT ![1].left = Tail(@)]
    <3>1. Len(Head(todo).left) # 1
      BY <1>6
    <3> QED
      BY <1>6, <3>1, Zenon DEF NextVariant
  <2>2. /\ Len(Tail(g.left)) = 1 /\ Tail(g.left)[1] = g.left[2]
        /\ [g EXCEPT !.left = Tail(@)] \in Groups
    <3>1. g.left \in Lefts /\ g \in [server : Servers, left : Lefts]
      BY <1>1 DEF Groups, Lefts
    <3>2. \A l \in Lefts :
            [g EXCEPT !.left = l] \in [server : Servers, left : Lefts]
      BY <3>1
    <3>3. /\ Len(Tail(g.left)) = 1 /\ Tail(g.left)[1] = g.left[2]
          /\ Tail(g.left) \in Lefts
      BY <1>6, <3>1, OneOfTwo
    <3> QED
      BY <3>2, <3>3 DEF Groups, Lefts
  <2>3. /\ todo' = [todo EXCEPT ![1] = [g EXCEPT !.left = Tail(@)]]
        /\ 1 \in 1 .. Len(todo)
    <3>1. 1 \in 1 .. Len(todo)
      BY <1>1
    <3> QED
      BY <1>1, <2>1, <3>1
  <2>4. todo' \in Seq(Groups) /\ Len(todo') = Len(todo)
    BY <1>1, <2>2, <2>3, ExceptSeq
  <2>5. RoundOK'
    BY <1>3, <1>4, <2>4 DEF SearchInv, RoundOK
  <2>6. \A s, t : Waits(s, t) => Waits(s, t)' \/ <<s, t>> \in tried'
    <3> SUFFICES ASSUME NEW s, NEW t, Waits(s, t), <<s, t>> \notin tried'
                 PROVE  Waits(s, t)'
      OBVIOUS
    <3>1. PICK i \in 1 .. Len(todo) :
            /\ todo[i].server = s
            /\ \E j \in 1 .. Len(todo[i].left) : todo[i].left[j] = t
      BY DEF Waits
    <3>2. PICK j \in 1 .. Len(todo[i].left) :
            todo[i].server = s /\ todo[i].left[j] = t
      BY <3>1
    <3>3. CASE i = 1
      <4>1. j = 2
        BY <1>1, <1>4, <1>6, <3>2, <3>3
      <4>2. /\ todo'[1].server = s /\ todo'[1].left = Tail(g.left)
        BY <1>1, <2>3, <3>2, <3>3 DEF Groups
      <4>3. 1 \in 1 .. Len(todo'[1].left) /\ todo'[1].left[1] = t
        BY <1>1, <2>2, <3>2, <3>3, <4>1, <4>2
      <4> QED
        BY <2>3, <2>4, <4>2, <4>3 DEF Waits
    <3>4. CASE i # 1
      <4>1. todo'[i] = todo[i] /\ i \in 1 .. Len(todo')
        BY <1>1, <2>3, <2>4, <3>4
      <4> QED
        BY <3>2, <4>1 DEF Waits
    <3> QED
      BY <3>3, <3>4
  <2> QED
    BY <1>4, <1>6, <2>5, <2>6
       DEF SearchInv, NobodyIsPassedOver, Variants, Primary
<1>7. CASE CanDeny /\ todo' = Tail(todo) /\ denied' = denied \cup {Server}
  <2>1. RoundOK'
    BY <1>1, <1>3, <1>4, <1>7 DEF SearchInv, RoundOK
  <2>2. \A s, t : Waits(s, t) => Waits(s, t)' \/ s \in denied'
    <3> SUFFICES ASSUME NEW s, NEW t, Waits(s, t), s \notin denied'
                 PROVE  Waits(s, t)'
      OBVIOUS
    <3>1. PICK i \in 1 .. Len(todo) :
            /\ todo[i].server = s
            /\ \E j \in 1 .. Len(todo[i].left) : todo[i].left[j] = t
      BY DEF Waits
    <3>2. i # 1
      BY <1>1, <1>7, <3>1 DEF Server
    <3>3. i - 1 \in 1 .. Len(todo') /\ todo'[i - 1] = todo[i]
      BY <1>1, <1>7, <3>2
    <3> QED
      BY <3>1, <3>3 DEF Waits
  <2> QED
    BY <1>4, <1>7, <2>1, <2>2
       DEF SearchInv, NobodyIsPassedOver, Variants, Primary
<1> QED
  BY <1>4, <1>5, <1>6, <1>7 DEF Fails

\* A step that leaves the round alone, or only adds to what was tried.
LEMMA SameRound ==
  ASSUME NobodyIsPassedOver, UNCHANGED <<todo, round, denied>>,
         tried \subseteq tried'
  PROVE  NobodyIsPassedOver'
<1>1. \A s, t : Waits(s, t)' <=> Waits(s, t)
  BY DEF Waits
<1>2. \A s : Variants(s)' = Variants(s)
  BY DEF Variants, Primary
<1> QED
  BY <1>1, <1>2 DEF NobodyIsPassedOver

\* No round has begun yet.
LEMMA SearchBegins == ASSUME SearchInit PROVE SearchInv
<1>1. RoundOK
  BY DEF SearchInit, RoundOK
<1> QED
  BY <1>1 DEF SearchInit, SearchInv, NobodyIsPassedOver

\* Nothing else touches a round.
LEMMA SearchGoesOn ==
  ASSUME SearchInv, [SearchNext]_searchVars
  PROVE  SearchInv'
<1>1. CASE Rank
  BY <1>1, RankFollows DEF SearchInv
<1>2. CASE Fails
  BY <1>2, FailFollows
<1>3. CASE Attempt
  <2>1. RoundOK'
    BY <1>3 DEF SearchInv, RoundOK, Attempt
  <2> QED
    BY <1>3, <2>1, SameRound DEF SearchInv, Attempt
<1>4. CASE Connects
  <2>1. RoundOK'
    <3>1. cooling' \in [Keys -> Nat]
      BY <1>4 DEF SearchInv, RoundOK, Connects
    <3> QED
      BY <1>4, <3>1 DEF SearchInv, RoundOK, Connects
  <2> QED
    BY <1>4, <2>1, SameRound DEF SearchInv, Connects
<1>5. CASE RunEnds \/ RoundFails \/ CheckStop \/ Wake
  <2>1. RoundOK'
    BY <1>5 DEF SearchInv, RoundOK, RunEnds, RoundFails, CheckStop, Wake
  <2> QED
    BY <1>5, <2>1, SameRound
       DEF SearchInv, RunEnds, RoundFails, CheckStop, Wake
<1>6. CASE Stop \/ UNCHANGED searchVars
  <2>1. RoundOK'
    BY <1>6 DEF SearchInv, RoundOK, Stop, searchVars
  <2> QED
    BY <1>6, <2>1, SameRound DEF SearchInv, Stop, searchVars
<1>7. CASE Second
  <2>1. cooling' \in [Keys -> Nat]
    BY <1>7 DEF SearchInv, RoundOK, Second
  <2>2. RoundOK'
    BY <1>7, <2>1 DEF SearchInv, RoundOK, Second
  <2> QED
    BY <1>7, <2>2, SameRound DEF SearchInv, Second
<1>8. ASSUME NEW list \in Lists, UpdateServers(list) PROVE SearchInv'
  <2>1. RoundOK'
    BY <1>8 DEF SearchInv, RoundOK, UpdateServers
  <2> QED
    BY <1>8, <2>1, SameRound DEF SearchInv, UpdateServers
<1> QED
  BY <1>1, <1>2, <1>3, <1>4, <1>5, <1>6, <1>7, <1>8 DEF SearchNext, ConnectLoop

\* A round passes over nobody: what it began with was dialled, still waits, or
\* refused the credentials (client.go:190-217).
THEOREM AllAreTried == SearchSpec => []NobodyIsPassedOver
<1>1. SearchInit => SearchInv
  BY SearchBegins
<1>2. SearchInv /\ [SearchNext]_searchVars => SearchInv'
  BY SearchGoesOn
<1>3. SearchInv => NobodyIsPassedOver
  BY DEF SearchInv
<1> QED
  BY <1>1, <1>2, <1>3, PTL DEF SearchSpec

\* Scores decide: above 5000 for what cools down, at most 2250 for what never
\* failed.
LEMMA RankIsHealthy ==
  ASSUME SearchInv, Rank
  PROVE  HealthyFirst
<1>1. RoundOK
  BY DEF SearchInv
<1>2. PICK order \in [Indices -> Indices] :
        /\ IsRanking(order)
        /\ todo' = [i \in Indices |-> Group(servers[order[i]])]
  BY <1>1, RankFollows
<1>3. ASSUME NEW i \in DOMAIN todo'
      PROVE  /\ i \in Indices /\ order[i] \in Indices
             /\ servers[order[i]] \in Servers
             /\ todo'[i].server = servers[order[i]]
             /\ todo'[i].left = Ranked(servers[order[i]])
  <2>1. i \in Indices
    BY <1>2
  <2>2. todo'[i] = Group(servers[order[i]])
    BY <1>2, <2>1
  <2> QED
    BY <1>1, <1>2, <2>1, <2>2, ListsAre DEF Group
<1>4. ASSUME NEW i \in DOMAIN todo', NEW j \in DOMAIN todo', i < j,
             \A n \in DOMAIN todo'[i].left :
               Cools(todo'[i].server, todo'[i].left[n]),
             NEW n \in DOMAIN todo'[j].left,
             Unknown(todo'[j].server, todo'[j].left[n])
      PROVE  FALSE
  <2> DEFINE s == servers[order[i]]
  <2> DEFINE r == servers[order[j]]
  <2>1. s \in Servers /\ r \in Servers
    BY <1>3
  <2>2. GroupScore(s) <= GroupScore(r)
    <3>1. Before(order[i], order[j])
      BY <1>2, <1>3, <1>4 DEF IsRanking
    <3>2. GroupScore(s) \in Int /\ GroupScore(r) \in Int
      BY <1>1, <2>1, Scores DEF GroupScore
    <3>3. GroupScore(s) < GroupScore(r) \/ GroupScore(s) = GroupScore(r)
      BY <3>1 DEF Before
    <3> QED
      BY <3>2, <3>3
  <2>3. GroupScore(s) > 5000
    <3>1. 1 \in DOMAIN Ranked(s)
      BY <2>1, GroupOK
    <3>2. Cools(s, Ranked(s)[1])
      BY <1>3, <1>4, <3>1
    <3> QED
      BY <1>1, <2>1, <3>2, Scores DEF GroupScore
  <2>4. GroupScore(r) <= 2250
    <3>1. n \in DOMAIN Ranked(r) /\ Unknown(r, Ranked(r)[n])
      BY <1>3, <1>4
    <3>2. /\ Score(r, Ranked(r)[n]) <= 2250
          /\ Score(r, Ranked(r)[n]) \in Int
      BY <1>1, <2>1, <3>1, Scores
    <3>3. GroupScore(r) <= Score(r, Ranked(r)[n])
      BY <1>1, <2>1, <3>1, BestFirst
    <3>4. GroupScore(r) \in Int
      BY <1>1, <2>1, Scores DEF GroupScore
    <3> QED
      BY <3>2, <3>3, <3>4
  <2>5. GroupScore(s) \in Int /\ GroupScore(r) \in Int
    BY <1>1, <2>1, Scores DEF GroupScore
  <2> QED
    BY <2>2, <2>3, <2>4, <2>5
<1>5. ASSUME NEW i \in DOMAIN todo',
             NEW m \in DOMAIN todo'[i].left, NEW n \in DOMAIN todo'[i].left,
             m < n,
             Cools(todo'[i].server, todo'[i].left[m]),
             Unknown(todo'[i].server, todo'[i].left[n])
      PROVE  FALSE
  <2> DEFINE s == servers[order[i]]
  <2>1. s \in Servers /\ m \in DOMAIN Ranked(s) /\ n \in DOMAIN Ranked(s)
    BY <1>3
  <2>2. m = 1
    BY <1>5, <2>1, GroupOK
  <2>3. Score(s, Ranked(s)[1]) > 5000
    BY <1>1, <1>3, <1>5, <2>1, <2>2, Scores
  <2>4. Score(s, Ranked(s)[n]) <= 2250
    BY <1>1, <1>3, <1>5, <2>1, Scores
  <2>5. Score(s, Ranked(s)[1]) <= Score(s, Ranked(s)[n])
    BY <1>1, <2>1, BestFirst DEF GroupScore
  <2>6. Score(s, Ranked(s)[1]) \in Int /\ Score(s, Ranked(s)[n]) \in Int
    BY <1>1, <2>1, Scores
  <2> QED
    BY <2>3, <2>4, <2>5, <2>6
<1> QED
  BY <1>4, <1>5 DEF HealthyFirst

\* A ranking puts nothing that cools down before what never failed, whatever
\* the weights (subscription.go:296-326).
THEOREM HealthyComeFirst == SearchSpec => RanksHealthyFirst
<1>1. SearchInit => SearchInv
  BY SearchBegins
<1>2. SearchInv /\ [SearchNext]_searchVars => SearchInv'
  BY SearchGoesOn
<1>3. SearchInv /\ [SearchNext]_searchVars =>
        [phase = "rank" /\ phase' = "attempt" => HealthyFirst]_searchVars
  <2> SUFFICES ASSUME SearchInv, SearchNext, phase = "rank", phase' = "attempt"
               PROVE  HealthyFirst
    OBVIOUS
  <2>1. Rank
    BY DEF SearchNext, ConnectLoop, Attempt, Connects, Fails, RunEnds,
           RoundFails, CheckStop, Wake, Stop, Second, UpdateServers
  <2> QED
    BY <2>1, RankIsHealthy
<1> QED
  BY <1>1, <1>2, <1>3, PTL DEF SearchSpec, RanksHealthyFirst

=============================================================================
