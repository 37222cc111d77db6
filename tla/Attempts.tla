------------------------------- MODULE Attempts -------------------------------
(***************************************************************************)
(* How the client finds a server (connectLoop and tryConnectCandidates of  *)
(* core/transport/client.go, ServerSelector of subscription.go).           *)
(*                                                                         *)
(* A round ranks the servers of the subscription and the transports of     *)
(* each, then dials them in that order.  Every failure is remembered: it   *)
(* adds to the score of its candidate, and makes it cool down for a while. *)
(* The subscription is replaced at any time by another goroutine.          *)
(*                                                                         *)
(* The client ranks again only after a failed round: a connection lasts    *)
(* until Stop.  So what ReportDialResult keeps of successes (the latency,  *)
(* the number of successes) never reaches a ranking, and failureCount and  *)
(* consecutiveFailures are the same number.                                *)
(***************************************************************************)
EXTENDS Integers, Sequences

CONSTANTS
  Servers,      \* the entries that subscriptions hold, one per address
  Lists,        \* the lists of servers that the subscription may be
  Weight,       \* the normalized weight of every server
  Transport,    \* its normalized transport: "tls", "quic", "auto" or ""
  Preferred,    \* the transport the user asked for
  Persistent,   \* TUN mode: every candidate but QUIC is dialled as a
                \* persistent channel over TLS
  Accepting,    \* candidates <<server, transport>> that always accept
  MaxFailures   \* bound: failures are counted up to here

Single == {"reality", "mirage", "masque", "redstone", "webrtc"}

ASSUME AttemptsAssumption ==
  /\ Lists \subseteq Seq(Servers) \ {<<>>}
  /\ Weight \in [Servers -> Nat \ {0}]
  /\ Transport \in [Servers -> {"tls", "quic", "auto", ""}]
  /\ Preferred \in Single \cup {"tls", "quic", "auto", ""}
  /\ Persistent \in BOOLEAN
  /\ MaxFailures \in Nat

VARIABLES
  servers,   \* ss.servers
  failures,  \* consecutiveFailures of a stats key; 0 also for no stats
  cooling,   \* seconds until cooldownUntil
  stopped,   \* stopChan is closed
  phase,     \* what the connect loop does
  todo,      \* what is left of the round: groups, with the transports left
  round,     \* history: the servers that the round began with
  tried,     \* history: the candidates that were dialled in the round
  denied     \* history: the servers that refused for good in the round

searchVars ==
  <<servers, failures, cooling, stopped, phase, todo, round, tried, denied>>

-----------------------------------------------------------------------------
(* The selector.                                                           *)

\* serverStatsKey: all but QUIC is counted with TLS.
Key(s, t) == <<s, IF t = "quic" THEN "quic" ELSE "tls">>
Keys == Servers \X {"tls", "quic"}

Primary(s) ==
  IF Transport[s] \in {"tls", "quic"} THEN Transport[s] ELSE Preferred

\* buildTransportVariants.
Variants(s) ==
  CASE Primary(s) \in Single -> <<Primary(s)>>
    [] Primary(s) = "quic"   -> <<"quic", "tls">>
    [] OTHER                 -> <<"tls", "quic">>

\* cooldownForFailures, in seconds.
Cooldown(n) == IF n = 0 THEN 0 ELSE IF n < 6 THEN 2 ^ n ELSE 60

\* Mutated form: the cool down has no part in the score.
ScoreWithoutCooldown(s, t) ==
  LET k == Key(s, t)
  IN 2000 \div Weight[s]
       + (IF failures[k] = 0 THEN 250 ELSE 150 + 800 * failures[k])

\* candidateScoreLocked; the smallest score comes first.
Score(s, t) ==
  LET k == Key(s, t)
  IN 2000 \div Weight[s]
       + (IF failures[k] = 0 THEN 250 ELSE 150 + 800 * failures[k])
       + (IF cooling[k] = 0 THEN 0 ELSE 5000 + 1000 * cooling[k])

\* The stable sort of the variants of a server.
Ranked(s) ==
  LET v == Variants(s)
  IN IF Len(v) = 2 /\ Score(s, v[2]) < Score(s, v[1])
     THEN <<v[2], v[1]>> ELSE v

GroupScore(s) == Score(s, Ranked(s)[1])

\* The stable sort of the groups: by score, then the heavier, then the first.
Before(i, j) ==
  LET s == servers[i]
      r == servers[j]
  IN \/ GroupScore(s) < GroupScore(r)
     \/ /\ GroupScore(s) = GroupScore(r)
        /\ \/ Weight[s] > Weight[r]
           \/ Weight[s] = Weight[r] /\ i < j

Indices == 1 .. Len(servers)

IsRanking(order) ==
  \A i, j \in Indices : i < j => Before(order[i], order[j])

Group(s) == [server |-> s, left |-> Ranked(s)]

-----------------------------------------------------------------------------

SearchInit ==
  /\ servers \in Lists
  /\ failures = [k \in Keys |-> 0] /\ cooling = [k \in Keys |-> 0]
  /\ stopped = FALSE
  /\ phase = "rank" /\ todo = <<>>
  /\ round = {} /\ tried = {} /\ denied = {}

\* RankServerGroups: the round works on this ranking whatever happens later.
Rank ==
  /\ phase = "rank"
  /\ \E order \in [Indices -> Indices] :
       /\ IsRanking(order)
       /\ todo' = [i \in Indices |-> Group(servers[order[i]])]
  /\ round' = {servers[i] : i \in Indices} /\ tried' = {} /\ denied' = {}
  /\ phase' = "attempt"
  /\ UNCHANGED <<servers, failures, cooling, stopped>>

\* tryConnectCandidates goes on to the next candidate, or returns: nil when
\* the client is stopped, the last error when nothing is left.
Attempt ==
  /\ phase = "attempt"
  /\ phase' = CASE todo = <<>> -> "failed"
                [] todo # <<>> /\ stopped -> "run"
                [] OTHER -> "dial"
  /\ UNCHANGED <<servers, failures, cooling, stopped, todo, round, tried, denied>>

Server == Head(todo).server
Candidate == <<Server, Head(Head(todo).left)>>

\* connectRedstone dials nothing, so it cannot fail; in TUN mode it is not
\* what is called.
CanFail ==
  Candidate \notin Accepting /\ (Candidate[2] = "redstone" => Persistent)

\* Outside TUN mode only QUIC learns from connecting that the credentials are
\* refused: TLS and Reality end their probe after the handshake, Masque sends
\* no credentials, and the errors of the others are not among the terminal
\* markers.  The persistent channel over TLS waits for the status.
CanDeny == Persistent \/ Candidate[2] = "quic"

\* The candidate is done; its group goes when no transport is left.
NextVariant ==
  todo' = IF Len(Head(todo).left) = 1 THEN Tail(todo)
          ELSE [todo EXCEPT ![1].left = Tail(@)]

\* ReportDialResult of a failure.
CountFailure(k) ==
  /\ failures' = [failures EXCEPT
                    ![k] = IF @ = MaxFailures THEN @ ELSE @ + 1]
  /\ cooling' = [cooling EXCEPT ![k] = Cooldown(failures'[k])]

\* connectCandidate succeeds.
Connects ==
  /\ phase = "dial"
  /\ cooling' = [cooling EXCEPT ![Key(Candidate[1], Candidate[2])] = 0]
  /\ tried' = tried \cup {Candidate}
  /\ phase' = "run"
  /\ UNCHANGED <<servers, failures, stopped, todo, round, denied>>

\* Mutated form: the failure is not reported.
FailsUnreported ==
  /\ phase = "dial" /\ CanFail
  /\ \/ NextVariant /\ UNCHANGED denied
     \/ CanDeny /\ todo' = Tail(todo) /\ denied' = denied \cup {Server}
  /\ tried' = tried \cup {Candidate}
  /\ phase' = "attempt"
  /\ UNCHANGED <<servers, failures, cooling, stopped, round>>

\* Mutated form: a refusal ends the round, not only the group.
FailsForAll ==
  /\ phase = "dial" /\ CanFail
  /\ CountFailure(Key(Candidate[1], Candidate[2]))
  /\ \/ NextVariant /\ UNCHANGED denied
     \/ CanDeny /\ todo' = <<>> /\ denied' = denied \cup {Server}
  /\ tried' = tried \cup {Candidate}
  /\ phase' = "attempt"
  /\ UNCHANGED <<servers, stopped, round>>

\* connectCandidate fails.  After a refusal of the credentials the other
\* transports of the server are left out (shouldRetryOtherTransports).
Fails ==
  /\ phase = "dial" /\ CanFail
  /\ CountFailure(Key(Candidate[1], Candidate[2]))
  /\ \/ NextVariant /\ UNCHANGED denied
     \/ CanDeny /\ todo' = Tail(todo) /\ denied' = denied \cup {Server}
  /\ tried' = tried \cup {Candidate}
  /\ phase' = "attempt"
  /\ UNCHANGED <<servers, stopped, round>>

\* runLoop returns when stopChan is closed.
RunEnds ==
  /\ phase = "run" /\ stopped
  /\ phase' = "check"
  /\ UNCHANGED <<servers, failures, cooling, stopped, todo, round, tried, denied>>

RoundFails ==
  /\ phase = "failed"
  /\ phase' = "check"
  /\ UNCHANGED <<servers, failures, cooling, stopped, todo, round, tried, denied>>

\* Mutated form: connectLoop does not look at stopChan.
CheckNothing ==
  /\ phase = "check"
  /\ phase' = "backoff"
  /\ UNCHANGED <<servers, failures, cooling, stopped, todo, round, tried, denied>>

\* connectLoop returns when the client is stopped, and sleeps otherwise.
CheckStop ==
  /\ phase = "check"
  /\ phase' = IF stopped THEN "done" ELSE "backoff"
  /\ UNCHANGED <<servers, failures, cooling, stopped, todo, round, tried, denied>>

Wake ==
  /\ phase = "backoff"
  /\ phase' = "rank"
  /\ UNCHANGED <<servers, failures, cooling, stopped, todo, round, tried, denied>>

ConnectLoop ==
  \/ Rank \/ Attempt \/ Connects \/ Fails \/ RunEnds \/ RoundFails
  \/ CheckStop \/ Wake

\* updateSubscription; a list without servers is ignored.
UpdateServers(list) ==
  /\ list # servers
  /\ servers' = list
  /\ UNCHANGED <<failures, cooling, stopped, phase, todo, round, tried, denied>>

Stop ==
  /\ ~stopped /\ stopped' = TRUE
  /\ UNCHANGED <<servers, failures, cooling, phase, todo, round, tried, denied>>

\* A second passes.
Second ==
  /\ \E k \in Keys : cooling[k] > 0
  /\ cooling' = [k \in Keys |-> IF cooling[k] = 0 THEN 0 ELSE cooling[k] - 1]
  /\ UNCHANGED <<servers, failures, stopped, phase, todo, round, tried, denied>>

SearchNext ==
  \/ ConnectLoop \/ Stop \/ Second
  \/ \E list \in Lists : UpdateServers(list)

SearchSpec == SearchInit /\ [][SearchNext]_searchVars

\* The connect loop runs: dials and sleeps end.
FairSearchSpec == SearchSpec /\ WF_searchVars(ConnectLoop)

-----------------------------------------------------------------------------
(* Properties.                                                             *)

Groups == [server : Servers,
           left : {<<t>> : t \in Single} \cup
                  {<<"tls">>, <<"quic">>, <<"tls", "quic">>, <<"quic", "tls">>}]

SearchTypeOK ==
  /\ servers \in Lists
  /\ failures \in [Keys -> 0 .. MaxFailures]
  /\ cooling \in [Keys -> 0 .. 60]
  /\ stopped \in BOOLEAN
  /\ phase \in {"rank", "attempt", "dial", "run", "failed", "check", "backoff",
                "done"}
  /\ todo \in Seq(Groups)
  /\ phase = "dial" => todo # <<>>
  /\ round \subseteq Servers /\ denied \subseteq Servers

\* A candidate that still waits for its turn in this round.
Waits(s, t) ==
  \E i \in 1 .. Len(todo) :
    todo[i].server = s /\ \E j \in 1 .. Len(todo[i].left) : todo[i].left[j] = t

\* A round passes over nobody: every transport of every server it began with
\* was dialled or still waits, unless that server refused the credentials
\* (client.go:190-217).
NobodyIsPassedOver ==
  \A s \in round : \A i \in DOMAIN Variants(s) :
    \/ <<s, Variants(s)[i]>> \in tried
    \/ s \in denied
    \/ Waits(s, Variants(s)[i])

Unknown(s, t) == failures[Key(s, t)] = 0 /\ cooling[Key(s, t)] = 0
Cools(s, t) == cooling[Key(s, t)] > 0

\* The ranking of a round, as the step that makes it leaves it in todo.
HealthyFirst ==
  /\ \A i, j \in DOMAIN todo' : i < j =>
       ~ /\ \A n \in DOMAIN todo'[i].left :
               Cools(todo'[i].server, todo'[i].left[n])
         /\ \E n \in DOMAIN todo'[j].left :
               Unknown(todo'[j].server, todo'[j].left[n])
  /\ \A i \in DOMAIN todo' : \A m, n \in DOMAIN todo'[i].left :
       m < n => ~ /\ Cools(todo'[i].server, todo'[i].left[m])
                  /\ Unknown(todo'[i].server, todo'[i].left[n])

\* A ranking puts nothing that cools down before what never failed, whatever
\* the weights: not a server that only has such transports before one with a
\* transport that never failed, nor a transport of a server before another
\* (subscription.go:296-326).
RanksHealthyFirst ==
  [][phase = "rank" /\ phase' = "attempt" => HealthyFirst]_searchVars

\* If from some time on the subscription has a server that accepts over some
\* transport, the client connects, however the others fail and refuse: a
\* refusal over one transport does not hide the other for ever.
Reachable ==
  \E i \in Indices : \E n \in DOMAIN Variants(servers[i]) :
    <<servers[i], Variants(servers[i])[n]>> \in Accepting

FindsServer == <>[]Reachable => <>(phase \in {"run", "done"})

\* Stop ends the connect loop, wherever it is.
StopEnds == stopped ~> (phase = "done")

=============================================================================
