------------------------------ MODULE Admission ------------------------------
(***************************************************************************)
(* How the server lets a TLS connection in (handleTLSConnectionWrapped and *)
(* handleTLSConnection in core/transport/server.go, AuthManager in         *)
(* auth.go): the replay filter sees the random of its ClientHello, then a  *)
(* payload that the client's key signs together with the minute of its     *)
(* clock must arrive before a deadline, pass the rate limit of its address *)
(* and be of the server's minute or the one before.                        *)
(*                                                                         *)
(* Time passes in ticks, of which a minute has Minute.  Every comparison   *)
(* is of two times, so the model keeps differences and time never ends.    *)
(***************************************************************************)
EXTENDS ReplayFilter, FiniteSets

CONSTANTS
  Addresses,  \* remote IPs
  Address,    \* caller -> its remote IP
  Lag,        \* caller -> whole minutes its clock is behind the server's
  Limit,      \* attempts per address and window: 1000
  Minute,     \* ticks of a minute
  Deadline    \* ticks until a connection must have sent its payload

ASSUME AdmissionAssumption ==
  /\ Address \in [Callers -> Addresses] /\ Lag \in [Callers -> Nat]
  /\ Limit \in Nat \ {0} /\ Minute \in Nat \ {0} /\ Deadline \in Nat

VARIABLES
  phase,    \* ticks since the server's minute began
  expired,  \* the user record's ExpiresAt has passed
  stage,    \* what handles the connection of a caller
  waited,   \* ticks since its deadline was set
  minute,   \* minutes between that of its payload and the server's (2: more)
  verdict,  \* how its last connection ended
  count,    \* authRates: attempts in the window of an address
  left,     \* ticks until resetAt; Over: resetAt has passed, or no entry
  made,     \* history: ticks since its payload was made, up to TooOld
  passed    \* history: attempts the limit let through in the last minute, each
            \* as the ticks since and its number in its window

connection == <<stage, waited, minute, verdict, made>>
rates == <<count, left, passed>>
filter == <<current, previous, request, checked, answer, age>>
admissionVars == <<filter, phase, expired, connection, rates>>

Over == Minute + 1
TooOld == 2 * Minute

AdmissionInit ==
  /\ Init
  /\ phase \in 0 .. Minute - 1 /\ expired = FALSE
  /\ stage = [c \in Callers |-> "idle"]
  /\ waited = [c \in Callers |-> 0]
  /\ minute = [c \in Callers |-> 0] /\ made = [c \in Callers |-> 0]
  /\ verdict = [c \in Callers |-> "none"]
  /\ count = [s \in Addresses |-> 0]
  /\ left = [s \in Addresses |-> Over]
  /\ passed = [s \in Addresses |-> {}]

At(c, s) == stage[c] = s
Move(c, s) == stage' = [stage EXCEPT ![c] = s]

\* The handler returns, and closes the connection or has served it.
End(c, v) ==
  /\ Move(c, "idle")
  /\ verdict' = [verdict EXCEPT ![c] = v]
  /\ waited' = [waited EXCEPT ![c] = 0]
  /\ minute' = [minute EXCEPT ![c] = 0] /\ made' = [made EXCEPT ![c] = 0]

-----------------------------------------------------------------------------
(* The first bytes: the replay filter.                                      *)

Connect(c, d) ==
  /\ At(c, "idle") /\ Ask(c, d)
  /\ Move(c, "peek")
  /\ verdict' = [verdict EXCEPT ![c] = "none"]
  /\ UNCHANGED <<phase, expired, waited, minute, made, rates>>

\* CheckAndAdd; what is new goes on with a deadline.
Peek(c) ==
  /\ At(c, "peek")
  /\ CheckShared(c) \/ CheckExclusive(c)
  /\ \/ /\ answer'[c] = "none"
        /\ UNCHANGED connection
     \/ /\ answer'[c] = "replay"
        /\ End(c, "replay")
     \/ /\ answer'[c] = "new"
        /\ Move(c, "read")
        /\ UNCHANGED <<waited, minute, made, verdict>>
  /\ UNCHANGED <<phase, expired, rates>>

-----------------------------------------------------------------------------
(* The payload.                                                             *)

\* GenerateAuthPayload, by a clock that may be behind.
Send(c) ==
  /\ At(c, "read")
  /\ Move(c, "sent")
  /\ minute' = [minute EXCEPT ![c] = IF Lag[c] < 2 THEN Lag[c] ELSE 2]
  /\ made' = [made EXCEPT ![c] = 0]
  /\ UNCHANGED <<filter, phase, expired, waited, verdict, rates>>

Read(c) ==
  /\ At(c, "sent") /\ waited[c] <= Deadline
  /\ Move(c, "limit")
  /\ waited' = [waited EXCEPT ![c] = 0]
  /\ UNCHANGED <<filter, phase, expired, minute, made, verdict, rates>>

TimesOut(c) ==
  /\ stage[c] \in {"read", "sent"} /\ waited[c] >= Deadline
  /\ End(c, "late")
  /\ UNCHANGED <<filter, phase, expired, rates>>

\* Mutated form: an attempt that is turned away starts a new window.
CountRestarts(s) ==
  IF left[s] = Over \/ count[s] >= Limit
  THEN count' = [count EXCEPT ![s] = 1] /\ left' = [left EXCEPT ![s] = Minute]
  ELSE count' = [count EXCEPT ![s] = @ + 1] /\ UNCHANGED left

\* Mutated form: every attempt moves the end of the window.
CountExtends(s) ==
  /\ left' = [left EXCEPT ![s] = Minute]
  /\ count' = [count EXCEPT ![s] =
       IF left[s] = Over THEN 1 ELSE IF @ > Limit THEN @ ELSE @ + 1]

\* checkRateLimit: the first attempt after resetAt opens a window, and every
\* other one is counted (here up to Limit + 1), also one that is turned away.
Count(s) ==
  IF left[s] = Over
  THEN count' = [count EXCEPT ![s] = 1] /\ left' = [left EXCEPT ![s] = Minute]
  ELSE /\ count' = [count EXCEPT ![s] = IF @ > Limit THEN @ ELSE @ + 1]
       /\ UNCHANGED left

Limits(c) ==
  LET s == Address[c] IN
  /\ At(c, "limit")
  /\ Count(s)
  /\ \/ /\ count'[s] <= Limit
        /\ Move(c, "validate")
        /\ passed' = [passed EXCEPT ![s] = @ \cup {<<0, count'[s]>>}]
        /\ UNCHANGED <<waited, minute, made, verdict>>
     \/ /\ count'[s] > Limit
        /\ End(c, "limited")
        /\ UNCHANGED passed
  /\ UNCHANGED <<filter, phase, expired>>

\* Mutated form: only the server's own minute is tried.
CurrentMinute(c) == minute[c] = 0

\* The minutes that ValidateAuth tries: this one and the one before.
Current(c) == minute[c] \in {0, 1}

\* The rest of ValidateAuth, which reads the clock again.
Validate(c) ==
  /\ At(c, "validate")
  /\ End(c, IF expired THEN "expired" ELSE IF Current(c) THEN "in" ELSE "stale")
  /\ UNCHANGED <<filter, phase, expired, rates>>

-----------------------------------------------------------------------------
(* Time.                                                                    *)

\* What is a minute old by the next tick is left out.
Shift(S) == {<<e[1] + 1, e[2]>> : e \in {f \in S : f[1] + 1 < Minute}}

Waiting(c) == stage[c] \in {"read", "sent"}
Aging(c) == stage[c] \in {"sent", "limit", "validate"}

Tick ==
  /\ phase' = IF phase + 1 = Minute THEN 0 ELSE phase + 1
  /\ waited' = [c \in Callers |->
       IF Waiting(c) /\ waited[c] <= Deadline THEN waited[c] + 1 ELSE waited[c]]
  /\ minute' = [c \in Callers |->
       IF Aging(c) /\ phase' = 0 /\ minute[c] < 2 THEN minute[c] + 1
       ELSE minute[c]]
  /\ made' = [c \in Callers |->
       IF Aging(c) /\ made[c] < TooOld THEN made[c] + 1 ELSE made[c]]
  /\ left' = [s \in Addresses |->
       IF left[s] \in {0, Over} THEN Over ELSE left[s] - 1]
  /\ passed' = [s \in Addresses |-> Shift(passed[s])]
  /\ UNCHANGED <<filter, expired, stage, verdict, count>>

Expire ==
  /\ ~expired /\ expired' = TRUE
  /\ UNCHANGED <<filter, phase, connection, rates>>

Turn ==
  /\ Rotate
  /\ UNCHANGED <<phase, expired, connection, rates>>

Serve(c) == Peek(c) \/ Read(c) \/ TimesOut(c) \/ Limits(c) \/ Validate(c)

AdmissionNext ==
  \/ \E c \in Callers : Serve(c) \/ Send(c) \/ \E d \in Data : Connect(c, d)
  \/ Tick \/ Expire \/ Turn

AdmissionSpec == AdmissionInit /\ [][AdmissionNext]_admissionVars

\* Handlers run, the clock goes on and the filters rotate; clients keep trying
\* and answer.  Nothing says how fast.
FairAdmission ==
  /\ AdmissionSpec /\ WF_admissionVars(Tick) /\ WF_admissionVars(Turn)
  /\ \A c \in Callers :
       /\ WF_admissionVars(Serve(c)) /\ WF_admissionVars(Send(c))
       /\ WF_admissionVars(\E d \in Data : Connect(c, d))

-----------------------------------------------------------------------------
(* Properties.                                                              *)

\* The minutes that are compared measure the age of a payload, whatever the
\* phase of the clock: it is let in for less than two minutes by its maker's
\* clock, and none of the last minute is called stale (auth.go:143-161).
Timely ==
  [][\A c \in Callers : At(c, "validate") /\ ~At(c, "validate")' =>
       LET ticks == made[c] + Lag[c] * Minute IN
       /\ verdict'[c] = "in" => ticks < 2 * Minute
       /\ verdict'[c] = "stale" => ticks > Minute]_admissionVars

\* However its attempts are spread, an address has fewer than two windows'
\* worth of them checked against the keys within a minute (auth.go:100-112:
\* windows are not aligned, but the one that ends was opened by an attempt).
RateIsBounded ==
  \A s \in Addresses : Cardinality(passed[s]) < 2 * Limit

\* From some time on, no tick passes while a connection is being served.
Prompt ==
  <>[][Tick => \A c \in Callers : stage[c] \in {"idle", "peek"}]_admissionVars

\* If the delays end some day, clients that keep trying get in again and again
\* until their user expires: neither the attempts that were refused nor what
\* the filter takes for a replay locks them out for good (auth.go:110,
\* replay.go:121-126).
GetsIn == Prompt => []<>(expired \/ \E c \in Callers : verdict[c] = "in")

=============================================================================
