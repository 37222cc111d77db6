--------------------------- MODULE AdmissionProofs ---------------------------
(***************************************************************************)
(* Admission, for any clients, clocks, hash functions, limits and lengths  *)
(* of a minute: the replay filter keeps its promise, alone and where the   *)
(* handlers use it; the two minutes that ValidateAuth tries bound the age  *)
(* of what it lets in, from above and from below; and an address gets less *)
(* than two windows' worth of attempts through in any minute.              *)
(***************************************************************************)
EXTENDS Admission, FiniteSetTheorems, TLAPS

-----------------------------------------------------------------------------
(* The replay filter implements ReplayWindow.  The inductive invariant is   *)
(* that what was let in since the last rotation is in the current filter,  *)
(* what was let in one rotation ago in the previous one, and that the      *)
(* filters hold nothing else.                                              *)

Inv == TypeOK /\ Remembered /\ Forgotten

LEMMA InitInv == Init => Inv
<1> SUFFICES ASSUME Init PROVE Inv
  OBVIOUS
<1>1. TypeOK
  BY DEF Init, TypeOK, Window!Ages, Window!Expired
<1>2. Remembered /\ Forgotten
  BY DEF Init, Remembered, Forgotten, Window!Expired
<1>3. QED BY <1>1, <1>2 DEF Inv

\* Ages stay in their range and never pass two.
LEMMA OlderType ==
  ASSUME NEW n \in Window!Ages
  PROVE  /\ Window!Older(n) \in Window!Ages
         /\ Window!Older(n) # 0
         /\ Window!Older(n) = 1 <=> n = 0
  BY DEF Window!Ages, Window!Older, Window!Expired

\* Only what is neither in the current nor in the previous filter is let in.
LEMMA AddStep ==
  ASSUME Inv, NEW c \in Callers, CheckExclusive(c), ~Known(request[c])
  PROVE  /\ request[c] \in Data /\ age[request[c]] = 2
         /\ current' = current \cup Bits[request[c]]
         /\ age' = [age EXCEPT ![request[c]] = 0]
         /\ Answer(c, "new") /\ previous' = previous
<1>1. request[c] \in Data
  BY DEF Inv, TypeOK, CheckExclusive
<1>2. age[request[c]] = 2
  BY <1>1 DEF Inv, TypeOK, Remembered, Known, Window!Ages, Window!Expired
<1>3. QED
  BY <1>1, <1>2 DEF CheckExclusive, Add, Added

LEMMA StepInv == Inv /\ [Next]_vars => Inv'
<1> SUFFICES ASSUME Inv, [Next]_vars PROVE Inv'
  OBVIOUS
<1>1. ASSUME UNCHANGED <<current, previous, age>>
      PROVE  Remembered' /\ Forgotten'
  BY <1>1 DEF Inv, Remembered, Forgotten, Contains
<1>2. ASSUME NEW c \in Callers, NEW d \in Data, Ask(c, d) PROVE Inv'
  <2>1. TypeOK' BY <1>2, FilterAssumption DEF Inv, TypeOK, Ask
  <2>2. QED BY <1>1, <1>2, <2>1 DEF Inv, Ask
<1>3. ASSUME NEW c \in Callers, CheckShared(c) PROVE Inv'
  <2>1. TypeOK' BY <1>3 DEF Inv, TypeOK, CheckShared, Answer
  <2>2. QED BY <1>1, <1>3, <2>1 DEF Inv, CheckShared
<1>4. ASSUME NEW c \in Callers, CheckExclusive(c), Known(request[c]) PROVE Inv'
  <2>1. UNCHANGED <<current, previous, age>> /\ Answer(c, "replay")
    BY <1>4 DEF CheckExclusive
  <2>2. TypeOK' BY <2>1 DEF Inv, TypeOK, Answer
  <2>3. QED BY <1>1, <2>1, <2>2 DEF Inv
<1>5. ASSUME NEW c \in Callers, CheckExclusive(c), ~Known(request[c]) PROVE Inv'
  <2> DEFINE r == request[c]
  <2>1. /\ r \in Data /\ age[r] = 2
        /\ current' = current \cup Bits[r] /\ previous' = previous
        /\ age' = [age EXCEPT ![r] = 0]
        /\ Answer(c, "new")
    BY <1>5, AddStep
  <2>2. TypeOK'
    <3>1. current' \subseteq Positions /\ previous' \subseteq Positions
      <4>1. Bits[r] \in SUBSET Positions
        BY <2>1, FilterAssumption
      <4>2. QED BY <2>1, <4>1 DEF Inv, TypeOK
    <3>2. age' \in [Data -> Window!Ages]
      BY <2>1 DEF Inv, TypeOK, Window!Ages, Window!Expired
    <3>3. /\ request' \in [Callers -> Data \cup {None}]
          /\ checked' \in [Callers -> BOOLEAN]
          /\ answer' \in [Callers -> {"none", "new", "replay"}]
          /\ \A g \in Callers : checked'[g] => request'[g] # None
      BY <2>1 DEF Inv, TypeOK, Answer
    <3>4. QED BY <3>1, <3>2, <3>3 DEF TypeOK
  <2>3. Remembered'
    BY <2>1 DEF Inv, TypeOK, Remembered, Contains
  <2>4. Forgotten'
    <3>1. \A b \in current' : \E d \in Data : age'[d] = 0 /\ b \in Bits[d]
      BY <2>1 DEF Inv, TypeOK, Forgotten
    <3>2. \A b \in previous' : \E d \in Data : age'[d] = 1 /\ b \in Bits[d]
      BY <2>1 DEF Inv, TypeOK, Forgotten
    <3>3. QED BY <3>1, <3>2 DEF Forgotten
  <2>5. QED BY <2>2, <2>3, <2>4 DEF Inv
<1>6. ASSUME Rotate PROVE Inv'
  <2>1. \A d \in Data : /\ age'[d] \in Window!Ages /\ age'[d] # 0
                        /\ age'[d] = 1 <=> age[d] = 0
    BY <1>6, OlderType DEF Inv, TypeOK, Rotate
  <2>2. age' \in [Data -> Window!Ages]
    BY <1>6, <2>1 DEF Rotate
  <2>3. TypeOK'
    BY <1>6, <2>2 DEF Inv, TypeOK, Rotate
  <2>4. Remembered' /\ Forgotten'
    BY <1>6, <2>1 DEF Inv, Remembered, Forgotten, Contains, Rotate
  <2>5. QED BY <2>3, <2>4 DEF Inv
<1>7. CASE UNCHANGED vars
  BY <1>7 DEF vars, Inv, TypeOK, Remembered, Forgotten, Contains
<1>8. QED BY <1>2, <1>3, <1>4, <1>5, <1>6, <1>7 DEF Next

LEMMA Invariance == Spec => []Inv
  BY InitInv, StepInv, PTL DEF Spec

\* What was let in stays in one of the filters until the second rotation
\* (replay_test.go:47-50).
THEOREM AlwaysRemembered == Spec => []Remembered
<1>1. Inv => Remembered BY DEF Inv
<1>2. QED BY <1>1, Invariance, PTL

\* And nothing stays for longer (replay_test.go:54-56).
THEOREM AlwaysForgotten == Spec => []Forgotten
<1>1. Inv => Forgotten BY DEF Inv
<1>2. QED BY <1>1, Invariance, PTL

\* Every step is one of the window's, or invisible to it: concurrent questions
\* are answered as if one after the other, and nothing is let in twice before
\* two rotations, whatever the hashes do.
THEOREM Implements == Spec => KeepsWindow
<1>1. Init => Window!Init
  BY DEF Init, Window!Init
<1>2. Inv /\ [Next]_vars => [Window!Next]_(Window!vars)
  <2> SUFFICES ASSUME Inv, [Next]_vars PROVE [Window!Next]_(Window!vars)
    OBVIOUS
  <2>1. ASSUME NEW c \in Callers, NEW d \in Data, Ask(c, d)
        PROVE  Window!Next
    BY <2>1 DEF Ask, Window!Next, Window!Ask
  <2>2. ASSUME NEW c \in Callers, CheckShared(c)
        PROVE  [Window!Next]_(Window!vars)
    BY <2>2 DEF CheckShared, Answer, Window!Next, Window!TurnAway, Window!Reply,
       Window!vars
  <2>3. ASSUME NEW c \in Callers, CheckExclusive(c)
        PROVE  Window!Next
    <3>1. request[c] # None
      BY <2>3 DEF Inv, TypeOK, CheckExclusive
    <3>2. CASE Known(request[c])
      BY <2>3, <3>1, <3>2 DEF CheckExclusive, Answer, Window!Next,
         Window!TurnAway, Window!Reply
    <3>3. CASE ~Known(request[c])
      BY <2>3, <3>1, <3>3, AddStep DEF Answer, Window!Next, Window!LetIn,
         Window!Reply, Window!Expired
    <3>4. QED BY <3>2, <3>3
  <2>4. ASSUME Rotate PROVE Window!Next
    BY <2>4 DEF Rotate, Window!Next, Window!Rotate
  <2>5. CASE UNCHANGED vars
    BY <2>5 DEF vars, Window!vars
  <2>6. QED BY <2>1, <2>2, <2>3, <2>4, <2>5 DEF Next
<1>3. QED
  BY <1>1, <1>2, Invariance, PTL DEF Spec, KeepsWindow, Window!Spec

-----------------------------------------------------------------------------
(* The filter in its place.                                                *)

\* Every step of the handlers is one of the filter, or none.
LEMMA FilterStep == [AdmissionNext]_admissionVars => [Next]_vars
<1> SUFFICES ASSUME [AdmissionNext]_admissionVars PROVE [Next]_vars
  OBVIOUS
<1>1. ASSUME NEW c \in Callers, Peek(c) PROVE Next
  BY <1>1 DEF Peek, Next
<1>2. ASSUME NEW c \in Callers, NEW d \in Data, Connect(c, d) PROVE Next
  BY <1>2 DEF Connect, Next
<1>3. ASSUME Turn PROVE Next
  BY <1>3 DEF Turn, Next
<1>4. ASSUME NEW c \in Callers,
             Send(c) \/ Read(c) \/ TimesOut(c) \/ Limits(c) \/ Validate(c)
      PROVE  UNCHANGED vars
  BY <1>4 DEF Send, Read, TimesOut, Limits, Validate, filter, vars
<1>5. ASSUME Tick \/ Expire PROVE UNCHANGED vars
  BY <1>5 DEF Tick, Expire, filter, vars
<1>6. ASSUME UNCHANGED admissionVars PROVE UNCHANGED vars
  BY <1>6 DEF admissionVars, filter, vars
<1>7. QED
  BY <1>1, <1>2, <1>3, <1>4, <1>5, <1>6 DEF AdmissionNext, Serve

\* The replay filter keeps its promise to the handlers that use it, whatever
\* payloads, limits and delays do in between (server.go:281-301).
THEOREM FilterInPlace == AdmissionSpec => KeepsWindow
<1>1. AdmissionInit => Init
  BY DEF AdmissionInit
<1>2. AdmissionSpec => Spec
  BY <1>1, FilterStep, PTL DEF AdmissionSpec, Spec
<1>3. QED BY <1>2, Implements

-----------------------------------------------------------------------------
(* The age of a payload.  The inductive invariant relates how many times    *)
(* the minute of the server has changed since a payload was made to the    *)
(* ticks that passed: whoever is n changes behind is less than a minute    *)
(* away from n whole minutes.                                              *)

Stages == {"idle", "peek", "read", "sent", "limit", "validate"}

ClockTypes ==
  /\ phase \in 0 .. Minute - 1
  /\ stage \in [Callers -> Stages]
  /\ minute \in [Callers -> 0 .. 2]
  /\ made \in [Callers -> 0 .. TooOld]
  /\ verdict \in [Callers ->
       {"none", "replay", "late", "limited", "expired", "stale", "in"}]

\* By the clock of its maker.
Age(c) == made[c] + Lag[c] * Minute

\* What the difference of the minutes says of the age.
AgeOK(c) ==
  /\ minute[c] = 0 => Age(c) <= phase /\ Lag[c] = 0
  /\ minute[c] = 1 => phase < Age(c) /\ Age(c) <= phase + Minute
  /\ minute[c] = 2 => Minute < Age(c)

ClockInv == ClockTypes /\ \A c \in Callers : Aging(c) => AgeOK(c)

\* Whole minutes that a clock is behind.
LEMMA LagTicks ==
  ASSUME NEW c \in Callers
  PROVE  /\ Lag[c] * Minute \in Nat
         /\ Lag[c] = 0 => Lag[c] * Minute = 0
         /\ Lag[c] = 1 => Lag[c] * Minute = Minute
         /\ Lag[c] >= 2 => Lag[c] * Minute > Minute
<1>1. Lag[c] \in Nat /\ Minute \in Nat /\ Minute > 0
  BY AdmissionAssumption
<1>2. Lag[c] * Minute \in Nat
  BY <1>1
<1>3. ASSUME Lag[c] >= 2 PROVE Lag[c] * Minute > Minute
  <2>1. PICK n \in Nat : Lag[c] = n + 2
    BY <1>1, <1>3
  <2>2. n * Minute \in Nat /\ Lag[c] * Minute = n * Minute + 2 * Minute
    BY <1>1, <2>1
  <2>3. QED BY <1>1, <2>2
<1>4. QED BY <1>1, <1>2, <1>3

\* A step that changes neither the clock nor what is known of a payload.
LEMMA SameAge ==
  ASSUME NEW c \in Callers, AgeOK(c),
         UNCHANGED <<phase, minute[c], made[c]>>
  PROVE  AgeOK(c)'
  BY DEF AgeOK, Age

LEMMA SendAge ==
  ASSUME ClockInv, NEW c \in Callers, Send(c)
  PROVE  AgeOK(c)'
<1> DEFINE L == Lag[c] * Minute
<1>1. /\ phase \in 0 .. Minute - 1 /\ phase' = phase
      /\ made'[c] = 0 /\ minute'[c] = (IF Lag[c] < 2 THEN Lag[c] ELSE 2)
  BY DEF Send, ClockInv, ClockTypes
<1>2. /\ L \in Nat /\ Lag[c] \in Nat /\ Minute \in Nat
      /\ Lag[c] = 0 => L = 0
      /\ Lag[c] = 1 => L = Minute
      /\ Lag[c] >= 2 => L > Minute
  BY LagTicks, AdmissionAssumption
<1>3. made'[c] + L = L
  BY <1>1, <1>2
<1> HIDE DEF L
<1>4. /\ minute'[c] = 0 => L <= phase /\ Lag[c] = 0
      /\ minute'[c] = 1 => phase < L /\ L <= phase + Minute
      /\ minute'[c] = 2 => Minute < L
  BY <1>1, <1>2
<1>5. QED BY <1>1, <1>3, <1>4 DEF AgeOK, Age, L

LEMMA TickAge ==
  ASSUME ClockInv, Tick, NEW c \in Callers, Aging(c)
  PROVE  AgeOK(c)'
<1> DEFINE L == Lag[c] * Minute
           m == made[c]
           p == phase
<1>1. /\ p \in Nat /\ p < Minute /\ m \in Nat /\ m <= 2 * Minute
      /\ minute[c] \in 0 .. 2 /\ Minute \in Nat
      /\ L \in Nat /\ Lag[c] \in Nat
      /\ Lag[c] = 0 => L = 0
      /\ Lag[c] = 1 => L = Minute
  BY LagTicks, AdmissionAssumption DEF ClockInv, ClockTypes, TooOld
<1>2. /\ minute[c] = 0 => m + L <= p /\ Lag[c] = 0
      /\ minute[c] = 1 => p < m + L /\ m + L <= p + Minute
      /\ minute[c] = 2 => Minute < m + L
  BY DEF ClockInv, AgeOK, Age
<1>3. /\ phase' = (IF p + 1 = Minute THEN 0 ELSE p + 1)
      /\ minute'[c] = (IF phase' = 0 /\ minute[c] < 2 THEN minute[c] + 1
                       ELSE minute[c])
      /\ made'[c] = (IF m < 2 * Minute THEN m + 1 ELSE m)
  BY DEF Tick, TooOld
<1> HIDE DEF L, m, p
<1>4. minute[c] \in {0, 1} => made'[c] = m + 1
  BY <1>1, <1>2, <1>3
<1>5. /\ minute'[c] = 0 => made'[c] + L <= phase' /\ Lag[c] = 0
      /\ minute'[c] = 1 => phase' < made'[c] + L /\ made'[c] + L <= phase' + Minute
      /\ minute'[c] = 2 => Minute < made'[c] + L
  <2>1. CASE p + 1 = Minute
    BY <1>1, <1>2, <1>3, <1>4, <2>1
  <2>2. CASE p + 1 # Minute
    BY <1>1, <1>2, <1>3, <1>4, <2>2
  <2>3. QED BY <2>1, <2>2
<1>6. QED BY <1>5 DEF AgeOK, Age, L

-----------------------------------------------------------------------------
(* The invariant.                                                          *)

LEMMA ClockInit == AdmissionInit => ClockInv
<1> SUFFICES ASSUME AdmissionInit PROVE ClockInv
  OBVIOUS
<1>1. ClockTypes
  BY AdmissionAssumption DEF AdmissionInit, ClockTypes, Stages, TooOld
<1>2. \A c \in Callers : ~Aging(c)
  BY DEF AdmissionInit, Aging
<1>3. QED BY <1>1, <1>2 DEF ClockInv

\* The end of a connection, and what leaves the payload alone.
LEMMA EndClock ==
  ASSUME ClockInv, NEW c \in Callers, NEW v, End(c, v), phase' = phase,
         v \in {"replay", "late", "limited", "expired", "stale", "in"}
  PROVE  ClockInv'
<1>1. ClockTypes'
  BY AdmissionAssumption
  DEF ClockInv, ClockTypes, End, Move, Stages, TooOld
<1>2. ASSUME NEW b \in Callers, Aging(b)' PROVE AgeOK(b)'
  <2>1. b # c /\ Aging(b) /\ UNCHANGED <<phase, minute[b], made[b]>>
    BY <1>2 DEF ClockInv, ClockTypes, End, Move, Aging
  <2>2. QED BY <2>1, SameAge DEF ClockInv
<1>3. QED BY <1>1, <1>2 DEF ClockInv

\* A handler goes on to the next stage, with a payload or before there is one.
LEMMA MoveClock ==
  ASSUME ClockInv, NEW c \in Callers, NEW s \in Stages, Move(c, s),
         UNCHANGED <<phase, minute, made>>, ClockTypes',
         Aging(c) \/ s \in {"peek", "read"}
  PROVE  ClockInv'
<1>1. ASSUME NEW b \in Callers, Aging(b)' PROVE AgeOK(b)'
  <2>1. Aging(b)
    BY <1>1 DEF ClockInv, ClockTypes, Move, Aging
  <2>2. QED BY <2>1, SameAge DEF ClockInv
<1>2. QED BY <1>1 DEF ClockInv

LEMMA ServeClock ==
  ASSUME ClockInv, NEW c \in Callers, Serve(c)
  PROVE  ClockInv'
<1>1. CASE Peek(c)
  <2>1. phase' = phase
    BY <1>1 DEF Peek
  <2>2. CASE UNCHANGED connection
    BY <2>1, <2>2, SameAge DEF connection, ClockInv, ClockTypes, Aging
  <2>3. CASE End(c, "replay")
    BY <2>1, <2>3, EndClock
  <2>4. CASE Move(c, "read") /\ UNCHANGED <<waited, minute, made, verdict>>
    <3>1. ClockTypes'
      BY <2>1, <2>4 DEF ClockInv, ClockTypes, Move, Stages
    <3>2. QED BY <2>1, <2>4, <3>1, MoveClock DEF Stages
  <2>5. QED BY <1>1, <2>2, <2>3, <2>4 DEF Peek
<1>2. CASE Read(c)
  <2>1. /\ Aging(c) /\ Move(c, "limit")
        /\ UNCHANGED <<phase, minute, made, verdict>>
    BY <1>2 DEF Read, At, Aging
  <2>2. ClockTypes'
    BY <2>1 DEF ClockInv, ClockTypes, Move, Stages
  <2>3. QED BY <2>1, <2>2, MoveClock DEF Stages
<1>3. CASE TimesOut(c)
  <2>1. End(c, "late") /\ phase' = phase
    BY <1>3 DEF TimesOut
  <2>2. QED BY <2>1, EndClock
<1>4. CASE Limits(c)
  <2>1. phase' = phase /\ Aging(c)
    BY <1>4 DEF Limits, At, Aging
  <2>2. CASE End(c, "limited")
    BY <2>1, <2>2, EndClock
  <2>3. CASE Move(c, "validate") /\ UNCHANGED <<waited, minute, made, verdict>>
    <3>1. ClockTypes'
      BY <2>1, <2>3 DEF ClockInv, ClockTypes, Move, Stages
    <3>2. QED BY <2>1, <2>3, <3>1, MoveClock DEF Stages
  <2>4. QED BY <1>4, <2>2, <2>3 DEF Limits
<1>5. CASE Validate(c)
  <2>1. phase' = phase
    BY <1>5 DEF Validate
  <2>2. \E v \in {"expired", "in", "stale"} : End(c, v)
    BY <1>5 DEF Validate
  <2>3. QED BY <2>1, <2>2, EndClock
<1>6. QED BY <1>1, <1>2, <1>3, <1>4, <1>5 DEF Serve

LEMMA ClockStep == ClockInv /\ [AdmissionNext]_admissionVars => ClockInv'
<1> SUFFICES ASSUME ClockInv, [AdmissionNext]_admissionVars PROVE ClockInv'
  OBVIOUS
<1>1. ASSUME NEW c \in Callers, Serve(c) PROVE ClockInv'
  BY <1>1, ServeClock
<1>2. ASSUME NEW c \in Callers, Send(c) PROVE ClockInv'
  <2>1. ClockTypes'
    <3>1. UNCHANGED <<phase, verdict>> /\ stage' \in [Callers -> Stages]
      BY <1>2 DEF Send, Move, ClockInv, ClockTypes, Stages
    <3>2. minute' \in [Callers -> 0 .. 2]
      <4> DEFINE n == IF Lag[c] < 2 THEN Lag[c] ELSE 2
      <4>1. Lag[c] \in Nat
        BY AdmissionAssumption
      <4>2. n \in 0 .. 2
        BY <4>1
      <4>3. minute' = [minute EXCEPT ![c] = n]
        BY <1>2 DEF Send
      <4> HIDE DEF n
      <4>4. QED BY <4>2, <4>3 DEF ClockInv, ClockTypes
    <3>3. made' \in [Callers -> 0 .. TooOld]
      BY <1>2, AdmissionAssumption DEF Send, ClockInv, ClockTypes, TooOld
    <3>4. QED BY <3>1, <3>2, <3>3 DEF ClockInv, ClockTypes
  <2>2. ASSUME NEW b \in Callers, Aging(b)' PROVE AgeOK(b)'
    <3>1. CASE b = c
      BY <1>2, <3>1, SendAge
    <3>2. CASE b # c
      <4>1. Aging(b) /\ UNCHANGED <<phase, minute[b], made[b]>>
        BY <1>2, <2>2, <3>2 DEF Send, Move, ClockInv, ClockTypes, Aging
      <4>2. QED BY <4>1, SameAge DEF ClockInv
    <3>3. QED BY <3>1, <3>2
  <2>3. QED BY <2>1, <2>2 DEF ClockInv
<1>3. ASSUME NEW c \in Callers, NEW d \in Data, Connect(c, d) PROVE ClockInv'
  <2>1. Move(c, "peek") /\ UNCHANGED <<phase, minute, made>>
    BY <1>3 DEF Connect
  <2>2. ClockTypes'
    BY <1>3, <2>1 DEF Connect, Move, ClockInv, ClockTypes, Stages
  <2>3. QED BY <2>1, <2>2, MoveClock DEF Stages
<1>4. ASSUME Tick PROVE ClockInv'
  <2>1. ClockTypes'
    <3>1. phase' \in 0 .. Minute - 1
      BY <1>4, AdmissionAssumption DEF Tick, ClockInv, ClockTypes
    <3>2. minute' \in [Callers -> 0 .. 2]
      BY <1>4 DEF Tick, ClockInv, ClockTypes
    <3>3. made' \in [Callers -> 0 .. TooOld]
      BY <1>4, AdmissionAssumption DEF Tick, ClockInv, ClockTypes, TooOld
    <3>4. UNCHANGED <<stage, verdict>>
      BY <1>4 DEF Tick
    <3>5. QED BY <3>1, <3>2, <3>3, <3>4 DEF ClockInv, ClockTypes
  <2>2. ASSUME NEW c \in Callers, Aging(c)' PROVE AgeOK(c)'
    <3>1. Aging(c)
      BY <1>4, <2>2 DEF Tick, Aging
    <3>2. QED BY <1>4, <3>1, TickAge
  <2>3. QED BY <2>1, <2>2 DEF ClockInv
<1>5. ASSUME Expire \/ Turn \/ UNCHANGED admissionVars PROVE ClockInv'
  <2>1. UNCHANGED <<phase, connection>>
    BY <1>5 DEF Expire, Turn, admissionVars
  <2>2. QED BY <2>1, SameAge DEF connection, ClockInv, ClockTypes, Aging
<1>6. QED BY <1>1, <1>2, <1>3, <1>4, <1>5 DEF AdmissionNext

LEMMA ClockInvariance == AdmissionSpec => []ClockInv
<1>1. QED BY ClockInit, ClockStep, PTL DEF AdmissionSpec

-----------------------------------------------------------------------------

\* Only ValidateAuth ends a connection that has come so far.
LEMMA ValidateOnly ==
  ASSUME ClockInv, AdmissionNext, NEW c \in Callers,
         At(c, "validate"), ~At(c, "validate")'
  PROVE  Validate(c)
<1>1. stage[c] = "validate" /\ stage'[c] # "validate" /\ stage \in [Callers -> Stages]
  BY DEF At, ClockInv, ClockTypes
<1>2. ASSUME NEW b \in Callers, NEW s, Move(b, s), stage[b] # "validate" PROVE FALSE
  <2>1. stage'[c] = stage[c]
    BY <1>1, <1>2 DEF Move
  <2>2. QED BY <1>1, <2>1
<1>3. ASSUME NEW b \in Callers, NEW d \in Data, Connect(b, d) PROVE FALSE
  BY <1>2, <1>3 DEF Connect, At
<1>4. ASSUME NEW b \in Callers, Send(b) \/ Read(b) \/ TimesOut(b) \/ Limits(b)
      PROVE  FALSE
  <2>1. \E s : Move(b, s)
    BY <1>4 DEF Send, Read, TimesOut, Limits, End
  <2>2. stage[b] # "validate"
    BY <1>4 DEF Send, Read, TimesOut, Limits, At
  <2>3. QED BY <1>2, <2>1, <2>2
<1>5. ASSUME NEW b \in Callers, Peek(b) PROVE FALSE
  <2>1. stage[b] # "validate"
    BY <1>5 DEF Peek, At
  <2>2. stage' = stage \/ \E s : Move(b, s)
    BY <1>5 DEF Peek, End, connection
  <2>3. QED BY <1>1, <1>2, <2>1, <2>2
<1>6. ASSUME NEW b \in Callers, Validate(b) PROVE b = c
  <2>1. \E s : Move(b, s)
    BY <1>6 DEF Validate, End
  <2>2. QED BY <1>1, <2>1 DEF Move
<1>7. ASSUME Tick \/ Expire \/ Turn PROVE FALSE
  BY <1>1, <1>7 DEF Tick, Expire, Turn, connection
<1>8. QED BY <1>3, <1>4, <1>5, <1>6, <1>7 DEF AdmissionNext, Serve

LEMMA TimelyStep ==
  ASSUME ClockInv, [AdmissionNext]_admissionVars, NEW c \in Callers,
         At(c, "validate"), ~At(c, "validate")'
  PROVE  LET ticks == made[c] + Lag[c] * Minute IN
         /\ verdict'[c] = "in" => ticks < 2 * Minute
         /\ verdict'[c] = "stale" => ticks > Minute
<1> DEFINE ticks == made[c] + Lag[c] * Minute
<1>1. AdmissionNext
  BY DEF admissionVars, connection, At
<1>2. Validate(c)
  BY <1>1, ValidateOnly
<1>3. verdict'[c] = IF expired THEN "expired"
                    ELSE IF Current(c) THEN "in" ELSE "stale"
  BY <1>2 DEF Validate, End, ClockInv, ClockTypes
<1>4. AgeOK(c)
  BY DEF ClockInv, At, Aging
<1>5. /\ ticks \in Nat /\ Minute \in Nat /\ Minute > 0
      /\ phase \in Nat /\ phase < Minute /\ minute[c] \in 0 .. 2
  BY LagTicks, AdmissionAssumption DEF ClockInv, ClockTypes, TooOld
<1>6. /\ minute[c] = 0 => ticks <= phase
      /\ minute[c] = 1 => ticks <= phase + Minute
      /\ minute[c] = 2 => Minute < ticks
  BY <1>4 DEF AgeOK, Age
<1> HIDE DEF ticks
<1>7. Current(c) => ticks < 2 * Minute
  BY <1>5, <1>6 DEF Current
<1>8. ~Current(c) => ticks > Minute
  BY <1>5, <1>6 DEF Current
<1>9. QED BY <1>3, <1>7, <1>8 DEF ticks

\* Whatever the clocks, the length of a minute and the phase at which a payload
\* was made: ValidateAuth lets it in for less than two minutes by its maker's
\* clock, and calls none of the last minute stale (auth.go:143-161).
THEOREM PayloadsAreTimely == AdmissionSpec => Timely
<1>1. ClockInv /\ [AdmissionNext]_admissionVars =>
        [\A c \in Callers : At(c, "validate") /\ ~At(c, "validate")' =>
           LET ticks == made[c] + Lag[c] * Minute IN
           /\ verdict'[c] = "in" => ticks < 2 * Minute
           /\ verdict'[c] = "stale" => ticks > Minute]_admissionVars
  BY TimelyStep
<1>2. QED BY <1>1, ClockInvariance, PTL DEF AdmissionSpec, Timely

-----------------------------------------------------------------------------
(* The rate limit.  Windows are not aligned to anything, so a minute may    *)
(* see the end of one and the beginning of the next.  But a window lasts   *)
(* longer than what is remembered of it: when the next one opens, the      *)
(* attempt that opened the last one is more than a minute old.             *)

\* Ticks since a window opened that has w left; -1 when there is none.
Opened(w) == Minute - w

Within(w, e) == e[1] <= Opened(w)
InWindow(s, e) == Within(left[s], e)

RateTypes ==
  /\ count \in [Addresses -> 0 .. Limit + 1]
  /\ left \in [Addresses -> 0 .. Over]
  /\ passed \in [Addresses -> SUBSET ((0 .. Minute - 1) \X (1 .. Limit))]

\* An open window has counted its attempts; none is open at a new tick.
Counted(s) ==
  /\ left[s] # Over => count[s] >= 1
  /\ left[s] = Over => \A e \in passed[s] : e[1] >= 1

\* Only the attempt that opened the window is its first.
FirstOpens(s) ==
  \A e \in passed[s] :
    IF InWindow(s, e) THEN e[2] <= count[s] /\ (e[2] = 1 => e[1] = Opened(left[s]))
    ELSE e[2] # 1

NumbersDiffer(s) ==
  \A e, f \in passed[s] :
    e[2] = f[2] /\ (InWindow(s, e) <=> InWindow(s, f)) => e = f

WindowOK(s) == Counted(s) /\ FirstOpens(s) /\ NumbersDiffer(s)

RateInv == RateTypes /\ \A s \in Addresses : WindowOK(s)

LEMMA RateInit == AdmissionInit => RateInv
<1> SUFFICES ASSUME AdmissionInit PROVE RateInv
  OBVIOUS
<1>1. /\ count = [s \in Addresses |-> 0] /\ left = [s \in Addresses |-> Over]
      /\ passed = [s \in Addresses |-> {}]
  BY DEF AdmissionInit
<1>2. RateTypes
  BY <1>1, AdmissionAssumption DEF RateTypes, Over
<1>3. \A s \in Addresses : WindowOK(s)
  BY <1>1 DEF WindowOK, Counted, FirstOpens, NumbersDiffer
<1>4. QED BY <1>2, <1>3 DEF RateInv

\* The numbers of the window and those before it, put one after the other,
\* number the attempts of the last minute from 1 to 2 * Limit - 1.
LEMMA WindowsAddUp ==
  ASSUME RateInv, NEW s \in Addresses
  PROVE  Cardinality(passed[s]) < 2 * Limit
<1> DEFINE T == 1 .. 2 * Limit - 1
           f == [e \in passed[s] |->
                   IF InWindow(s, e) THEN e[2] ELSE Limit + e[2] - 1]
<1>1. Limit \in Nat /\ Limit >= 1
  BY AdmissionAssumption
<1>2. \A e \in passed[s] : /\ e[2] \in 1 .. Limit
                           /\ ~InWindow(s, e) => e[2] # 1
  BY DEF RateInv, RateTypes, WindowOK, FirstOpens
<1>3. \A e \in passed[s] :
        /\ f[e] \in T
        /\ InWindow(s, e) => f[e] = e[2] /\ f[e] <= Limit
        /\ ~InWindow(s, e) => f[e] = Limit + e[2] - 1 /\ f[e] > Limit
  BY <1>1, <1>2
<1>4. \A e, g \in passed[s] : f[e] = f[g] => e = g
  <2> SUFFICES ASSUME NEW e \in passed[s], NEW g \in passed[s], f[e] = f[g]
               PROVE  e = g
    OBVIOUS
  <2>1. /\ f[e] \in T /\ e[2] \in 1 .. Limit /\ g[2] \in 1 .. Limit
        /\ InWindow(s, e) => f[e] = e[2] /\ f[e] <= Limit
        /\ ~InWindow(s, e) => f[e] = Limit + e[2] - 1 /\ f[e] > Limit
        /\ InWindow(s, g) => f[e] = g[2] /\ f[e] <= Limit
        /\ ~InWindow(s, g) => f[e] = Limit + g[2] - 1 /\ f[e] > Limit
    BY <1>2, <1>3
  <2> HIDE DEF f
  <2>2. InWindow(s, e) <=> InWindow(s, g)
    BY <1>1, <2>1
  <2>3. e[2] = g[2]
    BY <1>1, <2>1, <2>2
  <2>4. QED BY <2>2, <2>3 DEF RateInv, WindowOK, NumbersDiffer
<1>5. f \in Injection(passed[s], T)
  BY <1>3, <1>4 DEF Injection, IsInjective
<1>6. IsFiniteSet(T) /\ Cardinality(T) = 2 * Limit - 1
  BY <1>1, FS_Interval
<1>7. Cardinality(passed[s]) <= Cardinality(T) /\ IsFiniteSet(passed[s])
  BY <1>5, <1>6, FS_Injection
<1>8. Cardinality(passed[s]) \in Nat
  BY <1>7, FS_CardinalityType
<1> HIDE DEF T
<1>9. QED BY <1>1, <1>6, <1>7, <1>8

\* What an attempt of s counts, whether it passes or not.
LEMMA CountStep ==
  ASSUME RateInv, NEW s \in Addresses, Count(s)
  PROVE  /\ count'[s] \in 1 .. Limit + 1 /\ left'[s] \in 0 .. Minute
         /\ \A r \in Addresses : r # s => count'[r] = count[r] /\ left'[r] = left[r]
         /\ count' \in [Addresses -> 0 .. Limit + 1]
         /\ left' \in [Addresses -> 0 .. Over]
         /\ \/ left[s] = Over /\ left'[s] = Minute /\ count'[s] = 1
            \/ /\ left[s] # Over /\ left'[s] = left[s]
               /\ count'[s] = count[s] + 1 \/ (count'[s] = count[s] /\ count[s] > Limit)
<1>1. /\ Limit \in Nat /\ Limit >= 1 /\ Minute \in Nat /\ Minute >= 1
      /\ count[s] \in 0 .. Limit + 1 /\ left[s] \in 0 .. Minute + 1
  BY AdmissionAssumption DEF RateInv, RateTypes, Over
<1>2. left[s] # Over => count[s] >= 1
  BY DEF RateInv, WindowOK, Counted
<1>3. CASE left[s] = Over
  <2>1. count' = [count EXCEPT ![s] = 1] /\ left' = [left EXCEPT ![s] = Minute]
    BY <1>3 DEF Count
  <2>2. QED BY <1>1, <1>3, <2>1 DEF RateInv, RateTypes, Over
<1>4. CASE left[s] # Over
  <2> DEFINE n == IF count[s] > Limit THEN count[s] ELSE count[s] + 1
  <2>1. count' = [count EXCEPT ![s] = n] /\ left' = left
    BY <1>4 DEF Count
  <2>2. n \in 1 .. Limit + 1 /\ (n = count[s] + 1 \/ (n = count[s] /\ count[s] > Limit))
    <3>1. CASE count[s] > Limit
      <4>1. n = count[s]
        BY <3>1
      <4> HIDE DEF n
      <4>2. QED BY <1>1, <1>2, <1>4, <3>1, <4>1
    <3>2. CASE ~(count[s] > Limit)
      <4>1. n = count[s] + 1
        BY <3>2
      <4> HIDE DEF n
      <4>2. QED BY <1>1, <1>2, <1>4, <3>2, <4>1
    <3>3. QED BY <3>1, <3>2
  <2> HIDE DEF n
  <2>3. QED BY <1>1, <1>4, <2>1, <2>2 DEF RateInv, RateTypes, Over
<1>5. QED BY <1>3, <1>4

\* The history is exact: an attempt that passes was not in it before.
LEMMA NewAttempt ==
  ASSUME RateInv, NEW s \in Addresses, Count(s)
  PROVE  /\ <<0, count'[s]>> \notin passed[s]
         /\ \A e \in passed[s] :
              /\ Within(left'[s], e) <=> InWindow(s, e)
              /\ InWindow(s, e) => e[2] < count'[s] \/ count'[s] > Limit
<1>1. /\ Minute \in Nat /\ Minute >= 1 /\ Limit \in Nat
      /\ left[s] \in 0 .. Minute + 1
      /\ \A e \in passed[s] : e[1] \in 0 .. Minute - 1 /\ e[2] \in 1 .. Limit
  BY AdmissionAssumption DEF RateInv, RateTypes, Over
<1>2. Counted(s) /\ FirstOpens(s) /\ count[s] \in 0 .. Limit + 1
  BY DEF RateInv, RateTypes, WindowOK
<1>3. ASSUME NEW e \in passed[s]
      PROVE  /\ Within(left'[s], e) <=> InWindow(s, e)
             /\ InWindow(s, e) => e[2] < count'[s] \/ count'[s] > Limit
  <2>1. CASE left[s] = Over
    <3>1. left'[s] = Minute /\ e[1] >= 1
      BY <1>2, <1>3, <2>1, CountStep, <1>1 DEF Counted, Over
    <3>2. ~InWindow(s, e) /\ ~Within(left'[s], e)
      BY <1>1, <2>1, <3>1 DEF InWindow, Within, Opened, Over
    <3>3. QED BY <3>2
  <2>2. CASE left[s] # Over
    <3>1. /\ left'[s] = left[s]
          /\ count'[s] = count[s] + 1 \/ (count'[s] = count[s] /\ count[s] > Limit)
      BY <2>2, CountStep
    <3>2. InWindow(s, e) => e[2] <= count[s]
      BY <1>2 DEF FirstOpens
    <3>3. QED BY <1>1, <1>2, <3>1, <3>2 DEF InWindow, Within, Opened
  <2>3. QED BY <2>1, <2>2
<1>4. <<0, count'[s]>> \notin passed[s]
  <2> DEFINE x == <<0, count'[s]>>
  <2> SUFFICES ASSUME x \in passed[s] PROVE FALSE
    OBVIOUS
  <2>1. left'[s] \in 0 .. Minute
    BY CountStep
  <2>2. Within(left'[s], x)
    BY <1>1, <2>1 DEF InWindow, Within, Opened
  <2>3. InWindow(s, x)
    BY <1>3, <2>2
  <2>4. x[2] < count'[s] \/ count'[s] > Limit
    BY <1>3, <2>3
  <2>5. x[2] \in 1 .. Limit /\ x[2] = count'[s]
    BY <1>1
  <2>6. QED BY <1>1, <2>4, <2>5
<1>5. QED BY <1>3, <1>4

LEMMA LimitsRate ==
  ASSUME RateInv, NEW c \in Callers, Limits(c)
  PROVE  RateInv'
<1> DEFINE s == Address[c]
           x == <<0, count'[s]>>
<1>1. /\ s \in Addresses /\ Minute \in Nat /\ Minute >= 1
      /\ Limit \in Nat /\ Limit >= 1
      /\ left[s] \in 0 .. Minute + 1 /\ count[s] \in 0 .. Limit + 1
      /\ \A e \in passed[s] : e[1] \in 0 .. Minute - 1 /\ e[2] \in 1 .. Limit
  BY AdmissionAssumption DEF RateInv, RateTypes, Over
<1>2. Count(s)
  BY DEF Limits
<1>3. \/ count'[s] <= Limit /\ passed' = [passed EXCEPT ![s] = @ \cup {x}]
      \/ count'[s] > Limit /\ passed' = passed
  BY DEF Limits
<1> HIDE DEF s
<1>4. /\ count'[s] \in 1 .. Limit + 1 /\ left'[s] \in 0 .. Minute
      /\ count' \in [Addresses -> 0 .. Limit + 1]
      /\ left' \in [Addresses -> 0 .. Over]
      /\ \A r \in Addresses : r # s => count'[r] = count[r] /\ left'[r] = left[r]
  BY <1>1, <1>2, CountStep
<1>5. /\ passed'[s] = (IF count'[s] <= Limit THEN passed[s] \cup {x} ELSE passed[s])
      /\ \A r \in Addresses : r # s => passed'[r] = passed[r]
  <2> HIDE DEF x
  <2>1. passed = [r \in Addresses |-> passed[r]]
    BY DEF RateInv, RateTypes
  <2>2. CASE count'[s] <= Limit
    <3>1. passed' = [passed EXCEPT ![s] = @ \cup {x}]
      BY <1>1, <1>3, <1>4, <2>2
    <3>2. QED BY <1>1, <2>1, <2>2, <3>1
  <2>3. CASE ~(count'[s] <= Limit)
    BY <1>1, <1>3, <1>4, <2>3
  <2>4. QED BY <2>2, <2>3
<1>6. RateTypes'
  <2>1. count'[s] <= Limit => x \in (0 .. Minute - 1) \X (1 .. Limit)
    BY <1>1, <1>4
  <2>2. passed' \in [Addresses -> SUBSET ((0 .. Minute - 1) \X (1 .. Limit))]
    BY <1>1, <1>3, <1>4, <2>1 DEF RateInv, RateTypes
  <2>3. QED BY <1>4, <2>2 DEF RateTypes
<1>7. ASSUME NEW r \in Addresses PROVE WindowOK(r)'
  <2>1. CASE r # s
    <3>1. UNCHANGED <<count[r], left[r], passed[r]>>
      BY <1>4, <1>5, <2>1
    <3>2. WindowOK(r)
      BY DEF RateInv
    <3>3. QED
      BY <3>1, <3>2 DEF WindowOK, Counted, FirstOpens, NumbersDiffer, InWindow,
                        Within, Opened
  <2>2. CASE r = s
    <3>1. /\ Counted(s) /\ FirstOpens(s) /\ NumbersDiffer(s)
      BY <1>1 DEF RateInv, WindowOK
    <3>2. \A e \in passed[s] :
            /\ Within(left'[s], e) <=> InWindow(s, e)
            /\ InWindow(s, e) => e[2] < count'[s] \/ count'[s] > Limit
      BY <1>1, <1>2, NewAttempt
    <3>3. \/ left[s] = Over /\ left'[s] = Minute /\ count'[s] = 1
          \/ /\ left[s] # Over /\ left'[s] = left[s] /\ count[s] >= 1
             /\ count'[s] = count[s] + 1 \/ (count'[s] = count[s] /\ count[s] > Limit)
      BY <1>1, <1>2, <3>1, CountStep DEF Counted
    <3>4. x[1] = 0 /\ x[2] = count'[s]
      OBVIOUS
    <3> HIDE DEF x
    <3>5. Within(left'[s], x)
      BY <1>1, <1>4, <3>4 DEF InWindow, Within, Opened
    <3>6. Counted(s)'
      BY <1>1, <1>4 DEF Counted, Over
    <3>7. FirstOpens(s)'
      <4> SUFFICES ASSUME NEW e \in passed'[s]
                   PROVE  IF Within(left'[s], e)
                          THEN e[2] <= count'[s] /\ (e[2] = 1 => e[1] = Minute - left'[s])
                          ELSE e[2] # 1
        BY DEF FirstOpens, InWindow, Opened
      <4>1. CASE e \in passed[s]
        <5>1. IF InWindow(s, e)
              THEN e[2] <= count[s] /\ (e[2] = 1 => e[1] = Minute - left[s])
              ELSE e[2] # 1
          BY <3>1, <4>1 DEF FirstOpens, Opened
        <5>2. left[s] = Over => ~InWindow(s, e)
          BY <1>1, <4>1 DEF InWindow, Within, Opened, Over
        <5>3. QED BY <1>1, <3>2, <3>3, <4>1, <5>1, <5>2
      <4>2. CASE e = x /\ e \notin passed[s]
        <5>1. e[2] = 1 => left'[s] = Minute
          <6>1. CASE left[s] = Over
            BY <3>3, <6>1
          <6>2. CASE left[s] # Over
            <7>1. count'[s] # 1
              BY <1>1, <3>3, <6>2
            <7>2. QED BY <3>4, <4>2, <7>1
          <6>3. QED BY <6>1, <6>2
        <5>2. QED BY <1>1, <1>4, <3>4, <3>5, <4>2, <5>1
      <4>3. QED BY <1>5, <4>1, <4>2
    <3>8. NumbersDiffer(s)'
      <4> SUFFICES ASSUME NEW e \in passed'[s], NEW f \in passed'[s],
                          e[2] = f[2], Within(left'[s], e) <=> Within(left'[s], f)
                   PROVE  e = f
        BY DEF NumbersDiffer, InWindow
      <4>1. CASE e \in passed[s] /\ f \in passed[s]
        BY <3>1, <3>2, <4>1 DEF NumbersDiffer
      <4>2. ASSUME NEW g \in passed[s], g[2] = x[2], count'[s] <= Limit,
                   Within(left'[s], g) <=> Within(left'[s], x)
            PROVE  FALSE
        BY <1>1, <1>4, <3>2, <3>4, <3>5, <4>2
      <4>3. QED BY <1>4, <1>5, <4>1, <4>2
    <3>9. QED BY <2>2, <3>6, <3>7, <3>8 DEF WindowOK
  <2>3. QED BY <2>1, <2>2
<1>8. QED BY <1>6, <1>7 DEF RateInv

\* A window that is over has forgotten how it began.
LEMMA TickRate ==
  ASSUME RateInv, Tick
  PROVE  RateInv'
<1>1. /\ count' = count
      /\ \A s \in Addresses : left'[s] = IF left[s] \in {0, Over} THEN Over ELSE left[s] - 1
      /\ \A s \in Addresses : passed'[s] = Shift(passed[s])
  BY DEF Tick
<1>2. \A s \in Addresses : \A e \in passed'[s] : \E f \in passed[s] :
        e = <<f[1] + 1, f[2]>> /\ f[1] + 1 < Minute
  BY <1>1 DEF Shift
<1>3. /\ Minute \in Nat /\ Minute >= 1 /\ Limit \in Nat
      /\ \A s \in Addresses :
           /\ left[s] \in 0 .. Minute + 1 /\ count[s] \in 0 .. Limit + 1
           /\ \A e \in passed[s] : /\ e[1] \in 0 .. Minute - 1
                                   /\ e[2] \in 1 .. Limit
                                   /\ e = <<e[1], e[2]>>
  BY AdmissionAssumption DEF RateInv, RateTypes, Over
<1>4. RateTypes'
  <2>1. left' \in [Addresses -> 0 .. Over]
    BY <1>3 DEF Tick, Over
  <2>2. \A s \in Addresses :
          passed'[s] \in SUBSET ((0 .. Minute - 1) \X (1 .. Limit))
    <3> SUFFICES ASSUME NEW s \in Addresses, NEW e \in passed'[s]
                 PROVE  e \in (0 .. Minute - 1) \X (1 .. Limit)
      OBVIOUS
    <3>1. PICK f \in passed[s] : e = <<f[1] + 1, f[2]>> /\ f[1] + 1 < Minute
      BY <1>2
    <3>2. f[1] \in 0 .. Minute - 1 /\ f[2] \in 1 .. Limit
      BY <1>3
    <3>3. f[1] + 1 \in 0 .. Minute - 1
      BY <1>3, <3>1, <3>2
    <3>4. QED BY <3>1, <3>2, <3>3
  <2>3. passed' = [s \in Addresses |-> Shift(passed[s])]
    BY DEF Tick
  <2>4. passed' \in [Addresses -> SUBSET ((0 .. Minute - 1) \X (1 .. Limit))]
    BY <2>2, <2>3
  <2>5. QED BY <1>1, <2>1, <2>4 DEF RateInv, RateTypes
<1>5. ASSUME NEW s \in Addresses PROVE WindowOK(s)'
  <2>1. Counted(s) /\ FirstOpens(s) /\ NumbersDiffer(s)
    BY DEF RateInv, WindowOK
  \* What is left of an attempt after the tick.
  <2>2. ASSUME NEW e \in passed'[s]
        PROVE  \E f \in passed[s] :
                 /\ e = <<f[1] + 1, f[2]>> /\ f[1] + 1 < Minute
                 /\ Within(left'[s], e) <=> (InWindow(s, f) /\ left[s] # 0)
    <3>1. PICK f \in passed[s] : e = <<f[1] + 1, f[2]>> /\ f[1] + 1 < Minute
      BY <1>2
    <3>2. f[1] \in Nat /\ e[1] = f[1] + 1
      BY <1>3, <3>1
    <3>3. Within(left'[s], e) <=> (InWindow(s, f) /\ left[s] # 0)
      <4>1. CASE left[s] \in {0, Over}
        BY <1>1, <1>3, <3>2, <4>1 DEF InWindow, Within, Opened, Over
      <4>2. CASE left[s] \notin {0, Over}
        BY <1>1, <1>3, <3>2, <4>2 DEF InWindow, Within, Opened, Over
      <4>3. QED BY <4>1, <4>2
    <3>4. QED BY <3>1, <3>3
  <2>3. left[s] = 0 => \A f \in passed[s] : InWindow(s, f)
    BY <1>3 DEF InWindow, Within, Opened
  <2>4. Counted(s)'
    <3>1. \A e \in passed'[s] : e[1] >= 1
      BY <1>2, <1>3
    <3>2. left'[s] # Over => left[s] # Over
      BY <1>1
    <3>3. QED BY <1>1, <2>1, <3>1, <3>2 DEF Counted
  <2>5. FirstOpens(s)'
    <3> SUFFICES ASSUME NEW e \in passed'[s]
                 PROVE  IF Within(left'[s], e)
                        THEN e[2] <= count[s] /\ (e[2] = 1 => e[1] = Minute - left'[s])
                        ELSE e[2] # 1
      BY <1>1 DEF FirstOpens, InWindow, Opened
    <3>1. PICK f \in passed[s] :
                 /\ e = <<f[1] + 1, f[2]>> /\ f[1] + 1 < Minute
                 /\ Within(left'[s], e) <=> (InWindow(s, f) /\ left[s] # 0)
      BY <2>2
    <3>2. e[1] = f[1] + 1 /\ e[2] = f[2] /\ f[1] \in Nat
      BY <1>3, <3>1
    <3>3. IF InWindow(s, f)
          THEN f[2] <= count[s] /\ (f[2] = 1 => f[1] = Minute - left[s])
          ELSE f[2] # 1
      BY <2>1 DEF FirstOpens, Opened
    <3>4. CASE left[s] = 0
      BY <1>3, <2>3, <3>1, <3>2, <3>3, <3>4
    <3>5. CASE left[s] = Over
      <4>1. ~InWindow(s, f)
        BY <1>3, <3>2, <3>5 DEF InWindow, Within, Opened, Over
      <4>2. QED BY <3>1, <3>2, <3>3, <4>1
    <3>6. CASE left[s] \notin {0, Over}
      <4>1. left'[s] = left[s] - 1
        BY <1>1, <3>6
      <4>2. QED BY <1>3, <3>1, <3>2, <3>3, <3>6, <4>1
    <3>7. QED BY <3>4, <3>5, <3>6
  <2>6. NumbersDiffer(s)'
    <3> SUFFICES ASSUME NEW e \in passed'[s], NEW g \in passed'[s],
                        e[2] = g[2], Within(left'[s], e) <=> Within(left'[s], g)
                 PROVE  e = g
      BY DEF NumbersDiffer, InWindow
    <3>1. PICK f \in passed[s] :
                 /\ e = <<f[1] + 1, f[2]>>
                 /\ Within(left'[s], e) <=> (InWindow(s, f) /\ left[s] # 0)
      BY <2>2
    <3>2. PICK h \in passed[s] :
                 /\ g = <<h[1] + 1, h[2]>>
                 /\ Within(left'[s], g) <=> (InWindow(s, h) /\ left[s] # 0)
      BY <2>2
    <3>3. f[2] = h[2]
      BY <3>1, <3>2
    <3>4. InWindow(s, f) <=> InWindow(s, h)
      BY <2>3, <3>1, <3>2
    <3>5. f = h
      BY <2>1, <3>3, <3>4 DEF NumbersDiffer
    <3>6. QED BY <3>1, <3>2, <3>5
  <2>7. QED BY <2>4, <2>5, <2>6 DEF WindowOK
<1>6. QED BY <1>4, <1>5 DEF RateInv

LEMMA RateStep == RateInv /\ [AdmissionNext]_admissionVars => RateInv'
<1> SUFFICES ASSUME RateInv, [AdmissionNext]_admissionVars PROVE RateInv'
  OBVIOUS
<1>1. ASSUME UNCHANGED rates PROVE RateInv'
  BY <1>1 DEF rates, RateInv, RateTypes, WindowOK, Counted, FirstOpens,
     NumbersDiffer, InWindow, Within, Opened
<1>2. ASSUME NEW c \in Callers, Limits(c) PROVE RateInv'
  BY <1>2, LimitsRate
<1>3. ASSUME NEW c \in Callers, Peek(c) \/ Read(c) \/ TimesOut(c) \/ Validate(c)
      PROVE  UNCHANGED rates
  BY <1>3 DEF Peek, Read, TimesOut, Validate
<1>4. ASSUME NEW c \in Callers, Send(c) PROVE UNCHANGED rates
  BY <1>4 DEF Send
<1>5. ASSUME NEW c \in Callers, NEW d \in Data, Connect(c, d)
      PROVE  UNCHANGED rates
  BY <1>5 DEF Connect
<1>6. ASSUME Expire \/ Turn \/ UNCHANGED admissionVars PROVE UNCHANGED rates
  BY <1>6 DEF Expire, Turn, admissionVars
<1>7. QED
  BY <1>1, <1>2, <1>3, <1>4, <1>5, <1>6, TickRate DEF AdmissionNext, Serve

\* However an address spreads its attempts over windows and connections, fewer
\* than twice the limit are checked against the keys within a minute, for any
\* limit and any length of a minute (auth.go:100-112).
THEOREM RatesAreBounded == AdmissionSpec => []RateIsBounded
<1>1. RateInv => RateIsBounded
  BY WindowsAddUp DEF RateIsBounded
<1>2. QED BY <1>1, RateInit, RateStep, PTL DEF AdmissionSpec

=============================================================================
