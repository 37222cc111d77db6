------------------------- MODULE ServerSessionsProofs -------------------------
(***************************************************************************)
(* The connection counts and the session table of the server are exact for *)
(* any finite number of handlers and any users, limit and mix of requests. *)
(*                                                                         *)
(* Inductive invariant: besides the two equations themselves, a handler    *)
(* that is about to use a counter holds the one the map has for its user,  *)
(* no two users share a counter, and a counter nobody has yet is zero.     *)
(***************************************************************************)
EXTENDS ServerSessions, FiniteSetTheorems, TLAPS

Types ==
  /\ counter \in [Users -> Cells \cup {None}]
  /\ count \in [Cells -> Int]
  /\ sessions \in [Users -> Nat]
  /\ pc \in [Handlers -> {"idle", "lookup", "create", "use", "open", "dial",
                          "relay", "unwind"}]
  /\ op \in [Handlers -> {"check", "enter", "leave"}]
  /\ user \in [Handlers -> Users \cup {None}]
  /\ kind \in [Handlers -> AllKinds]
  /\ cell \in [Handlers -> Cells \cup {None}]

\* What a handler knows about itself at each point of its code.
LocalsOK ==
  \A h \in Handlers :
    /\ pc[h] # "idle" => user[h] \in Users
    /\ pc[h] = "use" => cell[h] \in Cells /\ cell[h] = counter[user[h]]
    /\ pc[h] = "open" => kind[h] = "direct"
    /\ pc[h] = "unwind" => kind[h] # "connect"
    /\ pc[h] \in {"lookup", "create", "use"} /\ op[h] = "enter"
         => kind[h] # "connect"

CountersOK ==
  /\ \A u, v \in Users : counter[u] = counter[v] /\ counter[u] # None => u = v
  /\ \A n \in Cells : Fresh(n) => count[n] = 0

Inv == Types /\ LocalsOK /\ CountersOK /\ CountsAreExact /\ SessionsAreExact

-----------------------------------------------------------------------------
(* A step of one handler changes each set of handlers by at most itself.   *)

OthersStay(h) ==
  \A g \in Handlers \ {h} :
    pc'[g] = pc[g] /\ op'[g] = op[g] /\ user'[g] = user[g] /\ kind'[g] = kind[g]

\* The locals of one handler are never written by another.
LEMMA StepsAreLocal ==
  ASSUME Types, NEW h \in Handlers,
         Serve(h) \/ \E u \in Users, k \in Kinds : Accept(h, u, k)
  PROVE  OthersStay(h)
<1>1. ASSUME Lookup(h) \/ Create(h) \/ Enter(h) \/ OpenSession(h) \/ Unwind(h)
      PROVE  OthersStay(h)
  BY <1>1 DEF Types, OthersStay, Lookup, Create, Enter, OpenSession, Unwind,
              Goto, Firewall
<1>2. ASSUME Check(h) \/ Leave(h) PROVE OthersStay(h)
  BY <1>2 DEF Types, OthersStay, Check, Leave, Admitted, Firewall, Goto, Return
<1>3. ASSUME Dial(h) \/ RelayEnds(h) PROVE OthersStay(h)
  BY <1>3 DEF Types, OthersStay, Dial, RelayEnds, Leaving, Goto, Return
<1>4. ASSUME NEW u \in Users, NEW k \in Kinds, Accept(h, u, k)
      PROVE  OthersStay(h)
  BY <1>4 DEF Types, OthersStay, Accept, Admitted, Firewall, Goto
<1>5. QED BY <1>1, <1>2, <1>3, <1>4 DEF Serve

\* A set of handlers that gains or loses h, or keeps it, counts one more, one
\* less, or the same.
LEMMA OneMoreOrLess ==
  ASSUME NEW S, NEW T, NEW h, S \subseteq Handlers, T \subseteq Handlers,
         T \ {h} = S \ {h}
  PROVE  /\ IsFiniteSet(S) /\ Cardinality(S) \in Nat /\ Cardinality(T) \in Nat
         /\ (h \in S <=> h \in T) => T = S
         /\ h \notin S /\ h \in T => Cardinality(T) = Cardinality(S) + 1
         /\ h \in S /\ h \notin T => Cardinality(T) = Cardinality(S) - 1
<1>1. IsFiniteSet(S) /\ IsFiniteSet(T)
  BY SessionsAssumption, FS_Subset
<1>2. Cardinality(S) \in Nat /\ Cardinality(T) \in Nat
  BY <1>1, FS_CardinalityType
<1>3. (h \in S <=> h \in T) => T = S
  OBVIOUS
<1>4. ASSUME h \notin S, h \in T PROVE Cardinality(T) = Cardinality(S) + 1
  <2>1. T = S \cup {h} BY <1>4
  <2>2. QED BY <2>1, <1>1, <1>4, FS_AddElement
<1>5. ASSUME h \in S, h \notin T PROVE Cardinality(T) = Cardinality(S) - 1
  <2>1. T = S \ {h} BY <1>5
  <2>2. QED BY <2>1, <1>1, <1>5, FS_RemoveElement
<1>6. QED BY <1>1, <1>2, <1>3, <1>4, <1>5

\* The two sets that are counted differ by h at most.
LEMMA SetsAreLocal ==
  ASSUME NEW h \in Handlers, OthersStay(h), NEW u
  PROVE  /\ EnteredFor(u)' \ {h} = EnteredFor(u) \ {h}
         /\ SessionsOf(u)' \ {h} = SessionsOf(u) \ {h}
         /\ EnteredFor(u) \subseteq Handlers /\ EnteredFor(u)' \subseteq Handlers
         /\ SessionsOf(u) \subseteq Handlers /\ SessionsOf(u)' \subseteq Handlers
  BY DEF OthersStay, EnteredFor, SessionsOf, Entered

-----------------------------------------------------------------------------
(* The counts follow the sets.                                             *)

\* If nobody but h moves, and the count of every user changes by what h
\* changes in the set that is counted, the counts stay exact.
LEMMA CountsFollow ==
  ASSUME CountsAreExact, NEW h \in Handlers, OthersStay(h),
         \A u \in Users : ConnCount(u) \in Int,
         \A u \in Users :
           \/ /\ h \in EnteredFor(u)' <=> h \in EnteredFor(u)
              /\ ConnCount(u)' = ConnCount(u)
           \/ /\ h \in EnteredFor(u)' /\ h \notin EnteredFor(u)
              /\ ConnCount(u)' = ConnCount(u) + 1
           \/ /\ h \notin EnteredFor(u)' /\ h \in EnteredFor(u)
              /\ ConnCount(u)' = ConnCount(u) - 1
  PROVE  CountsAreExact'
<1> SUFFICES ASSUME NEW u \in Users
             PROVE  ConnCount(u)' = Cardinality(EnteredFor(u)')
  BY DEF CountsAreExact
<1> DEFINE S == EnteredFor(u)
           T == EnteredFor(u)'
<1>1. S \subseteq Handlers /\ T \subseteq Handlers /\ T \ {h} = S \ {h}
  BY SetsAreLocal
<1> HIDE DEF S, T
<1>2. ConnCount(u) = Cardinality(S)
  BY DEF CountsAreExact, S
<1>3. ConnCount(u)' = Cardinality(T)
  <2>1. /\ (h \in S <=> h \in T) => T = S
        /\ h \notin S /\ h \in T => Cardinality(T) = Cardinality(S) + 1
        /\ h \in S /\ h \notin T => Cardinality(T) = Cardinality(S) - 1
    BY <1>1, OneMoreOrLess
  <2>2. \/ (h \in T <=> h \in S) /\ ConnCount(u)' = ConnCount(u)
        \/ h \in T /\ h \notin S /\ ConnCount(u)' = ConnCount(u) + 1
        \/ h \notin T /\ h \in S /\ ConnCount(u)' = ConnCount(u) - 1
    BY DEF S, T
  <2>3. QED BY <2>1, <2>2, <1>2
<1>4. QED BY <1>3 DEF T

\* The same of the session table.
LEMMA SessionsFollow ==
  ASSUME SessionsAreExact, NEW h \in Handlers, OthersStay(h),
         sessions \in [Users -> Nat],
         \A u \in Users :
           \/ /\ h \in SessionsOf(u)' <=> h \in SessionsOf(u)
              /\ sessions'[u] = sessions[u]
           \/ /\ h \in SessionsOf(u)' /\ h \notin SessionsOf(u)
              /\ sessions'[u] = sessions[u] + 1
           \/ /\ h \notin SessionsOf(u)' /\ h \in SessionsOf(u)
              /\ sessions'[u] = SessionsAfterEnd(u)
  PROVE  SessionsAreExact'
<1> SUFFICES ASSUME NEW u \in Users
             PROVE  sessions'[u] = Cardinality(SessionsOf(u)')
  BY DEF SessionsAreExact
<1> DEFINE S == SessionsOf(u)
           T == SessionsOf(u)'
<1>1. S \subseteq Handlers /\ T \subseteq Handlers /\ T \ {h} = S \ {h}
  BY SetsAreLocal
<1> HIDE DEF S, T
<1>2. sessions[u] = Cardinality(S)
  BY DEF SessionsAreExact, S
<1>3. sessions'[u] = Cardinality(T)
  <2>1. /\ (h \in S <=> h \in T) => T = S
        /\ h \notin S /\ h \in T => Cardinality(T) = Cardinality(S) + 1
        /\ h \in S /\ h \notin T => Cardinality(T) = Cardinality(S) - 1
        /\ Cardinality(S) \in Nat /\ Cardinality(T) \in Nat
    BY <1>1, OneMoreOrLess
  <2>2. \/ (h \in T <=> h \in S) /\ sessions'[u] = sessions[u]
        \/ h \in T /\ h \notin S /\ sessions'[u] = sessions[u] + 1
        \/ h \notin T /\ h \in S /\ sessions'[u] = SessionsAfterEnd(u)
    BY DEF S, T
  <2>3. QED BY <2>1, <2>2, <1>2 DEF SessionsAfterEnd
<1>4. QED BY <1>3 DEF T

\* What the membership of h in the two sets looks like.
LEMMA Membership ==
  ASSUME NEW h \in Handlers, NEW u
  PROVE  /\ h \in EnteredFor(u) <=> user[h] = u /\ Entered(h)
         /\ h \in SessionsOf(u) <=> /\ user[h] = u /\ kind[h] = "direct"
                                    /\ pc[h] \in {"dial", "relay", "unwind"}
         /\ h \in EnteredFor(u)' <=> user'[h] = u /\ Entered(h)'
         /\ h \in SessionsOf(u)' <=> /\ user'[h] = u /\ kind'[h] = "direct"
                                     /\ pc'[h] \in {"dial", "relay", "unwind"}
  BY DEF EnteredFor, SessionsOf

\* A step that leaves the shared state alone and moves h neither into nor out
\* of the two sets keeps both equations.
LEMMA QuietSteps ==
  ASSUME CountsAreExact, SessionsAreExact, Types,
         NEW h \in Handlers, OthersStay(h), UNCHANGED <<counter, count, sessions>>,
         \A u \in Users : /\ h \in EnteredFor(u)' <=> h \in EnteredFor(u)
                          /\ h \in SessionsOf(u)' <=> h \in SessionsOf(u)
  PROVE  CountsAreExact' /\ SessionsAreExact'
<1>1. \A u \in Users : ConnCount(u) \in Int /\ ConnCount(u)' = ConnCount(u)
  BY DEF Types, ConnCount
<1>2. CountsAreExact'
  BY <1>1, CountsFollow
<1>3. \A u \in Users : sessions'[u] = sessions[u]
  OBVIOUS
<1>4. SessionsAreExact'
  BY <1>3, SessionsFollow DEF Types
<1>5. QED BY <1>2, <1>4

-----------------------------------------------------------------------------
(* Every step keeps the shape of the state.                                *)

LEMMA TypesStep ==
  ASSUME Types, LocalsOK, NEW h \in Handlers,
         Serve(h) \/ \E u \in Users, k \in Kinds : Accept(h, u, k)
  PROVE  Types'
<1>1. ASSUME Lookup(h) PROVE Types'
  BY <1>1 DEF Types, LocalsOK, Lookup, Goto
<1>2. ASSUME Create(h) PROVE Types'
  BY <1>2 DEF Types, LocalsOK, Create, Allocate, Goto
<1>3. ASSUME Check(h) \/ Enter(h) PROVE Types'
  BY <1>3 DEF Types, LocalsOK, Check, Enter, Admitted, Firewall, Goto, Return,
              AllKinds
<1>4. ASSUME OpenSession(h) \/ Unwind(h) PROVE Types'
  BY <1>4 DEF Types, LocalsOK, OpenSession, Unwind, SessionsAfterEnd, Firewall,
              Goto
<1>5. ASSUME Dial(h) \/ RelayEnds(h) \/ Leave(h) PROVE Types'
  BY <1>5 DEF Types, LocalsOK, Dial, RelayEnds, Leave, Leaving, Goto, Return,
              AllKinds
<1>6. ASSUME NEW u \in Users, NEW k \in Kinds, Accept(h, u, k) PROVE Types'
  BY <1>6, SessionsAssumption DEF Types, Accept, Admitted, Firewall, Goto
<1>7. QED BY <1>1, <1>2, <1>3, <1>4, <1>5, <1>6 DEF Serve

\* The map of counters only grows: a counter that was found stays the user's.
LEMMA CountersStep ==
  ASSUME Types, LocalsOK, CountersOK, NEW h \in Handlers,
         Serve(h) \/ \E u \in Users, k \in Kinds : Accept(h, u, k)
  PROVE  /\ CountersOK'
         /\ \A u \in Users : counter[u] # None => counter'[u] = counter[u]
<1>1. ASSUME UNCHANGED <<counter, count>>
      PROVE  /\ CountersOK'
             /\ \A u \in Users : counter[u] # None => counter'[u] = counter[u]
  BY <1>1 DEF CountersOK, Fresh
<1>2. ASSUME Create(h)
      PROVE  /\ CountersOK'
             /\ \A u \in Users : counter[u] # None => counter'[u] = counter[u]
  <2>1. CASE UNCHANGED <<counter, count>>
    BY <1>1, <2>1
  <2>2. CASE counter[user[h]] = None /\ Allocate(h)
    <3>1. PICK n \in Cells : /\ Fresh(n)
                             /\ counter' = [counter EXCEPT ![user[h]] = n]
                             /\ count' = [count EXCEPT ![n] = 0]
      BY <2>2 DEF Allocate
    <3>2. user[h] \in Users /\ n # None
      BY <1>2, SessionsAssumption DEF LocalsOK, Create
    <3>3. \A u \in Users : counter[u] # None => counter'[u] = counter[u]
      BY <2>2, <3>1 DEF Types
    <3>4. \A u, v \in Users : counter'[u] = counter'[v] /\ counter'[u] # None
                                => u = v
      BY <3>1, <3>2 DEF Types, CountersOK, Fresh
    <3>5. \A m \in Cells : Fresh(m)' => count'[m] = 0
      <4> SUFFICES ASSUME NEW m \in Cells, Fresh(m)' PROVE count'[m] = 0
        OBVIOUS
      <4>1. m # n
        BY <3>1, <3>2 DEF Fresh, Types
      <4>2. Fresh(m)
        BY <2>2, <3>1, <3>2, SessionsAssumption DEF Fresh, Types
      <4>3. QED BY <4>1, <4>2, <3>1 DEF CountersOK, Types
    <3>6. QED BY <3>3, <3>4, <3>5 DEF CountersOK
  <2>3. QED BY <1>2, <2>1, <2>2 DEF Create
<1>3. ASSUME Enter(h) \/ Leave(h)
      PROVE  /\ CountersOK'
             /\ \A u \in Users : counter[u] # None => counter'[u] = counter[u]
  <2>1. /\ cell[h] = counter[user[h]] /\ user[h] \in Users
        /\ counter' = counter
        /\ \A n \in Cells \ {cell[h]} : count'[n] = count[n]
    BY <1>3 DEF Enter, Leave, LocalsOK, Types
  <2>2. \A n \in Cells : Fresh(n)' => count'[n] = 0
    BY <2>1 DEF Fresh, CountersOK
  <2>3. QED BY <2>1, <2>2 DEF CountersOK
<1>4. QED
  BY <1>1, <1>2, <1>3 DEF Serve, Lookup, Check, OpenSession, Dial, RelayEnds,
     Unwind, Accept

LEMMA LocalsStep ==
  ASSUME Types, LocalsOK, CountersOK, NEW h \in Handlers,
         Serve(h) \/ \E u \in Users, k \in Kinds : Accept(h, u, k)
  PROVE  LocalsOK'
<1> DEFINE Ok(g) ==
      /\ pc[g] # "idle" => user[g] \in Users
      /\ pc[g] = "use" => cell[g] \in Cells /\ cell[g] = counter[user[g]]
      /\ pc[g] = "open" => kind[g] = "direct"
      /\ pc[g] = "unwind" => kind[g] # "connect"
      /\ pc[g] \in {"lookup", "create", "use"} /\ op[g] = "enter"
           => kind[g] # "connect"
<1>1. /\ \A u \in Users : counter[u] # None => counter'[u] = counter[u]
      /\ OthersStay(h)
  BY CountersStep, StepsAreLocal
<1>2. \A g \in Handlers \ {h} : cell'[g] = cell[g]
  BY DEF Types, Serve, Lookup, Create, Allocate, Check, Enter, OpenSession,
     Dial, RelayEnds, Unwind, Leave, Accept, Admitted, Firewall, Return, Leaving
<1>3. ASSUME NEW g \in Handlers \ {h} PROVE Ok(g)'
  BY <1>1, <1>2, SessionsAssumption DEF LocalsOK, OthersStay
<1>4. Ok(h)'
  <2>1. ASSUME Lookup(h) PROVE Ok(h)'
    BY <2>1 DEF Types, LocalsOK, Lookup, Goto
  <2>2. ASSUME Create(h) PROVE Ok(h)'
    BY <2>2 DEF Types, LocalsOK, Create, Allocate, Goto
  <2>3. ASSUME Check(h) PROVE Ok(h)'
    BY <2>3 DEF Types, LocalsOK, Check, Admitted, Firewall, Goto, Return
  <2>4. ASSUME Enter(h) PROVE Ok(h)'
    BY <2>4 DEF Types, LocalsOK, Enter, Goto
  <2>5. ASSUME OpenSession(h) \/ Unwind(h) PROVE Ok(h)'
    BY <2>5 DEF Types, LocalsOK, OpenSession, Unwind, Firewall, Goto
  <2>6. ASSUME Dial(h) \/ RelayEnds(h) \/ Leave(h) PROVE Ok(h)'
    BY <2>6 DEF Types, LocalsOK, Dial, RelayEnds, Leave, Leaving, Goto, Return
  <2>7. ASSUME NEW u \in Users, NEW k \in Kinds, Accept(h, u, k) PROVE Ok(h)'
    BY <2>7 DEF Types, LocalsOK, Accept, Admitted, Firewall, Goto
  <2>8. QED BY <2>1, <2>2, <2>3, <2>4, <2>5, <2>6, <2>7 DEF Serve
<1>5. QED BY <1>3, <1>4 DEF LocalsOK

-----------------------------------------------------------------------------
(* Every step keeps the two equations.                                     *)

\* The counter a handler uses belongs to its user and to nobody else.
LEMMA CounterInUse ==
  ASSUME Types, LocalsOK, CountersOK, NEW h \in Handlers, pc[h] = "use"
  PROVE  /\ user[h] \in Users /\ cell[h] \in Cells
         /\ ConnCount(user[h]) = count[cell[h]]
         /\ \A u \in Users \ {user[h]} : counter[u] # cell[h]
  BY SessionsAssumption DEF LocalsOK, CountersOK, ConnCount

LEMMA ExactStep ==
  ASSUME Inv, NEW h \in Handlers,
         Serve(h) \/ \E u \in Users, k \in Kinds : Accept(h, u, k)
  PROVE  CountsAreExact' /\ SessionsAreExact'
<1> USE DEF Inv
<1>1. OthersStay(h)
  BY StepsAreLocal
<1>2. \A u \in Users : ConnCount(u) \in Int
  BY DEF Types, ConnCount
<1>3. ASSUME Lookup(h) \/ Check(h) \/ Dial(h) \/ RelayEnds(h)
             \/ \E u \in Users, k \in Kinds : Accept(h, u, k)
      PROVE  CountsAreExact' /\ SessionsAreExact'
  <2>1. UNCHANGED <<counter, count, sessions>>
    BY <1>3 DEF Lookup, Check, Dial, RelayEnds, Accept
  <2>2. ASSUME NEW u \in Users
        PROVE  /\ h \in EnteredFor(u)' <=> h \in EnteredFor(u)
               /\ h \in SessionsOf(u)' <=> h \in SessionsOf(u)
    <3>1. ASSUME Lookup(h) \/ Check(h)
          PROVE  /\ user'[h] = u /\ Entered(h)' <=> user[h] = u /\ Entered(h)
                 /\ ~(pc[h] \in {"dial", "relay", "unwind"})
                 /\ ~(kind'[h] = "direct" /\ pc'[h] \in {"dial", "relay", "unwind"})
      BY <3>1 DEF Types, Lookup, Check, Admitted, Firewall, Return, Goto, Entered
    <3>2. ASSUME Dial(h) \/ RelayEnds(h)
          PROVE  /\ user'[h] = u /\ Entered(h)' <=> user[h] = u /\ Entered(h)
                 /\ kind[h] = "direct" => /\ user'[h] = user[h]
                                          /\ kind'[h] = kind[h]
                                          /\ pc'[h] \in {"dial", "relay", "unwind"}
                 /\ pc[h] \in {"dial", "relay", "unwind"}
                 /\ kind[h] # "direct" =>
                      kind'[h] # "direct" \/ pc'[h] = "idle"
      BY <3>2 DEF Types, Dial, RelayEnds, Leaving, Return, Goto, Entered
    <3>3. ASSUME NEW v \in Users, NEW k \in Kinds, Accept(h, v, k)
          PROVE  /\ ~Entered(h) /\ ~Entered(h)'
                 /\ ~(pc[h] \in {"dial", "relay", "unwind"})
                 /\ ~(kind'[h] = "direct" /\ pc'[h] \in {"dial", "relay", "unwind"})
      BY <3>3 DEF Types, Accept, Admitted, Firewall, Goto, Entered
    <3>4. QED BY <1>3, <3>1, <3>2, <3>3, Membership
  <2>3. QED BY <1>1, <2>1, <2>2, QuietSteps
<1>4. ASSUME Create(h)
      PROVE  CountsAreExact' /\ SessionsAreExact'
  <2>1. ASSUME NEW u \in Users
        PROVE  /\ user'[h] = u /\ Entered(h)' <=> user[h] = u /\ Entered(h)
               /\ pc[h] = "create" /\ pc'[h] = "use"
    BY <1>4 DEF Types, Create, Goto, Entered
  <2>2. ASSUME NEW u \in Users
        PROVE  ConnCount(u)' = ConnCount(u)
    <3>1. CASE UNCHANGED <<counter, count>>
      BY <3>1 DEF ConnCount
    <3>2. CASE counter[user[h]] = None /\ Allocate(h)
      BY <1>4, <3>2, SessionsAssumption
         DEF ConnCount, Allocate, Fresh, Types, Create
    <3>3. QED BY <1>4, <3>1, <3>2 DEF Create
  <2>3. CountsAreExact'
    BY <1>1, <1>2, <2>1, <2>2, Membership, CountsFollow
  <2>4. SessionsAreExact'
    BY <1>1, <1>4, <2>1, Membership, SessionsFollow DEF Create, Types
  <2>5. QED BY <2>3, <2>4
<1>5. ASSUME Enter(h)
      PROVE  CountsAreExact' /\ SessionsAreExact'
  <2>1. /\ pc[h] = "use" /\ op[h] = "enter" /\ ~Entered(h) /\ Entered(h)'
        /\ user'[h] = user[h] /\ sessions' = sessions /\ counter' = counter
        /\ count' = [count EXCEPT ![cell[h]] = @ + 1]
        /\ ~(kind'[h] = "direct" /\ pc'[h] \in {"dial", "relay", "unwind"})
    BY <1>5 DEF Types, LocalsOK, Enter, Goto, Entered
  <2>2. ASSUME NEW u \in Users
        PROVE  ConnCount(u)' = IF u = user[h] THEN ConnCount(u) + 1
                                              ELSE ConnCount(u)
    BY <2>1, CounterInUse, SessionsAssumption DEF ConnCount, Types, LocalsOK
  <2>3. CountsAreExact'
    BY <1>1, <1>2, <2>1, <2>2, Membership, CountsFollow
  <2>4. SessionsAreExact'
    BY <1>1, <2>1, Membership, SessionsFollow DEF Types
  <2>5. QED BY <2>3, <2>4
<1>6. ASSUME Leave(h)
      PROVE  CountsAreExact' /\ SessionsAreExact'
  <2>1. /\ pc[h] = "use" /\ op[h] = "leave" /\ Entered(h) /\ ~Entered(h)'
        /\ pc'[h] = "idle" /\ sessions' = sessions /\ counter' = counter
        /\ count' = [count EXCEPT ![cell[h]] = @ - 1]
    BY <1>6 DEF Types, Leave, Return, Goto, Entered
  <2>2. ASSUME NEW u \in Users
        PROVE  ConnCount(u)' = IF u = user[h] THEN ConnCount(u) - 1
                                              ELSE ConnCount(u)
    BY <2>1, CounterInUse, SessionsAssumption DEF ConnCount, Types, LocalsOK
  <2>3. CountsAreExact'
    BY <1>1, <1>2, <2>1, <2>2, Membership, CountsFollow
  <2>4. SessionsAreExact'
    BY <1>1, <2>1, Membership, SessionsFollow DEF Types
  <2>5. QED BY <2>3, <2>4
<1>7. ASSUME OpenSession(h) \/ Unwind(h)
      PROVE  CountsAreExact' /\ SessionsAreExact'
  <2>1. /\ Entered(h) /\ Entered(h)' /\ UNCHANGED <<counter, count>>
        /\ user' = user /\ kind' = kind
    BY <1>7 DEF Types, LocalsOK, OpenSession, Unwind, Firewall, Goto, Entered
  <2>2. CountsAreExact'
    <3>1. \A u \in Users : ConnCount(u)' = ConnCount(u)
      BY <2>1 DEF ConnCount
    <3>2. QED BY <1>1, <1>2, <2>1, <3>1, Membership, CountsFollow
  <2>3. ASSUME OpenSession(h) PROVE SessionsAreExact'
    <3>1. /\ pc[h] = "open" /\ pc'[h] = "dial" /\ kind[h] = "direct"
          /\ \A u \in Users : sessions'[u] = IF u = user[h] THEN sessions[u] + 1
                                                            ELSE sessions[u]
      BY <2>3 DEF Types, LocalsOK, OpenSession, Goto
    <3>2. QED BY <1>1, <2>1, <3>1, Membership, SessionsFollow DEF Types
  <2>4. ASSUME Unwind(h) PROVE SessionsAreExact'
    <3>1. /\ pc[h] = "unwind" /\ pc'[h] = "lookup"
          /\ \A u \in Users :
               sessions'[u] = IF u = user[h] /\ kind[h] = "direct"
                              THEN SessionsAfterEnd(u) ELSE sessions[u]
      BY <2>4 DEF Types, LocalsOK, Unwind, Firewall, Goto
    <3>2. QED BY <1>1, <2>1, <3>1, Membership, SessionsFollow DEF Types
  <2>5. QED BY <1>7, <2>2, <2>3, <2>4
<1>8. QED BY <1>3, <1>4, <1>5, <1>6, <1>7 DEF Serve

-----------------------------------------------------------------------------

LEMMA Invariance == Spec => []Inv
<1>1. Init => Inv
  <2> SUFFICES ASSUME Init PROVE Inv
    OBVIOUS
  <2>1. \A u \in Users : EnteredFor(u) = {} /\ SessionsOf(u) = {}
    BY SessionsAssumption DEF Init, EnteredFor, SessionsOf, Entered
  <2>2. CountsAreExact /\ SessionsAreExact
    BY <2>1, FS_EmptySet DEF Init, CountsAreExact, SessionsAreExact, ConnCount
  <2>3. Types /\ LocalsOK /\ CountersOK
    BY DEF Init, Types, LocalsOK, CountersOK, AllKinds
  <2>4. QED BY <2>2, <2>3 DEF Inv
<1>2. Inv /\ [Next]_vars => Inv'
  <2> SUFFICES ASSUME Inv, [Next]_vars PROVE Inv'
    OBVIOUS
  <2>1. ASSUME NEW h \in Handlers,
               Serve(h) \/ \E u \in Users, k \in Kinds : Accept(h, u, k)
        PROVE  Inv'
    <3>1. Types' BY <2>1, TypesStep DEF Inv
    <3>2. LocalsOK' BY <2>1, LocalsStep DEF Inv
    <3>3. CountersOK' BY <2>1, CountersStep DEF Inv
    <3>4. CountsAreExact' /\ SessionsAreExact' BY <2>1, ExactStep
    <3>5. QED BY <3>1, <3>2, <3>3, <3>4 DEF Inv
  <2>2. CASE UNCHANGED vars
    BY <2>2 DEF vars, Inv, Types, LocalsOK, CountersOK, Fresh, CountsAreExact,
       SessionsAreExact, ConnCount, EnteredFor, SessionsOf, Entered
  <2>3. QED BY <2>1, <2>2 DEF Next
<1>3. QED BY <1>1, <1>2, PTL DEF Spec

\* The count that limits a user is exact whatever handlers do concurrently:
\* OnConnect and OnDisconnect pair up on every way out of a handler, on one
\* counter per user (firewall.go:122-149).
THEOREM CountsExact == Spec => []CountsAreExact
<1>1. Inv => CountsAreExact
  BY DEF Inv
<1>2. QED BY <1>1, Invariance, PTL

\* ActiveSessions counts exactly the users with a live direct connection
\* (server.go:670-680, 906-910).
THEOREM SessionsExact == Spec => []SessionsAreExact
<1>1. Inv => SessionsAreExact
  BY DEF Inv
<1>2. QED BY <1>1, Invariance, PTL

\* No counter ever becomes negative: a user cannot earn connections beyond the
\* limit by disconnecting (firewall.go:146-149).
THEOREM ServerTypes == Spec => []TypeOK
<1>1. Inv => TypeOK
  <2> SUFFICES ASSUME Inv PROVE TypeOK
    OBVIOUS
  <2>1. ASSUME NEW n \in Cells PROVE count[n] \in Nat
    <3>1. CASE Fresh(n)
      BY <3>1 DEF Inv, CountersOK
    <3>2. CASE ~Fresh(n)
      <4>1. PICK u \in Users : counter[u] = n
        BY <3>2 DEF Fresh
      <4>2. count[n] = Cardinality(EnteredFor(u))
        BY <4>1, SessionsAssumption DEF Inv, CountsAreExact, ConnCount
      <4>3. IsFiniteSet(EnteredFor(u))
        BY SessionsAssumption, FS_Subset DEF EnteredFor
      <4>4. QED BY <4>2, <4>3, FS_CardinalityType
    <3>3. QED BY <3>1, <3>2
  <2>2. QED BY <2>1 DEF Inv, Types, TypeOK
<1>2. QED BY <1>1, Invariance, PTL

=============================================================================
