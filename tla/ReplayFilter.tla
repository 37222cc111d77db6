----------------------------- MODULE ReplayFilter -----------------------------
(***************************************************************************)
(* The rotating replay filter of the server (core/transport/replay.go):    *)
(* two Bloom filters, of which the current one is written and both are     *)
(* asked.  Connections ask concurrently, first under the read lock, then   *)
(* again under the write lock; a ticker rotates the filters at any time.   *)
(*                                                                         *)
(* A Bloom filter is the set of its bits that are set, and Bits gives the  *)
(* positions that the hash functions choose for a datum, so that false     *)
(* positives happen as in the code.  age is a history variable: it is not  *)
(* in the code and no guard reads it.                                      *)
(***************************************************************************)
EXTENDS Naturals

CONSTANTS
  Callers,    \* connections that may ask at the same time
  Data,       \* client randoms
  Positions,  \* the m bits of a filter
  Bits,       \* datum -> the positions of its k hashes
  None

ASSUME FilterAssumption ==
  /\ Bits \in [Data -> (SUBSET Positions) \ {{}}]
  /\ None \notin Data

VARIABLES
  current, previous,  \* the bits set in the two filters
  request,  \* the datum a caller asks about
  checked,  \* the caller has passed the read-locked half of CheckAndAdd
  answer,   \* what CheckAndAdd returned to it
  age       \* history: rotations since a datum was last let in

vars == <<current, previous, request, checked, answer, age>>

\* The bits and the locks are forgotten; what is asked, answered and remembered
\* is what the promise speaks of.
Window == INSTANCE ReplayWindow
  WITH request <- request, answer <- answer, age <- age

TypeOK ==
  /\ current \subseteq Positions /\ previous \subseteq Positions
  /\ request \in [Callers -> Data \cup {None}]
  /\ checked \in [Callers -> BOOLEAN]
  /\ answer \in [Callers -> {"none", "new", "replay"}]
  /\ age \in [Data -> Window!Ages]
  /\ \A c \in Callers : checked[c] => request[c] # None

\* NewReplayFilter: previous is nil, which is asked like an empty filter.
Init ==
  /\ current = {} /\ previous = {}
  /\ request = [c \in Callers |-> None]
  /\ checked = [c \in Callers |-> FALSE]
  /\ answer = [c \in Callers |-> "none"]
  /\ age = [d \in Data |-> Window!Expired]

-----------------------------------------------------------------------------

\* BloomFilter.Contains and Add, each under the lock of the replay filter.
\* previous is nil until the first rotation; like a nil filter, an empty one
\* contains nothing, for there is at least one hash.
Contains(filter, d) == Bits[d] \subseteq filter
Added(filter, d) == filter \cup Bits[d]

Known(d) == Contains(current, d) \/ Contains(previous, d)

Ask(c, d) ==
  /\ request[c] = None
  /\ request' = [request EXCEPT ![c] = d]
  /\ answer' = [answer EXCEPT ![c] = "none"]
  /\ UNCHANGED <<current, previous, checked, age>>

Answer(c, verdict) ==
  /\ answer' = [answer EXCEPT ![c] = verdict]
  /\ request' = [request EXCEPT ![c] = None]
  /\ checked' = [checked EXCEPT ![c] = FALSE]

\* CheckAndAdd up to the release of the read lock.
CheckShared(c) ==
  /\ request[c] # None /\ ~checked[c]
  /\ \/ /\ Known(request[c])
        /\ Answer(c, "replay")
     \/ /\ ~Known(request[c])
        /\ checked' = [checked EXCEPT ![c] = TRUE]
        /\ UNCHANGED <<request, answer>>
  /\ UNCHANGED <<current, previous, age>>

Add(c) ==
  /\ current' = Added(current, request[c])
  /\ age' = [age EXCEPT ![request[c]] = 0]
  /\ Answer(c, "new")

\* Mutated form: what the read-locked half found is taken to be still true.
AddUnchecked(c) ==
  /\ checked[c]
  /\ Add(c)
  /\ UNCHANGED previous

\* CheckAndAdd from the acquisition of the write lock.
CheckExclusive(c) ==
  /\ checked[c]
  /\ \/ /\ Known(request[c])
        /\ Answer(c, "replay")
        /\ UNCHANGED <<current, age>>
     \/ /\ ~Known(request[c])
        /\ Add(c)
  /\ UNCHANGED previous

\* Mutated form: the filter that is written is not replaced.
RotateKeepsCurrent ==
  /\ previous' = current
  /\ age' = [d \in Data |-> Window!Older(age[d])]
  /\ UNCHANGED <<current, request, checked, answer>>

\* rotate, at a tick of autoRotate.
Rotate ==
  /\ previous' = current
  /\ current' = {}
  /\ age' = [d \in Data |-> Window!Older(age[d])]
  /\ UNCHANGED <<request, checked, answer>>

Next ==
  \/ \E c \in Callers :
       CheckShared(c) \/ CheckExclusive(c) \/ \E d \in Data : Ask(c, d)
  \/ Rotate

Spec == Init /\ [][Next]_vars

-----------------------------------------------------------------------------
(* Properties.                                                             *)

\* What was let in is in one of the two filters until the second rotation
\* (replay_test.go:47-50), whoever asks and rotates in between.
Remembered ==
  \A d \in Data : /\ age[d] = 0 => Contains(current, d)
                  /\ age[d] = 1 => Contains(previous, d)

\* Nothing is remembered for longer: a bit is set only by a datum of the last
\* two periods, so a server that runs for long does not fill up
\* (replay_test.go:54-56).
Forgotten ==
  /\ \A b \in current : \E d \in Data : age[d] = 0 /\ b \in Bits[d]
  /\ \A b \in previous : \E d \in Data : age[d] = 1 /\ b \in Bits[d]

\* The filter keeps the promise of ReplayWindow: each answer takes effect at
\* once, and none lets in what is still remembered.
KeepsWindow == Window!Spec

=============================================================================
