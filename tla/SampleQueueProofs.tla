------------------------- MODULE SampleQueueProofs -------------------------
(***************************************************************************)
(* The ring of Sampler implements the queue of SampleQueue, for every size *)
(* of the ring, and whatever the loop's delays and the clock's corrections *)
(* are.  Spaced makes timestamps name slots, so that a count of slots is a *)
(* count of pending samples, and an older slot an older sample.            *)
(***************************************************************************)
EXTENDS SamplerProofs, FiniteSetTheorems, FunctionTheorems

-----------------------------------------------------------------------------
(* Pending samples and the slots they are in.                              *)

(* Up to the open slot, timestamps are ordered as the slots are.           *)
LEMMA Ordered ==
  ASSUME Inv, NEW a \in Slots, NEW b \in Slots, Pos(b) <= Buffered
  PROVE  /\ Pos(a) < Pos(b) => timestamp[a] < timestamp[b]
         /\ Pos(a) <= Pos(b) => timestamp[a] <= timestamp[b]
         /\ Pos(a) = Pos(b) => a = b
<1>1. /\ timestamp[a] \in Nat /\ timestamp[b] \in Nat
      /\ Pos(a) \in Nat /\ Pos(b) \in Nat
  BY PosRange DEF Inv, TypeOK
<1>2. Pos(a) <= Pos(b) => timestamp[b] - timestamp[a] >= Pos(b) - Pos(a)
  BY DEF Inv, Spaced
<1>3. Pos(a) = Pos(b) => a = b
  BY SamplerAssumption DEF Inv, TypeOK, Pos, Slots
<1> QED BY <1>1, <1>2, <1>3

LEMMA SlotAt ==
  ASSUME Inv, NEW n \in Nat, n < Buffered
  PROVE  \E s \in Live : Pos(s) = n
<1>1. Buffered \in Nat
  BY PosRange, SamplerAssumption DEF Inv, TypeOK, Buffered
<1>2. n + 1 \in 1 .. Buffered
  BY <1>1
<1>3. Batch[n + 1] \in Slots /\ Pos(Batch[n + 1]) = n
  BY <1>2, BatchSlots, ElementOfSeq DEF Inv
<1> QED BY <1>3 DEF Live

(* As many samples are pending as slots are buffered.                      *)
LEMMA PendingCount ==
  ASSUME Inv
  PROVE  /\ IsFiniteSet(Pending) /\ Cardinality(Pending) = Buffered
         /\ Buffered \in 0 .. N - 1
<1> DEFINE f == [i \in 1 .. Buffered |-> timestamp[Batch[i]]]
<1>1. Buffered \in 0 .. N - 1
  BY PosRange DEF Inv, TypeOK, Buffered
<1>2. BatchExact
  BY BatchLists DEF Inv
<1>3. Len(Batch) = Buffered
  BY <1>2 DEF BatchExact
<1>4. f \in Bijection(1 .. Buffered, Pending)
  <2>1. Pending = {f[i] : i \in 1 .. Buffered}
    BY <1>2, <1>3 DEF BatchExact
  <2>2. \A i, j \in 1 .. Buffered : i < j => f[i] < f[j]
    BY <1>2, <1>3 DEF BatchExact
  <2>3. \A i \in 1 .. Buffered : f[i] \in Nat
    <3>1. \A i \in 1 .. Buffered : Batch[i] \in Slots
      BY <1>3, BatchSlots, ElementOfSeq DEF Inv
    <3> QED BY <3>1 DEF Inv, TypeOK
  <2>4. f = [i \in 1 .. Buffered |-> f[i]]
    OBVIOUS
  <2> HIDE DEF f
  <2>5. f \in [1 .. Buffered -> Pending]
    BY <2>1, <2>4
  <2>6. \A i, j \in 1 .. Buffered : f[i] = f[j] => i = j
    BY <1>1, <2>2, <2>3
  <2> QED BY <2>1, <2>5, <2>6, Fun_IsBij
<1>5. /\ IsFiniteSet(1 .. Buffered)
      /\ Cardinality(1 .. Buffered) = Buffered
  BY <1>1, FS_Interval
<1> HIDE DEF f
<1>6. ExistsBijection(1 .. Buffered, Pending)
  BY <1>4 DEF ExistsBijection
<1> QED BY <1>1, <1>5, <1>6, FS_Bijection

LEMMA PosRangeNext == TypeOK' => (\A s \in Slots : Pos(s) \in 0 .. N - 1)'
<1>1. TypeOK => \A s \in Slots : Pos(s) \in 0 .. N - 1
  BY PosRange
<1> QED BY <1>1, PTL

LEMMA PendingCountNext ==
  Inv' => (Cardinality(Pending) = Buffered /\ Buffered \in 0 .. N - 1)'
<1>1. Inv => Cardinality(Pending) = Buffered /\ Buffered \in 0 .. N - 1
  BY PendingCount
<1> QED BY <1>1, PTL

-----------------------------------------------------------------------------
(* What each step does to the queue.                                       *)

Finished == Pending \union {timestamp[current]}

(* A sample is opened in the first slot, in a free slot, or in that of the *)
(* oldest sample.                                                          *)
OpensFirst ==
  timestamp[current] = 0 /\ Pending = {} /\ Pending' = {}

OpensNext ==
  /\ timestamp[current] # 0
  /\ Pending' = Finished /\ Cardinality(Finished) <= N - 1

OpensOverOldest ==
  /\ timestamp[current] # 0
  /\ Buffered = N - 1
  /\ Pending' = Finished \ {timestamp[start]}
  /\ timestamp[start] \in Pending /\ \A y \in Finished : timestamp[start] <= y

LEMMA AdvanceEffect ==
  ASSUME Inv, Inv', NEW bucket \in Nat, Advance(bucket)
  PROVE  /\ timestamp'[current'] > timestamp[current]
         /\ OpensFirst \/ OpensNext \/ OpensOverOldest
<1> DEFINE next == IF timestamp[current] = 0 THEN current ELSE Wrap(current + 1)
<1>1. /\ start \in 0 .. N - 1 /\ current \in 0 .. N - 1
      /\ Slots = 0 .. N - 1 /\ N \in Nat /\ N >= 2
      /\ timestamp \in [0 .. N - 1 -> Nat]
  BY SamplerAssumption DEF Inv, TypeOK, Slots
<1>2. /\ current' = next
      /\ start' = IF next # current /\ next = start THEN Wrap(start + 1) ELSE start
      /\ timestamp' = [timestamp EXCEPT ![next] = bucket]
      /\ next \in 0 .. N - 1 /\ bucket > timestamp[current]
  BY <1>1, WrapNext DEF Advance
<1>3. /\ Wrap(current + 1) = (IF current = N - 1 THEN 0 ELSE current + 1)
      /\ Wrap(start + 1) = (IF start = N - 1 THEN 0 ELSE start + 1)
  BY <1>1, WrapNext
<1>4. \A s \in Slots : Pos(s) \in 0 .. N - 1
  BY PosRange DEF Inv
<1>5. timestamp'[current'] > timestamp[current]
  <2> HIDE DEF next
  <2> QED BY <1>1, <1>2
<1>7. /\ start \in Slots /\ Pos(start) = 0 /\ current \in Slots /\ Buffered = Pos(current)
      /\ timestamp[current] \in Nat
  BY <1>1 DEF Pos, Buffered
<1>8. CASE next = current
  <2>1. timestamp[current] = 0
    BY <1>1, <1>8, WrapNext
  <2>2. start = current
    <3>1. Pos(start) <= Pos(current) /\ Pos(current) <= Buffered
      BY <1>1, <1>4, <1>7
    <3>2. timestamp[start] <= 0
      BY <1>7, <2>1, <3>1, Ordered
    <3> QED BY <3>2, <1>1 DEF Inv, Dated
  <2>3. start' = current'
    BY <1>2, <1>8, <2>2
  <2>4. Buffered = 0 /\ Buffered' = 0
    BY <1>1, <2>2, <2>3, <1>2 DEF Buffered, Pos
  <2>5. Live = {} /\ Live' = {}
    <3>1. \A s \in Slots : Pos(s)' \in 0 .. N - 1
      BY PosRangeNext DEF Inv
    <3> QED BY <1>4, <2>4, <3>1 DEF Live
  <2> QED BY <1>5, <2>1, <2>5 DEF OpensFirst, Pending
<1>9. CASE next # current
  <2>1. /\ timestamp[current] # 0
        /\ next = IF current = N - 1 THEN 0 ELSE current + 1
    BY <1>3, <1>9
  <2> HIDE DEF next
  <2>2. \A s \in Slots : s # next => timestamp'[s] = timestamp[s]
    BY <1>1, <1>2
  <2>3. Finished = {timestamp[s] : s \in Live \union {current}}
    BY DEF Finished, Pending
  <2>4. ASSUME Live' = (Live \union {current}) \ {next}
        PROVE  Pending' = {timestamp[s] : s \in (Live \union {current}) \ {next}}
    <3>1. \A s \in Live' : timestamp'[s] = timestamp[s]
      BY <2>2, <2>4, <1>7 DEF Live
    <3>2. Pending' = {timestamp'[s] : s \in Live'}
      BY DEF Pending
    <3> QED BY <2>4, <3>1, <3>2
  <2>5. CASE next # start
    <3>1. start' = start /\ current' = next
      BY <1>2, <2>5
    <3>2. /\ \A s \in Slots : Pos(s)' = Pos(s)
          /\ Buffered' = Buffered + 1 /\ Pos(next) = Buffered + 1
      BY <1>1, <2>1, <2>5, <3>1 DEF Pos, Buffered
    <3>3. \A s \in Slots : Pos(s) = Buffered => s = current
      BY <1>1 DEF Pos, Buffered
    <3>4. Live' = Live \union {current} /\ next \notin Live'
      <4>1. Buffered \in Nat
        BY <1>4, <1>7
      <4>2. \A s \in Slots : Pos(s)' < Buffered' <=> Pos(s) < Buffered \/ s = current
        BY <1>4, <1>7, <3>2, <3>3, <4>1
      <4>3. \A s \in Slots : s = next => ~ Pos(s)' < Buffered'
        BY <1>1, <1>2, <3>2, <4>1
      <4> QED BY <1>7, <4>2, <4>3 DEF Live
    <3>5. Pending' = Finished
      BY <2>3, <2>4, <3>4
    <3>6. Cardinality(Pending') = Buffered' /\ Buffered' \in 0 .. N - 1
      BY PendingCountNext
    <3> QED BY <1>1, <1>5, <2>1, <3>5, <3>6 DEF OpensNext
  <2>6. CASE next = start
    <3>1. /\ start' = (IF start = N - 1 THEN 0 ELSE start + 1)
          /\ current' = start /\ start # current
      BY <1>2, <1>3, <1>9, <2>6
    <3>2. Buffered = N - 1 /\ Buffered' = N - 1
      BY <1>1, <2>1, <2>6, <3>1 DEF Pos, Buffered
    <3>3. \A s \in Slots : s # start => Pos(s)' < N - 1 /\ (s # current => Pos(s) < N - 1)
      <4>1. CASE start = N - 1
        BY <1>1, <2>1, <2>6, <3>1, <4>1 DEF Pos
      <4>2. CASE start # N - 1
        BY <1>1, <2>1, <2>6, <3>1, <4>2 DEF Pos
      <4> QED BY <4>1, <4>2
    <3>4. \A s \in Slots : s = start => Pos(s)' = N - 1
      BY <1>1, <3>1 DEF Pos
    <3>5. Live \union {current} = Slots /\ Live' = Slots \ {start} /\ start \in Live
      BY <1>1, <1>7, <3>1, <3>2, <3>3, <3>4 DEF Live
    <3>6. Finished = {timestamp[s] : s \in Slots}
          /\ Pending' = {timestamp[s] : s \in Slots \ {start}}
      BY <2>3, <2>4, <2>6, <3>5
    <3>7. ASSUME NEW s \in Slots, s # start PROVE timestamp[start] < timestamp[s]
      <4>1. Pos(s) <= Buffered /\ Pos(s) # 0
        BY <1>1, <1>4, <3>2, <3>7, PosZero DEF Inv
      <4> QED BY <1>4, <1>7, <4>1, Ordered
    <3>8. \A s \in Slots : timestamp[s] \in Nat
      BY <1>1
    <3>9. Pending' = Finished \ {timestamp[start]}
      BY <1>7, <3>6, <3>7, <3>8
    <3>10. timestamp[start] \in Pending
      BY <3>5 DEF Pending
    <3>11. \A y \in Finished : timestamp[start] <= y
      BY <1>7, <3>6, <3>7, <3>8
    <3> QED BY <1>5, <2>1, <3>2, <3>9, <3>10, <3>11 DEF OpensOverOldest
  <2> QED BY <2>5, <2>6
<1> QED BY <1>8, <1>9

LEMMA DiscardEffect ==
  ASSUME Inv, NEW ts \in Nat, Discard(ts)
  PROVE  \/ Pending' = Pending
         \/ \E x \in Pending : Pending' = {y \in Pending : y > x}
<1>1. timestamp' = timestamp /\ current' = current
  BY DEF Discard
<1>2. PICK c \in 0 .. Buffered :
        \A s \in Slots :
          Pos(s)' = IF Pos(s) >= c THEN Pos(s) - c ELSE Pos(s) - c + N
  BY DiscardStep
<1>3. /\ current \in Slots /\ Buffered = Pos(current) /\ Buffered \in 0 .. N - 1
      /\ N \in Nat
  BY PosRange, SamplerAssumption DEF Inv, TypeOK, Buffered
<1>4. Buffered' = Buffered - c
  BY <1>1, <1>2, <1>3 DEF Buffered
<1>5. \A s \in Slots : Pos(s) \in 0 .. N - 1
  BY PosRange DEF Inv
<1>6. \A s \in Slots : Pos(s)' < Buffered' <=> Pos(s) >= c /\ Pos(s) < Buffered
  BY <1>2, <1>3, <1>4, <1>5
<1>7. Live' = {s \in Live : Pos(s) >= c}
  BY <1>6 DEF Live
<1>8. Pending' = {timestamp[s] : s \in {z \in Live : Pos(z) >= c}}
  BY <1>1, <1>7 DEF Pending
<1>9. CASE c = 0
  <2>1. {z \in Live : Pos(z) >= c} = Live
    BY <1>5, <1>9 DEF Live
  <2> QED BY <1>8, <2>1 DEF Pending
<1>10. CASE c # 0
  <2>1. PICK o \in Live : Pos(o) = c - 1
    <3>1. c - 1 \in Nat /\ c - 1 < Buffered
      BY <1>3, <1>10
    <3> QED BY <3>1, SlotAt
  <2>2. ASSUME NEW s \in Live PROVE timestamp[s] > timestamp[o] <=> Pos(s) >= c
    <3>1. /\ s \in Slots /\ o \in Slots /\ Pos(s) <= Buffered /\ Pos(o) <= Buffered
          /\ Pos(s) \in Nat /\ c \in Nat
      BY <1>3, <1>5, <2>1 DEF Live
    <3>2. timestamp[s] \in Nat /\ timestamp[o] \in Nat
      BY <3>1 DEF Inv, TypeOK
    <3>3. Pos(o) < Pos(s) => timestamp[o] < timestamp[s]
      BY <3>1, Ordered
    <3>4. Pos(s) <= Pos(o) => timestamp[s] <= timestamp[o]
      BY <3>1, Ordered
    <3> QED BY <2>1, <3>1, <3>2, <3>3, <3>4
  <2>3. timestamp[o] \in Pending
    BY DEF Pending
  <2>4. Pending' = {y \in Pending : y > timestamp[o]}
    BY <1>8, <2>2 DEF Pending
  <2> QED BY <2>3, <2>4
<1> QED BY <1>9, <1>10

-----------------------------------------------------------------------------
(* The theorems.                                                           *)

LEMMA RingUnchanged ==
  ASSUME UNCHANGED ring
  PROVE  Pending' = Pending /\ timestamp'[current'] = timestamp[current]
BY DEF ring, Pending, Live, Buffered, Pos

LEMMA LoopPassEffect ==
  ASSUME Inv, NEW d \in Elapsed, LoopPass(d)
  PROVE  \/ Pending' = Pending /\ timestamp'[current'] = timestamp[current]
         \/ /\ timestamp'[current'] > timestamp[current]
            /\ OpensFirst \/ OpensNext \/ OpensOverOldest
<1>1. Inv'
  BY LoopPassInv
<1>2. CASE ~ ShouldCall(uptime + d)
  <2>1. UNCHANGED ring
    BY <1>2 DEF LoopPass
  <2> QED BY <2>1, RingUnchanged
<1>3. CASE ShouldCall(uptime + d)
  <2> DEFINE bucket == BucketTimestamp(Now(uptime + d))
  <2>1. bucket \in Nat
    <3>1. uptime + d \in Nat
      BY SamplerAssumption DEF Inv, TypeOK
    <3> QED BY <3>1, BucketIsNat DEF Inv
  <2>2. Advance(bucket) \/ Accumulate(bucket)
    BY <1>3 DEF LoopPass, Sample
  <2> HIDE DEF bucket
  <2>3. CASE Advance(bucket)
    BY <1>1, <2>1, <2>3, AdvanceEffect
  <2>4. CASE Accumulate(bucket)
    <3>1. UNCHANGED <<start, current, timestamp>>
      BY <2>4 DEF Accumulate
    <3> QED BY <3>1 DEF Pending, Live, Buffered, Pos
  <2> QED BY <2>2, <2>3, <2>4
<1> QED BY <1>2, <1>3

(* A finished sample leaves the ring for a new one only when the ring is   *)
(* full, and then it is the oldest.                                        *)
THEOREM DropsOldestWhenFull == Spec => DropsOnlyWhenFull
<1>1. ASSUME Inv, NEW d \in Elapsed, LoopPass(d), NEW x \in Pending, x \notin Pending'
      PROVE  Cardinality(Pending) = N - 1 /\ \A y \in Pending : x <= y
  <2>1. OpensOverOldest
    BY <1>1, LoopPassEffect DEF OpensFirst, OpensNext, Finished
  <2>2. x = timestamp[start]
    BY <1>1, <2>1 DEF OpensOverOldest, Finished
  <2> QED BY <1>1, <2>1, <2>2, PendingCount DEF OpensOverOldest, Finished
<1>2. Inv /\ [Next]_vars =>
        [(\E d \in Elapsed : LoopPass(d)) =>
           \A x \in Pending : x \notin Pending' =>
             Cardinality(Pending) = N - 1 /\ \A y \in Pending : x <= y]_vars
  BY <1>1
<1>3. Spec => []Inv
  BY InitInv, NextInv, PTL DEF Spec
<1> QED BY <1>2, <1>3, PTL DEF Spec, DropsOnlyWhenFull

(* The queue counts its samples with its own instance of FiniteSets.       *)
LEMMA SameCardinality ==
  ASSUME NEW S
  PROVE  Queue!Cardinality(S) = Cardinality(S)
BY DEF Queue!Cardinality, Cardinality

(* A sample opened in the ring is a sample opened in the queue.            *)
LEMMA OpenStep ==
  ASSUME Inv, timestamp'[current'] > timestamp[current],
         OpensFirst \/ OpensNext \/ OpensOverOldest
  PROVE  Queue!Open
<1>1. /\ IsFiniteSet(Pending) /\ Cardinality(Pending) = Buffered
      /\ N \in Nat /\ N >= 2 /\ timestamp[current] \in Nat
      /\ \A y \in Finished : y \in Nat
  BY PendingCount, SamplerAssumption DEF Inv, TypeOK, Finished, Pending, Live
<1> DEFINE finished == Pending \union (IF timestamp[current] = 0 THEN {} ELSE {timestamp[current]})
<1>2. SUFFICES Pending' = IF Cardinality(finished) > N - 1
                            THEN finished \ {Queue!Oldest(finished)} ELSE finished
  BY SameCardinality DEF Queue!Open
<1>3. CASE OpensFirst
  <2>1. finished = {} /\ Cardinality(finished) = 0
    BY <1>3, FS_EmptySet DEF OpensFirst
  <2> HIDE DEF finished
  <2> QED BY <1>1, <1>3, <2>1 DEF OpensFirst
<1>4. CASE OpensNext
  <2>1. finished = Finished
    BY <1>4 DEF OpensNext, Finished
  <2>2. Cardinality(Finished) \in Nat
    <3>1. IsFiniteSet(Finished)
      BY <1>1, FS_AddElement DEF Finished
    <3> QED BY <3>1, FS_CardinalityType
  <2> HIDE DEF finished
  <2> QED BY <1>1, <1>4, <2>1, <2>2 DEF OpensNext
<1>5. CASE OpensOverOldest
  <2>1. finished = Finished
    BY <1>5 DEF OpensOverOldest, Finished
  <2>2. timestamp[current] \notin Pending
    <3>1. ASSUME NEW s \in Live PROVE timestamp[s] < timestamp[current]
      <4>1. s \in Slots /\ current \in Slots /\ Pos(current) = Buffered /\ Pos(s) < Buffered
        BY DEF Live, Inv, TypeOK, Buffered
      <4>2. Pos(current) <= Buffered
        BY <4>1, PendingCount
      <4> QED BY <4>1, <4>2, Ordered
    <3>2. \A s \in Live : timestamp[s] \in Nat
      BY DEF Live, Inv, TypeOK
    <3> QED BY <1>1, <3>1, <3>2 DEF Pending
  <2>3. Cardinality(Finished) = N
    <3>1. Cardinality(Finished) = Cardinality(Pending) + 1
      BY <1>1, <2>2, FS_AddElement, Zenon DEF Finished
    <3> QED BY <1>1, <1>5, <3>1 DEF OpensOverOldest
  <2>4. Queue!Oldest(Finished) = timestamp[start]
    <3>1. /\ timestamp[start] \in Finished
          /\ \A y \in Finished : timestamp[start] <= y
      BY <1>5 DEF OpensOverOldest, Finished
    <3>2. /\ Queue!Oldest(Finished) \in Finished
          /\ \A y \in Finished : Queue!Oldest(Finished) <= y
      BY <3>1 DEF Queue!Oldest
    <3>3. Queue!Oldest(Finished) <= timestamp[start] /\ timestamp[start] <= Queue!Oldest(Finished)
      BY <3>1, <3>2
    <3>4. Queue!Oldest(Finished) \in Nat /\ timestamp[start] \in Nat
      BY <1>1, <3>1, <3>2
    <3> QED BY <3>3, <3>4
  <2> HIDE DEF finished
  <2> QED BY <1>1, <1>5, <2>1, <2>3, <2>4 DEF OpensOverOldest
<1> QED BY <1>3, <1>4, <1>5

(* The ring, with its indices, counts and modular arithmetic, is a bounded *)
(* queue of samples for whoever uses it.                                   *)
THEOREM RingImplementsQueue == Spec => QueueSpec
<1>1. Init => Queue!Init
  BY SamplerAssumption DEF Init, Queue!Init, Pending, Live, Slots, Buffered, Pos
<1>2. ASSUME Inv, [Next]_vars PROVE [Queue!Next]_(Queue!vars)
  <2>1. ASSUME Pending' = Pending, timestamp'[current'] = timestamp[current]
        PROVE  UNCHANGED Queue!vars
    BY <2>1 DEF Queue!vars
  <2>2. ASSUME NEW d \in Elapsed, LoopPass(d) PROVE [Queue!Next]_(Queue!vars)
    BY <1>2, <2>1, <2>2, LoopPassEffect, OpenStep DEF Queue!Next
  <2>3. ASSUME UNCHANGED ring PROVE UNCHANGED Queue!vars
    BY <2>1, <2>3, RingUnchanged
  <2>4. ASSUME NEW o \in Offsets, SetTime(o) PROVE UNCHANGED Queue!vars
    BY <2>3, <2>4 DEF SetTime
  <2>5. CASE Send
    BY <2>3, <2>5 DEF Send
  <2>6. ASSUME NEW ts \in sent, Discard(ts) PROVE [Queue!Next]_(Queue!vars)
    <3>1. ts \in Nat
      BY <1>2 DEF Inv, TypeOK
    <3>2. timestamp'[current'] = timestamp[current]
      BY <2>6 DEF Discard
    <3>3. \/ Pending' = Pending
          \/ \E x \in Pending : Pending' = {y \in Pending : y > x}
      BY <1>2, <2>6, <3>1, DiscardEffect
    <3>4. CASE Pending' = Pending
      BY <2>1, <3>2, <3>4
    <3>5. CASE \E x \in Pending : Pending' = {y \in Pending : y > x}
      BY <3>2, <3>5 DEF Queue!Next, Queue!Release
    <3> QED BY <3>3, <3>4, <3>5
  <2>7. CASE UNCHANGED vars
    BY <2>3, <2>7 DEF vars
  <2>8. CASE Next
    BY <2>2, <2>4, <2>5, <2>6, <2>8 DEF Next
  <2> QED BY <1>2, <2>7, <2>8
<1>3. Spec => []Inv
  BY InitInv, NextInv, PTL DEF Spec
<1> QED BY <1>1, <1>2, <1>3, PTL DEF Spec, QueueSpec, Queue!Spec
=============================================================================
