--------------------------- MODULE SamplerProofs ---------------------------
(***************************************************************************)
(* Theorems about Sampler, for every buffer size, sampling rate, clock     *)
(* correction and loop delay.  Spaced is the invariant everything rests    *)
(* on; it needs the types and, for the samples of the unsynchronised       *)
(* clock, Dated.                                                           *)
(***************************************************************************)
EXTENDS Sampler, SequenceTheorems, TLAPS

(* The inductive invariant. *)
Inv == TypeOK /\ Spaced /\ Dated /\ SentClosed

-----------------------------------------------------------------------------
(* Arithmetic of the ring.                                                 *)

(* One turn of the buffer is all a discard can wrap.                       *)
LEMMA ModOnce ==
  ASSUME NEW x \in Nat, x < 2 * N
  PROVE  x % N = IF x < N THEN x ELSE x - N
<1>1. CASE x < N
  BY <1>1, SamplerAssumption, SMT
<1>2. CASE x >= N
  BY <1>2, SamplerAssumption, SMT
<1> QED BY <1>1, <1>2, SamplerAssumption

(* Positions count the slots from start, so they name every slot once.     *)
LEMMA PosRange ==
  ASSUME TypeOK, NEW s \in Slots
  PROVE  Pos(s) \in 0 .. N - 1
BY SamplerAssumption DEF TypeOK, Pos, Slots

LEMMA PosZero ==
  ASSUME TypeOK, NEW s \in Slots, Pos(s) = 0
  PROVE  s = start
BY SamplerAssumption DEF TypeOK, Pos, Slots

LEMMA WrapNext ==
  ASSUME NEW s \in Slots
  PROVE  /\ Wrap(s + 1) \in Slots
         /\ Wrap(s + 1) = IF s = N - 1 THEN 0 ELSE s + 1
         /\ Wrap(s + 1) # s
BY SamplerAssumption DEF Wrap, Slots

LEMMA BucketIsNat ==
  ASSUME TypeOK, NEW t \in Nat
  PROVE  BucketTimestamp(Now(t)) \in Nat
<1>1. Now(t) \in Nat
  BY DEF TypeOK, Now
<1>2. \A x \in Nat : (x - (x % PERIOD)) \div PERIOD \in Nat
  BY SamplerAssumption, SMT
<1> QED BY <1>1, <1>2 DEF BucketTimestamp

(* The slots of a batch are the live slots in order.                       *)
LEMMA BatchSlots ==
  ASSUME TypeOK
  PROVE  /\ Batch \in Seq(Slots)
         /\ Len(Batch) = Buffered
         /\ \A i \in 1 .. Buffered : Pos(Batch[i]) = i - 1
<1> DEFINE first == IF current > start THEN current ELSE N
           A == [i \in 1 .. first - start |-> start + i - 1]
           B == [i \in 1 .. current |-> i - 1]
<1> USE SamplerAssumption DEF TypeOK, Slots
<1>1. first - start \in Nat /\ current \in Nat
  OBVIOUS
<1>2. A \in Seq(Slots) /\ Len(A) = first - start
  <2>1. A \in [1 .. first - start -> Slots]
    OBVIOUS
  <2>2. DOMAIN A = 1 .. first - start
    OBVIOUS
  <2> HIDE DEF A, first
  <2> QED BY <1>1, <2>1, <2>2
<1>3. B \in Seq(Slots) /\ Len(B) = current
  <2>1. B \in [1 .. current -> Slots]
    OBVIOUS
  <2>2. DOMAIN B = 1 .. current
    OBVIOUS
  <2> HIDE DEF B
  <2> QED BY <1>1, <2>1, <2>2
<1>4. CASE start = current
  <2>1. GetSamples(0) = << >> /\ GetSamples(1) = << >>
    BY <1>4 DEF GetSamples
  <2>2. Batch = << >>
    BY <2>1 DEF Batch
  <2> QED BY <2>2, <1>4 DEF Buffered, Pos
<1>5. CASE start < current
  <2>1. GetSamples(0) = A /\ GetSamples(1) = << >>
    BY <1>5 DEF GetSamples
  <2>2. Batch = A
    <3> HIDE DEF A
    <3> QED BY <2>1, <1>2, ConcatEmptySeq DEF Batch
  <2>3. Buffered = current - start /\ first = current
    BY <1>5 DEF Buffered, Pos
  <2>4. \A i \in 1 .. Buffered : Batch[i] = start + i - 1
    BY <2>2, <2>3
  <2>5. \A i \in 1 .. Buffered : Pos(start + i - 1) = i - 1
    BY <2>3, <1>5 DEF Pos
  <2> HIDE DEF A
  <2> QED BY <2>2, <2>3, <2>4, <2>5, <1>2
<1>6. CASE current < start
  <2>1. GetSamples(0) = A /\ GetSamples(1) = B
    BY <1>6 DEF GetSamples
  <2>2. Buffered = current + N - start /\ first = N
    BY <1>6 DEF Buffered, Pos
  <2>3. /\ Batch \in Seq(Slots)
        /\ Len(Batch) = (N - start) + current
        /\ \A i \in 1 .. (N - start) + current :
             Batch[i] = IF i <= N - start THEN A[i] ELSE B[i - (N - start)]
    <3>1. Len(A) = N - start /\ Len(B) = current
      BY <2>2, <1>2, <1>3
    <3>2. Batch = A \o B
      BY <2>1 DEF Batch
    <3> HIDE DEF A, B, Slots
    <3>3. /\ A \o B \in Seq(Slots)
          /\ Len(A \o B) = Len(A) + Len(B)
          /\ \A i \in 1 .. Len(A) + Len(B) :
               (A \o B)[i] = IF i <= Len(A) THEN A[i] ELSE B[i - Len(A)]
      BY <1>2, <1>3, ConcatProperties
    <3> QED BY <3>1, <3>2, <3>3
  <2>4. \A i \in 1 .. Buffered :
          Batch[i] = IF i <= N - start THEN start + i - 1 ELSE i - (N - start) - 1
    <3>1. \A i \in 1 .. N - start : A[i] = start + i - 1
      BY <2>2
    <3>2. \A i \in 1 .. current : B[i] = i - 1
      OBVIOUS
    <3> HIDE DEF A, B
    <3>3. SUFFICES ASSUME NEW i \in 1 .. Buffered
                   PROVE  Batch[i] = IF i <= N - start THEN start + i - 1
                                     ELSE i - (N - start) - 1
      OBVIOUS
    <3>4. CASE i <= N - start
      BY <3>1, <3>4, <2>2, <2>3
    <3>5. CASE i > N - start
      <4>1. i - (N - start) \in 1 .. current
        BY <3>5, <2>2
      <4> QED BY <3>2, <3>5, <4>1, <2>2, <2>3
    <3> QED BY <3>4, <3>5, <2>2
  <2>5. \A i \in 1 .. Buffered :
          Pos(IF i <= N - start THEN start + i - 1 ELSE i - (N - start) - 1) = i - 1
    BY <2>2, <1>6 DEF Pos
  <2>6. Len(Batch) = Buffered
    BY <2>2, <2>3
  <2> HIDE DEF A, B
  <2> QED BY <2>3, <2>4, <2>5, <2>6
<1> QED BY <1>4, <1>5, <1>6

-----------------------------------------------------------------------------
(* The invariant is inductive.                                             *)

LEMMA InitInv == Init => Inv
BY SamplerAssumption DEF Init, Inv, TypeOK, Spaced, Dated, SentClosed, Slots, Pos, Buffered

LEMMA AdvanceInv ==
  ASSUME Inv, NEW bucket \in Nat, Advance(bucket), UNCHANGED sent
  PROVE  /\ start' \in Slots /\ current' \in Slots
         /\ timestamp' \in [Slots -> Nat]
         /\ sample_count' \in [Slots -> 0 .. CountMod - 1]
         /\ Spaced' /\ Dated' /\ SentClosed'
<1> DEFINE next == IF timestamp[current] = 0 THEN current ELSE Wrap(current + 1)
<1> USE SamplerAssumption DEF Slots, Pos, Buffered
<1>0. /\ start \in 0 .. N - 1 /\ current \in 0 .. N - 1
      /\ timestamp \in [0 .. N - 1 -> Nat]
      /\ sample_count \in [Slots -> 0 .. CountMod - 1]
      /\ Slots = 0 .. N - 1
  BY DEF Inv, TypeOK, Slots
<1>1. /\ next \in Slots
      /\ bucket > timestamp[current]
      /\ current' = next
      /\ start' = IF next # current /\ next = start THEN Wrap(start + 1) ELSE start
      /\ timestamp' = [timestamp EXCEPT ![next] = bucket]
      /\ sample_count' = [sample_count EXCEPT ![next] = 1 % CountMod]
  BY <1>0, WrapNext DEF Advance
<1>2. start' \in Slots
  BY <1>0, <1>1, WrapNext
<1>3. /\ timestamp' \in [Slots -> Nat]
      /\ sample_count' \in [Slots -> 0 .. CountMod - 1]
  <2>1. 1 % CountMod \in 0 .. CountMod - 1
    BY SMT
  <2> HIDE DEF next
  <2> QED BY <2>1, <1>0, <1>1
<1>4. SentClosed'
  <2>1. timestamp'[current'] = bucket
    BY <1>0, <1>1
  <2> QED BY <2>1, <1>0, <1>1 DEF SentClosed, Inv, TypeOK
<1>w. Wrap(current + 1) = (IF current = N - 1 THEN 0 ELSE current + 1)
       /\ Wrap(start + 1) = (IF start = N - 1 THEN 0 ELSE start + 1)
  BY <1>0, WrapNext
<1>p. \A s \in Slots : Pos(s) \in 0 .. N - 1
  BY PosRange DEF Inv
<1>5. CASE next = current
  <2>1. timestamp[current] = 0
    BY <1>0, <1>5, WrapNext
  <2>2. start = current
    <3>1. start \in Slots /\ current \in Slots /\ Pos(start) = 0
      BY <1>0
    <3>2. timestamp[current] - timestamp[start] >= Pos(current) - Pos(start)
      BY <1>p, <3>1 DEF Inv, Spaced
    <3> QED BY <1>0, <1>p, <2>1, <3>1, <3>2 DEF Inv, Dated
  <2>3. start' = current /\ current' = current
    BY <1>1, <1>5, <2>2
  <2>4. Spaced'
    <3> SUFFICES ASSUME NEW a \in Slots, NEW b \in Slots,
                        Pos(a)' <= Pos(b)', Pos(b)' <= Buffered'
                 PROVE  timestamp'[b] - timestamp'[a] >= Pos(b)' - Pos(a)'
      BY DEF Spaced
    <3>1. Buffered' = 0
      BY <1>0, <2>3
    <3>2. \A s \in Slots : Pos(s)' = IF s >= current THEN s - current ELSE s + N - current
      BY <2>3
    <3>3. a = b
      BY <1>0, <2>3, <3>1, <3>2
    <3> QED BY <1>0, <1>3, <2>3, <3>3
  <2> QED BY <1>1, <1>2, <1>3, <1>4, <2>3, <2>4 DEF Dated
<1>6. CASE next # current /\ next # start
  <2>1. /\ current' = IF current = N - 1 THEN 0 ELSE current + 1
        /\ start' = start /\ current' = next /\ next # start
    BY <1>1, <1>6, <1>w
  <2>2. \A s \in Slots : Pos(s)' = Pos(s)
    BY <2>1
  <2>3. Pos(current') = Pos(current) + 1
    BY <2>1, <1>0
  <2>4. Buffered' = Buffered + 1
    BY <2>1, <2>3
  <2>5. \A s \in Slots : Pos(s) = Buffered + 1 => s = next
    <3> HIDE DEF next
    <3> QED BY <2>1, <1>0
  <2>6. \A s \in Slots : s # next => timestamp'[s] = timestamp[s]
    BY <1>0, <1>1
  <2>7. timestamp'[next] = bucket /\ bucket > timestamp[current]
    BY <1>0, <1>1
  <2>8. Spaced'
    <3> SUFFICES ASSUME NEW a \in Slots, NEW b \in Slots,
                        Pos(a) <= Pos(b), Pos(b) <= Buffered + 1
                 PROVE  timestamp'[b] - timestamp'[a] >= Pos(b) - Pos(a)
      BY <2>2, <2>4 DEF Spaced
    <3> HIDE DEF next
    <3>n. next \in Slots /\ Pos(next) = Buffered + 1
      BY <1>1, <2>1, <2>3
    <3>1. CASE Pos(b) <= Buffered
      <4>1. a # next /\ b # next
        BY <3>1, <3>n, <1>0
      <4> QED BY <3>1, <4>1, <2>6 DEF Inv, Spaced
    <3>2. CASE Pos(b) = Buffered + 1
      <4>1. b = next
        BY <3>2, <2>5
      <4>2. CASE a = next
        BY <4>1, <4>2, <1>p, <1>3
      <4>3. CASE a # next
        <5>1. Pos(a) <= Buffered
          BY <4>3, <3>2, <2>5, <1>p, <1>0
        <5>2. timestamp[current] - timestamp[a] >= Pos(current) - Pos(a)
          BY <5>1, <1>0, <1>p DEF Inv, Spaced
        <5>3. timestamp'[a] = timestamp[a] /\ timestamp'[b] = bucket
          BY <4>1, <4>3, <2>6, <2>7
        <5> QED BY <5>2, <5>3, <3>2, <2>7, <1>p, <1>0
      <4> QED BY <4>2, <4>3
    <3> QED BY <3>1, <3>2, <1>p, <1>0
  <2>9. Dated'
    <3>1. timestamp[current] > 0
      BY <1>0, <1>6
    <3>2. timestamp[start] > 0
      BY <3>1 DEF Inv, Dated
    <3> QED BY <3>2, <2>1, <2>6, <1>0 DEF Dated
  <2> QED BY <1>1, <1>2, <1>3, <1>4, <2>8, <2>9
<1>7. CASE next # current /\ next = start
  <2>1. /\ current' = start
        /\ start = IF current = N - 1 THEN 0 ELSE current + 1
        /\ start' = IF start = N - 1 THEN 0 ELSE start + 1
    BY <1>1, <1>7, <1>w
  <2>2. Buffered = N - 1 /\ Pos(start) = 0
    BY <2>1, <1>0
  <2>3. \A s \in Slots : Pos(s)' = IF s = start THEN N - 1 ELSE Pos(s) - 1
    BY <2>1, <1>0
  <2>4. \A s \in Slots : s # start => timestamp'[s] = timestamp[s]
    BY <1>0, <1>1, <1>7
  <2>5. timestamp'[start] = bucket /\ bucket > timestamp[current]
    BY <1>0, <1>1, <1>7
  <2>6. Spaced'
    <3> SUFFICES ASSUME NEW a \in Slots, NEW b \in Slots, Pos(a)' <= Pos(b)'
                 PROVE  timestamp'[b] - timestamp'[a] >= Pos(b)' - Pos(a)'
      BY DEF Spaced
    <3>1. CASE b # start
      <4>1. a # start
        BY <3>1, <2>1, <1>0
      <4>p. Pos(a) \in 0 .. N - 1 /\ Pos(b) \in 0 .. N - 1
        BY <1>p
      <4>q. Pos(a)' = Pos(a) - 1 /\ Pos(b)' = Pos(b) - 1
        BY <3>1, <4>1, <2>3
      <4>2. Pos(a) <= Pos(b) /\ Pos(b) <= Buffered
        <5> HIDE DEF Pos, Buffered, Slots
        <5> QED BY <4>p, <4>q, <2>2
      <4>3. timestamp[b] - timestamp[a] >= Pos(b) - Pos(a)
        BY <4>2 DEF Inv, Spaced
      <4>4. timestamp'[a] = timestamp[a] /\ timestamp'[b] = timestamp[b]
        BY <3>1, <4>1, <2>4
      <4>5. Pos(b)' - Pos(a)' = Pos(b) - Pos(a)
        BY <3>1, <4>1, <2>1, <1>0
      <4> QED BY <4>3, <4>4, <4>5
    <3>2. CASE b = start /\ a # start
      <4>1. timestamp[current] - timestamp[a] >= Pos(current) - Pos(a)
        BY <2>2, <1>p, <1>0 DEF Inv, Spaced
      <4>2. timestamp'[a] = timestamp[a] /\ timestamp'[b] = bucket
        BY <3>2, <2>4, <2>5
      <4>3. Pos(b)' - Pos(a)' = Pos(current) - Pos(a) + 1
        BY <3>2, <2>1, <1>0
      <4>4. timestamp[current] \in Nat /\ timestamp[a] \in Nat /\ bucket > timestamp[current]
        BY <2>5, <1>0
      <4>5. Pos(current) \in Int /\ Pos(a) \in Int
        BY <1>p, <1>0
      <4> HIDE DEF Pos, Buffered, Slots
      <4>6. timestamp'[b] - timestamp'[a] = bucket - timestamp[a]
        BY <4>2
      <4>7. bucket - timestamp[a] >= Pos(current) - Pos(a) + 1
        BY <4>1, <4>4, <4>5
      <4> QED BY <4>3, <4>6, <4>7
    <3>3. CASE b = start /\ a = start
      BY <3>3, <2>3, <2>5, <1>0
    <3> QED BY <3>1, <3>2, <3>3
  <2>7. Dated'
    <3>1. start' \in Slots /\ Pos(start') = 1 /\ start' # start
      BY <2>1, <1>0
    <3>2. timestamp[start'] - timestamp[start] >= 1
      <4>1. Pos(start) <= Pos(start') /\ Pos(start') <= Buffered
        BY <3>1, <2>2
      <4>2. start \in Slots
        BY <1>0
      <4>3. timestamp[start'] - timestamp[start] >= Pos(start') - Pos(start)
        <5> HIDE DEF Pos, Buffered, Slots
        <5> QED BY <3>1, <4>1, <4>2 DEF Inv, Spaced
      <4>4. timestamp[start'] \in Nat /\ timestamp[start] \in Nat
        BY <3>1, <4>2, <1>0
      <4> QED BY <3>1, <4>3, <4>4, <2>2
    <3> QED BY <3>1, <3>2, <2>4, <1>0 DEF Dated
  <2> QED BY <1>1, <1>2, <1>3, <1>4, <2>6, <2>7
<1> QED BY <1>5, <1>6, <1>7

LEMMA LoopPassInv ==
  ASSUME Inv, NEW d \in Elapsed, LoopPass(d)
  PROVE  Inv'
<1> DEFINE t == uptime + d
<1>1. t \in Nat /\ d \in Nat
  BY SamplerAssumption DEF Inv, TypeOK
<1>2. uptime' = t /\ offset' = offset /\ sent' = sent
  BY DEF LoopPass
<1>3. CASE ~ ShouldCall(t)
  <2>1. UNCHANGED <<lastCall, start, current, timestamp, sample_count>>
    BY <1>3 DEF LoopPass, ring
  <2> QED BY <2>1, <1>1, <1>2
          DEF Inv, TypeOK, Spaced, Dated, SentClosed, Pos, Buffered
<1>4. CASE ShouldCall(t)
  <2>1. lastCall' = t - (t % RATE) /\ Sample(t)
    BY <1>4 DEF LoopPass
  <2>2. lastCall' \in Nat
    BY <2>1, <1>1, SamplerAssumption, SMT
  <2> DEFINE bucket == BucketTimestamp(Now(t))
  <2>3. bucket \in Nat
    BY <1>1, BucketIsNat DEF Inv
  <2>4. CASE Advance(bucket)
    <3> HIDE DEF bucket
    <3> QED BY <2>4, <2>2, <2>3, <1>1, <1>2, AdvanceInv DEF Inv, TypeOK
  <2>5. CASE Accumulate(bucket)
    <3>1. /\ sample_count' = [sample_count EXCEPT ![current] = (@ + 1) % CountMod]
          /\ UNCHANGED <<start, current, timestamp>>
      BY <2>5 DEF Accumulate
    <3>2. \A n \in Nat : n % CountMod \in 0 .. CountMod - 1
      BY SamplerAssumption, SMT
    <3>3. sample_count' \in [Slots -> 0 .. CountMod - 1]
      BY <3>1, <3>2, SamplerAssumption DEF Inv, TypeOK
    <3> QED BY <3>1, <3>3, <2>2, <1>1, <1>2
            DEF Inv, TypeOK, Spaced, Dated, SentClosed, Pos, Buffered
  <2> QED BY <2>1, <2>4, <2>5 DEF Sample
<1> QED BY <1>3, <1>4

LEMMA SendInv ==
  ASSUME Inv, Send
  PROVE  Inv'
<1>1. UNCHANGED <<uptime, offset, lastCall, start, current, timestamp, sample_count>>
  BY DEF Send, clock, ring
<1>2. \A ts \in sent' : ts \in Nat /\ ts < timestamp[current]
  <2>1. CASE Batch = << >>
    BY <2>1 DEF Send, Inv, TypeOK, SentClosed
  <2>2. CASE Batch # << >>
    <3> DEFINE last == Batch[Len(Batch)]
    <3>1. Buffered \in 1 .. N - 1
      <4>1. Len(Batch) # 0 /\ Len(Batch) = Buffered
        BY <2>2, BatchSlots, EmptySeq DEF Inv
      <4>2. Buffered \in 0 .. N - 1
        BY PosRange DEF Inv, TypeOK, Buffered
      <4> QED BY <4>1, <4>2, SamplerAssumption
    <3>2. last \in Slots /\ Pos(last) = Buffered - 1
      BY <3>1, BatchSlots, ElementOfSeq, SamplerAssumption DEF Inv
    <3>3. timestamp[current] - timestamp[last] >= 1
      <4>1. current \in Slots /\ Pos(current) = Buffered
        BY DEF Inv, TypeOK, Buffered
      <4>2. timestamp[current] - timestamp[last] >= Pos(current) - Pos(last)
        BY <3>1, <3>2, <4>1, SamplerAssumption DEF Inv, Spaced
      <4> QED BY <4>1, <4>2, <3>1, <3>2, SamplerAssumption DEF Inv, TypeOK
    <3>4. sent' = sent \union {timestamp[last]}
      BY <2>2 DEF Send
    <3> HIDE DEF last
    <3> QED BY <3>2, <3>3, <3>4 DEF Inv, TypeOK, SentClosed
  <2> QED BY <2>1, <2>2
<1> QED BY <1>1, <1>2 DEF Inv, TypeOK, Spaced, Dated, SentClosed, Pos, Buffered

(* A discard moves start forward by at most the samples buffered.          *)
LEMMA DiscardStep ==
  ASSUME Inv, NEW ts \in Nat, Discard(ts)
  PROVE  \E c \in 0 .. Buffered :
           /\ start' \in Slots
           /\ \A s \in Slots :
                Pos(s)' = IF Pos(s) >= c THEN Pos(s) - c ELSE Pos(s) - c + N
           /\ Pos(start') = c
           /\ c = IF DiscardCount(ts) < 0 THEN 0
                  ELSE IF DiscardCount(ts) > Buffered THEN Buffered
                  ELSE DiscardCount(ts)
<1> DEFINE c == IF DiscardCount(ts) < 0 THEN 0
                ELSE IF DiscardCount(ts) > Buffered THEN Buffered
                ELSE DiscardCount(ts)
<1> USE SamplerAssumption DEF Slots
<1>0. /\ start \in 0 .. N - 1 /\ current \in 0 .. N - 1
      /\ timestamp \in [0 .. N - 1 -> Nat]
      /\ Slots = 0 .. N - 1
  BY DEF Inv, TypeOK, Slots
<1>1. Buffered \in 0 .. N - 1
  BY <1>0 DEF Buffered, Pos
<1>2. DiscardCount(ts) \in Int
  BY <1>0 DEF DiscardCount
<1>3. c \in 0 .. Buffered
  BY <1>1, <1>2
<1>4. start' = (start + c) % N
  <2>1. CASE DiscardCount(ts) < 0
    <3>1. start' = start /\ c = 0
      BY <2>1, <1>2 DEF Discard
    <3>2. start % N = start
      BY <1>0, SMT
    <3> QED BY <3>1, <3>2, <1>0
  <2>2. CASE DiscardCount(ts) >= 0
    BY <2>2, <1>1, <1>2 DEF Discard
  <2> QED BY <2>1, <2>2, <1>2
<1>5. start' = IF start + c < N THEN start + c ELSE start + c - N
  <2> HIDE DEF c
  <2>1. PICK x \in Nat : x = start + c /\ x < 2 * N
    BY <1>0, <1>1, <1>3
  <2>2. x % N = IF x < N THEN x ELSE x - N
    BY <2>1, ModOnce, Zenon
  <2> QED BY <2>1, <2>2, <1>0, <1>1, <1>3, <1>4
<1>6. start' \in Slots /\ Pos(start') = c
  <2> HIDE DEF c
  <2> QED BY <1>0, <1>1, <1>3, <1>5 DEF Pos, Buffered
<1>7. \A s \in Slots :
        Pos(s)' = IF Pos(s) >= c THEN Pos(s) - c ELSE Pos(s) - c + N
  <2> HIDE DEF c
  <2> QED BY <1>0, <1>1, <1>3, <1>5 DEF Pos, Buffered
<1> QED BY <1>3, <1>6, <1>7

LEMMA DiscardInv ==
  ASSUME Inv, NEW ts \in Nat, Discard(ts)
  PROVE  Inv'
<1>1. UNCHANGED <<uptime, offset, lastCall, current, timestamp, sample_count, sent>>
  BY DEF Discard, clock
<1>2. PICK c \in 0 .. Buffered :
        /\ start' \in Slots
        /\ \A s \in Slots :
             Pos(s)' = IF Pos(s) >= c THEN Pos(s) - c ELSE Pos(s) - c + N
        /\ Pos(start') = c
        /\ c = IF DiscardCount(ts) < 0 THEN 0
               ELSE IF DiscardCount(ts) > Buffered THEN Buffered
               ELSE DiscardCount(ts)
  BY DiscardStep
<1>3. /\ current \in Slots
      /\ Buffered = Pos(current)
      /\ Buffered' = Buffered - c
      /\ Buffered \in 0 .. N - 1
  BY <1>1, <1>2, PosRange DEF Inv, TypeOK, Buffered
<1>4. Spaced'
  <2> SUFFICES ASSUME NEW a \in Slots, NEW b \in Slots,
                      Pos(a)' <= Pos(b)', Pos(b)' <= Buffered'
               PROVE  timestamp[b] - timestamp[a] >= Pos(b)' - Pos(a)'
    BY <1>1 DEF Spaced
  <2>1. Pos(a) \in 0 .. N - 1 /\ Pos(b) \in 0 .. N - 1
    BY PosRange DEF Inv
  <2>2. Pos(b) >= c /\ Pos(a) >= c
    BY <1>2, <1>3, <2>1, SamplerAssumption
  <2>3. Pos(a) <= Pos(b) /\ Pos(b) <= Buffered
    BY <1>2, <1>3, <2>1, <2>2, SamplerAssumption
  <2>4. timestamp[b] - timestamp[a] >= Pos(b) - Pos(a)
    BY <2>3 DEF Inv, Spaced
  <2> QED BY <2>1, <2>2, <2>4, <1>2, <1>3, SamplerAssumption DEF Inv, TypeOK
<1>5. Dated'
  <2> SUFFICES ASSUME start' # current
               PROVE  timestamp[start'] > 0
    BY <1>1 DEF Dated
  <2>1. start \in Slots /\ Pos(start) = 0
    BY SamplerAssumption DEF Inv, TypeOK, Pos, Slots
  <2>2. start # current
    <3> SUFFICES ASSUME start = current PROVE FALSE
      OBVIOUS
    <3>1. Buffered = 0
      BY <2>1 DEF Buffered
    <3>2. c = 0
      BY <3>1, <1>2
    <3>3. Pos(start') = 0 /\ start' \in Slots
      BY <3>2, <1>2
    <3>4. start' = start
      BY <3>3, PosZero DEF Inv
    <3> QED BY <3>4
  <2>3. timestamp[start] > 0
    BY <2>2 DEF Inv, Dated
  <2>4. timestamp[start'] - timestamp[start] >= c
    BY <2>1, <1>2, <1>3 DEF Inv, Spaced
  <2> QED BY <2>1, <2>3, <2>4, <1>2, <1>3 DEF Inv, TypeOK
<1> QED BY <1>1, <1>2, <1>4, <1>5 DEF Inv, TypeOK, SentClosed

LEMMA NextInv == Inv /\ [Next]_vars => Inv'
<1> SUFFICES ASSUME Inv, [Next]_vars PROVE Inv'
  OBVIOUS
<1>1. ASSUME NEW d \in Elapsed, LoopPass(d) PROVE Inv'
  BY <1>1, LoopPassInv
<1>2. ASSUME NEW o \in Offsets, SetTime(o) PROVE Inv'
  BY <1>2, SamplerAssumption
     DEF SetTime, ring, Inv, TypeOK, Spaced, Dated, SentClosed, Pos, Buffered
<1>3. CASE Send
  BY <1>3, SendInv
<1>4. ASSUME NEW ts \in sent, Discard(ts) PROVE Inv'
  BY <1>4, DiscardInv DEF Inv, TypeOK
<1>5. CASE UNCHANGED vars
  BY <1>5 DEF vars, clock, ring, Inv, TypeOK, Spaced, Dated, SentClosed, Pos, Buffered
<1> QED BY <1>1, <1>2, <1>3, <1>4, <1>5 DEF Next

(* The ring's timestamps stay strictly ordered from start to current, the  *)
(* batches transmitted hold finished samples only, and every index stays   *)
(* inside the buffer.                                                      *)
THEOREM SamplerInvariant == Spec => [](TypeOK /\ Spaced /\ Dated /\ SentClosed)
<1>1. Spec => []Inv
  BY InitInv, NextInv, PTL DEF Spec
<1> QED BY <1>1, PTL DEF Inv

-----------------------------------------------------------------------------
(* What the invariant says of the state, part by part.                     *)

(* The ring's indices stay inside the buffer, its counts inside their      *)
(* fields.                                                                 *)
THEOREM SamplerTyped == Spec => []TypeOK
BY SamplerInvariant, PTL

(* The sample taken before the clock was set is never queued.              *)
THEOREM SamplesDated == Spec => []Dated
BY SamplerInvariant, PTL

(* No acknowledgement can name the sample that is still being filled.      *)
THEOREM SentBatchesClosed == Spec => []SentClosed
BY SamplerInvariant, PTL

-----------------------------------------------------------------------------
(* What the invariant says of the two calls telemetry makes.               *)

LEMMA BatchLists ==
  ASSUME TypeOK, Spaced
  PROVE  BatchExact
<1> USE SamplerAssumption
<1>1. /\ Batch \in Seq(Slots) /\ Len(Batch) = Buffered
      /\ \A i \in 1 .. Buffered : Batch[i] \in Slots /\ Pos(Batch[i]) = i - 1
  BY BatchSlots, ElementOfSeq
<1>2. current \in Slots /\ Buffered \in Nat /\ Buffered = Pos(current)
  BY PosRange DEF TypeOK, Buffered
<1>3. ASSUME NEW s \in Live PROVE \E i \in 1 .. Len(Batch) : timestamp[Batch[i]] = timestamp[s]
  <2>1. s \in Slots /\ Pos(s) + 1 \in 1 .. Buffered
    BY <1>2, PosRange DEF Live
  <2>2. Batch[Pos(s) + 1] \in Slots /\ Pos(Batch[Pos(s) + 1]) = Pos(s)
    BY <2>1, <1>1, PosRange
  <2>3. \A a, b \in Slots : Pos(a) = Pos(b) => a = b
    BY DEF TypeOK, Pos, Slots
  <2>4. Batch[Pos(s) + 1] = s
    <3> HIDE DEF Slots
    <3> QED BY <2>1, <2>2, <2>3
  <2> QED BY <2>1, <2>4, <1>1
<1>4. ASSUME NEW i \in 1 .. Len(Batch) PROVE Batch[i] \in Live
  BY <1>1, <1>2 DEF Live
<1>5. ASSUME NEW i \in 1 .. Len(Batch), NEW j \in 1 .. Len(Batch), i < j
      PROVE  timestamp[Batch[i]] < timestamp[Batch[j]]
  <2>1. /\ Batch[i] \in Slots /\ Batch[j] \in Slots
        /\ Pos(Batch[i]) = i - 1 /\ Pos(Batch[j]) = j - 1 /\ j - 1 <= Buffered
    BY <1>1, <1>2
  <2>2. timestamp[Batch[j]] - timestamp[Batch[i]] >= j - i
    BY <2>1, <1>5 DEF Spaced
  <2>3. timestamp[Batch[j]] \in Nat /\ timestamp[Batch[i]] \in Nat
    BY <2>1 DEF TypeOK
  <2> QED BY <2>2, <2>3, <1>5, <1>1, <1>2
<1> QED BY <1>1, <1>3, <1>4, <1>5 DEF BatchExact, Pending

LEMMA DiscardReleases ==
  ASSUME Inv, NEW ts \in Nat, Discard(ts)
  PROVE  \A x \in Pending' : x > ts
<1> USE SamplerAssumption
<1>1. timestamp' = timestamp /\ current' = current
  BY DEF Discard
<1>2. PICK c \in 0 .. Buffered :
        /\ \A s \in Slots :
             Pos(s)' = IF Pos(s) >= c THEN Pos(s) - c ELSE Pos(s) - c + N
        /\ c = IF DiscardCount(ts) < 0 THEN 0
               ELSE IF DiscardCount(ts) > Buffered THEN Buffered
               ELSE DiscardCount(ts)
  BY DiscardStep
<1>3. /\ start \in Slots /\ current \in Slots
      /\ Pos(start) = 0
      /\ Buffered = Pos(current) /\ Buffered \in 0 .. N - 1
      /\ Buffered' = Buffered - c
  <2>1. start \in Slots /\ Pos(start) = 0
    BY DEF Inv, TypeOK, Pos, Slots
  <2> QED BY <2>1, <1>1, <1>2, PosRange DEF Inv, TypeOK, Buffered
<1>4. SUFFICES ASSUME NEW s \in Slots, Pos(s)' < Buffered'
               PROVE  timestamp[s] > ts
  BY <1>1 DEF Pending, Live
<1>5. Pos(s) \in c .. Buffered - 1
  BY <1>2, <1>3, <1>4, PosRange DEF Inv
<1>6. timestamp[s] - timestamp[start] >= Pos(s) - Pos(start)
  BY <1>3, <1>5 DEF Inv, Spaced
<1>7. timestamp[s] \in Nat /\ timestamp[start] \in Nat
  BY <1>3 DEF Inv, TypeOK
<1>8. c < Buffered
  BY <1>2, <1>3, <1>5
<1>9. timestamp[start] + c >= ts + 1
  BY <1>2, <1>3, <1>7, <1>8 DEF DiscardCount
<1> QED BY <1>3, <1>5, <1>6, <1>7, <1>9

-----------------------------------------------------------------------------
(* What a step adds to the pending samples: only the one that was open.    *)

LEMMA AdvancePending ==
  ASSUME Inv, NEW bucket \in Nat, Advance(bucket)
  PROVE  \A x \in Pending' : x \in Pending \/ x >= timestamp[current]
<1> DEFINE next == IF timestamp[current] = 0 THEN current ELSE Wrap(current + 1)
<1> USE SamplerAssumption DEF Slots
<1>1. /\ start \in 0 .. N - 1 /\ current \in 0 .. N - 1
      /\ timestamp \in [0 .. N - 1 -> Nat]
  BY DEF Inv, TypeOK
<1>2. /\ current' = next
      /\ start' = IF next # current /\ next = start THEN Wrap(start + 1) ELSE start
      /\ timestamp' = [timestamp EXCEPT ![next] = bucket]
      /\ next \in 0 .. N - 1
  BY <1>1, WrapNext DEF Advance
<1>3. /\ Wrap(current + 1) = (IF current = N - 1 THEN 0 ELSE current + 1)
      /\ Wrap(start + 1) = (IF start = N - 1 THEN 0 ELSE start + 1)
  BY <1>1, WrapNext
<1>4. \A s \in Slots : Pos(s) \in 0 .. N - 1
  BY PosRange DEF Inv
<1>5. SUFFICES ASSUME NEW s \in Slots, Pos(s)' < Buffered'
               PROVE  timestamp'[s] \in Pending \/ timestamp'[s] >= timestamp[current]
  BY DEF Pending, Live
<1>6. CASE next = current
  <2>1. timestamp[current] = 0
    BY <1>1, <1>6, WrapNext
  <2>2. timestamp'[s] \in Nat
    <3>1. timestamp' \in [0 .. N - 1 -> Nat]
      BY <1>1, <1>2
    <3> QED BY <3>1
  <2> QED BY <2>1, <2>2
<1>7. CASE next # current
  <2>1. next = IF current = N - 1 THEN 0 ELSE current + 1
    BY <1>3, <1>7
  <2> HIDE DEF next
  <2>2. s # next /\ Pos(s) <= Buffered
    <3>1. CASE next = start
      <4>1. /\ start' = (IF start = N - 1 THEN 0 ELSE start + 1)
            /\ current' = start
        BY <1>2, <1>3, <1>7, <3>1
      <4> QED BY <1>1, <1>5, <2>1, <3>1, <4>1 DEF Pos, Buffered
    <3>2. CASE next # start
      <4>1. start' = start /\ current' = next
        BY <1>2, <3>2
      <4> QED BY <1>1, <1>2, <1>5, <2>1, <3>2, <4>1 DEF Pos, Buffered
    <3> QED BY <3>1, <3>2
  <2>3. timestamp'[s] = timestamp[s]
    BY <1>1, <1>2, <2>2
  <2>4. CASE Pos(s) < Buffered
    BY <2>3, <2>4 DEF Pending, Live
  <2>5. CASE Pos(s) = Buffered
    <3>1. s = current
      BY <1>1, <2>5 DEF Pos, Buffered
    <3> QED BY <1>1, <2>3, <3>1
  <2> QED BY <1>1, <1>4, <2>2, <2>4, <2>5 DEF Buffered
<1> QED BY <1>6, <1>7

LEMMA DiscardPending ==
  ASSUME Inv, NEW ts \in Nat, Discard(ts)
  PROVE  Pending' \subseteq Pending
<1> USE SamplerAssumption
<1>1. timestamp' = timestamp /\ current' = current
  BY DEF Discard
<1>2. PICK c \in 0 .. Buffered :
        \A s \in Slots :
          Pos(s)' = IF Pos(s) >= c THEN Pos(s) - c ELSE Pos(s) - c + N
  BY DiscardStep
<1>3. current \in Slots /\ Buffered = Pos(current) /\ Buffered \in 0 .. N - 1
  BY PosRange DEF Inv, TypeOK, Buffered
<1>4. Buffered' = Buffered - c
  BY <1>1, <1>2, <1>3 DEF Buffered
<1>5. ASSUME NEW s \in Slots, Pos(s)' < Buffered'
      PROVE  Pos(s) < Buffered
  <2>1. Pos(s) \in 0 .. N - 1
    BY PosRange DEF Inv
  <2> QED BY <2>1, <1>2, <1>3, <1>4, <1>5
<1> QED BY <1>1, <1>5 DEF Pending, Live

LEMMA PendingAges ==
  ASSUME Inv, [Next]_vars
  PROVE  /\ sent \subseteq sent'
         /\ \A x \in Pending' : x \in Pending \/ x >= timestamp[current]
<1>1. ASSUME UNCHANGED <<start, current, timestamp>> PROVE Pending' = Pending
  BY <1>1 DEF Pending, Live, Buffered, Pos
<1>2. ASSUME NEW d \in Elapsed, LoopPass(d)
      PROVE  /\ sent' = sent
             /\ \A x \in Pending' : x \in Pending \/ x >= timestamp[current]
  <2>1. sent' = sent
    BY <1>2 DEF LoopPass
  <2>2. CASE ~ ShouldCall(uptime + d)
    BY <1>1, <1>2, <2>1, <2>2 DEF LoopPass, ring
  <2>3. CASE ShouldCall(uptime + d)
    <3> DEFINE bucket == BucketTimestamp(Now(uptime + d))
    <3>1. uptime + d \in Nat
      BY SamplerAssumption DEF Inv, TypeOK
    <3>2. bucket \in Nat
      BY <3>1, BucketIsNat DEF Inv
    <3>3. Advance(bucket) \/ Accumulate(bucket)
      BY <1>2, <2>3 DEF LoopPass, Sample
    <3> HIDE DEF bucket
    <3>4. CASE Advance(bucket)
      BY <2>1, <3>2, <3>4, AdvancePending
    <3>5. CASE Accumulate(bucket)
      BY <1>1, <2>1, <3>5 DEF Accumulate
    <3> QED BY <3>3, <3>4, <3>5
  <2> QED BY <2>2, <2>3
<1>3. ASSUME NEW o \in Offsets, SetTime(o)
      PROVE  sent' = sent /\ Pending' = Pending
  BY <1>1, <1>3 DEF SetTime, ring
<1>4. CASE Send
  <2>1. Pending' = Pending
    BY <1>1, <1>4 DEF Send, ring
  <2>2. sent \subseteq sent'
    BY <1>4 DEF Send
  <2> QED BY <2>1, <2>2
<1>5. ASSUME NEW ts \in sent, Discard(ts)
      PROVE  sent' = sent /\ Pending' \subseteq Pending
  <2>1. sent' = sent
    BY <1>5 DEF Discard
  <2>2. ts \in Nat
    BY DEF Inv, TypeOK
  <2> QED BY <1>5, <2>1, <2>2, DiscardPending
<1>6. CASE UNCHANGED vars
  BY <1>1, <1>6 DEF vars, ring
<1>7. CASE Next
  BY <1>2, <1>3, <1>4, <1>5, <1>7 DEF Next
<1> QED BY <1>6, <1>7

(* getSamples hands out every pending sample once and in order, wherever   *)
(* the ring wraps.                                                         *)
THEOREM BatchesAreExact == Spec => []BatchExact
<1>1. Inv => BatchExact
  BY BatchLists DEF Inv
<1>2. Spec => []Inv
  BY InitInv, NextInv, PTL DEF Spec
<1> QED BY <1>1, <1>2, PTL

(* An acknowledgement leaves nothing behind that it covers, whatever gaps  *)
(* stalls and clock corrections have left in the ring.                     *)
THEOREM AcksReleaseAll == Spec => AckReleasesAll
<1>1. Inv /\ [Next]_vars =>
        [\A ts \in sent : Discard(ts) => \A x \in Pending' : x > ts]_vars
  BY DiscardReleases DEF Inv, TypeOK
<1>2. Spec => []Inv
  BY InitInv, NextInv, PTL DEF Spec
<1> QED BY <1>1, <1>2, PTL DEF Spec, AckReleasesAll
=============================================================================
