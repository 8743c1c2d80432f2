------------------------- MODULE SteadyClockProofs -------------------------
(***************************************************************************)
(* What more is true of Sampler when the clock is set to one offset only   *)
(* and no pass of the loop is so long that a period goes by without a      *)
(* sample.  Then samples follow one another without a gap, a number of     *)
(* periods is a number of slots, and discard is exact.                     *)
(***************************************************************************)
EXTENDS SamplerProofs

(* The sampler is called at the first pass that is more than RATE after    *)
(* the last call's bucket, so calls are at most RATE + d apart.            *)
Prompt == \A d \in Elapsed : d + RATE <= PERIOD

SetOnce == \A o, p \in Offsets : o = p

Steady == Prompt /\ SetOnce

(* With Spaced, every slot's timestamp is one more than its predecessor's. *)
Gapless == timestamp[current] <= timestamp[start] + Buffered

(* The open slot is that of the last call, or a later one.                 *)
UpToDate ==
  timestamp[current] > 0 =>
    offset # 0 /\ BucketTimestamp(offset + lastCall) <= timestamp[current]

Polled == uptime <= lastCall + RATE

SteadyInv == Inv /\ Gapless /\ UpToDate /\ Polled

-----------------------------------------------------------------------------
(* Periods.                                                                *)

LEMMA BucketBounds ==
  ASSUME NEW t \in Nat
  PROVE  /\ BucketTimestamp(t) \in Nat
         /\ PERIOD * BucketTimestamp(t) <= t
         /\ t < PERIOD * BucketTimestamp(t) + PERIOD
<1>1. PERIOD \in Nat /\ PERIOD > 0
  BY SamplerAssumption
<1>2. PICK q \in Nat, r \in Nat : q = t \div PERIOD /\ r = t % PERIOD
  BY <1>1, SMT
<1>3. t = PERIOD * q + r /\ r < PERIOD
  BY <1>1, <1>2, SMT
<1>4. (PERIOD * q) \div PERIOD = q
  BY <1>1, SMT
<1>5. PERIOD * q \in Nat
  BY <1>1, SMT
<1>6. BucketTimestamp(t) = q
  <2>1. t - r = PERIOD * q
    BY <1>3, <1>5
  <2> QED BY <1>2, <1>4, <2>1 DEF BucketTimestamp
<1> QED BY <1>1, <1>3, <1>5, <1>6

LEMMA ProductOrder ==
  ASSUME NEW x \in Nat, NEW y \in Nat, PERIOD * x < PERIOD * y
  PROVE  x < y
<1>1. PERIOD \in Nat /\ PERIOD > 0
  BY SamplerAssumption
<1>2. SUFFICES ASSUME x >= y PROVE FALSE
  OBVIOUS
<1>3. PICK k \in Nat : x = y + k
  BY <1>2
<1>4. PERIOD * x = PERIOD * y + PERIOD * k /\ PERIOD * k \in Nat /\ PERIOD * y \in Nat
  BY <1>1, <1>3, SMT
<1> QED BY <1>4

(* In at most a period, at most one bucket is left.                        *)
LEMMA NextBucket ==
  ASSUME NEW a \in Nat, NEW b \in Nat, a <= b
  PROVE  /\ BucketTimestamp(a) <= BucketTimestamp(b)
         /\ b <= a + PERIOD => BucketTimestamp(b) <= BucketTimestamp(a) + 1
<1>1. PERIOD \in Nat /\ PERIOD > 0
  BY SamplerAssumption
<1>2. PICK x \in Nat, y \in Nat : /\ x = BucketTimestamp(a) /\ y = BucketTimestamp(b)
                                  /\ PERIOD * x <= a /\ a < PERIOD * x + PERIOD
                                  /\ PERIOD * y <= b /\ b < PERIOD * y + PERIOD
  BY BucketBounds
<1>3. /\ PERIOD * (y + 1) = PERIOD * y + PERIOD /\ PERIOD * y \in Nat
      /\ PERIOD * (x + 2) = PERIOD * x + PERIOD + PERIOD /\ PERIOD * x \in Nat
  BY <1>1, SMT
<1>4. x < y + 1
  <2>1. PERIOD * x < PERIOD * (y + 1)
    BY <1>1, <1>2, <1>3
  <2> QED BY <2>1, ProductOrder
<1>5. b <= a + PERIOD => y < x + 2
  <2>1. b <= a + PERIOD => PERIOD * y < PERIOD * (x + 2)
    BY <1>1, <1>2, <1>3
  <2> QED BY <2>1, ProductOrder
<1> QED BY <1>2, <1>4, <1>5

LEMMA Floor ==
  ASSUME NEW t \in Nat
  PROVE  t - (t % RATE) \in Nat /\ t - (t % RATE) <= t /\ t < t - (t % RATE) + RATE
<1>1. RATE \in Nat /\ RATE > 0
  BY SamplerAssumption
<1> QED BY <1>1, SMT

-----------------------------------------------------------------------------
(* The steps of the sampler.                                               *)

(* Opening the slot of the next period leaves no gap.                      *)
LEMMA AdvanceGapless ==
  ASSUME Inv, Gapless, NEW bucket \in Nat, Advance(bucket),
         timestamp[current] > 0 => bucket <= timestamp[current] + 1
  PROVE  Gapless' /\ timestamp'[current'] = bucket
<1> DEFINE next == IF timestamp[current] = 0 THEN current ELSE Wrap(current + 1)
<1> USE SamplerAssumption DEF Slots
<1>0. /\ start \in 0 .. N - 1 /\ current \in 0 .. N - 1
      /\ timestamp \in [0 .. N - 1 -> Nat]
      /\ Slots = 0 .. N - 1
      /\ start \in Slots /\ current \in Slots
  BY DEF Inv, TypeOK, Slots
<1>1. /\ next \in Slots
      /\ bucket > timestamp[current]
      /\ current' = next
      /\ start' = IF next # current /\ next = start THEN Wrap(start + 1) ELSE start
      /\ timestamp' = [timestamp EXCEPT ![next] = bucket]
  BY <1>0, WrapNext DEF Advance
<1>w. /\ Wrap(current + 1) = (IF current = N - 1 THEN 0 ELSE current + 1)
      /\ Wrap(start + 1) = (IF start = N - 1 THEN 0 ELSE start + 1)
  BY <1>0, WrapNext
<1>2. timestamp'[current'] = bucket
  BY <1>0, <1>1
<1>3. CASE next = current
  <2>1. timestamp[current] = 0
    BY <1>0, <1>3, WrapNext
  <2>2. start = current
    <3>1. timestamp[current] - timestamp[start] >= Pos(current) - Pos(start)
      BY <1>0 DEF Inv, Spaced, Pos, Buffered
    <3>2. CASE start # current
      BY <1>0, <2>1, <3>1, <3>2 DEF Inv, Dated, Pos
    <3> QED BY <3>2
  <2>3. start' = current /\ current' = current
    BY <1>1, <1>3, <2>2
  <2> QED BY <1>0, <1>1, <1>2, <2>3 DEF Gapless, Buffered, Pos
<1>4. CASE next # current /\ next # start
  <2>1. /\ current' = (IF current = N - 1 THEN 0 ELSE current + 1)
        /\ start' = start /\ current' # start
        /\ timestamp'[start] = timestamp[start]
        /\ timestamp[current] > 0
    <3>1. timestamp[current] # 0
      BY <1>4
    <3> QED BY <1>0, <1>1, <1>4, <1>w, <3>1
  <2>2. Buffered' = Buffered + 1 /\ Buffered \in Nat
    BY <1>0, <2>1 DEF Buffered, Pos
  <2>3. bucket <= timestamp[current] + 1 /\ timestamp[current] <= timestamp[start] + Buffered
    BY <2>1 DEF Gapless
  <2>4. timestamp[current] \in Nat /\ timestamp[start] \in Nat
    BY <1>0
  <2>5. bucket <= timestamp[start] + (Buffered + 1)
    BY <2>2, <2>3, <2>4
  <2> QED BY <1>2, <2>1, <2>2, <2>5 DEF Gapless
<1>5. CASE next # current /\ next = start
  <2>1. /\ start = (IF current = N - 1 THEN 0 ELSE current + 1)
        /\ current' = start
        /\ start' = (IF start = N - 1 THEN 0 ELSE start + 1)
        /\ timestamp'[start'] = timestamp[start']
        /\ timestamp[current] > 0
    <3>1. timestamp[current] # 0
      BY <1>5
    <3> QED BY <1>0, <1>1, <1>5, <1>w, <3>1
  <2>2. /\ Buffered' = N - 1 /\ Buffered = N - 1
        /\ start' \in Slots /\ Pos(start) = 0 /\ Pos(start') = 1
    BY <1>0, <2>1 DEF Buffered, Pos
  <2>3. timestamp[start'] - timestamp[start] >= 1
    <3>1. Pos(start) <= Pos(start') /\ Pos(start') <= Buffered
      BY <2>2
    <3>2. timestamp[start'] - timestamp[start] >= Pos(start') - Pos(start)
      BY <1>0, <2>2, <3>1 DEF Inv, Spaced
    <3> QED BY <2>2, <3>2
  <2>4. bucket <= timestamp[current] + 1 /\ timestamp[current] <= timestamp[start] + Buffered
    BY <2>1 DEF Gapless
  <2>5. timestamp[current] \in Nat /\ timestamp[start] \in Nat /\ timestamp[start'] \in Nat
    BY <1>0, <2>2
  <2>6. bucket <= timestamp[start'] + (N - 1)
    BY <2>2, <2>3, <2>4, <2>5
  <2> QED BY <1>2, <2>1, <2>2, <2>6 DEF Gapless
<1> QED BY <1>2, <1>3, <1>4, <1>5

LEMMA LoopPassSteady ==
  ASSUME Prompt, SteadyInv, NEW d \in Elapsed, LoopPass(d)
  PROVE  Gapless' /\ UpToDate' /\ Polled'
<1> DEFINE t == uptime + d
<1>1. /\ d \in Nat /\ t \in Nat /\ uptime \in Nat /\ lastCall \in Nat /\ offset \in Nat
      /\ RATE \in Nat /\ PERIOD \in Nat /\ timestamp[current] \in Nat
  BY SamplerAssumption DEF SteadyInv, Inv, TypeOK
<1>2. uptime' = t /\ offset' = offset
  BY DEF LoopPass
<1>3. t <= lastCall + PERIOD
  BY <1>1 DEF SteadyInv, Polled, Prompt
<1>4. CASE ~ ShouldCall(t)
  <2>1. UNCHANGED <<lastCall, start, current, timestamp>>
    BY <1>4 DEF LoopPass, ring
  <2>2. t <= lastCall + RATE
    BY <1>1, <1>4 DEF ShouldCall
  <2>3. UNCHANGED Buffered
    BY <2>1 DEF Buffered, Pos
  <2> QED BY <1>2, <2>1, <2>2, <2>3 DEF SteadyInv, Gapless, UpToDate, Polled, BucketTimestamp
<1>5. CASE ShouldCall(t)
  <2>1. /\ lastCall' = t - (t % RATE) /\ Sample(t)
    BY <1>5 DEF LoopPass
  <2>2. PICK call \in Nat : lastCall' = call /\ call <= t /\ t < call + RATE
    BY <1>1, <2>1, Floor
  <2>3. Polled'
    <3>1. t <= call + RATE
      BY <1>1, <2>2
    <3> QED BY <1>2, <2>2, <3>1 DEF Polled
  <2>4. PICK bucket \in Nat : /\ bucket = BucketTimestamp(Now(t))
                              /\ Advance(bucket) \/ Accumulate(bucket)
    <3>1. BucketTimestamp(Now(t)) \in Nat
      BY <1>1, BucketIsNat DEF SteadyInv, Inv
    <3> QED BY <2>1, <3>1 DEF Sample
  <2>5. CASE offset = 0
    <3>1. bucket = 0
      <4>1. 0 % PERIOD = 0 /\ (0 - 0) \div PERIOD = 0
        BY <1>1, SamplerAssumption, SMT
      <4> QED BY <2>4, <2>5, <4>1 DEF Now, BucketTimestamp
    <3>2. timestamp[current] = 0
      BY <1>1, <2>5 DEF SteadyInv, UpToDate
    <3>3. UNCHANGED <<start, current, timestamp>>
      BY <2>4, <3>1, <3>2 DEF Advance, Accumulate
    <3>4. UNCHANGED Buffered
      BY <3>3 DEF Buffered, Pos
    <3> QED BY <2>3, <3>2, <3>3, <3>4 DEF SteadyInv, Gapless, UpToDate
  <2>6. CASE offset # 0
    <3>1. bucket = BucketTimestamp(offset + t) /\ offset + t \in Nat /\ offset + lastCall \in Nat
      BY <1>1, <2>4, <2>6 DEF Now
    <3>2. timestamp[current] > 0 => bucket <= timestamp[current] + 1
      <4>1. offset + lastCall <= offset + t /\ offset + t <= (offset + lastCall) + PERIOD
        BY <1>1, <1>3, <1>5 DEF ShouldCall
      <4>2. bucket <= BucketTimestamp(offset + lastCall) + 1
        BY <3>1, <4>1, NextBucket
      <4>3. BucketTimestamp(offset + lastCall) \in Nat
        BY <3>1, BucketBounds
      <4> QED BY <1>1, <4>2, <4>3 DEF SteadyInv, UpToDate
    <3>3. BucketTimestamp(offset + call) <= bucket /\ BucketTimestamp(offset + call) \in Nat
      <4>1. offset + call \in Nat /\ offset + call <= offset + t
        BY <1>1, <2>2
      <4> QED BY <3>1, <4>1, NextBucket, BucketBounds
    <3>4. CASE Advance(bucket)
      <4>1. Gapless' /\ timestamp'[current'] = bucket
        BY <3>2, <3>4, AdvanceGapless DEF SteadyInv
      <4> QED BY <1>2, <2>2, <2>3, <2>6, <3>3, <4>1 DEF UpToDate, BucketTimestamp
    <3>5. CASE Accumulate(bucket)
      <4>1. UNCHANGED <<start, current, timestamp>> /\ bucket <= timestamp[current]
        BY <3>5 DEF Accumulate
      <4>2. UNCHANGED Buffered
        BY <4>1 DEF Buffered, Pos
      <4>3. BucketTimestamp(offset + call) <= timestamp[current]
        BY <1>1, <3>3, <4>1
      <4> QED BY <1>2, <2>2, <2>3, <2>6, <4>1, <4>2, <4>3
              DEF SteadyInv, Gapless, UpToDate, BucketTimestamp
    <3> QED BY <2>4, <3>4, <3>5
  <2> QED BY <2>5, <2>6
<1> QED BY <1>4, <1>5

(* The offset is set for the first time, or to what it was.                *)
LEMMA SetTimeSteady ==
  ASSUME SteadyInv, NEW o \in Nat \ {0}, SetTime(o), offset \in {0, o}
  PROVE  Gapless' /\ UpToDate' /\ Polled'
<1>1. UNCHANGED <<uptime, lastCall, start, current, timestamp>> /\ offset' = o
  BY DEF SetTime, ring
<1>2. UNCHANGED Buffered
  BY <1>1 DEF Buffered, Pos
<1> QED BY <1>1, <1>2 DEF SteadyInv, Gapless, UpToDate, Polled, BucketTimestamp

LEMMA DiscardSteady ==
  ASSUME SteadyInv, NEW ts \in Nat, Discard(ts)
  PROVE  /\ Gapless' /\ UpToDate' /\ Polled'
         /\ \A x \in Pending : x > ts => x \in Pending'
<1> USE SamplerAssumption
<1>1. UNCHANGED <<uptime, offset, lastCall, current, timestamp>>
  BY DEF Discard, clock
<1>2. PICK c \in 0 .. Buffered :
        /\ start' \in Slots
        /\ \A s \in Slots :
             Pos(s)' = IF Pos(s) >= c THEN Pos(s) - c ELSE Pos(s) - c + N
        /\ Pos(start') = c
        /\ c = IF DiscardCount(ts) < 0 THEN 0
               ELSE IF DiscardCount(ts) > Buffered THEN Buffered
               ELSE DiscardCount(ts)
  BY DiscardStep DEF SteadyInv
<1>3. /\ start \in Slots /\ current \in Slots /\ Pos(start) = 0
      /\ Buffered = Pos(current) /\ Buffered \in 0 .. N - 1
      /\ timestamp \in [Slots -> Nat]
      /\ Buffered' = Buffered - c
  <2>1. start \in Slots /\ Pos(start) = 0
    BY DEF SteadyInv, Inv, TypeOK, Pos, Slots
  <2> QED BY <2>1, <1>1, <1>2, PosRange DEF SteadyInv, Inv, TypeOK, Buffered
<1>4. timestamp[current] <= timestamp[start] + Buffered
  BY DEF SteadyInv, Gapless
<1>5. Gapless'
  <2>1. timestamp[start'] - timestamp[start] >= Pos(start') - Pos(start)
    BY <1>2, <1>3 DEF SteadyInv, Inv, Spaced
  <2>2. timestamp[start'] \in Nat /\ timestamp[start] \in Nat /\ timestamp[current] \in Nat
    BY <1>2, <1>3
  <2>3. timestamp[current] <= timestamp[start'] + (Buffered - c)
    BY <1>2, <1>3, <1>4, <2>1, <2>2
  <2> QED BY <1>1, <1>3, <2>3 DEF Gapless
<1>6. UpToDate' /\ Polled'
  BY <1>1 DEF SteadyInv, UpToDate, Polled, BucketTimestamp
<1>7. ASSUME NEW s \in Slots, Pos(s) < Buffered, timestamp[s] > ts
      PROVE  Pos(s)' < Buffered'
  <2>1. Pos(s) \in 0 .. N - 1
    BY PosRange DEF SteadyInv, Inv
  <2>2. timestamp[current] - timestamp[s] >= Buffered - Pos(s)
    BY <1>3, <1>7, <2>1 DEF SteadyInv, Inv, Spaced
  <2>3. timestamp[s] \in Nat /\ timestamp[start] \in Nat /\ timestamp[current] \in Nat
    BY <1>3
  <2>4. timestamp[s] <= timestamp[start] + Pos(s)
    BY <1>3, <1>4, <2>1, <2>2, <2>3
  <2>5. c <= Pos(s)
    BY <1>2, <1>3, <1>7, <2>1, <2>3, <2>4 DEF DiscardCount
  <2> QED BY <1>2, <1>3, <1>7, <2>1, <2>5
<1>8. ASSUME NEW x \in Pending, x > ts PROVE x \in Pending'
  <2>1. PICK s \in Slots : Pos(s) < Buffered /\ x = timestamp[s]
    BY <1>8 DEF Pending, Live
  <2>2. Pos(s)' < Buffered'
    BY <1>7, <1>8, <2>1
  <2> QED BY <1>1, <2>1, <2>2 DEF Pending, Live
<1> QED BY <1>5, <1>6, <1>8

-----------------------------------------------------------------------------
(* The theorem.                                                            *)

(* The offset is the one there is, once it is set.                         *)
OffsetSet == offset = 0 \/ offset \in Offsets

LEMMA InitSteady == Init => SteadyInv /\ OffsetSet
<1>1. Init => Inv
  BY InitInv
<1>2. Init => Gapless /\ UpToDate /\ Polled /\ OffsetSet
  BY SamplerAssumption DEF Init, Gapless, UpToDate, Polled, OffsetSet, Buffered, Pos, Slots
<1> QED BY <1>1, <1>2 DEF SteadyInv

LEMMA NextSteady ==
  ASSUME Steady, SteadyInv, OffsetSet, [Next]_vars
  PROVE  SteadyInv' /\ OffsetSet'
<1>1. Inv'
  BY NextInv DEF SteadyInv
<1>2. ASSUME NEW d \in Elapsed, LoopPass(d) PROVE SteadyInv' /\ OffsetSet'
  BY <1>1, <1>2, LoopPassSteady DEF Steady, SteadyInv, OffsetSet, LoopPass
<1>3. ASSUME NEW o \in Offsets, SetTime(o) PROVE SteadyInv' /\ OffsetSet'
  <2>1. o \in Nat \ {0} /\ offset \in {0, o}
    BY SamplerAssumption DEF Steady, SetOnce, OffsetSet
  <2> QED BY <1>1, <1>3, <2>1, SetTimeSteady DEF SteadyInv, OffsetSet, SetTime
<1>4. ASSUME UNCHANGED <<uptime, offset, lastCall, start, current, timestamp>>
      PROVE  SteadyInv' /\ OffsetSet'
  <2>1. UNCHANGED Buffered
    BY <1>4 DEF Buffered, Pos
  <2> QED BY <1>1, <1>4, <2>1 DEF SteadyInv, Gapless, UpToDate, Polled, OffsetSet, BucketTimestamp
<1>5. CASE Send
  BY <1>4, <1>5 DEF Send, clock, ring
<1>6. ASSUME NEW ts \in sent, Discard(ts) PROVE SteadyInv' /\ OffsetSet'
  <2>1. ts \in Nat /\ offset' = offset
    BY <1>6 DEF SteadyInv, Inv, TypeOK, Discard, clock
  <2> QED BY <1>1, <1>6, <2>1, DiscardSteady DEF SteadyInv, OffsetSet
<1>7. CASE UNCHANGED vars
  BY <1>4, <1>7 DEF vars, clock, ring
<1> QED BY <1>2, <1>3, <1>5, <1>6, <1>7 DEF Next

(* "Discard samples with a timestamp up to and including `timestamp`"      *)
(* (sampler.h:122) and no others: with a steady clock, what discard makes  *)
(* of timestamps is right, whenever and how often an acknowledgement comes. *)
THEOREM AcksReleaseOnly == ASSUME Steady PROVE Spec => AckReleasesOnly
<1>1. Init => SteadyInv /\ OffsetSet
  BY InitSteady
<1>2. (SteadyInv /\ OffsetSet) /\ [Next]_vars => (SteadyInv /\ OffsetSet)'
  BY NextSteady
<1>3. SteadyInv /\ [Next]_vars =>
        [\A ts \in sent : Discard(ts) => \A x \in Pending : x > ts => x \in Pending']_vars
  BY DiscardSteady DEF SteadyInv, Inv, TypeOK
<1> QED BY <1>1, <1>2, <1>3, PTL DEF Spec, AckReleasesOnly

-----------------------------------------------------------------------------
(* How many sub-samples a sample takes.                                    *)

(* SAMPLE_PERIOD / OVERSAMPLING ticks, and nothing is left over.           *)
Divides == \E k \in Nat : PERIOD = RATE * k

(* lastCall is a multiple of RATE, so every call is RATE after the last.   *)
Aligned == \E m \in Nat : lastCall = RATE * m

(* Every sub-sample of the open slot but the first came RATE after the one *)
(* before it.                                                              *)
Counted ==
  timestamp[current] > 0 =>
    RATE * (sample_count[current] - 1) + PERIOD * timestamp[current] < offset + lastCall + RATE

CountInv == SteadyInv /\ OffsetSet /\ Aligned /\ Counted /\ OversamplingBounded

LEMMA Difference ==
  ASSUME NEW a \in Nat, NEW b \in Nat, a <= b
  PROVE  \E k \in Nat : b = a + k
<1>1. b - a \in Nat /\ b = a + (b - a)
  OBVIOUS
<1> QED BY <1>1

LEMMA Multiples ==
  ASSUME NEW m \in Nat, NEW t \in Nat, RATE * m + RATE < t
  PROVE  \E n \in Nat : t - (t % RATE) = RATE * n /\ n >= m + 1
<1>1. RATE \in Nat /\ RATE > 0
  BY SamplerAssumption
<1>2. PICK q \in Nat, r \in Nat : q = t \div RATE /\ r = t % RATE
  BY <1>1, SMT
<1>3. t = RATE * q + r /\ r < RATE
  BY <1>1, <1>2, SMT
<1>4. q >= m + 1
  <2> SUFFICES ASSUME m >= q PROVE FALSE
    BY <1>2
  <2>1. PICK k \in Nat : m = q + k
    BY Difference
  <2>2. /\ RATE * m = RATE * q + RATE * k
        /\ RATE * q \in Nat /\ RATE * k \in Nat
    BY <1>1, <2>1, SMT
  <2> QED BY <1>1, <1>2, <1>3, <2>2
<1>5. t - r = RATE * q
  <2>1. RATE * q \in Nat
    BY <1>1, SMT
  <2> QED BY <1>2, <1>3, <2>1
<1> QED BY <1>2, <1>4, <1>5

(* As many multiples of RATE as fit into a period, and one more.           *)
LEMMA CountBound ==
  ASSUME Divides, NEW n \in Nat, NEW ts \in Nat, NEW x \in Nat,
         BucketTimestamp(x) <= ts, RATE * (n - 1) + PERIOD * ts < x + RATE
  PROVE  n <= PERIOD \div RATE + 1
<1>1. RATE \in Nat /\ RATE > 0 /\ PERIOD \in Nat
  BY SamplerAssumption
<1>2. PICK k \in Nat : PERIOD = RATE * k
  BY DEF Divides
<1>3. PERIOD \div RATE = k
  BY <1>1, <1>2, SMT
<1>4. x < PERIOD * ts + PERIOD
  <2>1. PICK b \in Nat : b = BucketTimestamp(x) /\ x < PERIOD * b + PERIOD
    BY BucketBounds
  <2>2. PICK j \in Nat : ts = b + j
    BY <2>1, Difference
  <2>3. PERIOD * ts = PERIOD * b + PERIOD * j /\ PERIOD * j \in Nat /\ PERIOD * b \in Nat
    BY <1>1, <2>1, <2>2, SMT
  <2> QED BY <1>1, <2>1, <2>3
<1>5. RATE * (n - 1) < RATE * k + RATE
  <2>1. PERIOD * ts \in Nat /\ RATE * (n - 1) \in Int
    BY <1>1, SMT
  <2> QED BY <1>1, <1>2, <1>4, <2>1
<1>6. n - 1 < k + 1
  <2> SUFFICES ASSUME n - 1 >= k + 1 PROVE FALSE
    BY <1>2
  <2>1. PICK j \in Nat : n - 1 = k + 1 + j
    BY <1>2
  <2>2. RATE * (n - 1) = RATE * k + RATE + RATE * j /\ RATE * j \in Nat /\ RATE * k \in Nat
    BY <1>1, <1>2, <2>1, SMT
  <2> QED BY <1>1, <1>5, <2>2
<1> QED BY <1>2, <1>3, <1>6

LEMMA LoopPassCounts ==
  ASSUME Divides, Prompt, CountInv, NEW d \in Elapsed, LoopPass(d)
  PROVE  Aligned' /\ Counted' /\ OversamplingBounded'
<1> DEFINE t == uptime + d
<1>1. /\ d \in Nat /\ t \in Nat /\ offset \in Nat /\ lastCall \in Nat
      /\ RATE \in Nat /\ RATE > 0 /\ PERIOD \in Nat /\ PERIOD > 0 /\ CountMod \in Nat /\ CountMod > 0
      /\ current \in Slots /\ timestamp \in [Slots -> Nat] /\ sample_count \in [Slots -> Nat]
  BY SamplerAssumption DEF CountInv, SteadyInv, Inv, TypeOK
<1>2. uptime' = t /\ offset' = offset
  BY DEF LoopPass
<1>3. SteadyInv'
  <2>1. Inv'
    BY LoopPassInv DEF CountInv, SteadyInv
  <2> QED BY <2>1, LoopPassSteady DEF CountInv, SteadyInv
<1>4. CASE ~ ShouldCall(t)
  BY <1>2, <1>4 DEF CountInv, LoopPass, ring, Aligned, Counted, OversamplingBounded
<1>5. CASE ShouldCall(t)
  <2>1. /\ lastCall' = t - (t % RATE) /\ Sample(t)
    BY <1>5 DEF LoopPass
  <2>2. PICK call \in Nat : lastCall' = call /\ call <= t /\ t < call + RATE
    BY <1>1, <2>1, Floor
  <2>3. Aligned' /\ call >= lastCall + RATE
    <3>1. PICK m \in Nat : lastCall = RATE * m
      BY DEF CountInv, Aligned
    <3>2. RATE * m + RATE < t
      BY <1>5, <3>1 DEF ShouldCall
    <3>3. PICK n \in Nat : t - (t % RATE) = RATE * n /\ n >= m + 1
      BY <1>1, <3>2, Multiples
    <3>4. PICK k \in Nat : n = m + 1 + k
      BY <3>3
    <3>5. RATE * n = RATE * m + RATE + RATE * k /\ RATE * k \in Nat /\ RATE * m \in Nat
      BY <1>1, <3>4, SMT
    <3>6. lastCall' = RATE * n /\ call = RATE * n
      BY <2>1, <2>2, <3>3
    <3>7. call >= lastCall + RATE
      BY <1>1, <3>1, <3>5, <3>6
    <3> QED BY <3>6, <3>7 DEF Aligned
  <2>4. PICK bucket \in Nat : /\ bucket = BucketTimestamp(Now(t))
                              /\ Advance(bucket) \/ Accumulate(bucket)
    <3>1. BucketTimestamp(Now(t)) \in Nat
      BY <1>1, BucketIsNat DEF CountInv, SteadyInv, Inv
    <3> QED BY <2>1, <3>1 DEF Sample
  <2>5. ASSUME timestamp'[current'] > 0, Counted'
        PROVE  sample_count'[current'] <= PERIOD \div RATE + 1
    <3>1. /\ current' \in Slots /\ timestamp' \in [Slots -> Nat]
          /\ sample_count' \in [Slots -> Nat]
      BY <1>3, SamplerAssumption DEF SteadyInv, Inv, TypeOK
    <3>2. PICK n \in Nat, ts \in Nat : n = sample_count'[current'] /\ ts = timestamp'[current']
      BY <3>1
    <3>3. RATE * (n - 1) + PERIOD * ts < (offset + call) + RATE
      BY <1>2, <2>2, <2>5, <3>2 DEF Counted
    <3>4. BucketTimestamp(offset + call) <= ts
      BY <1>2, <1>3, <2>2, <2>5, <3>2 DEF SteadyInv, UpToDate, BucketTimestamp
    <3>5. offset + call \in Nat
      BY <1>1, <2>2
    <3> QED BY <3>2, <3>3, <3>4, <3>5, CountBound
  <2>6. ASSUME Counted', \A s \in Slots : s # current' => timestamp'[s] = timestamp[s]
                                            /\ sample_count'[s] = sample_count[s]
        PROVE  OversamplingBounded'
    BY <2>5, <2>6 DEF CountInv, OversamplingBounded
  <2>7. CASE Advance(bucket)
    <3> DEFINE next == IF timestamp[current] = 0 THEN current ELSE Wrap(current + 1)
    <3>1. /\ current' = next /\ bucket > 0 /\ next \in Slots
          /\ timestamp' = [timestamp EXCEPT ![next] = bucket]
          /\ sample_count' = [sample_count EXCEPT ![next] = 1 % CountMod]
      BY <1>1, <2>7, WrapNext DEF Advance
    <3> HIDE DEF next
    <3>2. timestamp'[current'] = bucket /\ sample_count'[current'] = 1 % CountMod
      BY <1>1, <3>1
    <3>3. PICK n \in 0 .. 1 : n = 1 % CountMod
      BY <1>1, SMT
    <3>4. offset # 0
      <4>1. timestamp'[current'] > 0
        BY <3>1, <3>2
      <4> QED BY <1>2, <1>3, <4>1 DEF SteadyInv, UpToDate
    <3>5. PERIOD * bucket <= offset + t
      <4>1. bucket = BucketTimestamp(offset + t) /\ offset + t \in Nat
        BY <1>1, <2>4, <3>4 DEF Now
      <4> QED BY <4>1, BucketBounds
    <3>6. RATE * (n - 1) + PERIOD * bucket < offset + call + RATE
      <4>1. RATE * (n - 1) <= 0 /\ RATE * (n - 1) \in Int /\ PERIOD * bucket \in Nat
        <5>1. n = 0 \/ n = 1
          OBVIOUS
        <5>2. RATE * (0 - 1) = 0 - RATE /\ RATE * (1 - 1) = 0
          BY <1>1, SMT
        <5>3. PERIOD * bucket \in Nat
          BY <1>1, SMT
        <5> QED BY <1>1, <5>1, <5>2, <5>3
      <4> QED BY <1>1, <2>2, <3>5, <4>1
    <3>7. Counted'
      BY <1>2, <2>2, <3>2, <3>3, <3>6 DEF Counted
    <3> QED BY <1>1, <2>3, <2>6, <3>1, <3>7
  <2>8. CASE Accumulate(bucket)
    <3>1. /\ sample_count' = [sample_count EXCEPT ![current] = (@ + 1) % CountMod]
          /\ UNCHANGED <<start, current, timestamp>>
      BY <2>8 DEF Accumulate
    <3>2. PICK n \in Nat, ts \in Nat : n = sample_count[current] /\ ts = timestamp[current]
      BY <1>1
    <3>3. PICK p \in Nat : p = (n + 1) % CountMod /\ p <= n + 1
      <4>1. (n + 1) % CountMod \in Nat /\ (n + 1) % CountMod <= n + 1
        BY <1>1, SMT
      <4> QED BY <4>1
    <3>4. sample_count'[current'] = p /\ timestamp'[current'] = ts
      BY <1>1, <3>1, <3>2, <3>3
    <3>5. ts > 0 => RATE * (p - 1) + PERIOD * ts < offset + call + RATE
      <4>1. ts > 0 => RATE * (n - 1) + PERIOD * ts < offset + lastCall + RATE
        BY <3>2 DEF CountInv, Counted
      <4>2. PICK k \in Nat : n + 1 = p + k
        <5>1. n + 1 \in Nat /\ p <= n + 1 /\ p \in Nat
          BY <3>2, <3>3
        <5> HIDE DEF t
        <5> QED BY <5>1, Difference
      <4>3. /\ RATE * (n - 1) + RATE = RATE * (p - 1) + RATE * k
            /\ RATE * k \in Nat /\ RATE * (p - 1) \in Int /\ RATE * (n - 1) \in Int
            /\ PERIOD * ts \in Nat
        <5>1. n = p + k - 1
          BY <4>2, <3>2, <3>3
        <5> QED BY <1>1, <5>1, SMT
      <4> QED BY <1>1, <2>3, <4>1, <4>3
    <3>6. Counted'
      BY <1>2, <2>2, <3>4, <3>5 DEF Counted
    <3> QED BY <1>1, <2>3, <2>6, <3>1, <3>6
  <2> QED BY <2>4, <2>7, <2>8
<1> QED BY <1>4, <1>5

LEMMA NextCounts ==
  ASSUME Divides, Steady, CountInv, [Next]_vars
  PROVE  CountInv'
<1>1. SteadyInv' /\ OffsetSet'
  BY NextSteady DEF CountInv
<1>2. ASSUME NEW d \in Elapsed, LoopPass(d) PROVE CountInv'
  BY <1>1, <1>2, LoopPassCounts DEF CountInv, Steady
<1>3. ASSUME UNCHANGED <<lastCall, current, timestamp, sample_count>>,
             timestamp[current] > 0 => offset' = offset
      PROVE  CountInv'
  BY <1>1, <1>3 DEF CountInv, Aligned, Counted, OversamplingBounded
<1>4. ASSUME NEW o \in Offsets, SetTime(o) PROVE CountInv'
  <2>1. offset # 0 => offset' = offset
    BY <1>4 DEF Steady, SetOnce, CountInv, OffsetSet, SetTime
  <2> QED BY <1>3, <1>4, <2>1 DEF CountInv, SteadyInv, UpToDate, SetTime, ring
<1>5. CASE Send
  BY <1>3, <1>5 DEF Send, clock, ring
<1>6. ASSUME NEW ts \in sent, Discard(ts) PROVE CountInv'
  BY <1>3, <1>6 DEF Discard, clock
<1>7. CASE UNCHANGED vars
  BY <1>3, <1>7 DEF vars, clock, ring
<1> QED BY <1>2, <1>4, <1>5, <1>6, <1>7 DEF Next

(* A slot's count of sub-samples stays far below what its 8 bits hold (a   *)
(* count of 0 would be divided by): OVERSAMPLING and one.                  *)
THEOREM OversamplingIsBounded == ASSUME Divides, Steady PROVE Spec => []OversamplingBounded
<1>1. Init => CountInv
  <2>1. Init => SteadyInv /\ OffsetSet
    BY InitSteady
  <2>2. Init => Aligned
    <3>1. RATE * 0 = 0
      BY SamplerAssumption
    <3> QED BY <3>1 DEF Init, Aligned
  <2>3. Init => Counted /\ OversamplingBounded
    BY SamplerAssumption DEF Init, Counted, OversamplingBounded, Slots
  <2> QED BY <2>1, <2>2, <2>3 DEF CountInv
<1>2. CountInv /\ [Next]_vars => CountInv'
  BY NextCounts
<1>3. CountInv => OversamplingBounded
  BY DEF CountInv
<1> QED BY <1>1, <1>2, <1>3, PTL DEF Spec
=============================================================================
