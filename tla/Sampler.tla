------------------------------ MODULE Sampler ------------------------------
(***************************************************************************)
(* The firmware's sampler: the ring buffer of one sample per period, the   *)
(* scheduler and synchronised clock that drive it, and the two calls the   *)
(* telemetry makes on it (getSamples when it transmits, discard when the   *)
(* service acknowledges).  All of it runs in the one Arduino loop task, so *)
(* every operation is one atomic step.  Sources: device/sampler.cpp,       *)
(* device/scheduler.cpp, device/time_sync.cpp, device/telemetry.cpp.       *)
(*                                                                         *)
(* Time is in ticks: PERIOD ticks are the second of SAMPLE_PERIOD, which   *)
(* is also the unit of a sample's timestamp.                               *)
(***************************************************************************)
EXTENDS Integers, FiniteSets, Sequences

CONSTANTS N,          \* buffer_size, 1000 on the device
          PERIOD,     \* ticks in a sample period
          RATE,       \* ticks between two sub-samples, PERIOD / OVERSAMPLING
          CountMod,   \* values of the sample_count field, 2^8 on the device
          Elapsed,    \* ticks one pass of the main loop may take
          Offsets,    \* offsets a SetTime command may give the clock
          MaxUptime   \* bound on the modelled uptime

ASSUME SamplerAssumption ==
  /\ N \in Nat /\ N >= 2
  /\ PERIOD \in Nat \ {0} /\ RATE \in Nat \ {0}
  /\ CountMod \in Nat \ {0}
  /\ Elapsed \subseteq Nat \ {0}
  /\ Offsets \subseteq Nat \ {0}
  /\ MaxUptime \in Nat

VARIABLES uptime,        \* ticks since the device started
          offset,        \* TimeSync: epoch minus uptime, 0 while not synchronised
          lastCall,      \* Scheduler: when the sampler was last called, aligned
          start,         \* slot of the oldest sample
          current,       \* slot of the sample being filled
          timestamp,     \* timestamp field of every slot
          sample_count,  \* sample_count field of every slot
          sent           \* newest timestamp of every batch transmitted so far

clock == <<uptime, offset, lastCall>>
ring  == <<start, current, timestamp, sample_count>>
vars  == <<clock, ring, sent>>

Slots == 0 .. N - 1

-----------------------------------------------------------------------------
(* The clock and the scheduler.                                            *)

Now(t) == IF offset = 0 THEN 0 ELSE offset + t

BucketTimestamp(t) == (t - (t % PERIOD)) \div PERIOD

ShouldCall(t) == lastCall + RATE < t

-----------------------------------------------------------------------------
(* The ring.  The samples from start up to, not including, current are     *)
(* finished and wait for an acknowledgement.                               *)

\* Mutant: the comparison lets the index reach N.
WrapLate(i) == IF i > N THEN 0 ELSE i

Wrap(i) == IF i >= N THEN 0 ELSE i

Pos(s) == IF s >= start THEN s - start ELSE s + N - start

Buffered == Pos(current)

Live == {s \in Slots : Pos(s) < Buffered}

Pending == {timestamp[s] : s \in Live}

\* Mutant: the open sample is handed out with the finished ones.
GetSamplesWithOpen(index) ==
  LET first == IF current > start THEN current + 1 ELSE N
  IN  IF start # current /\ index = 0
        THEN [i \in 1 .. first - start |-> start + i - 1]
      ELSE IF current < start /\ index = 1
        THEN [i \in 1 .. current |-> i - 1]
      ELSE << >>

\* Mutant: the stretch after the wrap is forgotten.
GetSamplesUnwrapped(index) ==
  LET first == IF current > start THEN current ELSE N
  IN  IF start # current /\ index = 0
        THEN [i \in 1 .. first - start |-> start + i - 1]
      ELSE << >>

(* The two contiguous stretches getSamples hands out, as sequences of slots. *)
GetSamples(index) ==
  LET first == IF current > start THEN current ELSE N
  IN  IF start # current /\ index = 0
        THEN [i \in 1 .. first - start |-> start + i - 1]
      ELSE IF current < start /\ index = 1
        THEN [i \in 1 .. current |-> i - 1]
      ELSE << >>

Batch == GetSamples(0) \o GetSamples(1)

\* Mutants: the acknowledged sample itself is not counted, or counted twice.
DiscardCountExclusive(ts) == ts - timestamp[start]
DiscardCountTwice(ts) == ts - timestamp[start] + 2

(* Samples a discard of `ts` believes it covers: one per period since start. *)
DiscardCount(ts) == ts - timestamp[start] + 1

-----------------------------------------------------------------------------
Init ==
  /\ uptime = 0 /\ offset = 0 /\ lastCall = 0
  /\ start = 0 /\ current = 0
  /\ timestamp = [s \in Slots |-> 0]
  /\ sample_count = [s \in Slots |-> 0]
  /\ sent = {}

\* Mutant: the slot is not cleared when a new sample is opened in it.
AdvanceUncleared(bucket) ==
  LET next == IF timestamp[current] = 0 THEN current ELSE Wrap(current + 1)
  IN  /\ bucket > timestamp[current]
      /\ current' = next
      /\ start' = IF next # current /\ next = start THEN Wrap(start + 1) ELSE start
      /\ timestamp' = [timestamp EXCEPT ![next] = bucket]
      /\ sample_count' = [sample_count EXCEPT ![next] = (@ + 1) % CountMod]

\* Mutant: any change of the clock opens a sample, a step back too.
AdvanceOnChange(bucket) ==
  LET next == IF timestamp[current] = 0 THEN current ELSE Wrap(current + 1)
  IN  /\ bucket # timestamp[current]
      /\ current' = next
      /\ start' = IF next # current /\ next = start THEN Wrap(start + 1) ELSE start
      /\ timestamp' = [timestamp EXCEPT ![next] = bucket]
      /\ sample_count' = [sample_count EXCEPT ![next] = 1 % CountMod]

\* Mutant: the slot of the unsynchronised clock is kept as a sample.
AdvanceUndated(bucket) ==
  LET next == Wrap(current + 1)
  IN  /\ bucket > timestamp[current]
      /\ current' = next
      /\ start' = IF next = start THEN Wrap(start + 1) ELSE start
      /\ timestamp' = [timestamp EXCEPT ![next] = bucket]
      /\ sample_count' = [sample_count EXCEPT ![next] = 1 % CountMod]

\* Mutant: the oldest sample is dropped while a slot is still free.
AdvanceEarlyDrop(bucket) ==
  LET next == IF timestamp[current] = 0 THEN current ELSE Wrap(current + 1)
  IN  /\ bucket > timestamp[current]
      /\ current' = next
      /\ start' = IF next # current /\ Wrap(next + 1) = start
                  THEN Wrap(start + 1) ELSE start
      /\ timestamp' = [timestamp EXCEPT ![next] = bucket]
      /\ sample_count' = [sample_count EXCEPT ![next] = 1 % CountMod]

(* sample() at time t: currentSample() opens a new slot when the period    *)
(* has ended, overwriting the oldest sample when the ring is full; then    *)
(* the sub-sample is added to the current slot.                            *)
Advance(bucket) ==
  LET next == IF timestamp[current] = 0 THEN current ELSE Wrap(current + 1)
  IN  /\ bucket > timestamp[current]
      /\ current' = next
      /\ start' = IF next # current /\ next = start THEN Wrap(start + 1) ELSE start
      /\ timestamp' = [timestamp EXCEPT ![next] = bucket]
      /\ sample_count' = [sample_count EXCEPT ![next] = 1 % CountMod]

Accumulate(bucket) ==
  /\ bucket <= timestamp[current]
  /\ sample_count' = [sample_count EXCEPT ![current] = (@ + 1) % CountMod]
  /\ UNCHANGED <<start, current, timestamp>>

Sample(t) ==
  LET bucket == BucketTimestamp(Now(t))
  IN  Advance(bucket) \/ Accumulate(bucket)

(* One pass of the main loop, d ticks after the previous one.              *)
LoopPass(d) ==
  LET t == uptime + d
  IN  /\ t <= MaxUptime
      /\ uptime' = t
      /\ IF ShouldCall(t)
           THEN Sample(t) /\ lastCall' = t - (t % RATE)
           ELSE UNCHANGED <<lastCall, ring>>
      /\ UNCHANGED <<offset, sent>>

(* A SetTime command from the service.                                     *)
SetTime(o) ==
  /\ offset' = o
  /\ UNCHANGED <<uptime, lastCall, ring, sent>>

(* Telemetry transmits everything that is pending.                         *)
Send ==
  /\ sent' = IF Batch = << >> THEN sent
             ELSE sent \union {timestamp[Batch[Len(Batch)]]}
  /\ UNCHANGED <<clock, ring>>

\* Mutant: the count is not limited to the samples buffered.
DiscardUnclipped(ts) ==
  LET count == DiscardCount(ts)
  IN  /\ start' = IF count >= 0 THEN (start + count) % N ELSE start
      /\ UNCHANGED <<clock, current, timestamp, sample_count, sent>>

(* A SampleAck command: discard samples up to and including ts.            *)
Discard(ts) ==
  LET count == DiscardCount(ts)
      clipped == IF count > Buffered THEN Buffered ELSE count
  IN  /\ start' = IF count >= 0 THEN (start + clipped) % N ELSE start
      /\ UNCHANGED <<clock, current, timestamp, sample_count, sent>>

Next ==
  \/ \E d \in Elapsed : LoopPass(d)
  \/ \E o \in Offsets : SetTime(o)
  \/ Send
  \/ \E ts \in sent : Discard(ts)

Spec == Init /\ [][Next]_vars

-----------------------------------------------------------------------------
(* Every variable keeps its type; the ring indices stay inside the buffer. *)
TypeOK ==
  /\ uptime \in Nat /\ offset \in Nat /\ lastCall \in Nat
  /\ start \in Slots /\ current \in Slots
  /\ timestamp \in [Slots -> Nat]
  /\ sample_count \in [Slots -> 0 .. CountMod - 1]
  /\ sent \subseteq Nat

(* From start to current the timestamps grow by at least one per slot,     *)
(* across the wrap, whatever the loop's delays and clock corrections do:   *)
(* discard's arithmetic on timestamps rests on it.                         *)
Spaced ==
  \A a, b \in Slots :
    Pos(a) <= Pos(b) /\ Pos(b) <= Buffered
      => timestamp[b] - timestamp[a] >= Pos(b) - Pos(a)

(* Once the ring holds a finished sample, all its live slots are real:     *)
(* the unsynchronised slot with timestamp 0 is never queued.               *)
Dated == start # current => timestamp[start] > 0

(* Every acknowledgement names a sample older than the open one.           *)
SentClosed == \A ts \in sent : ts < timestamp[current]

(* getSamples' two stretches together list every pending sample once, in   *)
(* the order of their timestamps, also when the ring wraps.                *)
BatchExact ==
  /\ Len(Batch) = Buffered
  /\ {timestamp[Batch[i]] : i \in 1 .. Len(Batch)} = Pending
  /\ \A i, j \in 1 .. Len(Batch) : i < j => timestamp[Batch[i]] < timestamp[Batch[j]]

(* Once an acknowledgement is processed no sample it covers is pending:    *)
(* the ring cannot get stuck retransmitting what the service has stored.   *)
AckReleasesAll ==
  [][\A ts \in sent : Discard(ts) => \A x \in Pending' : x > ts]_vars

(* "Discard samples with a timestamp up to and including `timestamp`"      *)
(* (sampler.h:122): an acknowledgement releases nothing that is newer than *)
(* what was acknowledged.                                                  *)
AckReleasesOnly ==
  [][\A ts \in sent : Discard(ts) => \A x \in Pending : x > ts => x \in Pending']_vars

(* A finished sample leaves the ring only for an acknowledgement, or when  *)
(* the ring is full, and then only the oldest one leaves.                  *)
DropsOnlyWhenFull ==
  [][(\E d \in Elapsed : LoopPass(d)) =>
       \A x \in Pending : x \notin Pending' =>
         Cardinality(Pending) = N - 1 /\ \A y \in Pending : x <= y]_vars

(* With a clock that is set once, a sample takes at most one sub-sample    *)
(* per RATE, and one more because buckets and calls are not aligned.       *)
OversamplingBounded ==
  \A s \in Slots : timestamp[s] > 0 => sample_count[s] <= PERIOD \div RATE + 1

(* The ring implements the abstract queue.                                 *)
Queue == INSTANCE SampleQueue WITH
           pending <- Pending, open <- timestamp[current], Capacity <- N - 1

QueueSpec == Queue!Spec
=============================================================================
