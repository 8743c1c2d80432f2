------------------------ MODULE TelemetryLinkProofs ------------------------
(***************************************************************************)
(* Theorems about TelemetryLink, for every size of the ring, every delay   *)
(* of the loop and the network, and any number of losses and failures.     *)
(* The argument is a chain of custody: what a message carries covers what  *)
(* was pending when it was sent; what the reader has stored is what the    *)
(* message carries; what is acknowledged has been stored.  It holds over   *)
(* time because a step of the device adds nothing to the pending samples   *)
(* that is as old as anything it has ever sent (Ring!PendingAges).         *)
(***************************************************************************)
EXTENDS TelemetryLink, SequenceTheorems, TLAPS

(* The theorems about Sampler, for the device of TelemetryLink.            *)
Ring == INSTANCE SteadyClockProofs WITH Offsets <- 1 .. Epoch

Command == [type : {"SetTime", "SampleAck"}, timestamp : Nat]
Message == [time : Nat, samples : Seq(Nat)]

Commands == Range(queue) \union Range(outbox)
Messages == Range(inbox) \union {body}

LinkTypes ==
  /\ TypeOK
  /\ queue \in Seq(Command) /\ outbox \in Seq(Command)
  /\ inbox \in Seq(Message) /\ body \in Message

(* Everything pending up to ts is in S, and was pending in a batch sent.   *)
Covered(ts, S) ==
  ts \in sent /\ \A x \in Sampling!Pending : x <= ts => x \in S

AcksCovered ==
  \A c \in Commands : c.type = "SampleAck" => Covered(c.timestamp, stored)

MessagesCovered ==
  \A m \in Messages :
    m.samples # << >> => Covered(Service!LastTimestamp(m), Service!Contents(m))

BodyStored == reader = "stored" => Service!Contents(body) \subseteq stored

SetTimesRecent ==
  \A c \in SetTimes : c.timestamp <= Clock /\ Clock <= c.timestamp + MaxDelay

Custody == AcksCovered /\ MessagesCovered /\ BodyStored

LinkInv == Ring!Inv /\ LinkTypes /\ Custody /\ SetTimesRecent /\ ClockBounded

-----------------------------------------------------------------------------
(* Sequences as sets of their elements.                                    *)

LEMMA RangeEmpty == Range(<< >>) = {}
BY DEF Range

LEMMA RangeAppend ==
  ASSUME NEW S, NEW s \in Seq(S), NEW x \in S
  PROVE  Append(s, x) \in Seq(S) /\ Range(Append(s, x)) = Range(s) \union {x}
<1>1. /\ Append(s, x) \in Seq(S)
      /\ DOMAIN Append(s, x) = 1 .. Len(s) + 1 /\ DOMAIN s = 1 .. Len(s)
      /\ \A i \in 1 .. Len(s) : Append(s, x)[i] = s[i]
      /\ Append(s, x)[Len(s) + 1] = x /\ Len(s) \in Nat
  BY AppendProperties, LenProperties
<1>2. ASSUME NEW y \in Range(Append(s, x)) PROVE y \in Range(s) \union {x}
  <2>1. PICK i \in 1 .. Len(s) + 1 : y = Append(s, x)[i]
    BY <1>1, <1>2 DEF Range
  <2>2. CASE i \in 1 .. Len(s)
    BY <1>1, <2>1, <2>2 DEF Range
  <2>3. CASE i = Len(s) + 1
    BY <1>1, <2>1, <2>3
  <2> QED BY <1>1, <2>2, <2>3
<1>3. ASSUME NEW y \in Range(s) PROVE y \in Range(Append(s, x))
  <2>1. PICK i \in 1 .. Len(s) : y = s[i]
    BY <1>1, <1>3 DEF Range
  <2>2. y = Append(s, x)[i] /\ i \in 1 .. Len(s) + 1
    BY <1>1, <2>1
  <2> QED BY <1>1, <2>2 DEF Range
<1>4. x \in Range(Append(s, x))
  <2>1. Len(s) + 1 \in DOMAIN Append(s, x)
    BY <1>1
  <2> QED BY <1>1, <2>1 DEF Range
<1> QED BY <1>1, <1>2, <1>3, <1>4

LEMMA RangeTail ==
  ASSUME NEW S, NEW s \in Seq(S), s # << >>
  PROVE  /\ Head(s) \in S /\ Tail(s) \in Seq(S)
         /\ Head(s) \in Range(s) /\ Range(Tail(s)) \subseteq Range(s)
<1>1. /\ Tail(s) \in Seq(S) /\ Len(Tail(s)) = Len(s) - 1
      /\ \A i \in 1 .. Len(Tail(s)) : Tail(s)[i] = s[i + 1]
      /\ Head(s) \in S /\ Head(s) = s[1]
      /\ Len(s) \in Nat /\ Len(s) # 0 /\ DOMAIN s = 1 .. Len(s)
      /\ DOMAIN Tail(s) = 1 .. Len(Tail(s))
  BY HeadTailProperties, LenProperties, EmptySeq
<1>2. Head(s) \in Range(s)
  <2>1. 1 \in DOMAIN s
    BY <1>1
  <2> QED BY <1>1, <2>1 DEF Range
<1>3. ASSUME NEW y \in Range(Tail(s)) PROVE y \in Range(s)
  <2>1. PICK i \in 1 .. Len(Tail(s)) : y = Tail(s)[i]
    BY <1>1, <1>3 DEF Range
  <2>2. i + 1 \in DOMAIN s /\ y = s[i + 1]
    BY <1>1, <2>1
  <2> QED BY <2>2 DEF Range
<1> QED BY <1>1, <1>2, <1>3

LEMMA LastOfMessage ==
  ASSUME NEW m \in Message
  PROVE  /\ Service!Contents(m) \subseteq Nat
         /\ Service!LastTimestamp(m) \in Nat
<1>1. m.samples \in Seq(Nat)
  BY DEF Message
<1>2. \A i \in 1 .. Len(m.samples) : m.samples[i] \in Nat
  BY <1>1, ElementOfSeq
<1>3. m.samples # << >> => Len(m.samples) \in 1 .. Len(m.samples)
  BY <1>1, EmptySeq, LenProperties
<1> QED BY <1>2, <1>3 DEF Service!Contents, Service!LastTimestamp

-----------------------------------------------------------------------------
(* The device of TelemetryLink is a Sampler.                               *)

LEMMA RingAssumption == Ring!SamplerAssumption
BY SamplingAssumption DEF Sampling!SamplerAssumption, Ring!SamplerAssumption

LEMMA SamePending ==
  /\ Sampling!Pending = Ring!Pending
  /\ Sampling!Pending' = Ring!Pending'
BY DEF Sampling!Pending, Ring!Pending, Sampling!Live, Ring!Live, Sampling!Slots,
       Ring!Slots, Sampling!Buffered, Ring!Buffered, Sampling!Pos, Ring!Pos

LEMMA SameBatch ==
  /\ Sampling!Batch = Ring!Batch
  /\ Sampling!Now(uptime) = Ring!Now(uptime)
BY DEF Sampling!Batch, Ring!Batch, Sampling!GetSamples, Ring!GetSamples,
       Sampling!Now, Ring!Now

LEMMA SameStep ==
  ASSUME [Sampling!Next]_(Sampling!vars)
  PROVE  [Ring!Next]_(Ring!vars)
<1> USE DEF Sampling!clock, Ring!clock, Sampling!ring, Ring!ring, Sampling!Slots, Ring!Slots
<1>1. ASSUME NEW d \in Elapsed, Sampling!LoopPass(d) PROVE Ring!LoopPass(d)
  BY <1>1 DEF Sampling!LoopPass, Ring!LoopPass, Sampling!ShouldCall, Ring!ShouldCall,
     Sampling!Sample, Ring!Sample, Sampling!Advance, Ring!Advance, Sampling!Accumulate,
     Ring!Accumulate, Sampling!BucketTimestamp, Ring!BucketTimestamp, Sampling!Now,
     Ring!Now, Sampling!Wrap, Ring!Wrap
<1>2. ASSUME NEW o \in 1 .. Epoch, Sampling!SetTime(o) PROVE Ring!SetTime(o)
  BY <1>2 DEF Sampling!SetTime, Ring!SetTime
<1>3. ASSUME Sampling!Send PROVE Ring!Send
  BY <1>3, SameBatch DEF Sampling!Send, Ring!Send
<1>4. ASSUME NEW ts \in sent, Sampling!Discard(ts) PROVE Ring!Discard(ts)
  BY <1>4 DEF Sampling!Discard, Ring!Discard, Sampling!DiscardCount, Ring!DiscardCount,
     Sampling!Buffered, Ring!Buffered, Sampling!Pos, Ring!Pos
<1>5. ASSUME UNCHANGED Sampling!vars PROVE UNCHANGED Ring!vars
  BY <1>5 DEF Sampling!vars, Ring!vars
<1>6. CASE Sampling!Next
  BY <1>1, <1>2, <1>3, <1>4, <1>6 DEF Sampling!Next, Ring!Next
<1> QED BY <1>5, <1>6

-----------------------------------------------------------------------------
(* Every step of the link is a step of the sampler, or leaves it alone:    *)
(* the service acknowledges only batches it was sent, and sets the clock   *)
(* only to offsets the sampler allows for.                                 *)

LEMMA DispatchStep ==
  ASSUME LinkInv, Dispatch
  PROVE  Sampling!Next
<1> DEFINE command == Head(outbox)
<1>1. /\ command \in Command /\ command \in Commands
      /\ outbox # << >> /\ outbox \in Seq(Command)
  BY RangeTail DEF Dispatch, LinkInv, LinkTypes, Commands
<1>2. CASE command.type = "SetTime"
  <2> DEFINE o == command.timestamp - uptime
  <2>1. Sampling!SetTime(o)
    BY <1>2 DEF Dispatch
  <2>2. command \in SetTimes
    BY <1>1, <1>2 DEF SetTimes, Commands
  <2>3. command.timestamp <= Clock /\ Clock <= command.timestamp + MaxDelay
    BY <2>2 DEF LinkInv, SetTimesRecent
  <2>4. command.timestamp \in Nat /\ uptime \in Nat
    BY <1>1 DEF Command, LinkInv, Ring!Inv, Ring!TypeOK
  <2>5. o \in 1 .. Epoch
    <3> HIDE DEF command
    <3> QED BY <2>3, <2>4, LinkAssumption DEF Clock
  <2> HIDE DEF o
  <2> QED BY <2>1, <2>5 DEF Sampling!Next
<1>3. CASE command.type # "SetTime"
  <2>1. Sampling!Discard(command.timestamp)
    BY <1>3 DEF Dispatch
  <2>2. command.type = "SampleAck"
    BY <1>1, <1>3 DEF Command
  <2>3. command.timestamp \in sent
    BY <1>1, <2>2 DEF LinkInv, Custody, AcksCovered, Covered
  <2> HIDE DEF command
  <2> QED BY <2>1, <2>3 DEF Sampling!Next
<1> QED BY <1>2, <1>3

LEMMA DeviceIdle ==
  ASSUME UNCHANGED device
  PROVE  UNCHANGED Sampling!vars
BY DEF device, Sampling!vars, Sampling!clock, Sampling!ring

LEMMA SamplerStep ==
  ASSUME LinkInv, [Next]_vars
  PROVE  [Sampling!Next]_(Sampling!vars)
<1>1. CASE Loop
  BY <1>1 DEF Loop, Sampling!Next
<1>2. CASE Send
  BY <1>2 DEF Send, Sampling!Next
<1>3. CASE Dispatch
  BY <1>3, DispatchStep
<1>4. CASE Connect
  BY <1>4, DeviceIdle DEF Connect
<1>5. CASE Lose
  BY <1>5, DeviceIdle DEF Lose
<1>6. CASE SeeClose
  BY <1>6, DeviceIdle DEF SeeClose
<1>7. CASE Read
  BY <1>7, DeviceIdle DEF Read
<1>8. CASE Write
  BY <1>8, DeviceIdle DEF Write
<1>9. CASE Notice
  BY <1>9, DeviceIdle DEF Notice
<1>10. CASE Delete
  BY <1>10, DeviceIdle DEF Delete
<1>11. CASE Fail
  BY <1>11, DeviceIdle DEF Fail
<1>12. CASE UNCHANGED vars
  BY <1>12, DeviceIdle DEF vars
<1> QED BY <1>1, <1>2, <1>3, <1>4, <1>5, <1>6, <1>7, <1>8, <1>9, <1>10, <1>11, <1>12 DEF Next

(* What covers the pending samples of a batch sent keeps covering them.    *)
LEMMA CoverLasts ==
  ASSUME LinkInv, [Next]_vars, NEW ts, NEW S, NEW T, Covered(ts, S), S \subseteq T
  PROVE  Covered(ts, T)'
<1>1. Ring!Inv /\ [Ring!Next]_(Ring!vars)
  BY SamplerStep, SameStep DEF LinkInv
<1>2. /\ sent \subseteq sent'
      /\ \A x \in Ring!Pending' : x \in Ring!Pending \/ x >= timestamp[current]
  BY <1>1, RingAssumption, Ring!PendingAges
<1>3. ts \in sent /\ ts \in Nat /\ ts < timestamp[current] /\ timestamp[current] \in Nat
  BY <1>1 DEF Covered, Ring!Inv, Ring!TypeOK, Ring!SentClosed
<1>4. ASSUME NEW x \in Sampling!Pending', x <= ts PROVE x \in T
  <2>1. x \in Ring!Pending
    <3>1. Ring!Inv'
      BY <1>1, RingAssumption, Ring!NextInv
    <3>2. x \in Nat
      BY <1>4, <3>1, SamePending DEF Ring!Inv, Ring!TypeOK, Ring!Pending, Ring!Live
    <3> QED BY <1>2, <1>3, <1>4, <3>2, SamePending
  <2> QED BY <1>4, <2>1, SamePending DEF Covered
<1> QED BY <1>2, <1>3, <1>4 DEF Covered

-----------------------------------------------------------------------------
(* What travels keeps its type.                                            *)

LEMMA SendMessage ==
  ASSUME LinkInv, Send
  PROVE  \E m \in Message :
           /\ inbox' = IF session = "open" THEN Append(inbox, m) ELSE inbox
           /\ m.samples # << >> =>
                Covered(Service!LastTimestamp(m), Service!Contents(m))'
<1> DEFINE samples == [i \in 1 .. Len(Sampling!Batch) |-> timestamp[Sampling!Batch[i]]]
           telemetry == [time |-> Sampling!Now(uptime), samples |-> samples]
<1>0. PICK m : m = telemetry
  OBVIOUS
<1>1. Ring!Inv /\ Ring!TypeOK /\ Ring!Spaced
  BY DEF LinkInv, Ring!Inv
<1>2. /\ Ring!Batch \in Seq(Ring!Slots) /\ Len(Ring!Batch) \in Nat
      /\ \A i \in 1 .. Len(Ring!Batch) : Ring!Batch[i] \in Ring!Slots
  BY <1>1, RingAssumption, Ring!BatchSlots, ElementOfSeq, LenProperties
<1>3. Ring!BatchExact
  BY <1>1, RingAssumption, Ring!BatchLists
<1>4. samples = [i \in 1 .. Len(Ring!Batch) |-> timestamp[Ring!Batch[i]]]
  BY SameBatch
<1>5. timestamp \in [Ring!Slots -> Nat]
  BY <1>1 DEF Ring!TypeOK
<1>6. samples \in Seq(Nat) /\ Len(samples) = Len(Ring!Batch)
  <2>1. samples \in [1 .. Len(Ring!Batch) -> Nat] /\ DOMAIN samples = 1 .. Len(Ring!Batch)
    BY <1>2, <1>4, <1>5
  <2> HIDE DEF samples
  <2> QED BY <1>2, <2>1
<1>7. Sampling!Now(uptime) \in Nat
  BY <1>1 DEF Sampling!Now, Ring!TypeOK
<1>8. m \in Message
  <2> HIDE DEF samples
  <2> QED BY <1>0, <1>6, <1>7 DEF Message
<1>9. inbox' = IF session = "open" THEN Append(inbox, m) ELSE inbox
  BY <1>0 DEF Send
<1>r. m.samples = samples
  <2> HIDE DEF samples
  <2> QED BY <1>0
<1>10. ASSUME m.samples # << >>
       PROVE  Covered(Service!LastTimestamp(m), Service!Contents(m))'
  <2>1. samples # << >> /\ Len(Ring!Batch) \in 1 .. Len(Ring!Batch)
    <3> HIDE DEF samples
    <3>1. samples # << >>
      BY <1>10, <1>r
    <3> QED BY <3>1, <1>2, <1>6, EmptySeq
  <2>2. Service!LastTimestamp(m) = timestamp[Ring!Batch[Len(Ring!Batch)]]
    <3>1. Service!LastTimestamp(m) = samples[Len(samples)]
      BY <2>1, <1>r DEF Service!LastTimestamp
    <3>2. samples[Len(Ring!Batch)] = timestamp[Ring!Batch[Len(Ring!Batch)]]
      BY <1>4, <2>1
    <3> HIDE DEF samples
    <3> QED BY <1>6, <3>1, <3>2
  <2>3. Service!Contents(m) = {timestamp[Ring!Batch[i]] : i \in 1 .. Len(Ring!Batch)}
    <3>1. Service!Contents(m) = {samples[i] : i \in 1 .. Len(samples)}
      BY <1>r DEF Service!Contents
    <3>2. \A i \in 1 .. Len(Ring!Batch) : samples[i] = timestamp[Ring!Batch[i]]
      BY <1>4
    <3> HIDE DEF samples
    <3> QED BY <1>6, <3>1, <3>2
  <2>4. Service!Contents(m) = Ring!Pending
    BY <1>3, <2>3 DEF Ring!BatchExact
  <2>5. Service!LastTimestamp(m) \in sent'
    <3>1. Ring!Batch # << >>
      BY <1>2, <2>1, EmptySeq
    <3>2. sent' = sent \union {timestamp[Ring!Batch[Len(Ring!Batch)]]}
      BY <3>1, SameBatch DEF Send, Sampling!Send
    <3> QED BY <2>2, <3>2
  <2>6. Sampling!Pending' = Ring!Pending
    <3>1. UNCHANGED <<start, current, timestamp>>
      BY DEF Send, Sampling!Send, Sampling!ring
    <3>2. Sampling!Pending' = Sampling!Pending
      BY <3>1 DEF Sampling!Pending, Sampling!Live, Sampling!Slots, Sampling!Buffered,
         Sampling!Pos
    <3> QED BY <3>2, SamePending
  <2> QED BY <2>4, <2>5, <2>6 DEF Covered
<1> QED BY <1>8, <1>9, <1>10

LEMMA Queued ==
  ASSUME LinkInv, NEW c \in Command, queue' = Append(queue, c)
  PROVE  queue' \in Seq(Command) /\ Range(queue') = Range(queue) \union {c}
BY RangeAppend DEF LinkInv, LinkTypes

LEMMA Taken ==
  ASSUME LinkInv, inbox # << >>, inbox' = Tail(inbox), body' = Head(inbox)
  PROVE  /\ inbox' \in Seq(Message) /\ body' \in Message
         /\ Messages' \subseteq Messages
BY RangeTail DEF LinkInv, LinkTypes, Messages

LEMMA ClockIsNat ==
  ASSUME LinkInv
  PROVE  Clock \in Nat /\ Service!SetTimeCommand(Clock) \in Command
<1>1. Clock \in Nat
  BY LinkAssumption DEF LinkInv, Ring!Inv, Ring!TypeOK, Clock
<1> QED BY <1>1 DEF Service!SetTimeCommand, Command

LEMMA NoBodyTyped == Service!NoBody \in Message /\ Service!NoBody.samples = << >>
<1>1. << >> \in Seq(Nat)
  BY EmptySeq
<1> QED BY <1>1 DEF Service!NoBody, Message

LEMMA TypesKept ==
  ASSUME LinkInv, [Next]_vars
  PROVE  LinkTypes'
<1> USE DEF task, service, network
<1>1. LinkTypes /\ TypeOK
  BY DEF LinkInv, LinkTypes
<1>2. /\ << >> \in Seq(Command) /\ << >> \in Seq(Message)
      /\ Service!NoBody \in Message
  BY NoBodyTyped, EmptySeq
<1>3. ASSUME Fault PROVE faults' \in 0 .. MaxFaults
  BY <1>1, <1>3, LinkAssumption DEF Fault, TypeOK
<1>4. ASSUME Service!TearDown, UNCHANGED <<registered, connected, reboot, outbox, stored>>,
             faults' \in 0 .. MaxFaults
      PROVE  LinkTypes'
  BY <1>1, <1>2, <1>4 DEF Service!TearDown, LinkTypes, TypeOK
<1>5. CASE Loop
  BY <1>1, <1>5 DEF Loop, LinkTypes, TypeOK
<1>6. CASE Send
  <2>1. PICK m \in Message :
          inbox' = IF session = "open" THEN Append(inbox, m) ELSE inbox
    BY <1>6, SendMessage
  <2>2. inbox' \in Seq(Message)
    BY <1>1, <2>1, RangeAppend DEF LinkTypes
  <2>3. session = "closed" => inbox' = << >>
    BY <1>1, <2>1 DEF TypeOK
  <2>4. UNCHANGED <<registered, session, reader, body, queue, outbox, stored, network, faults>>
    BY <1>6 DEF Send
  <2> QED BY <1>1, <2>2, <2>3, <2>4 DEF LinkTypes, TypeOK
<1>7. CASE Dispatch
  <2>1. outbox' \in Seq(Command)
    BY <1>1, <1>7, RangeTail DEF Dispatch, LinkTypes
  <2>2. UNCHANGED <<registered, task, stored, network, faults>>
    BY <1>7 DEF Dispatch
  <2> QED BY <1>1, <2>1, <2>2 DEF LinkTypes, TypeOK
<1>8. CASE Connect
  <2>1. CASE Service!Accept(Clock) /\ connected' = TRUE /\ UNCHANGED reboot
    <3>1. queue' = Append(<< >>, Service!SetTimeCommand(Clock))
      BY <2>1 DEF Service!Accept
    <3>2. queue' \in Seq(Command)
      BY <1>2, <3>1, ClockIsNat, RangeAppend
    <3>3. stored' \subseteq Nat
      <4>1. Service!Contents(body) \subseteq Nat
        BY <1>1, LastOfMessage DEF LinkTypes
      <4> QED BY <1>1, <2>1, <4>1 DEF Service!Accept, TypeOK
    <3>4. /\ registered' = registered /\ faults' = faults
          /\ session' = "open" /\ reader' = "receive" /\ body' = Service!NoBody
          /\ inbox' = << >> /\ outbox' = << >>
      BY <1>8, <2>1 DEF Connect, Service!Accept
    <3> QED BY <1>1, <1>2, <2>1, <3>2, <3>3, <3>4 DEF LinkTypes, TypeOK
  <2>2. CASE reboot' = TRUE /\ UNCHANGED <<connected, service>>
    BY <1>1, <1>8, <2>2 DEF Connect, LinkTypes, TypeOK
  <2> QED BY <1>8, <2>1, <2>2 DEF Connect
<1>9. CASE Lose
  BY <1>1, <1>2, <1>3, <1>9 DEF Lose, LinkTypes, TypeOK
<1>10. CASE SeeClose
  BY <1>1, <1>2, <1>10 DEF SeeClose, LinkTypes, TypeOK
<1>11. CASE Read
  <2>1. CASE Service!Receive(Clock)
    <3>1. /\ inbox # << >> /\ inbox' = Tail(inbox) /\ body' = Head(inbox)
          /\ session = "open" /\ reader' = "storing"
          /\ queue' = queue \/ queue' = Append(queue, Service!SetTimeCommand(Clock))
          /\ UNCHANGED <<registered, session, outbox, stored, network, faults>>
      BY <1>11, <2>1 DEF Read, Service!Receive
    <3>2. inbox' \in Seq(Message) /\ body' \in Message
      BY <3>1, Taken
    <3>3. queue' \in Seq(Command)
      BY <1>1, <3>1, ClockIsNat, Queued DEF LinkTypes
    <3> QED BY <1>1, <3>1, <3>2, <3>3 DEF LinkTypes, TypeOK
  <2>2. CASE Service!ReceiveUnknown
    BY <1>1, <1>4, <1>11, <2>2 DEF Read, Service!ReceiveUnknown, TypeOK
  <2>3. CASE Service!Store
    <3>1. Service!Contents(body) \subseteq Nat
      BY <1>1, LastOfMessage DEF LinkTypes
    <3> QED BY <1>1, <1>11, <2>3, <3>1 DEF Read, Service!Store, LinkTypes, TypeOK
  <2>4. CASE Service!Acknowledge
    <3>1. Service!SampleAck(Service!LastTimestamp(body)) \in Command
      BY <1>1, LastOfMessage DEF LinkTypes, Service!SampleAck, Command
    <3>2. /\ reader' = "receive" /\ body' = Service!NoBody /\ session # "closed"
          /\ \/ queue' = queue
             \/ queue' = Append(queue, Service!SampleAck(Service!LastTimestamp(body)))
          /\ UNCHANGED <<registered, session, inbox, outbox, stored, network, faults>>
      BY <1>1, <1>11, <2>4 DEF Read, Service!Acknowledge, TypeOK
    <3>3. queue' \in Seq(Command)
      BY <1>1, <3>1, <3>2, Queued DEF LinkTypes
    <3> QED BY <1>1, <1>2, <3>2, <3>3 DEF LinkTypes, TypeOK
  <2> QED BY <1>11, <2>1, <2>2, <2>3, <2>4 DEF Read
<1>12. CASE Write
  <2>1. Head(queue) \in Command /\ Tail(queue) \in Seq(Command)
    BY <1>1, <1>12, RangeTail DEF Write, Service!Write, LinkTypes
  <2>2. outbox' \in Seq(Command) /\ queue' \in Seq(Command)
    BY <1>1, <1>12, <2>1, RangeAppend DEF Write, Service!Write, LinkTypes
  <2>3. session = "open" /\ UNCHANGED <<registered, session, reader, body, inbox, stored,
                                        network, faults>>
    BY <1>12 DEF Write, Service!Write
  <2> QED BY <1>1, <2>2, <2>3 DEF LinkTypes, TypeOK
<1>13. CASE Notice
  BY <1>1, <1>4, <1>13 DEF Notice, Service!Notice, TypeOK
<1>14. CASE Delete
  BY <1>1, <1>14 DEF Delete, Service!Delete, Service!task, LinkTypes, TypeOK
<1>15. CASE Fail
  <2>1. CASE Service!Refuse
    BY <1>1, <1>2, <1>3, <1>15, <2>1 DEF Fail, Service!Refuse, LinkTypes, TypeOK
  <2>2. CASE Service!StoreRaises
    BY <1>1, <1>3, <1>4, <1>15, <2>2 DEF Fail, Service!StoreRaises
  <2> QED BY <1>15, <2>1, <2>2 DEF Fail
<1>16. CASE UNCHANGED vars
  BY <1>1, <1>16 DEF vars, LinkTypes, TypeOK
<1> QED BY <1>5, <1>6, <1>7, <1>8, <1>9, <1>10, <1>11, <1>12, <1>13, <1>14, <1>15, <1>16 DEF Next

-----------------------------------------------------------------------------
(* What a step adds to the traffic.                                        *)

NewCommand(c) ==
  \/ c = Service!SetTimeCommand(Clock)
  \/ /\ reader = "stored" /\ Service!LastTimestamp(body) # 0
     /\ c = Service!SampleAck(Service!LastTimestamp(body))

LEMMA CommandTraffic ==
  ASSUME LinkInv, [Next]_vars
  PROVE  \A c \in Commands' : c \in Commands \/ NewCommand(c)
<1> USE DEF task, service, network, Commands
<1>1. queue \in Seq(Command) /\ outbox \in Seq(Command)
  BY DEF LinkInv, LinkTypes
<1>2. ASSUME queue' = queue \/ queue' = << >>, outbox' = outbox \/ outbox' = << >>
      PROVE  Commands' \subseteq Commands
  BY <1>2, RangeEmpty
<1>3. ASSUME NEW c \in Command, queue' = Append(queue, c), outbox' = outbox
      PROVE  Commands' = Commands \union {c}
  BY <1>3, Queued
<1>4. CASE Loop
  BY <1>2, <1>4 DEF Loop
<1>5. CASE Send
  BY <1>2, <1>5 DEF Send
<1>6. CASE Dispatch
  <2>1. outbox # << >> /\ outbox' = Tail(outbox) /\ queue' = queue
    BY <1>6 DEF Dispatch
  <2> QED BY <1>1, <2>1, RangeTail
<1>7. CASE Connect
  <2>1. CASE Service!Accept(Clock)
    <3>1. PICK c \in Command : c = Service!SetTimeCommand(Clock)
      BY ClockIsNat
    <3>2. /\ queue' = Append(<< >>, c) /\ outbox' = << >>
          /\ << >> \in Seq(Command)
      BY <2>1, <3>1, EmptySeq DEF Service!Accept
    <3>3. Range(Append(<< >>, c)) = Range(<< >>) \union {c}
      BY <3>2, RangeAppend
    <3> QED BY <3>1, <3>2, <3>3, RangeEmpty DEF NewCommand
  <2>2. CASE UNCHANGED <<connected, service>>
    BY <1>2, <2>2
  <2> QED BY <1>7, <2>1, <2>2 DEF Connect
<1>8. CASE Lose
  BY <1>2, <1>8 DEF Lose
<1>9. CASE SeeClose
  BY <1>2, <1>9 DEF SeeClose
<1>10. CASE Read
  <2>1. CASE Service!Receive(Clock)
    <3>1. /\ queue' = queue \/ queue' = Append(queue, Service!SetTimeCommand(Clock))
          /\ outbox' = outbox
      BY <2>1 DEF Service!Receive
    <3> QED BY <1>2, <1>3, <3>1, ClockIsNat DEF NewCommand
  <2>2. CASE Service!ReceiveUnknown
    BY <1>2, <2>2 DEF Service!ReceiveUnknown, Service!TearDown
  <2>3. CASE Service!Store
    BY <1>2, <2>3 DEF Service!Store
  <2>4. CASE Service!Acknowledge
    <3>1. CASE Service!LastTimestamp(body) = 0
      BY <1>2, <2>4, <3>1 DEF Service!Acknowledge
    <3>2. CASE Service!LastTimestamp(body) # 0
      <4>1. PICK a \in Command : a = Service!SampleAck(Service!LastTimestamp(body))
        BY LastOfMessage DEF LinkInv, LinkTypes, Service!SampleAck, Command
      <4>2. queue' = Append(queue, a) /\ outbox' = outbox /\ reader = "stored"
        BY <2>4, <3>2, <4>1 DEF Service!Acknowledge
      <4> QED BY <1>3, <3>2, <4>1, <4>2 DEF NewCommand
    <3> QED BY <3>1, <3>2
  <2> QED BY <1>10, <2>1, <2>2, <2>3, <2>4 DEF Read
<1>11. CASE Write
  <2>1. /\ queue # << >> /\ queue' = Tail(queue)
        /\ outbox' = Append(outbox, Head(queue))
    BY <1>11 DEF Write, Service!Write
  <2>2. /\ Head(queue) \in Command /\ Head(queue) \in Range(queue)
        /\ Range(queue') \subseteq Range(queue)
    BY <1>1, <2>1, RangeTail
  <2>3. Range(outbox') = Range(outbox) \union {Head(queue)}
    BY <1>1, <2>1, <2>2, RangeAppend
  <2> QED BY <2>2, <2>3
<1>12. CASE Notice
  BY <1>2, <1>12 DEF Notice, Service!Notice, Service!TearDown
<1>13. CASE Delete
  BY <1>2, <1>13 DEF Delete, Service!Delete, Service!task
<1>14. CASE Fail
  BY <1>2, <1>14 DEF Fail, Service!Refuse, Service!StoreRaises, Service!TearDown
<1>15. CASE UNCHANGED vars
  BY <1>2, <1>15 DEF vars
<1> QED BY <1>4, <1>5, <1>6, <1>7, <1>8, <1>9, <1>10, <1>11, <1>12, <1>13, <1>14, <1>15 DEF Next

LEMMA MessageTraffic ==
  ASSUME LinkInv, [Next]_vars
  PROVE  \A m \in Messages' :
           m \in Messages \/ m.samples = << >>
             \/ Covered(Service!LastTimestamp(m), Service!Contents(m))'
<1> USE DEF task, service, network, Messages
<1>1. inbox \in Seq(Message)
  BY DEF LinkInv, LinkTypes
<1>2. ASSUME inbox' = inbox \/ inbox' = << >>, body' = body \/ body' = Service!NoBody
      PROVE  \A m \in Messages' : m \in Messages \/ m.samples = << >>
  BY <1>2, RangeEmpty, NoBodyTyped
<1>3. CASE Loop
  BY <1>2, <1>3 DEF Loop
<1>4. CASE Send
  <2>1. PICK m \in Message :
          /\ inbox' = IF session = "open" THEN Append(inbox, m) ELSE inbox
          /\ m.samples # << >> =>
               Covered(Service!LastTimestamp(m), Service!Contents(m))'
    BY <1>4, SendMessage
  <2>2. Range(inbox') \subseteq Range(inbox) \union {m} /\ body' = body
    BY <1>1, <1>4, <2>1, RangeAppend DEF Send
  <2> QED BY <2>1, <2>2
<1>5. CASE Dispatch
  BY <1>2, <1>5 DEF Dispatch
<1>6. CASE Connect
  BY <1>2, <1>6 DEF Connect, Service!Accept
<1>7. CASE Lose
  BY <1>2, <1>7 DEF Lose
<1>8. CASE SeeClose
  BY <1>2, <1>8 DEF SeeClose
<1>9. CASE Read
  <2>1. CASE Service!Receive(Clock)
    BY <2>1, Taken DEF Service!Receive
  <2>2. CASE Service!ReceiveUnknown
    BY <1>2, <2>2 DEF Service!ReceiveUnknown, Service!TearDown
  <2>3. CASE Service!Store
    BY <1>2, <2>3 DEF Service!Store
  <2>4. CASE Service!Acknowledge
    BY <1>2, <2>4 DEF Service!Acknowledge
  <2> QED BY <1>9, <2>1, <2>2, <2>3, <2>4 DEF Read
<1>10. CASE Write
  BY <1>2, <1>10 DEF Write, Service!Write
<1>11. CASE Notice
  BY <1>2, <1>11 DEF Notice, Service!Notice, Service!TearDown
<1>12. CASE Delete
  BY <1>2, <1>12 DEF Delete, Service!Delete, Service!task
<1>13. CASE Fail
  BY <1>2, <1>13 DEF Fail, Service!Refuse, Service!StoreRaises, Service!TearDown
<1>14. CASE UNCHANGED vars
  BY <1>2, <1>14 DEF vars
<1> QED BY <1>3, <1>4, <1>5, <1>6, <1>7, <1>8, <1>9, <1>10, <1>11, <1>12, <1>13, <1>14 DEF Next

LEMMA StoreTraffic ==
  ASSUME LinkInv, [Next]_vars
  PROVE  stored \subseteq stored' /\ BodyStored'
<1> USE DEF task, service, network, BodyStored
<1>1. BodyStored
  BY DEF LinkInv, Custody
<1>2. ASSUME UNCHANGED <<reader, body, stored>>
      PROVE  stored \subseteq stored' /\ BodyStored'
  BY <1>1, <1>2 DEF Service!Contents
<1>3. ASSUME stored \subseteq stored', reader' # "stored"
      PROVE  stored \subseteq stored' /\ BodyStored'
  BY <1>3
<1>4. CASE Loop
  BY <1>2, <1>4 DEF Loop
<1>5. CASE Send
  BY <1>2, <1>5 DEF Send
<1>6. CASE Dispatch
  BY <1>2, <1>6 DEF Dispatch
<1>7. CASE Connect
  <2>1. CASE Service!Accept(Clock)
    BY <1>3, <2>1 DEF Service!Accept
  <2>2. CASE UNCHANGED <<connected, service>>
    BY <1>2, <2>2
  <2> QED BY <1>7, <2>1, <2>2 DEF Connect
<1>8. CASE Lose
  BY <1>2, <1>8 DEF Lose
<1>9. CASE SeeClose
  BY <1>2, <1>9 DEF SeeClose
<1>10. CASE Read
  <2>1. CASE Service!Receive(Clock)
    BY <1>3, <2>1 DEF Service!Receive
  <2>2. CASE Service!ReceiveUnknown
    BY <1>3, <2>2 DEF Service!ReceiveUnknown, Service!TearDown
  <2>3. CASE Service!Store
    BY <2>3 DEF Service!Store, Service!Contents
  <2>4. CASE Service!Acknowledge
    BY <1>3, <2>4 DEF Service!Acknowledge
  <2> QED BY <1>10, <2>1, <2>2, <2>3, <2>4 DEF Read
<1>11. CASE Write
  BY <1>2, <1>11 DEF Write, Service!Write
<1>12. CASE Notice
  BY <1>3, <1>12 DEF Notice, Service!Notice, Service!TearDown
<1>13. CASE Delete
  BY <1>2, <1>13 DEF Delete, Service!Delete, Service!task
<1>14. CASE Fail
  BY <1>3, <1>14 DEF Fail, Service!Refuse, Service!StoreRaises, Service!TearDown
<1>15. CASE UNCHANGED vars
  BY <1>2, <1>15 DEF vars
<1> QED BY <1>4, <1>5, <1>6, <1>7, <1>8, <1>9, <1>10, <1>11, <1>12, <1>13, <1>14, <1>15 DEF Next

-----------------------------------------------------------------------------
(* The invariant is inductive.                                             *)

LEMMA CustodyKept ==
  ASSUME LinkInv, [Next]_vars
  PROVE  Custody'
<1>1. PICK S, T : S = stored /\ T = stored' /\ S \subseteq T
  BY StoreTraffic
<1>2. BodyStored'
  BY StoreTraffic
<1>3. ASSUME NEW ts, Covered(ts, S) PROVE Covered(ts, T)'
  BY <1>1, <1>3, CoverLasts
<1>4. ASSUME NEW ts, Covered(ts, T)' PROVE Covered(ts, stored)'
  BY <1>1, <1>4 DEF Covered
<1>5. ASSUME NEW c \in Commands', c.type = "SampleAck"
      PROVE  Covered(c.timestamp, stored)'
  <2>1. CASE c \in Commands
    BY <1>1, <1>3, <1>4, <1>5, <2>1 DEF LinkInv, Custody, AcksCovered
  <2>2. CASE NewCommand(c)
    <3>1. c # Service!SetTimeCommand(Clock)
      BY <1>5 DEF Service!SetTimeCommand
    <3>2. /\ reader = "stored" /\ Service!LastTimestamp(body) # 0
          /\ c.timestamp = Service!LastTimestamp(body)
      BY <2>2, <3>1 DEF NewCommand, Service!SampleAck
    <3>3. body \in Messages /\ body.samples # << >>
      BY <3>2 DEF Messages, Service!LastTimestamp
    <3>4. Covered(c.timestamp, Service!Contents(body))
      BY <3>2, <3>3 DEF LinkInv, Custody, MessagesCovered
    <3>5. Service!Contents(body) \subseteq stored
      BY <3>2 DEF LinkInv, Custody, BodyStored
    <3>6. Covered(c.timestamp, S)
      BY <1>1, <3>4, <3>5 DEF Covered
    <3> QED BY <1>3, <1>4, <3>6
  <2> QED BY <1>5, <2>1, <2>2, CommandTraffic
<1>6. ASSUME NEW m \in Messages', m.samples # << >>
      PROVE  Covered(Service!LastTimestamp(m), Service!Contents(m))'
  <2>1. CASE m \in Messages
    <3>1. Covered(Service!LastTimestamp(m), Service!Contents(m))
      BY <1>6, <2>1 DEF LinkInv, Custody, MessagesCovered
    <3>2. PICK ts, C : ts = Service!LastTimestamp(m) /\ C = Service!Contents(m)
      OBVIOUS
    <3>3. Covered(ts, C)'
      BY <3>1, <3>2, CoverLasts
    <3> QED BY <3>2, <3>3 DEF Covered, Service!LastTimestamp, Service!Contents
  <2> QED BY <1>6, <2>1, MessageTraffic
<1> QED BY <1>2, <1>5, <1>6 DEF Custody, AcksCovered, MessagesCovered

LEMMA SetTimesKept ==
  ASSUME LinkInv, [Next]_vars
  PROVE  SetTimesRecent'
<1>1. ASSUME NEW c \in SetTimes' PROVE c \in SetTimes \/ c = Service!SetTimeCommand(Clock)
  <2>1. c \in Commands' /\ c.type = "SetTime"
    BY DEF SetTimes, Commands
  <2>2. c \in Commands \/ NewCommand(c)
    BY <2>1, CommandTraffic
  <2>3. c.type # "SampleAck"
    BY <2>1
  <2> QED BY <2>1, <2>2, <2>3 DEF SetTimes, Commands, NewCommand, Service!SampleAck
<1>2. Clock \in Nat /\ MaxDelay \in Nat
  BY ClockIsNat, LinkAssumption
<1>3. CASE Loop
  <2>1. PICK d \in Elapsed :
          /\ \A c \in SetTimes : Clock + d <= c.timestamp + MaxDelay
          /\ Sampling!LoopPass(d)
    BY <1>3 DEF Loop
  <2>2. SetTimes' = SetTimes
    BY <1>3 DEF Loop, service, task, SetTimes
  <2>3. Clock' = Clock + d /\ d \in Nat
    <3>1. uptime' = uptime + d
      BY <2>1 DEF Sampling!LoopPass
    <3>2. d \in Nat /\ uptime \in Nat /\ Epoch \in Nat
      BY LinkAssumption, RingAssumption DEF LinkInv, Ring!Inv, Ring!TypeOK, Ring!SamplerAssumption
    <3> QED BY <3>1, <3>2 DEF Clock
  <2>4. \A c \in SetTimes : c.timestamp \in Nat /\ c.timestamp <= Clock
    <3>1. \A c \in SetTimes : c \in Command
      BY DEF LinkInv, LinkTypes, SetTimes, Range
    <3> QED BY <3>1 DEF LinkInv, SetTimesRecent, Command
  <2> QED BY <1>2, <2>1, <2>2, <2>3, <2>4 DEF SetTimesRecent
<1>4. ASSUME uptime' = uptime PROVE SetTimesRecent'
  <2>1. Clock' = Clock
    BY <1>4 DEF Clock
  <2>2. \A c \in SetTimes' : c.timestamp <= Clock /\ Clock <= c.timestamp + MaxDelay
    BY <1>1, <1>2 DEF LinkInv, SetTimesRecent, Service!SetTimeCommand
  <2> QED BY <2>1, <2>2 DEF SetTimesRecent
<1>5. ASSUME UNCHANGED device PROVE uptime' = uptime
  BY <1>5 DEF device
<1>6. CASE Send
  BY <1>4, <1>6 DEF Send, Sampling!Send, Sampling!clock
<1>7. CASE Dispatch
  BY <1>4, <1>7 DEF Dispatch, Sampling!SetTime, Sampling!Discard, Sampling!clock
<1>8. CASE Connect \/ Lose \/ SeeClose \/ Read \/ Write \/ Notice \/ Delete \/ Fail
  BY <1>4, <1>5, <1>8 DEF Connect, Lose, SeeClose, Read, Write, Notice, Delete, Fail
<1>9. CASE UNCHANGED vars
  BY <1>4, <1>5, <1>9 DEF vars
<1> QED BY <1>3, <1>6, <1>7, <1>8, <1>9 DEF Next

LEMMA ClockOffset ==
  ASSUME NEW o \in Nat, NEW u \in Nat
  PROVE  /\ uptime = u /\ offset = o =>
              (ClockBounded <=> o = 0 \/ o \in Epoch - MaxDelay .. Epoch)
         /\ uptime' = u /\ offset' = o =>
              (ClockBounded' <=> o = 0 \/ o \in Epoch - MaxDelay .. Epoch)
<1>1. Epoch \in Nat /\ MaxDelay \in Nat
  BY LinkAssumption
<1>2. o + u \in (Epoch + u) - MaxDelay .. Epoch + u <=> o \in Epoch - MaxDelay .. Epoch
  BY <1>1
<1> USE DEF ClockBounded, Sampling!Now, Clock
<1>3. uptime = u /\ offset = o =>
        (ClockBounded <=> (o # 0 => o + u \in (Epoch + u) - MaxDelay .. Epoch + u))
  OBVIOUS
<1>4. uptime' = u /\ offset' = o =>
        (ClockBounded' <=> (o # 0 => o + u \in (Epoch + u) - MaxDelay .. Epoch + u))
  OBVIOUS
<1> HIDE DEF ClockBounded
<1> QED BY <1>2, <1>3, <1>4

LEMMA ClockKept ==
  ASSUME LinkInv, [Next]_vars
  PROVE  ClockBounded'
<1>1. /\ ClockBounded /\ offset \in Nat /\ uptime \in Nat
      /\ Epoch \in Nat /\ MaxDelay \in Nat
  BY LinkAssumption DEF LinkInv, Ring!Inv, Ring!TypeOK
<1>2. ASSUME offset' = offset, uptime' \in Nat PROVE ClockBounded'
  BY <1>1, <1>2, ClockOffset
<1>3. Ring!Inv'
  BY SamplerStep, SameStep, RingAssumption, Ring!NextInv DEF LinkInv
<1>4. uptime' \in Nat
  BY <1>3 DEF Ring!Inv, Ring!TypeOK
<1>5. ASSUME UNCHANGED device PROVE offset' = offset
  BY <1>5 DEF device
<1>6. CASE Loop
  BY <1>2, <1>4, <1>6 DEF Loop, Sampling!LoopPass
<1>7. CASE Send
  BY <1>2, <1>4, <1>7 DEF Send, Sampling!Send, Sampling!clock
<1>8. CASE Dispatch
  <2> DEFINE command == Head(outbox)
  <2>1. command \in Command /\ command \in Range(outbox)
    BY <1>8, RangeTail DEF Dispatch, LinkInv, LinkTypes
  <2>2. CASE command.type = "SetTime"
    <3>1. offset' = command.timestamp - uptime /\ uptime' = uptime
      BY <1>8, <2>2 DEF Dispatch, Sampling!SetTime
    <3>2. command.timestamp <= Clock /\ Clock <= command.timestamp + MaxDelay
      BY <2>1, <2>2 DEF LinkInv, SetTimesRecent, SetTimes
    <3>3. command.timestamp \in Nat
      BY <2>1 DEF Command
    <3> HIDE DEF command
    <3>4. offset' \in Epoch - MaxDelay .. Epoch /\ offset' \in Nat
      BY <1>1, <3>1, <3>2, <3>3, LinkAssumption DEF Clock
    <3> QED BY <1>1, <3>1, <3>4, ClockOffset
  <2>3. CASE command.type # "SetTime"
    BY <1>2, <1>4, <1>8, <2>3 DEF Dispatch, Sampling!Discard, Sampling!clock
  <2> QED BY <2>2, <2>3
<1>9. CASE Connect \/ Lose \/ SeeClose \/ Read \/ Write \/ Notice \/ Delete \/ Fail
  BY <1>2, <1>4, <1>5, <1>9 DEF Connect, Lose, SeeClose, Read, Write, Notice, Delete, Fail
<1>10. CASE UNCHANGED vars
  BY <1>2, <1>4, <1>5, <1>10 DEF vars
<1> QED BY <1>6, <1>7, <1>8, <1>9, <1>10 DEF Next

LEMMA InitLink == Init => LinkInv
<1> SUFFICES ASSUME Init PROVE LinkInv
  OBVIOUS
<1> USE DEF Init, Service!Init
<1>1. Ring!Inv
  <2>1. Ring!Init
    BY DEF Sampling!Init, Ring!Init, Sampling!Slots, Ring!Slots
  <2> QED BY <2>1, RingAssumption, Ring!InitInv
<1>2. LinkTypes
  <2>1. /\ registered = TRUE /\ connected = FALSE /\ reboot = FALSE /\ faults = 0
        /\ session = "closed" /\ reader = "receive" /\ stored = {}
        /\ inbox = << >> /\ queue = << >> /\ outbox = << >> /\ body = Service!NoBody
    OBVIOUS
  <2>2. TypeOK
    <3> HIDE DEF Init, Service!Init
    <3>1. faults \in 0 .. MaxFaults
      BY <2>1, LinkAssumption
    <3>2. registered \in BOOLEAN /\ connected \in BOOLEAN /\ reboot \in BOOLEAN
      BY <2>1
    <3> QED BY <2>1, <3>1, <3>2 DEF TypeOK
  <2> QED BY <2>1, <2>2, EmptySeq, NoBodyTyped DEF LinkTypes
<1>3. Commands = {} /\ SetTimes = {} /\ Messages = {Service!NoBody}
  BY RangeEmpty DEF Commands, SetTimes, Messages
<1>4. Custody /\ SetTimesRecent
  BY <1>3, NoBodyTyped DEF Custody, AcksCovered, MessagesCovered, BodyStored, SetTimesRecent
<1>5. ClockBounded
  BY DEF ClockBounded, Sampling!Init
<1> QED BY <1>1, <1>2, <1>4, <1>5 DEF LinkInv

LEMMA NextLink == LinkInv /\ [Next]_vars => LinkInv'
<1> SUFFICES ASSUME LinkInv, [Next]_vars PROVE LinkInv'
  OBVIOUS
<1>1. Ring!Inv'
  BY SamplerStep, SameStep, RingAssumption, Ring!NextInv DEF LinkInv
<1> QED BY <1>1, TypesKept, CustodyKept, SetTimesKept, ClockKept DEF LinkInv

LEMMA LinkInvariant == Spec => []LinkInv
BY InitLink, NextLink, PTL DEF Spec

-----------------------------------------------------------------------------
(* A session that has ended holds no message, command or answer, and every *)
(* variable keeps its type.                                                *)
THEOREM LinkTyped == Spec => []TypeOK
<1>1. LinkInv => TypeOK
  BY DEF LinkInv, LinkTypes
<1> QED BY <1>1, LinkInvariant, PTL

(* An acknowledgement under way covers only what has been stored, whatever *)
(* was lost, sent again, or failed before.                                 *)
THEOREM AcknowledgedIsStored == Spec => []AcksAreStored
<1>1. LinkInv => AcksAreStored
  BY DEF LinkInv, Custody, AcksCovered, Covered, Commands, AcksAreStored
<1> QED BY <1>1, LinkInvariant, PTL

(* A synchronised device's clock is never ahead of the service's, and      *)
(* lags it by no more than a command is under way.                         *)
THEOREM ClockIsBounded == Spec => []ClockBounded
<1>1. LinkInv => ClockBounded
  BY DEF LinkInv
<1> QED BY <1>1, LinkInvariant, PTL

(* The service and the network do to the device only what Sampler assumes  *)
(* of its environment, so all that is proved of Sampler holds of it here.  *)
THEOREM LinkImplementsSampler == Spec => SamplerSpec
<1>1. Init => Sampling!Init
  BY DEF Init
<1>2. LinkInv /\ [Next]_vars => [Sampling!Next]_(Sampling!vars)
  BY SamplerStep
<1> QED BY <1>1, <1>2, LinkInvariant, PTL DEF Spec, SamplerSpec, Sampling!Spec

-----------------------------------------------------------------------------
(* With clock commands that are not delayed, and passes of the loop within *)
(* a period, the device's clock is a steady one.                           *)

Undelayed == MaxDelay = 0

LEMMA OffsetIsEpoch ==
  ASSUME Undelayed
  PROVE  /\ LinkInv => offset \in {0, Epoch}
         /\ LinkInv' => offset' \in {0, Epoch}
<1>1. MaxDelay = 0 /\ Epoch \in Nat
  BY LinkAssumption DEF Undelayed
<1>2. LinkInv => offset \in {0, Epoch}
  BY <1>1 DEF LinkInv, ClockBounded, Clock, Sampling!Now, Ring!Inv, Ring!TypeOK
<1>3. ASSUME LinkInv' PROVE offset' \in {0, Epoch}
  <2>1. ClockBounded' /\ offset' \in Nat /\ uptime' \in Nat
    BY <1>3 DEF LinkInv, Ring!Inv, Ring!TypeOK
  <2>2. offset' = 0 \/ offset' \in Epoch - MaxDelay .. Epoch
    BY <2>1, ClockOffset
  <2> QED BY <1>1, <2>2
<1> QED BY <1>2, <1>3

LEMMA SteadyKept ==
  ASSUME Undelayed, Ring!Prompt, LinkInv, Ring!SteadyInv, [Next]_vars
  PROVE  Ring!SteadyInv'
<1>1. LinkInv'
  BY NextLink
<1>2. Ring!Inv'
  BY <1>1 DEF LinkInv
<1>3. offset \in {0, Epoch} /\ offset' \in {0, Epoch}
  BY <1>1, OffsetIsEpoch
<1>4. [Ring!Next]_(Ring!vars)
  BY SamplerStep, SameStep
<1>5. ASSUME NEW d \in Elapsed, Ring!LoopPass(d) PROVE Ring!SteadyInv'
  BY <1>2, <1>5, RingAssumption, Ring!LoopPassSteady DEF Ring!SteadyInv
<1>6. ASSUME NEW o \in 1 .. Epoch, Ring!SetTime(o) PROVE Ring!SteadyInv'
  <2>1. o \in Nat \ {0} /\ offset \in {0, o}
    BY <1>3, <1>6, LinkAssumption DEF Ring!SetTime
  <2> QED BY <1>2, <1>6, <2>1, RingAssumption, Ring!SetTimeSteady DEF Ring!SteadyInv
<1>7. ASSUME UNCHANGED <<uptime, offset, lastCall, start, current, timestamp>>
      PROVE  Ring!SteadyInv'
  <2>1. UNCHANGED Ring!Buffered
    BY <1>7 DEF Ring!Buffered, Ring!Pos
  <2> QED BY <1>2, <1>7, <2>1
          DEF Ring!SteadyInv, Ring!Gapless, Ring!UpToDate, Ring!Polled, Ring!BucketTimestamp
<1>8. CASE Ring!Send
  BY <1>7, <1>8 DEF Ring!Send, Ring!clock, Ring!ring
<1>9. ASSUME NEW ts \in sent, Ring!Discard(ts) PROVE Ring!SteadyInv'
  <2>1. ts \in Nat
    BY DEF LinkInv, Ring!Inv, Ring!TypeOK
  <2> QED BY <1>2, <1>9, <2>1, RingAssumption, Ring!DiscardSteady DEF Ring!SteadyInv
<1>10. CASE UNCHANGED Ring!vars
  BY <1>7, <1>10 DEF Ring!vars, Ring!clock, Ring!ring
<1> QED BY <1>4, <1>5, <1>6, <1>8, <1>9, <1>10 DEF Ring!Next

(* What a command takes from the pending samples was acknowledged, so it   *)
(* is stored.                                                              *)
LEMMA DispatchLoses ==
  ASSUME LinkInv, Ring!SteadyInv, Dispatch
  PROVE  Sampling!Pending \ Sampling!Pending' \subseteq stored
<1> DEFINE command == Head(outbox)
<1>1. command \in Command /\ command \in Commands
  BY RangeTail DEF Dispatch, LinkInv, LinkTypes, Commands
<1>2. CASE command.type = "SetTime"
  <2>1. UNCHANGED <<start, current, timestamp>>
    BY <1>2 DEF Dispatch, Sampling!SetTime, Sampling!ring
  <2>2. Sampling!Pending' = Sampling!Pending
    BY <2>1 DEF Sampling!Pending, Sampling!Live, Sampling!Buffered, Sampling!Pos
  <2> QED BY <2>2
<1>3. CASE command.type # "SetTime"
  <2>1. command.type = "SampleAck" /\ command.timestamp \in Nat
    BY <1>1, <1>3 DEF Command
  <2>2. Sampling!Discard(command.timestamp)
    BY <1>3 DEF Dispatch
  <2> HIDE DEF command
  <2>3. PICK ts \in Nat : ts = command.timestamp /\ Sampling!Discard(ts)
    BY <2>1, <2>2
  <2>4. Ring!Discard(ts)
    BY <2>3 DEF Sampling!Discard, Ring!Discard, Sampling!DiscardCount, Ring!DiscardCount,
       Sampling!Buffered, Ring!Buffered, Sampling!Pos, Ring!Pos, Sampling!clock, Ring!clock
  <2>5. \A x \in Ring!Pending : x > ts => x \in Ring!Pending'
    BY <2>4, RingAssumption, Ring!DiscardSteady
  <2>6. Covered(ts, stored)
    BY <1>1, <2>1, <2>3 DEF LinkInv, Custody, AcksCovered
  <2>7. ASSUME NEW x \in Sampling!Pending, x \notin Sampling!Pending'
        PROVE  x \in stored
    <3>1. x \in Nat
      BY <2>7, SamePending DEF LinkInv, Ring!Inv, Ring!TypeOK, Ring!Pending, Ring!Live
    <3>2. ~ (x > ts)
      BY <2>5, <2>7, SamePending
    <3>3. x <= ts
      BY <3>1, <3>2, <2>3
    <3> QED BY <2>6, <2>7, <3>3 DEF Covered
  <2> QED BY <2>7
<1> QED BY <1>2, <1>3

(* The chain of custody from end to end: no command makes the device give  *)
(* up a sample that the metrics server does not have, whatever was lost,   *)
(* failed, or was sent again.                                              *)
THEOREM NothingIsLostSilently ==
  ASSUME Undelayed, Ring!Prompt PROVE Spec => NoSilentLoss
<1>1. Init => Ring!SteadyInv
  <2>1. Init => Ring!Init
    BY DEF Init, Sampling!Init, Ring!Init, Sampling!Slots, Ring!Slots
  <2> QED BY <2>1, RingAssumption, Ring!InitSteady
<1>2. (LinkInv /\ Ring!SteadyInv) /\ [Next]_vars => Ring!SteadyInv'
  BY SteadyKept
<1>3. LinkInv /\ Ring!SteadyInv /\ [Next]_vars =>
        [Dispatch => Sampling!Pending \ Sampling!Pending' \subseteq stored]_vars
  BY DispatchLoses
<1> QED BY <1>1, <1>2, <1>3, LinkInvariant, PTL DEF Spec, NoSilentLoss
=============================================================================
