---------------------------- MODULE TelemetryWire ----------------------------
(***************************************************************************)
(* Telemetry, byte by byte: the device sends a header and the one or two   *)
(* pieces of its ring buffer as the frames of one websocket message; the   *)
(* service unpacks it, flattens it into metrics with dotted names, stores  *)
(* them and acknowledges the last sample; the device reads the answer as a *)
(* packed struct and discards.  TelemetryLink models when this happens;    *)
(* here it is what is read, named, stored and discarded.                   *)
(* Sources: device/telemetry.cpp, device/sampler.cpp,                      *)
(* service/routers/device.py, service/metrics/victoriametrics.py, and      *)
(* those of Protocol.                                                      *)
(***************************************************************************)
EXTENDS Protocol

CONSTANTS BufferSize,  \* slots of the ring, one of which is being filled
          Gaps,        \* periods from a sample to the next: 1, or more if some were skipped
          MaxSamples,  \* bound on the samples taken
          MaxFrames,   \* bound on the frames under way
          MaxReplies,  \* bound on the messages queued for the device
          MaxFailures, \* bound on lost connections and failed PUTs
          States       \* states the device reports, of StateEnum

ASSUME WireAssumption ==
  /\ BufferSize \in Nat /\ BufferSize >= 2 /\ Gaps \subseteq Nat \ {0}
  /\ MaxSamples \in Nat /\ MaxFailures \in Nat
  /\ MaxFrames \in Nat /\ MaxFrames >= 3 /\ MaxReplies \in Nat /\ MaxReplies >= 1
  /\ States \subseteq StateEnum

VARIABLES first,   \* the oldest sample in the ring
          times,   \* timestamps of the samples taken so far
          frames,  \* to the service: frames under way
          message, \* the websocket message that the frames so far make
          stored,  \* metrics in the metrics server
          replies, \* to the device: messages under way
          failures,
          misread  \* history: an end refused or misread a message

vars == <<first, times, frames, message, stored, replies, failures, misread>>

(* The newest sample that is finished: the ring has first .. closed.       *)
closed == Len(times)

NoMessage == [parts |-> << >>, open |-> FALSE, whole |-> FALSE]

Metric(name, time, value) == [name |-> name, time |-> time, value |-> value]

-----------------------------------------------------------------------------
(* The device sends.                                                       *)

(* Telemetry's constructor, with the state it is in.                       *)
HeadBytes(state) ==
  Written(CTelemetry,
        LAMBDA name : IF name = <<"type">> THEN TypeValue(MessageType.TELEMETRY)
                      ELSE <<"Telemetry", name, IF name = <<"state">> THEN state ELSE 0>>)

SampleBytes(t) == Written(CSample, LAMBDA name : <<"Sample", name, t>>)

(* Samples from .. to as they lie in the ring buffer, an array.            *)
BufferBytes(from, to) ==
  [size |-> (to - from + 1) * CSample.size,
   ints |-> UNION {Behind(SampleBytes(t).ints, (t - from) * CSample.size) : t \in from .. to}]

(* What a frame carries.  A message under way is kept as what it is made   *)
(* of; its bytes are these.                                                *)
Carried(part) == IF part.kind = "head" THEN HeadBytes(part.state) ELSE BufferBytes(part.from, part.to)

Bytes(parts) ==
  LET upTo[n \in 0 .. Len(parts)] ==
        IF n = 0 THEN Empty ELSE Concat(upTo[n - 1], Carried(parts[n]))
  IN  upTo[Len(parts)]

\* Mutant: fin is decided before the samples are counted off.
FinEarly(left, count) == left = 0

(* _sampleCount -= count, and the frame is the last if none are left.      *)
Fin(left, count) == left - count = 0

(* send: the head, then what getSamples(0) and getSamples(1) return; the   *)
(* ring wraps after any sample, and a frame of no samples is not sent.     *)
Frames(state, from, wrap, to) ==
  LET Piece(a, b) ==
        IF a > b THEN << >>
        ELSE << [op  |-> "continuation", part |-> [kind |-> "samples", from |-> a, to |-> b],
                 fin |-> Fin(to - a + 1, b - a + 1)] >>
  IN  << [op  |-> "binary", part |-> [kind |-> "head", state |-> state],
          fin |-> from > to] >> \o Piece(from, wrap) \o Piece(wrap + 1, to)

Send ==
  /\ Len(frames) + 3 <= MaxFrames
  /\ \E state \in States, wrap \in first .. closed \union {closed} :
       frames' = frames \o Frames(state, first, wrap, closed)
  /\ UNCHANGED <<first, times, message, stored, replies, failures, misread>>

(* currentSample finishes a sample, and drops the oldest if the ring has   *)
(* no slot for another one.                                                *)
TakeSample ==
  /\ closed < MaxSamples
  /\ \E gap \in Gaps :
       times' = Append(times, IF times = << >> THEN 1 ELSE Last(times) + gap)
  /\ first' = IF closed - first + 2 = BufferSize THEN first + 1 ELSE first
  /\ UNCHANGED <<frames, message, stored, replies, failures, misread>>

-----------------------------------------------------------------------------
(* The service.                                                            *)

(* What the service puts on its queue.                                     *)
SetTimeBytes ==
  Written(PySetTime, LAMBDA name : IF name = <<"message_type">>
                                   THEN TypeValue(MessageType.SET_TIME)
                                   ELSE <<"Service", <<"now">>, 0>>)

AckBytes(timestamp) ==
  Written(PySampleAck, LAMBDA name : IF name = <<"message_type">>
                                     THEN TypeValue(MessageType.SAMPLE_ACK)
                                     ELSE timestamp)

(* The connection is gone and made again: the handler of the new one       *)
(* begins by sending the time.                                             *)
Reconnect ==
  /\ frames' = << >> /\ message' = NoMessage /\ replies' = << SetTimeBytes >>
  /\ UNCHANGED <<first, times>>

(* The websocket library makes a message of frames.                        *)
Receive ==
  LET frame == Head(frames)
  IN  /\ frames # << >> /\ ~ message.whole
      /\ IF message.open = (frame.op = "continuation")
         THEN /\ message' = [parts |-> Append(message.parts, frame.part), open |-> ~ frame.fin,
                             whole |-> frame.fin]
              /\ frames' = Tail(frames)
              /\ UNCHANGED <<first, times, replies, misread>>
         ELSE misread' = TRUE /\ Reconnect
      /\ UNCHANGED <<stored, failures>>

(* metrics_for_sample: nested fields have dotted names, and an Enum has    *)
(* the name of what holds it.                                              *)
EnumFields == {<<"message_type">>, <<"state", "state">>}

MetricName(prefix, name) == prefix \o (IF name \in EnumFields THEN Front(name) ELSE name)

MetricsFor(prefix, object, time) ==
  {Metric(MetricName(prefix, f.name), time, f.value) : f \in object}

\* Mutant: samples are given the time of the message.
SampleMetricsNow(samples, now) ==
  UNION {MetricsFor(<<"kiln">>, samples[i], now) : i \in DOMAIN samples}

\* Mutant: samples are given the prefix of the message.
SampleMetricsNested(samples, now) ==
  UNION {MetricsFor(<<"kiln", "telemetry">>, samples[i], Get(samples[i], <<"timestamp">>)) :
         i \in DOMAIN samples}

SampleMetrics(samples, now) ==
  UNION {MetricsFor(<<"kiln">>, samples[i], Get(samples[i], <<"timestamp">>)) : i \in DOMAIN samples}

(* int(timestamp_ms / 1000): the header's time is in milliseconds, the     *)
(* metrics' in seconds, and so is a sample's.                              *)
Seconds(ms) == <<ms[1], Append(ms[2], "seconds"), ms[3]>>

(* VictoriaMetricsServer.telemetry: what is PUT.                           *)
Report(bytes) ==
  LET head == Unpack(PyTelemetry, TelemetryHead(bytes))
      now  == Seconds(Get(head, <<"timestamp_ms">>))
  IN  {Metric(<<"kiln", "telemetry", "time_delta">>, now, <<"Service", <<"delta">>, 0>>),
       Metric(<<"kiln", "info">>, now, <<"Service", <<"info">>, 0>>)}
      \union MetricsFor(<<"kiln", "telemetry">>, head, now)
      \union SampleMetrics(Samples(bytes), now)

(* What the service has received.                                          *)
body == Bytes(message.parts)

Telemetry == Readable(body) /\ Type(body) = TypeValue(MessageType.TELEMETRY)

(* A clock that is off is set first, whatever the answer to the PUT.       *)
Answer(ack) == \E time \in {<< >>, << SetTimeBytes >>} : replies' = replies \o time \o ack

(* The answer to the PUT is 204.                                           *)
Store ==
  LET samples == Samples(body)
      ack     == IF samples = << >> THEN << >>
                 ELSE << AckBytes(Get(Last(samples), <<"timestamp">>)) >>
  IN  /\ stored' = stored \union Report(body)
      /\ Answer(ack) /\ message' = NoMessage
      /\ UNCHANGED <<first, times, frames, failures, misread>>

(* The answer is another 2xx, and nothing is acknowledged.                 *)
NotStored ==
  /\ failures < MaxFailures /\ failures' = failures + 1
  /\ Answer(<< >>) /\ message' = NoMessage
  /\ UNCHANGED <<first, times, frames, stored, misread>>

(* The PUT raises an exception, whether it was stored or not, and the      *)
(* connection ends.                                                        *)
PutFails ==
  /\ failures < MaxFailures /\ failures' = failures + 1
  /\ stored' \in {stored, stored \union Report(body)}
  /\ Reconnect /\ UNCHANGED misread

(* struct.error, or ValueError for a type or a state that is unknown or    *)
(* not the device's to send.                                               *)
Refuse ==
  /\ misread' = TRUE /\ Reconnect
  /\ UNCHANGED <<stored, failures>>

(* _reader, up to the next message.                                        *)
Handle ==
  /\ message.whole /\ Len(replies) < MaxReplies
  /\ IF Telemetry THEN Store \/ NotStored \/ PutFails ELSE Refuse

Lose ==
  /\ failures < MaxFailures /\ failures' = failures + 1
  /\ Reconnect /\ UNCHANGED <<stored, misread>>

-----------------------------------------------------------------------------
(* Samples from the oldest one up to timestamp newest, if none was skipped *)
(* between them.  An empty ring has none to discard: start is the slot     *)
(* that is being filled, and the count of any timestamp comes to nothing.  *)
DiscardCount(newest) == IF first > closed THEN 0 ELSE newest - times[first] + 1

\* Mutant: the count is not cut down to the samples there are.
DiscardUnbounded(newest) ==
  IF DiscardCount(newest) < 0 THEN first ELSE first + DiscardCount(newest)

(* Sampler::discard: timestamps are told apart only at the oldest sample,  *)
(* from which a number of slots is given up.                               *)
Discard(newest) ==
  CASE DiscardCount(newest) < 0                   -> first
    [] DiscardCount(newest) > closed - first + 1  -> closed + 1
    [] OTHER                                      -> first + DiscardCount(newest)

(* The device's dispatchCommand: the payload is taken for the struct that  *)
(* its type names, of which it may be a part only.                         *)
Dispatch ==
  LET bytes == Head(replies)
      type  == Get(Unpack(CMessage, bytes), <<"type">>)
      Stamp(struct) == Get(Unpack(struct, bytes), <<"timestamp">>)
      stamp == CASE type = TypeValue(MessageType.SET_TIME)   -> Stamp(CSetTime)
                 [] type = TypeValue(MessageType.SAMPLE_ACK) -> Stamp(CSampleAck)
                 [] OTHER                                    -> Garbage
  IN  /\ replies # << >> /\ replies' = Tail(replies)
      /\ misread' = (misread \/ stamp = Garbage)
      /\ first' = IF type = TypeValue(MessageType.SAMPLE_ACK) /\ stamp # Garbage
                  THEN Discard(times[stamp[3]]) ELSE first
      /\ UNCHANGED <<times, frames, message, stored, failures>>

-----------------------------------------------------------------------------

Init ==
  /\ first = 1 /\ times = << >> /\ frames = << >> /\ message = NoMessage
  /\ stored = {} /\ replies = << SetTimeBytes >> /\ failures = 0 /\ misread = FALSE

Next ==
  TakeSample \/ Send \/ Receive \/ Handle \/ Lose \/ Dispatch

(* Handle, unless the metrics server fails.                                *)
Reader ==
  /\ message.whole /\ Len(replies) < MaxReplies
  /\ message' = NoMessage /\ UNCHANGED failures

(* The device's loop sends and receives; the service's reader goes on, as  *)
(* the metrics server does not fail for ever.                              *)
Fairness ==
  WF_vars(Send) /\ WF_vars(Receive) /\ WF_message(Reader) /\ WF_vars(Dispatch)

Spec == Init /\ [][Next]_vars /\ Fairness

-----------------------------------------------------------------------------
(* The ring has no more samples than slots, and what is stored is of a     *)
(* time in seconds: the header's, or that of a sample that was taken.      *)
TypeOK ==
  /\ times \in Seq(Nat) /\ closed <= MaxSamples
  /\ first \in 1 .. closed + 1 /\ closed - first + 1 < BufferSize
  /\ Len(frames) <= MaxFrames /\ Len(replies) <= MaxReplies + 1
  /\ failures \in 0 .. MaxFailures
  /\ \A m \in stored : \/ m.time = Seconds(<<"Telemetry", <<"timestamp">>, 0>>)
                       \/ m.time[1] = "Sample" /\ m.time[3] \in 1 .. closed

(* With the same protocol at both ends no message is refused or misread,   *)
(* however the ring wraps, the connection breaks and messages follow one   *)
(* another: sizes, offsets, types and final frames agree.                  *)
Understood == ~ misread

(* Every field of sample t is stored at the time of the sample.            *)
Stored(t) ==
  \A f \in CSample.ints : \E m \in stored : /\ m.value = <<"Sample", f.name, t>>
                                          /\ m.time  = <<"Sample", <<"timestamp">>, t>>

(* Periods between samples a and b that have no sample.                    *)
Skipped(a, b) == times[b] - times[a] - (b - a)

(* What an acknowledgement discards is stored, field by field, but for as  *)
(* many samples as periods were skipped among those that it is for: if the *)
(* timestamps have no gaps, all of it.  A sample that is overwritten was   *)
(* not acknowledged.                                                       *)
DiscardedAreStored ==
  [][first' # first /\ UNCHANGED times =>
       \E t \in first .. closed : /\ \A u \in first .. t : Stored(u)
                                 /\ first' - 1 <= t + Skipped(first, t)]_vars

(* A name in the metrics server is one field's, and a field has one name:  *)
(* flattening the structs makes no two of them one series, and a sample    *)
(* that is sent again is stored where it was.                              *)
OneSeries ==
  LET series == {<<m.name, <<m.value[1], m.value[2]>> >> : m \in stored}
  IN  \A s, t \in series : s[1] = t[1] <=> s[2] = t[2]

(* Every sample leaves the ring, also if no other is taken that would      *)
(* overwrite it: the last sample of a message is acknowledged as well as   *)
(* those before it.                                                        *)
AllReleased == \A t \in 1 .. MaxSamples : closed >= t ~> first > t
=============================================================================
