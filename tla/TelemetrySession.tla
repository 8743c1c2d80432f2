-------------------------- MODULE TelemetrySession --------------------------
(***************************************************************************)
(* The service's half of the telemetry websocket: the handshake, the       *)
(* reader that stores what the device sends and queues commands in answer, *)
(* and the writer that sends the queue.  Reader and writer are tasks of    *)
(* one TaskGroup: an exception in either ends both, and with them every    *)
(* command still queued.  Sources: service/routers/device.py and           *)
(* service/metrics/victoriametrics.py.                                     *)
(*                                                                         *)
(* The module has no next-state relation of its own: TelemetryLink         *)
(* composes its actions with the device's.                                 *)
(***************************************************************************)
EXTENDS Integers, Sequences

CONSTANT Tolerance   \* difference of the clocks that is left alone, 10 s

VARIABLES registered,  \* the device's row exists in the database
          session,     \* "open" while the endpoint's task group runs, else "closed"
          reader,      \* what the reader awaits: "receive", "storing" or "stored"
          body,        \* the telemetry message being handled
          inbox,       \* messages from the device, not yet received
          queue,       \* _TelemetryIO.queue
          outbox,      \* commands sent to the device, not yet delivered
          stored       \* timestamps the metrics server has stored

task == <<session, reader, body, inbox, queue>>
vars == <<registered, task, outbox, stored>>

NoBody == [time |-> 0, samples |-> << >>]

SetTimeCommand(now) == [type |-> "SetTime", timestamp |-> now]
SampleAck(ts)       == [type |-> "SampleAck", timestamp |-> ts]

Abs(n) == IF n < 0 THEN -n ELSE n

Contents(telemetry) ==
  {telemetry.samples[i] : i \in 1 .. Len(telemetry.samples)}

\* Mutant: the period after the last sample is acknowledged as well.
LastTimestampNext(telemetry) ==
  IF telemetry.samples = << >> THEN 0
  ELSE telemetry.samples[Len(telemetry.samples)] + 1

(* What the metrics server's telemetry() returns once it is answered 204.  *)
LastTimestamp(telemetry) ==
  IF telemetry.samples = << >> THEN 0
  ELSE telemetry.samples[Len(telemetry.samples)]

Init ==
  /\ registered = TRUE
  /\ session = "closed" /\ reader = "receive" /\ body = NoBody
  /\ inbox = << >> /\ queue = << >> /\ outbox = << >>
  /\ stored = {}

\* Mutant: a message being handled survives the end of its session.
TearDownKeepsReader ==
  /\ session' = "closed"
  /\ inbox' = << >> /\ queue' = << >>
  /\ UNCHANGED <<reader, body>>

(* The tasks of a session end, with all they hold.                         *)
TearDown ==
  /\ session' = "closed" /\ reader' = "receive" /\ body' = NoBody
  /\ inbox' = << >> /\ queue' = << >>

(* A handshake is accepted and its session starts by setting the clock.    *)
(* If the session of the device's previous connection has not noticed yet  *)
(* that it is gone, the PUT it was awaiting may still have been stored.    *)
Accept(now) ==
  /\ registered
  /\ session' = "open" /\ reader' = "receive" /\ body' = NoBody
  /\ inbox' = << >> /\ outbox' = << >>
  /\ queue' = <<SetTimeCommand(now)>>
  /\ stored' \in {stored, stored \union Contents(body)}
  /\ UNCHANGED registered

(* A user deletes the device.                                              *)
Delete ==
  /\ registered
  /\ registered' = FALSE
  /\ UNCHANGED <<task, outbox, stored>>

\* Mutant: the acknowledgement is queued before the samples are stored.
ReceiveAcknowledging(now) ==
  /\ session = "open" /\ reader = "receive" /\ inbox # << >>
  /\ registered
  /\ body' = Head(inbox) /\ inbox' = Tail(inbox)
  /\ reader' = "storing"
  /\ queue' = Append(queue, SampleAck(LastTimestamp(Head(inbox))))
  /\ UNCHANGED <<registered, session, outbox, stored>>

(* The reader takes a message, authenticates the device again, queues a    *)
(* SetTime when the clocks are too far apart and starts the PUT.           *)
Receive(now) ==
  /\ session = "open" /\ reader = "receive" /\ inbox # << >>
  /\ registered
  /\ body' = Head(inbox) /\ inbox' = Tail(inbox)
  /\ reader' = "storing"
  /\ queue' = IF Abs(now - Head(inbox).time) > Tolerance
                THEN Append(queue, SetTimeCommand(now))
                ELSE queue
  /\ UNCHANGED <<registered, session, outbox, stored>>

\* Mutant: a message that fails authentication is dropped, the session stays.
ReceiveUnknownIgnored ==
  /\ session = "open" /\ reader = "receive" /\ inbox # << >>
  /\ ~ registered
  /\ inbox' = Tail(inbox)
  /\ UNCHANGED <<registered, session, reader, body, queue, outbox, stored>>

(* The device has been deleted: authentication fails with 404.             *)
ReceiveUnknown ==
  /\ session = "open" /\ reader = "receive" /\ inbox # << >>
  /\ ~ registered
  /\ TearDown
  /\ UNCHANGED <<registered, outbox, stored>>

(* The metrics server stores the message; its answer is on the way.        *)
Store ==
  /\ reader = "storing"
  /\ stored' = stored \union Contents(body)
  /\ reader' = "stored"
  /\ UNCHANGED <<registered, session, body, inbox, queue, outbox>>

(* 204: the last sample is acknowledged, if there is one.                  *)
Acknowledge ==
  /\ reader = "stored"
  /\ queue' = IF LastTimestamp(body) # 0
                THEN Append(queue, SampleAck(LastTimestamp(body)))
                ELSE queue
  /\ reader' = "receive" /\ body' = NoBody
  /\ UNCHANGED <<registered, session, inbox, outbox, stored>>

\* Mutant: any answer that does not raise is acknowledged.
RefuseAcknowledging ==
  /\ reader = "storing"
  /\ queue' = IF LastTimestamp(body) # 0
                THEN Append(queue, SampleAck(LastTimestamp(body)))
                ELSE queue
  /\ reader' = "receive" /\ body' = NoBody
  /\ UNCHANGED <<registered, session, inbox, outbox, stored>>

(* Another 2xx: nothing was stored and nothing is acknowledged.            *)
Refuse ==
  /\ reader = "storing"
  /\ reader' = "receive" /\ body' = NoBody
  /\ UNCHANGED <<registered, session, inbox, queue, outbox, stored>>

(* The PUT raises, before or after the samples were stored.                *)
StoreRaises ==
  /\ reader \in {"storing", "stored"}
  /\ TearDown
  /\ UNCHANGED <<registered, outbox, stored>>

(* The writer sends the next command.                                      *)
Write ==
  /\ session = "open" /\ queue # << >>
  /\ outbox' = Append(outbox, Head(queue))
  /\ queue' = Tail(queue)
  /\ UNCHANGED <<registered, session, reader, body, inbox, stored>>

(* Reader or writer finds the connection gone.                             *)
Notice ==
  /\ session = "open"
  /\ TearDown
  /\ UNCHANGED <<registered, outbox, stored>>
=============================================================================
