--------------------------- MODULE TelemetryLink ---------------------------
(***************************************************************************)
(* A device and the service over a websocket that may break at any time:   *)
(* Sampler and TelemetrySession composed with the device's side of the     *)
(* connection (device/telemetry.cpp and the websocket library it uses).    *)
(* Time passes in the device's loop; the service's clock is ahead of its   *)
(* uptime by Epoch.                                                        *)
(***************************************************************************)
EXTENDS Integers, FiniteSets, Sequences, SequencesExt

CONSTANTS N, PERIOD, RATE, CountMod, Elapsed, MaxUptime,   \* as in Sampler
          Tolerance,    \* as in TelemetrySession
          Epoch,        \* the service's clock when the device starts
          MaxDelay,     \* bound on the ticks a SetTime command is under way
          MaxInFlight,  \* bound on messages and commands under way
          MaxFaults     \* bound on connection losses and metrics failures

ASSUME LinkAssumption ==
  /\ Epoch \in Nat /\ MaxDelay \in Nat /\ MaxDelay < Epoch
  /\ Tolerance \in Nat /\ MaxInFlight \in Nat \ {0} /\ MaxFaults \in Nat

VARIABLES uptime, offset, lastCall,                 \* Sampler
          start, current, timestamp, sample_count, sent,
          registered, session, reader, body,        \* TelemetrySession
          inbox, queue, outbox, stored,
          connected,   \* the device's websocket is connected
          reboot,      \* the device has been told to register again
          faults       \* how often something has failed

Sampling == INSTANCE Sampler WITH Offsets <- 1 .. Epoch
Service  == INSTANCE TelemetrySession

ASSUME SamplingAssumption == Sampling!SamplerAssumption

device  == <<uptime, offset, lastCall, start, current, timestamp, sample_count, sent>>
task    == <<session, reader, body, inbox, queue>>
service == <<registered, task, outbox, stored>>
network == <<connected, reboot>>
vars    == <<device, service, network, faults>>

Clock == Epoch + uptime

SetTimes == {c \in Range(queue) \union Range(outbox) : c.type = "SetTime"}

Fault == faults < MaxFaults /\ faults' = faults + 1

-----------------------------------------------------------------------------
(* The device: one pass of its loop without traffic.                       *)
Loop ==
  /\ ~ reboot
  /\ \E d \in Elapsed :
       /\ \A c \in SetTimes : Clock + d <= c.timestamp + MaxDelay
       /\ Sampling!LoopPass(d)
  /\ UNCHANGED <<service, network, faults>>

(* Telemetry::send while the websocket is connected: the two stretches of  *)
(* the ring as one message.  The samples stay in the ring.                 *)
Send ==
  LET telemetry == [time    |-> Sampling!Now(uptime),
                    samples |-> [i \in 1 .. Len(Sampling!Batch) |->
                                   timestamp[Sampling!Batch[i]]]]
  IN  /\ connected /\ ~ reboot
      /\ Len(inbox) + Len(queue) + Len(outbox) < MaxInFlight
      /\ Sampling!Send
      /\ inbox' = IF session = "open" THEN Append(inbox, telemetry) ELSE inbox
      /\ UNCHANGED <<registered, session, reader, body, queue, outbox, stored,
                     network, faults>>

\* Mutant: the offset is the timestamp, not its distance from the uptime.
DispatchAbsolute ==
  /\ connected /\ ~ reboot /\ outbox # << >>
  /\ LET command == Head(outbox)
     IN  IF command.type = "SetTime"
           THEN Sampling!SetTime(command.timestamp)
           ELSE Sampling!Discard(command.timestamp)
  /\ outbox' = Tail(outbox)
  /\ UNCHANGED <<registered, task, stored, network, faults>>

(* dispatchCommand: the next command from the service.                     *)
Dispatch ==
  /\ connected /\ ~ reboot /\ outbox # << >>
  /\ LET command == Head(outbox)
     IN  IF command.type = "SetTime"
           THEN Sampling!SetTime(command.timestamp - uptime)
           ELSE Sampling!Discard(command.timestamp)
  /\ outbox' = Tail(outbox)
  /\ UNCHANGED <<registered, task, stored, network, faults>>

(* The websocket library connects again; a 404 resets the registration.    *)
Connect ==
  /\ ~ connected /\ ~ reboot
  /\ \/ /\ Service!Accept(Clock)
        /\ connected' = TRUE
        /\ UNCHANGED reboot
     \/ /\ ~ registered
        /\ reboot' = TRUE
        /\ UNCHANGED <<connected, service>>
  /\ UNCHANGED <<device, faults>>

(* The connection breaks under the device.                                 *)
Lose ==
  /\ connected /\ Fault
  /\ connected' = FALSE /\ outbox' = << >>
  /\ UNCHANGED <<device, registered, task, stored, reboot>>

(* The device sees that the service has closed the connection.             *)
SeeClose ==
  /\ connected /\ session = "closed"
  /\ connected' = FALSE /\ outbox' = << >>
  /\ UNCHANGED <<device, registered, task, stored, reboot, faults>>

-----------------------------------------------------------------------------
(* The service: its reader, its writer, and either finding the device gone. *)
Read ==
  /\ \/ Service!Receive(Clock)
     \/ Service!ReceiveUnknown
     \/ Service!Store
     \/ Service!Acknowledge
  /\ UNCHANGED <<device, network, faults>>

Write == connected /\ Service!Write /\ UNCHANGED <<device, network, faults>>

Notice == ~ connected /\ Service!Notice /\ UNCHANGED <<device, network, faults>>

Delete == Service!Delete /\ UNCHANGED <<device, network, faults>>

Fail ==
  /\ Fault
  /\ Service!Refuse \/ Service!StoreRaises
  /\ UNCHANGED <<device, network>>

-----------------------------------------------------------------------------
Init ==
  /\ Sampling!Init /\ Service!Init
  /\ connected = FALSE /\ reboot = FALSE /\ faults = 0

Next ==
  \/ Loop \/ Send \/ Dispatch \/ Connect \/ Lose \/ SeeClose
  \/ Read \/ Write \/ Notice \/ Delete \/ Fail

Spec == Init /\ [][Next]_vars

(* The device's loop and its sender timer run for ever, the websocket      *)
(* library keeps reconnecting, and the service's tasks are scheduled.      *)
Fairness ==
  /\ WF_vars(Loop) /\ WF_vars(Send) /\ WF_vars(Dispatch)
  /\ WF_vars(Connect) /\ WF_vars(SeeClose)
  /\ WF_vars(Read) /\ WF_vars(Write) /\ WF_vars(Notice)

FairSpec == Spec /\ Fairness

-----------------------------------------------------------------------------
(* Every variable has its type, and a session that has ended holds nothing. *)
TypeOK ==
  /\ registered \in BOOLEAN /\ connected \in BOOLEAN /\ reboot \in BOOLEAN
  /\ session \in {"open", "closed"}
  /\ reader \in {"receive", "storing", "stored"}
  /\ stored \subseteq Nat /\ faults \in 0 .. MaxFaults
  /\ session = "closed" => reader = "receive" /\ inbox = << >> /\ queue = << >>

(* An acknowledgement on its way covers only samples the metrics server    *)
(* has: nothing pending up to its timestamp would be lost by a discard.    *)
AcksAreStored ==
  \A c \in Range(queue) \union Range(outbox) :
    c.type = "SampleAck" => \A x \in Sampling!Pending : x <= c.timestamp => x \in stored

(* While the clock is steady, a sample leaves the device for an            *)
(* acknowledgement only once the metrics server has it, across losses,     *)
(* retransmissions, duplicates and failures.                               *)
NoSilentLoss ==
  [][Dispatch => Sampling!Pending \ Sampling!Pending' \subseteq stored]_vars

(* Once synchronised, the device's clock never runs ahead of the service's *)
(* and lags it by no more than a SetTime command was under way.            *)
ClockBounded ==
  offset # 0 => Sampling!Now(uptime) \in Clock - MaxDelay .. Clock

(* The service's acknowledgements and clock commands are what Sampler      *)
(* assumes of its environment: acknowledgements of transmitted batches.    *)
SamplerSpec == Sampling!Spec

(* When failures stop, everything the device has sampled is acknowledged,  *)
(* unless it was told to register again.                                   *)
Delivered == <>[](reboot \/ Sampling!Pending = {})

(* A device that is deleted finds out and registers again (the 404 of the  *)
(* handshake), also while it has nothing to report.                        *)
DeletedIsTold == ~ registered ~> reboot
=============================================================================
