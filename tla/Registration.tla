---------------------------- MODULE Registration ----------------------------
(***************************************************************************)
(* How a device boots, registers and runs.  setup() loads the registration *)
(* from flash and either joins the network and runs, or opens an access    *)
(* point whose form asks for network and service.  A submitted form is     *)
(* POSTed, the answer saved, and the device reboots; a device the service  *)
(* has deleted is answered 404, erases its registration and reboots.       *)
(* Power fails between any two steps, answers are lost, flash writes fail, *)
(* and the network goes away; setup() runs under a watchdog.               *)
(* Sources: device/device.ino, registration.cpp, registrar.cpp,            *)
(* telemetry.cpp (webSocketEvent); for the answer to the POST, the         *)
(* service's dependencies.py and models/device.py.                         *)
(*                                                                         *)
(* The service of this repository refuses the POST.  The form may name     *)
(* another one, that answers as the firmware expects (Accepting); the      *)
(* registrations found in flash when this firmware boots first are of one. *)
(***************************************************************************)
EXTENDS Integers

CONSTANTS Blobs,      \* registrations another firmware may have left: version, size
          Accepting,  \* the form may name a service that accepts the POST
          MaxStuck,   \* bound on the devices created with a version not ours in RAM
          MaxDevices, \* bound on the devices created
          MaxTrouble  \* bound on what goes wrong

Version == 1   \* REGISTRATION_VERSION
Bytes   == 400 \* sizeof(Registration)

ASSUME RegistrationAssumption ==
  /\ Blobs \subseteq [version : Nat, size : Nat \ {0}] /\ Accepting \in BOOLEAN
  /\ MaxStuck \in Nat /\ MaxDevices \in Nat /\ MaxTrouble \in Nat

VARIABLES state,      \* "boot", "connecting" (in setup), "REGISTERING", "RUNNING"
          job,        \* handleSubmit under way: what it does next, or "none"
          reboot,     \* the flag that loop() looks at first
          ram,        \* the global registration: its version, and the device in its url
          flash,      \* the bytes saved, or Empty
          network,    \* the network of the form can be joined
          devices,    \* ids of the devices the service has
          lastDevice, \* the greatest it ever had
          excused,    \* history: devices lost through a failure or a version
          trouble     \* history: what went wrong

deviceVars  == <<state, job, reboot, ram, flash>>
serviceVars == <<devices, lastDevice>>
vars == <<deviceVars, serviceVars, network, excused, trouble>>

NoDevice == 0

Empty == [version |-> 0, size |-> 0, device |-> NoDevice]

(* The constructor.                                                        *)
Constructed == [version |-> Version, device |-> NoDevice]

(* What this firmware takes for its own.                                   *)
Valid(blob) == blob.size = Bytes /\ blob.version = Version

Trouble == trouble < MaxTrouble /\ trouble' = trouble + 1

-----------------------------------------------------------------------------
(* Preferences: nothing is read if there is more than fits, and what is    *)
(* read lands in the object itself, its version included.                  *)

\* Mutant: what just fits is not read.
ReadSizeShort == IF flash.size >= Bytes THEN 0 ELSE flash.size

ReadSize == IF flash.size > Bytes THEN 0 ELSE flash.size

Loaded == IF ReadSize = 0 THEN Constructed ELSE [version |-> flash.version, device |-> flash.device]

\* Mutant: the version is not looked at.
LoadsAny == ReadSize = Bytes

Loads == ReadSize = Bytes /\ Loaded.version = Version

\* Mutant: reset erases nothing.
ResetForgotten == UNCHANGED <<flash, trouble>>

(* reset and save, whose results nobody looks at.                          *)
Reset ==
  \/ flash' = Empty /\ UNCHANGED trouble
  \/ flash' = flash /\ Trouble

Save == flash' = [version |-> ram.version, size |-> Bytes, device |-> ram.device]

-----------------------------------------------------------------------------
(* setup(), up to connect() and after it.                                  *)

Boot ==
  /\ state = "boot"
  /\ ram' = Loaded
  /\ IF Loads THEN state' = "connecting" /\ UNCHANGED <<flash, trouble>>
     ELSE /\ state' = "REGISTERING"
          /\ IF ReadSize # 0 THEN Reset ELSE UNCHANGED <<flash, trouble>>
  /\ excused' = IF Loads THEN excused ELSE excused \union {flash.device}
  /\ UNCHANGED <<job, reboot, serviceVars, network>>

Down ==
  /\ state' = "boot" /\ job' = "none" /\ reboot' = FALSE /\ ram' = Constructed

(* connect() polls 30 times, every 500 ms, and feeds no watchdog, which    *)
(* setup() has set to 15 s: the device never runs without the network that *)
(* it would run without if connect() returned.                             *)
WDT_SETUP_TIMEOUT_MS == 15000
ConnectTimeout == 30 * 500

Connect ==
  /\ state = "connecting"
  /\ IF network \/ ConnectTimeout < WDT_SETUP_TIMEOUT_MS
     THEN state' = "RUNNING" /\ UNCHANGED <<job, reboot, ram>>
     ELSE Down
  /\ UNCHANGED <<flash, serviceVars, network, excused, trouble>>

(* loop(), when it finds the flag.                                         *)
Restart ==
  /\ state \in {"REGISTERING", "RUNNING"} /\ reboot
  /\ Down
  /\ UNCHANGED <<flash, serviceVars, network, excused, trouble>>

-----------------------------------------------------------------------------
(* Registrar.handleSubmit.                                                 *)

\* Mutant: a form is handled although the device is about to restart.
ListensOn == state = "REGISTERING" /\ job = "none"

Listens == state = "REGISTERING" /\ job = "none" /\ ~ reboot

(* The form goes into the registration, where its url has no device; then  *)
(* connect() with the right network, or with a wrong one, which start()s   *)
(* the access point again.                                                 *)
Submit ==
  /\ Listens
  /\ ram' = [ram EXCEPT !.device = NoDevice]
  /\ \/ network /\ job' = "post"
        /\ lastDevice < (IF ram.version = Version THEN MaxDevices ELSE MaxStuck)
     \/ UNCHANGED job
  /\ UNCHANGED <<state, reboot, flash, serviceVars, network, excused, trouble>>

(* This repository's service answers 401 for want of a session, or 422 for *)
(* want of a user_id; or there is no answer.                               *)
Refused == job' = "none" /\ UNCHANGED <<ram, serviceVars, excused, trouble>>

(* Another service has created a device, and its answer arrives with an id *)
(* and a token; or it does not arrive, or is not as expected.              *)
Accepted ==
  LET id == lastDevice + 1
  IN  /\ devices' = devices \union {id} /\ lastDevice' = id
      /\ \/ ram' = [ram EXCEPT !.device = id] /\ job' = "save" /\ UNCHANGED <<excused, trouble>>
         \/ job' = "none" /\ excused' = excused \union {id} /\ Trouble /\ UNCHANGED ram

(* registerWithService.                                                    *)
Post ==
  /\ job = "post"
  /\ Refused \/ (Accepting /\ Accepted)
  /\ UNCHANGED <<state, reboot, flash, network>>

SaveAndReboot ==
  /\ job = "save" /\ job' = "none" /\ reboot' = TRUE
  /\ \/ Save /\ UNCHANGED <<excused, trouble>>
     \/ Trouble /\ excused' = excused \union {ram.device} /\ UNCHANGED flash
  /\ UNCHANGED <<state, ram, serviceVars, network>>

-----------------------------------------------------------------------------
(* webSocketEvent.                                                         *)

\* Mutant: whatever ends the connection, the registration is erased.
GoneOrNot == TRUE

Gone == ram.device \notin devices

(* WStype_DISCONNECTED, with the 404 of a device that is gone.             *)
Disconnected ==
  /\ state = "RUNNING" /\ network /\ ~ reboot
  /\ Gone
  /\ Reset /\ reboot' = TRUE
  /\ UNCHANGED <<state, job, ram, serviceVars, network, excused>>

-----------------------------------------------------------------------------
(* The world.                                                              *)

(* Power fails, or the watchdog bites.                                     *)
PowerFails ==
  /\ state # "boot"
  /\ Down /\ Trouble
  /\ excused' = IF job = "save" THEN excused \union {ram.device} ELSE excused
  /\ UNCHANGED <<flash, serviceVars, network>>

NetworkLost == network /\ network' = FALSE /\ Trouble /\ UNCHANGED <<deviceVars, serviceVars, excused>>

NetworkBack == ~ network /\ network' = TRUE /\ UNCHANGED <<deviceVars, serviceVars, excused, trouble>>

DeleteDevice(d) ==
  /\ devices' = devices \ {d} /\ Trouble
  /\ UNCHANGED <<deviceVars, lastDevice, network, excused>>

(* The first boot of this firmware, on a device that was never registered, *)
(* or was with this firmware or with another.                              *)
Init ==
  /\ state = "boot" /\ job = "none" /\ reboot = FALSE /\ ram = Constructed
  /\ network \in BOOLEAN /\ excused = {} /\ trouble = 0
  /\ \/ flash = Empty /\ devices = {} /\ lastDevice = 0
     \/ /\ \E blob \in Blobs : flash = [version |-> blob.version, size |-> blob.size, device |-> 1]
        /\ devices = {1} /\ lastDevice = 1

Next ==
  \/ Boot \/ Connect \/ Restart \/ Submit \/ Post \/ SaveAndReboot \/ Disconnected
  \/ PowerFails \/ NetworkLost \/ NetworkBack \/ \E d \in devices : DeleteDevice(d)

(* setup() and loop() go on, the service answers the device that is gone,  *)
(* and the network comes back.  Nobody has to submit a form.               *)
Fairness ==
  /\ WF_vars(Boot) /\ WF_vars(Connect) /\ WF_vars(Restart)
  /\ WF_vars(Disconnected) /\ WF_vars(NetworkBack)

Spec == Init /\ [][Next]_vars /\ Fairness

-----------------------------------------------------------------------------
(* What is in RAM and flash names devices the service has had; handleSubmit *)
(* runs while registering only.                                            *)
TypeOK ==
  /\ state \in {"boot", "connecting", "REGISTERING", "RUNNING"}
  /\ job \in {"none", "post", "save"} /\ reboot \in BOOLEAN /\ network \in BOOLEAN
  /\ job # "none" => state = "REGISTERING" /\ ~ reboot
  /\ ram \in [version : Nat, device : 0 .. lastDevice]
  /\ flash \in [version : Nat, size : Nat, device : 0 .. lastDevice]
  /\ lastDevice \in Nat /\ devices \subseteq 1 .. lastDevice
  /\ excused \subseteq 0 .. lastDevice /\ trouble \in 0 .. MaxTrouble

(* A device that runs has a registration of this firmware, that the        *)
(* service has given it, and that it will find again when it boots, unless *)
(* it was told that the device is gone.                                    *)
RunningIsRegistered ==
  state \in {"connecting", "RUNNING"} =>
    /\ ram.version = Version /\ ram.device # NoDevice
    /\ \/ Valid(flash) /\ flash.device = ram.device
       \/ reboot /\ ram.device \notin devices

(* Every device the service has is the one that this device knows to be    *)
(* its own, or was lost with an answer, a flash write or the power during  *)
(* registration, or with a registration that the firmware does not accept. *)
OrphansExplained ==
  \A d \in devices : d \in excused \/ d = flash.device \/ (job = "save" /\ d = ram.device)

(* A registration this firmware accepts is not lost while the service has  *)
(* its device: not by outages, reboots, nor whatever else ends connections. *)
RegistrationKept ==
  [][Valid(flash) /\ flash.device \in devices => flash' = flash]_vars

(* A device that was deleted comes to be registered anew, also if flash    *)
(* could not be erased or the network was away; the watchdog's reboots     *)
(* last no longer than the outage.                                         *)
ReturnsToRegistering ==
  state = "RUNNING" /\ Gone ~> state = "REGISTERING"

(* A device with a registration in flash that this firmware accepts comes  *)
(* to run, whatever reboots it and however long the network is away,       *)
(* unless the service deletes it meanwhile.                                *)
RegisteredComesToRun ==
  Valid(flash) /\ flash.device \in devices ~> state = "RUNNING" \/ flash.device \notin devices
=============================================================================
