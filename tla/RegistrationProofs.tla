------------------------- MODULE RegistrationProofs -------------------------
(***************************************************************************)
(* Theorems about Registration, for any registration another firmware left *)
(* and any number of failures.                                             *)
(***************************************************************************)
EXTENDS Registration, TLAPS

(* Registrations name a device; one that was not accepted has lost it.     *)
Named ==
  /\ flash.size # 0 => flash.device # NoDevice
  /\ job = "save" => ram.device # NoDevice

Rejected ==
  state = "REGISTERING" /\ ~ reboot =>
    /\ ~ Valid(flash)
    /\ flash.device \in devices => flash.device \in excused

IInv == TypeOK /\ RunningIsRegistered /\ OrphansExplained /\ Named /\ Rejected

USE RegistrationAssumption DEF RegistrationAssumption

-----------------------------------------------------------------------------
(* What Preferences does to flash and to the object it reads into.         *)

LEMMA LoadedTyped == TypeOK => Loaded \in [version : Nat, device : 0 .. lastDevice]
BY DEF TypeOK, Loaded, ReadSize, Constructed, Version, NoDevice, Bytes

LEMMA LoadsValid == TypeOK => (Loads <=> Valid(flash)) /\ (Loads => Loaded = [version |-> Version, device |-> flash.device])
BY DEF TypeOK, Loads, Loaded, ReadSize, Valid, Constructed, Version, Bytes

LEMMA ResetTyped ==
  ASSUME TypeOK, Reset
  PROVE  /\ flash' = flash \/ flash' = Empty
         /\ flash' \in [version : Nat, size : Nat, device : 0 .. lastDevice]
         /\ trouble' \in 0 .. MaxTrouble
BY DEF TypeOK, Reset, Trouble, Empty, NoDevice

LEMMA SaveTyped ==
  ASSUME TypeOK, Save
  PROVE  /\ flash' \in [version : Nat, size : Nat, device : 0 .. lastDevice]
         /\ flash'.device = ram.device /\ flash'.size # 0
BY DEF TypeOK, Save, Bytes

LEMMA TroubleTyped == TypeOK /\ Trouble => trouble' \in 0 .. MaxTrouble
BY DEF TypeOK, Trouble

-----------------------------------------------------------------------------
(* The invariant, one lemma for each action that is not a mere change of   *)
(* the world.                                                              *)

LEMMA InitInv == Init => IInv
<1> SUFFICES ASSUME Init PROVE IInv
  OBVIOUS
<1>1. PICK blob \in [version : Nat, size : Nat, device : {0, 1}] :
        /\ flash = blob /\ devices = {blob.device} \ {0} /\ lastDevice = blob.device
        /\ blob.size # 0 => blob.device # 0
  <2>1. CASE flash = Empty /\ devices = {} /\ lastDevice = 0
    <3>1. Empty \in [version : Nat, size : Nat, device : {0, 1}] /\ Empty.device = 0 /\ Empty.size = 0
      BY DEF Empty, NoDevice
    <3> QED BY <2>1, <3>1
  <2>2. CASE /\ \E old \in Blobs : flash = [version |-> old.version, size |-> old.size, device |-> 1]
             /\ devices = {1} /\ lastDevice = 1
    <3> PICK old \in Blobs : flash = [version |-> old.version, size |-> old.size, device |-> 1]
      BY <2>2
    <3>1. flash \in [version : Nat, size : Nat, device : {0, 1}] /\ flash.device = 1
      OBVIOUS
    <3> QED BY <2>2, <3>1
  <2> QED BY <2>1, <2>2 DEF Init
<1>2. /\ state = "boot" /\ job = "none" /\ reboot = FALSE /\ network \in BOOLEAN
      /\ excused = {} /\ trouble = 0
      /\ ram \in [version : Nat, device : 0 .. lastDevice]
  BY <1>1 DEF Init, Constructed, Version, NoDevice
<1>3. lastDevice \in {0, 1} /\ devices \subseteq 1 .. lastDevice
  BY <1>1
<1>4. flash \in [version : Nat, size : Nat, device : 0 .. lastDevice]
  BY <1>1, <1>3
<1>5. TypeOK
  <2>1. trouble \in 0 .. MaxTrouble /\ excused \subseteq 0 .. lastDevice /\ lastDevice \in Nat
    BY <1>2, <1>3
  <2> QED BY <1>2, <1>3, <1>4, <2>1 DEF TypeOK
<1> QED BY <1>1, <1>2, <1>5
        DEF IInv, RunningIsRegistered, OrphansExplained, Named, Rejected, NoDevice

LEMMA BootInv == IInv /\ Boot => IInv'
<1> SUFFICES ASSUME IInv, Boot PROVE IInv'
  OBVIOUS
<1> USE DEF IInv, serviceVars
<1>1. CASE Loads
  <2>1. /\ state' = "connecting" /\ ram' = [version |-> Version, device |-> flash.device]
        /\ Valid(flash) /\ flash.device # NoDevice
        /\ UNCHANGED <<flash, trouble, job, reboot, devices, lastDevice, network, excused>>
    BY <1>1, LoadsValid DEF Boot, Named, Valid, Bytes
  <2>2. job = "none"
    BY DEF TypeOK, Boot
  <2> QED BY <2>1, <2>2 DEF TypeOK, RunningIsRegistered, OrphansExplained, Named, Rejected,
                            Version, Valid
<1>2. CASE ~ Loads
  <2>1. /\ state' = "REGISTERING" /\ excused' = excused \union {flash.device}
        /\ UNCHANGED <<job, reboot, devices, lastDevice, network>>
    BY <1>2 DEF Boot
  <2>2. /\ flash' = flash \/ flash' = Empty
        /\ flash' \in [version : Nat, size : Nat, device : 0 .. lastDevice]
        /\ trouble' \in 0 .. MaxTrouble
    <3>1. CASE Reset
      BY <3>1, ResetTyped
    <3>2. CASE UNCHANGED <<flash, trouble>>
      BY <3>2 DEF TypeOK
    <3> QED BY <1>2, <3>1, <3>2 DEF Boot
  <2>3. job = "none" /\ ~ Valid(flash)
    BY <1>2, LoadsValid DEF TypeOK, Boot
  <2>4. ram' \in [version : Nat, device : 0 .. lastDevice]
    BY LoadedTyped DEF Boot
  <2>5. NoDevice \notin devices
    BY DEF TypeOK, NoDevice
  <2>6. TypeOK'
    BY <2>1, <2>2, <2>3, <2>4 DEF TypeOK
  <2>7. OrphansExplained' /\ Rejected'
    BY <2>1, <2>2, <2>3, <2>5 DEF OrphansExplained, Rejected, Empty, Valid, Bytes
  <2> QED BY <2>1, <2>2, <2>3, <2>6, <2>7 DEF RunningIsRegistered, Named, Empty
<1> QED BY <1>1, <1>2

(* Going down, with nothing in RAM that is not in flash or excused.        *)
LEMMA DownInv ==
  ASSUME IInv, Down, UNCHANGED <<flash, serviceVars, network>>,
         trouble' \in 0 .. MaxTrouble, excused \subseteq excused', excused' \subseteq 0 .. lastDevice,
         job = "save" => ram.device \in excused'
  PROVE  IInv'
<1> USE DEF IInv, serviceVars
<1>0. ram' \in [version : Nat, device : 0 .. lastDevice]
  BY DEF TypeOK, Down, Constructed, Version, NoDevice
<1>1. TypeOK'
  BY <1>0 DEF TypeOK, Down
<1>2. OrphansExplained'
  BY DEF OrphansExplained, Down
<1> QED BY <1>1, <1>2 DEF Down, RunningIsRegistered, Named, Rejected

LEMMA ConnectInv == IInv /\ Connect => IInv'
<1> SUFFICES ASSUME IInv, Connect PROVE IInv'
  OBVIOUS
<1>1. CASE Down
  <2>1. job # "save" /\ trouble' \in 0 .. MaxTrouble /\ excused' \subseteq 0 .. lastDevice
    BY DEF IInv, TypeOK, Connect
  <2> QED BY <1>1, <2>1, DownInv DEF Connect
<1>2. CASE state' = "RUNNING" /\ UNCHANGED <<job, reboot, ram>>
  BY <1>2 DEF IInv, Connect, serviceVars, TypeOK, RunningIsRegistered, OrphansExplained,
              Named, Rejected, Valid
<1> QED BY <1>1, <1>2 DEF Connect

LEMMA RestartInv == IInv /\ Restart => IInv'
<1> SUFFICES ASSUME IInv, Restart PROVE IInv'
  OBVIOUS
<1>1. job # "save" /\ trouble' \in 0 .. MaxTrouble /\ excused' \subseteq 0 .. lastDevice
  BY DEF IInv, TypeOK, Restart
<1> QED BY <1>1, DownInv DEF Restart

LEMMA PowerFailsInv == IInv /\ PowerFails => IInv'
<1> SUFFICES ASSUME IInv, PowerFails PROVE IInv'
  OBVIOUS
<1>1. /\ ram.device \in 0 .. lastDevice /\ excused \subseteq 0 .. lastDevice
      /\ trouble' \in 0 .. MaxTrouble
  BY TroubleTyped DEF IInv, TypeOK, PowerFails
<1>2. /\ excused \subseteq excused' /\ excused' \subseteq 0 .. lastDevice
      /\ job = "save" => ram.device \in excused'
  BY <1>1 DEF PowerFails
<1> QED BY <1>1, <1>2, DownInv DEF PowerFails

LEMMA SubmitInv == IInv /\ Submit => IInv'
<1> SUFFICES ASSUME IInv, Submit PROVE IInv'
  OBVIOUS
<1> USE DEF IInv, serviceVars
<1>1. /\ state = "REGISTERING" /\ job = "none" /\ ~ reboot
      /\ job' \in {"none", "post"}
      /\ UNCHANGED <<state, reboot, flash, devices, lastDevice, network, excused, trouble>>
  BY DEF Submit, Listens
<1>2. ram' \in [version : Nat, device : 0 .. lastDevice]
  BY DEF Submit, TypeOK, NoDevice
<1>3. TypeOK'
  BY <1>1, <1>2 DEF TypeOK
<1> QED BY <1>1, <1>3 DEF RunningIsRegistered, OrphansExplained, Named, Rejected, Valid

LEMMA PostInv == IInv /\ Post => IInv'
<1> SUFFICES ASSUME IInv, Post PROVE IInv'
  OBVIOUS
<1> USE DEF IInv, serviceVars
<1> DEFINE id == lastDevice + 1
<1>1. /\ job = "post" /\ state = "REGISTERING" /\ ~ reboot /\ lastDevice \in Nat
      /\ flash.device \in 0 .. lastDevice
      /\ UNCHANGED <<state, reboot, flash, network>>
  BY DEF Post, TypeOK
<1>2. CASE /\ devices' = devices \union {id} /\ lastDevice' = id
           /\ ram' = [ram EXCEPT !.device = id] /\ job' = "save" /\ UNCHANGED <<excused, trouble>>
  <2>1. ram' \in [version : Nat, device : 0 .. lastDevice'] /\ ram'.device = id
    BY <1>1, <1>2 DEF TypeOK
  <2>2. TypeOK'
    BY <1>1, <1>2, <2>1 DEF TypeOK
  <2>3. OrphansExplained' /\ Rejected'
    BY <1>1, <1>2, <2>1 DEF OrphansExplained, Rejected, Valid
  <2> QED BY <1>1, <1>2, <2>1, <2>2, <2>3 DEF RunningIsRegistered, Named, NoDevice
<1>3. CASE /\ devices' = devices \union {id} /\ lastDevice' = id
           /\ job' = "none" /\ excused' = excused \union {id} /\ Trouble /\ UNCHANGED ram
  <2>1. TypeOK'
    BY <1>1, <1>3, TroubleTyped DEF TypeOK
  <2>2. OrphansExplained' /\ Rejected'
    BY <1>1, <1>3 DEF OrphansExplained, Rejected, Valid
  <2> QED BY <1>1, <1>3, <2>1, <2>2 DEF RunningIsRegistered, Named
<1>4. CASE Refused
  <2>1. TypeOK'
    BY <1>1, <1>4 DEF TypeOK, Refused
  <2> QED BY <1>1, <1>4, <2>1 DEF Refused, RunningIsRegistered, OrphansExplained, Named, Rejected, Valid
<1> QED BY <1>2, <1>3, <1>4 DEF Post, Accepted

LEMMA SaveInv == IInv /\ SaveAndReboot => IInv'
<1> SUFFICES ASSUME IInv, SaveAndReboot PROVE IInv'
  OBVIOUS
<1> USE DEF IInv, serviceVars
<1>1. /\ job = "save" /\ state = "REGISTERING" /\ ~ reboot /\ job' = "none" /\ reboot'
      /\ ram.device \in 0 .. lastDevice /\ ram.device # NoDevice
      /\ UNCHANGED <<state, ram, devices, lastDevice, network>>
  BY DEF SaveAndReboot, TypeOK, Named
<1>2. CASE Save /\ UNCHANGED <<excused, trouble>>
  <2>1. /\ flash' \in [version : Nat, size : Nat, device : 0 .. lastDevice]
        /\ flash'.device = ram.device
    BY <1>2, SaveTyped
  <2>2. TypeOK'
    BY <1>1, <1>2, <2>1 DEF TypeOK
  <2> QED BY <1>1, <1>2, <2>1, <2>2 DEF RunningIsRegistered, OrphansExplained, Named, Rejected
<1>3. CASE Trouble /\ excused' = excused \union {ram.device} /\ UNCHANGED flash
  <2>1. TypeOK'
    BY <1>1, <1>3, TroubleTyped DEF TypeOK
  <2> QED BY <1>1, <1>3, <2>1 DEF RunningIsRegistered, OrphansExplained, Named, Rejected
<1> QED BY <1>2, <1>3 DEF SaveAndReboot

LEMMA DisconnectedInv == IInv /\ Disconnected => IInv'
<1> SUFFICES ASSUME IInv, Disconnected PROVE IInv'
  OBVIOUS
<1> USE DEF IInv, serviceVars
<1>1. /\ state = "RUNNING" /\ job = "none" /\ reboot' /\ ram.device \notin devices
      /\ flash.device = ram.device
      /\ UNCHANGED <<state, job, ram, devices, lastDevice, network, excused>>
  BY DEF Disconnected, Gone, TypeOK, RunningIsRegistered
<1>2. /\ flash' = flash \/ flash' = Empty
      /\ flash' \in [version : Nat, size : Nat, device : 0 .. lastDevice]
      /\ trouble' \in 0 .. MaxTrouble
  BY ResetTyped DEF Disconnected
<1>3. TypeOK'
  BY <1>1, <1>2 DEF TypeOK
<1> QED BY <1>1, <1>2, <1>3 DEF RunningIsRegistered, OrphansExplained, Named, Rejected, Empty

LEMMA WorldInv ==
  ASSUME IInv, UNCHANGED <<state, job, reboot, ram, flash, lastDevice, excused>>,
         devices' \subseteq devices, network' \in BOOLEAN, trouble' \in 0 .. MaxTrouble
  PROVE  IInv'
BY DEF IInv, TypeOK, RunningIsRegistered, OrphansExplained, Named, Rejected, Valid

LEMMA StepInv == IInv /\ [Next]_vars => IInv'
<1> SUFFICES ASSUME IInv, [Next]_vars PROVE IInv'
  OBVIOUS
<1>0. network \in BOOLEAN /\ trouble \in 0 .. MaxTrouble /\ TypeOK
  BY DEF IInv, TypeOK
<1>1. CASE NetworkLost
  BY <1>0, <1>1, WorldInv, TroubleTyped DEF NetworkLost, deviceVars, serviceVars
<1>2. CASE NetworkBack
  BY <1>0, <1>2, WorldInv DEF NetworkBack, deviceVars, serviceVars
<1>3. ASSUME NEW d \in devices, DeleteDevice(d) PROVE IInv'
  BY <1>0, <1>3, WorldInv, TroubleTyped DEF DeleteDevice, deviceVars
<1>4. CASE UNCHANGED vars
  BY <1>0, <1>4, WorldInv DEF vars, deviceVars, serviceVars
<1> QED BY <1>1, <1>2, <1>3, <1>4, BootInv, ConnectInv, RestartInv, SubmitInv, PostInv, SaveInv,
           DisconnectedInv, PowerFailsInv DEF Next

-----------------------------------------------------------------------------
(* The theorems.                                                           *)

LEMMA Inductive == Spec => []IInv
BY InitInv, StepInv, PTL DEF Spec

(* State, RAM and flash have their types; handleSubmit runs while the      *)
(* device registers.                                                       *)
THEOREM BootTyped == Spec => []TypeOK
<1>1. IInv => TypeOK
  BY DEF IInv
<1> QED BY <1>1, Inductive, PTL

(* setup() leads to telemetry only with a registration of this firmware    *)
(* that names a device and is in flash, whatever was in flash before.      *)
THEOREM RunsRegistered == Spec => []RunningIsRegistered
<1>1. IInv => RunningIsRegistered
  BY DEF IInv
<1> QED BY <1>1, Inductive, PTL

(* handleSubmit, save and load lose no device but by a failure, or with a  *)
(* registration that load rejects.                                         *)
THEOREM OrphansAreExplained == Spec => []OrphansExplained
<1>1. IInv => OrphansExplained
  BY DEF IInv
<1> QED BY <1>1, Inductive, PTL

(* Nothing changes in flash while it has an accepted registration of a     *)
(* device the service knows.                                               *)
THEOREM KeepsRegistration == Spec => RegistrationKept
<1>1. IInv /\ [Next]_vars => [Valid(flash) /\ flash.device \in devices => flash' = flash]_vars
  <2> SUFFICES ASSUME IInv, Next, Valid(flash), flash.device \in devices PROVE flash' = flash
    OBVIOUS
  <2>1. CASE Boot
    BY <2>1, LoadsValid DEF IInv, Boot
  <2>2. CASE SaveAndReboot
    BY <2>2 DEF SaveAndReboot, IInv, TypeOK, Rejected
  <2>3. CASE Disconnected
    BY <2>3 DEF Disconnected, Gone, IInv, RunningIsRegistered
  <2>4. CASE ~ (Boot \/ SaveAndReboot \/ Disconnected)
    BY <2>4 DEF Next, Connect, Restart, Submit, Post, PowerFails, NetworkLost, NetworkBack,
                DeleteDevice, deviceVars
  <2> QED BY <2>1, <2>2, <2>3, <2>4
<1> QED BY <1>1, Inductive, PTL DEF Spec, RegistrationKept
=============================================================================
