---------------------------- MODULE ScheduleStore ----------------------------
(***************************************************************************)
(* The service's resources and the rules that guard them: users, the       *)
(* schedules and devices they own, and the phases of a schedule.  A POST   *)
(* writes first and validates in the same transaction, a PUT writes        *)
(* without validating, and a DELETE reads and validates before its         *)
(* transaction takes the database's write lock, so other requests fit in   *)
(* between.  A refused request changes nothing and is not an action.       *)
(* Sources: service/routers/base.py and service/models/.                   *)
(*                                                                         *)
(* Foreign keys are declared but not enforced (SQLite's default), and      *)
(* names are left out: they are unique and nothing depends on them.        *)
(***************************************************************************)
EXTENDS Integers, FiniteSets

CONSTANTS Users,        \* ids a user may have
          Schedules,    \* ids a schedule may have
          Devices,      \* ids a device may have
          Ordinals,     \* positions of a phase in its schedule
          Temperatures, \* temperatures of a phase, "ambient" among them
          MaxPhase,     \* bound on the phases ever created
          MaxDeleting,  \* bound on the deletes being handled at once
          PhasePuts,    \* clients PUT phases
          Overlap       \* requests are handled while a delete is

ASSUME StoreAssumption ==
  /\ Ordinals \subseteq Int /\ MaxPhase \in Nat /\ MaxDeleting \in Nat
  /\ PhasePuts \in BOOLEAN /\ Overlap \in BOOLEAN

VARIABLES users,      \* ids of the users
          schedules,  \* user_id of every schedule
          devices,    \* user_id of every device
          phases,     \* the rows of all phases
          lastPhase,  \* sqlite_autoincrement: phase ids are never used again
          deleting    \* DELETEs that have validated and not yet committed

vars == <<users, schedules, devices, phases, lastPhase, deleting>>

PhaseType == {"RAMP", "CONSTANT"}

Phase == [id : 1 .. MaxPhase, schedule : Schedules, ordinal : Ordinals,
          phase_type : PhaseType, temperature : Temperatures]

PhasesOf(s) == {p \in phases : p.schedule = s}

(* A table f with the row x written, or deleted.                           *)
With(f, x, v) == [y \in DOMAIN f \union {x} |-> IF y = x THEN v ELSE f[y]]
Remove(f, x)  == [y \in DOMAIN f \ {x} |-> f[y]]

(* Another request can be handled now.                                     *)
Free == Overlap \/ deleting = {}

-----------------------------------------------------------------------------
(* ScheduleValidator: the phases in the order of their ordinals.           *)

First(ps, p) == \A q \in ps : p.ordinal <= q.ordinal

Consecutive(ps, p, q) ==
  /\ p.ordinal < q.ordinal
  /\ \A r \in ps : r.ordinal <= p.ordinal \/ r.ordinal >= q.ordinal

\* Mutant: the rule that is disabled in the code, a last phase must be a ramp.
ValidLastRamp(ps) ==
  /\ \A p \in ps : First(ps, p) => p.phase_type = "RAMP"
  /\ \A p \in ps : (\A q \in ps : q.ordinal <= p.ordinal) => p.phase_type = "RAMP"
  /\ \A p, q \in ps : Consecutive(ps, p, q) =>
       /\ ~ (p.phase_type = "CONSTANT" /\ q.phase_type = "CONSTANT")
       /\ ~ (q.phase_type = "CONSTANT" /\ p.temperature # q.temperature)
       /\ ~ (p.phase_type = "RAMP" /\ q.phase_type = "RAMP"
               /\ p.temperature = q.temperature)

Valid(ps) ==
  /\ \A p \in ps : First(ps, p) => p.phase_type = "RAMP"
  /\ \A p, q \in ps : Consecutive(ps, p, q) =>
       /\ ~ (p.phase_type = "CONSTANT" /\ q.phase_type = "CONSTANT")
       /\ ~ (q.phase_type = "CONSTANT" /\ p.temperature # q.temperature)
       /\ ~ (p.phase_type = "RAMP" /\ q.phase_type = "RAMP"
               /\ p.temperature = q.temperature)

(* UniqueConstraint("schedule_id", "ordinal"): p may join the phases ps.   *)
Unique(ps, p) == \A q \in ps : q.schedule # p.schedule \/ q.ordinal # p.ordinal

-----------------------------------------------------------------------------
(* Creating and updating.                                                  *)

Init ==
  /\ users = {} /\ schedules = << >> /\ devices = << >>
  /\ phases = {} /\ lastPhase = 0
  /\ deleting = {}

(* POST takes an id that was never used, PUT any.                          *)
PutUser(u) ==
  /\ Free /\ u \notin users
  /\ users' = users \union {u}
  /\ UNCHANGED <<schedules, devices, phases, lastPhase, deleting>>

(* POST and PUT: the owner is not looked up.                               *)
PutSchedule(s, u) ==
  /\ Free
  /\ schedules' = With(schedules, s, u)
  /\ UNCHANGED <<users, devices, phases, lastPhase, deleting>>

PutDevice(d, u) ==
  /\ Free
  /\ devices' = With(devices, d, u)
  /\ UNCHANGED <<users, schedules, phases, lastPhase, deleting>>

\* Mutant: a phase is validated before it is inserted.
CreatePhaseUnvalidated(s, o, type, temp) ==
  LET phase == [id |-> lastPhase + 1, schedule |-> s, ordinal |-> o,
                phase_type |-> type, temperature |-> temp]
  IN  /\ Free /\ lastPhase < MaxPhase
      /\ s \in DOMAIN schedules
      /\ Unique(phases, phase)
      /\ Valid(PhasesOf(s))
      /\ phases' = phases \union {phase}
      /\ lastPhase' = lastPhase + 1
      /\ UNCHANGED <<users, schedules, devices, deleting>>

\* Mutant: the unique constraint is missing.
CreatePhaseClashing(s, o, type, temp) ==
  LET phase == [id |-> lastPhase + 1, schedule |-> s, ordinal |-> o,
                phase_type |-> type, temperature |-> temp]
  IN  /\ Free /\ lastPhase < MaxPhase
      /\ s \in DOMAIN schedules
      /\ Valid(PhasesOf(s) \union {phase})
      /\ phases' = phases \union {phase}
      /\ lastPhase' = lastPhase + 1
      /\ UNCHANGED <<users, schedules, devices, deleting>>

(* POST: the row is inserted, then its schedule is loaded and validated.   *)
CreatePhase(s, o, type, temp) ==
  LET phase == [id |-> lastPhase + 1, schedule |-> s, ordinal |-> o,
                phase_type |-> type, temperature |-> temp]
  IN  /\ Free /\ lastPhase < MaxPhase
      /\ s \in DOMAIN schedules
      /\ Unique(phases, phase)
      /\ Valid(PhasesOf(s) \union {phase})
      /\ phases' = phases \union {phase}
      /\ lastPhase' = lastPhase + 1
      /\ UNCHANGED <<users, schedules, devices, deleting>>

(* PUT of an existing phase: its schedule_id, too, is whatever is sent.    *)
UpdatePhase(p, s, o, type, temp) ==
  LET phase == [id |-> p.id, schedule |-> s, ordinal |-> o,
                phase_type |-> type, temperature |-> temp]
  IN  /\ Free /\ PhasePuts
      /\ Unique(phases \ {p}, phase)
      /\ phases' = (phases \ {p}) \union {phase}
      /\ UNCHANGED <<users, schedules, devices, lastPhase, deleting>>

-----------------------------------------------------------------------------
(* Deleting: what is read, validated and remembered until the commit.      *)

Delete(kind, id, ids) ==
  /\ Free /\ Cardinality(deleting) < MaxDeleting
  /\ deleting' = deleting \union {[kind |-> kind, id |-> id, phases |-> ids]}
  /\ UNCHANGED <<users, schedules, devices, phases, lastPhase>>

\* Mutant: the user's devices are not looked at.
DeleteUserWithDevices(u) ==
  /\ u \in users
  /\ \A s \in DOMAIN schedules : schedules[s] # u
  /\ Delete("user", u, {})

DeleteUser(u) ==
  /\ u \in users
  /\ \A s \in DOMAIN schedules : schedules[s] # u
  /\ \A d \in DOMAIN devices : devices[d] # u
  /\ Delete("user", u, {})

DeleteDevice(d) ==
  /\ d \in DOMAIN devices
  /\ Delete("device", d, {})

DeleteSchedule(s) ==
  /\ s \in DOMAIN schedules
  /\ Valid(PhasesOf(s))
  /\ Delete("schedule", s, {p.id : p \in PhasesOf(s)})

\* Mutant: the schedule is validated with the phase still in it.
DeletePhaseUnremoved(p) ==
  /\ p.schedule \in DOMAIN schedules
  /\ Valid(PhasesOf(p.schedule))
  /\ Delete("phase", p.id, {p.id})

(* A phase whose schedule is gone cannot be validated, nor deleted.        *)
DeletePhase(p) ==
  /\ p.schedule \in DOMAIN schedules
  /\ Valid(PhasesOf(p.schedule) \ {p})
  /\ Delete("phase", p.id, {p.id})

\* Mutant: the phases of a schedule are left behind.
CommitUncascaded(r) ==
  /\ deleting' = deleting \ {r}
  /\ users' = IF r.kind = "user" THEN users \ {r.id} ELSE users
  /\ schedules' = IF r.kind = "schedule" THEN Remove(schedules, r.id) ELSE schedules
  /\ devices' = IF r.kind = "device" THEN Remove(devices, r.id) ELSE devices
  /\ phases' = IF r.kind = "phase" THEN {p \in phases : p.id # r.id} ELSE phases
  /\ UNCHANGED lastPhase

(* The rows read are deleted by their ids, those that still exist.         *)
Commit(r) ==
  /\ deleting' = deleting \ {r}
  /\ users' = IF r.kind = "user" THEN users \ {r.id} ELSE users
  /\ schedules' = IF r.kind = "schedule" THEN Remove(schedules, r.id) ELSE schedules
  /\ devices' = IF r.kind = "device" THEN Remove(devices, r.id) ELSE devices
  /\ phases' = {p \in phases : p.id \notin r.phases}
  /\ UNCHANGED lastPhase

-----------------------------------------------------------------------------
Next ==
  \/ \E u \in Users : PutUser(u) \/ DeleteUser(u)
  \/ \E s \in Schedules, u \in Users : PutSchedule(s, u)
  \/ \E d \in Devices, u \in Users : PutDevice(d, u)
  \/ \E s \in Schedules, o \in Ordinals, type \in PhaseType, temp \in Temperatures :
       \/ CreatePhase(s, o, type, temp)
       \/ \E p \in phases : UpdatePhase(p, s, o, type, temp)
  \/ \E s \in Schedules : DeleteSchedule(s)
  \/ \E d \in Devices : DeleteDevice(d)
  \/ \E p \in phases : DeletePhase(p)
  \/ \E r \in deleting : Commit(r)

Spec == Init /\ [][Next]_vars

-----------------------------------------------------------------------------
(* Every row has its type; a phase is known by its id and by its place.    *)
TypeOK ==
  /\ users \subseteq Users
  /\ DOMAIN schedules \subseteq Schedules /\ DOMAIN devices \subseteq Devices
  /\ phases \subseteq Phase /\ lastPhase \in 0 .. MaxPhase
  /\ \A p, q \in phases :
       p.id = q.id \/ (p.schedule = q.schedule /\ p.ordinal = q.ordinal) => p = q

(* "The phases produce a continuous temperature" (README:37): a schedule   *)
(* starts with a ramp, a constant phase holds the temperature the ramp     *)
(* before it ends with, and a ramp after a ramp goes somewhere else.       *)
Continuous(ps) ==
  \A q \in ps :
    IF First(ps, q) THEN q.phase_type = "RAMP"
    ELSE \E p \in ps :
           /\ Consecutive(ps, p, q)
           /\ q.phase_type = "CONSTANT" =>
                p.phase_type = "RAMP" /\ p.temperature = q.temperature
           /\ q.phase_type = "RAMP" /\ p.phase_type = "RAMP" =>
                p.temperature # q.temperature

(* Every schedule can be fired at any time: inserting a phase anywhere,    *)
(* removing one or deleting whole schedules never leaves a jump behind.    *)
ScheduleValid == \A s \in DOMAIN schedules : Continuous(PhasesOf(s))

(* A schedule is deleted with all its phases: none is left that no client  *)
(* can list, validate or delete.                                           *)
NoOrphans == \A p \in phases : p.schedule \in DOMAIN schedules

(* Every schedule can be taken apart phase by phase: its last phase can    *)
(* always be deleted (the reason validators.py:108 gives for not asking    *)
(* for a final ramp).                                                      *)
Dismantlable ==
  \A p \in phases : (\A q \in PhasesOf(p.schedule) : q.ordinal <= p.ordinal)
                      => Valid(PhasesOf(p.schedule) \ {p})

(* A phase is only created in a schedule that is valid with it, whatever   *)
(* unvalidated PUTs have made of the schedule before.                      *)
CreatedValid ==
  [][\A p \in phases' :
       lastPhase' # lastPhase /\ p.id = lastPhase' => Continuous(PhasesOf(p.schedule)')]_vars

(* A user who is deleted leaves no schedule and no device behind.          *)
UserLeavesNothing ==
  [][\A u \in users \ users' :
       /\ \A s \in DOMAIN schedules' : schedules'[s] # u
       /\ \A d \in DOMAIN devices' : devices'[d] # u]_vars
=============================================================================
