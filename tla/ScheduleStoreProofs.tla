------------------------ MODULE ScheduleStoreProofs ------------------------
(***************************************************************************)
(* Theorems about ScheduleStore, for any sets of ids, positions and        *)
(* temperatures and any bounds.  The first two hold however requests       *)
(* interleave and whatever clients PUT; the others are about a service     *)
(* that handles one request at a time and clients that PUT no phases: the  *)
(* two violations found by TLC show that neither can be left out.          *)
(***************************************************************************)
EXTENDS ScheduleStore, WellFoundedInduction, TLAPS

-----------------------------------------------------------------------------
(* The code's check of neighbouring phases is as good as the rule.         *)

LEMMA LeastElement ==
  ASSUME NEW T \in SUBSET Nat, T # {}
  PROVE  \E x \in T : \A y \in T : x <= y
<1> DEFINE R == OpToRel(<, Nat)
<1>1. IsWellFoundedOn(R, Nat)
  BY NatLessThanWellFounded
<1>2. \A x, y \in Nat : x < y => <<x, y>> \in R
  BY DEF OpToRel
<1> HIDE DEF R
<1>3. PICK x \in T : \A y \in T : ~ (<<y, x>> \in R)
  BY <1>1, WFMin
<1>4. \A y \in T : ~ (y < x)
  BY <1>2, <1>3
<1>5. \A y \in T : x <= y
  BY <1>4
<1> QED BY <1>5

(* Every phase but the first has one right before it.                      *)
LEMMA Predecessor ==
  ASSUME NEW ps, \A p \in ps : p.ordinal \in Int,
         NEW q \in ps, ~ First(ps, q)
  PROVE  \E p \in ps : Consecutive(ps, p, q)
<1> DEFINE Before == {p \in ps : p.ordinal < q.ordinal}
           Gaps   == {q.ordinal - p.ordinal : p \in Before}
<1>1. Before # {}
  BY DEF First
<1>2. Gaps \in SUBSET Nat /\ Gaps # {}
  BY <1>1
<1>3. PICK g \in Gaps : \A h \in Gaps : g <= h
  <2> HIDE DEF Gaps
  <2> QED BY <1>2, LeastElement
<1>4. PICK p \in Before : g = q.ordinal - p.ordinal
  OBVIOUS
<1>5. \A r \in ps : r.ordinal <= p.ordinal \/ r.ordinal >= q.ordinal
  <2> SUFFICES ASSUME NEW r \in ps, r.ordinal < q.ordinal
               PROVE  r.ordinal <= p.ordinal
    OBVIOUS
  <2>1. g <= q.ordinal - r.ordinal
    BY <1>3
  <2> QED BY <2>1, <1>4
<1> QED BY <1>4, <1>5 DEF Consecutive

(* What the code accepts is continuous.                                    *)
LEMMA ValidContinuous ==
  ASSUME NEW ps, \A p \in ps : p.ordinal \in Int /\ p.phase_type \in PhaseType,
         Valid(ps)
  PROVE  Continuous(ps)
<1> SUFFICES ASSUME NEW q \in ps
             PROVE  IF First(ps, q) THEN q.phase_type = "RAMP"
                    ELSE \E p \in ps :
                           /\ Consecutive(ps, p, q)
                           /\ q.phase_type = "CONSTANT" =>
                                p.phase_type = "RAMP" /\ p.temperature = q.temperature
                           /\ q.phase_type = "RAMP" /\ p.phase_type = "RAMP" =>
                                p.temperature # q.temperature
  BY DEF Continuous
<1>1. CASE First(ps, q)
  BY <1>1 DEF Valid
<1>2. CASE ~ First(ps, q)
  <2>1. PICK p \in ps : Consecutive(ps, p, q)
    BY <1>2, Predecessor
  <2>2. p.phase_type \in {"RAMP", "CONSTANT"} /\ q.phase_type \in {"RAMP", "CONSTANT"}
    BY DEF PhaseType
  <2> QED BY <1>2, <2>1, <2>2 DEF Valid
<1> QED BY <1>1, <1>2

-----------------------------------------------------------------------------
(* Types and ids.                                                          *)

Typed == TypeOK /\ \A p \in phases : p.id <= lastPhase

LEMMA InitTyped == Init => Typed
BY StoreAssumption DEF Init, Typed, TypeOK, Phase

LEMMA CreatePhaseTyped ==
  ASSUME Typed, NEW s \in Schedules, NEW o \in Ordinals, NEW type \in PhaseType,
         NEW temp \in Temperatures, CreatePhase(s, o, type, temp)
  PROVE  Typed'
<1> DEFINE new == [id |-> lastPhase + 1, schedule |-> s, ordinal |-> o,
                   phase_type |-> type, temperature |-> temp]
<1> USE StoreAssumption
<1>1. /\ lastPhase \in 0 .. MaxPhase /\ lastPhase < MaxPhase
      /\ phases \subseteq Phase
      /\ \A p \in phases : p.id <= lastPhase
  BY DEF Typed, TypeOK, CreatePhase
<1>2. /\ phases' = phases \union {new} /\ lastPhase' = lastPhase + 1
      /\ Unique(phases, new)
      /\ UNCHANGED <<users, schedules, devices>>
  BY DEF CreatePhase
<1>3. new \in Phase /\ lastPhase' \in 0 .. MaxPhase
  BY <1>1, <1>2 DEF Phase
<1>4. \A p \in phases : p.id \in Int /\ p.id # new.id /\ p.id <= lastPhase'
  BY <1>1, <1>2 DEF Phase
<1>5. \A p \in phases : ~ (p.schedule = new.schedule /\ p.ordinal = new.ordinal)
  BY <1>2 DEF Unique
<1>6. new.id <= lastPhase'
  BY <1>1, <1>2
<1> HIDE DEF new
<1>7. \A p, q \in phases' :
        p.id = q.id \/ (p.schedule = q.schedule /\ p.ordinal = q.ordinal) => p = q
  BY <1>2, <1>4, <1>5 DEF Typed, TypeOK
<1>8. phases' \subseteq Phase /\ \A p \in phases' : p.id <= lastPhase'
  BY <1>1, <1>2, <1>3, <1>4, <1>6
<1> QED BY <1>2, <1>3, <1>7, <1>8 DEF Typed, TypeOK

LEMMA UpdatePhaseTyped ==
  ASSUME Typed, NEW s \in Schedules, NEW o \in Ordinals, NEW type \in PhaseType,
         NEW temp \in Temperatures, NEW p \in phases, UpdatePhase(p, s, o, type, temp)
  PROVE  Typed'
<1> DEFINE new == [id |-> p.id, schedule |-> s, ordinal |-> o,
                   phase_type |-> type, temperature |-> temp]
<1>1. /\ phases' = (phases \ {p}) \union {new}
      /\ Unique(phases \ {p}, new)
      /\ UNCHANGED <<users, schedules, devices, lastPhase>>
  BY DEF UpdatePhase
<1>2. phases \subseteq Phase /\ p.id \in 1 .. MaxPhase /\ p.id <= lastPhase
  BY DEF Typed, TypeOK, Phase
<1>3. new \in Phase /\ new.id <= lastPhase
  BY <1>2 DEF Phase
<1>4. \A q \in phases \ {p} : q.id # new.id
  BY DEF Typed, TypeOK
<1>5. \A q \in phases \ {p} : ~ (q.schedule = new.schedule /\ q.ordinal = new.ordinal)
  BY <1>1 DEF Unique
<1> HIDE DEF new
<1>6. \A q, r \in phases' :
        q.id = r.id \/ (q.schedule = r.schedule /\ q.ordinal = r.ordinal) => q = r
  BY <1>1, <1>4, <1>5 DEF Typed, TypeOK
<1> QED BY <1>1, <1>2, <1>3, <1>6 DEF Typed, TypeOK

LEMMA NextTyped == Typed /\ [Next]_vars => Typed'
<1> SUFFICES ASSUME Typed, [Next]_vars PROVE Typed'
  OBVIOUS
<1> USE DEF Typed, TypeOK
<1>1. ASSUME NEW u \in Users, PutUser(u) \/ DeleteUser(u)
      PROVE  Typed'
  BY <1>1 DEF PutUser, DeleteUser, Delete
<1>2. ASSUME NEW s \in Schedules, NEW u \in Users, PutSchedule(s, u)
      PROVE  Typed'
  BY <1>2 DEF PutSchedule, With
<1>3. ASSUME NEW d \in Devices, NEW u \in Users, PutDevice(d, u)
      PROVE  Typed'
  BY <1>3 DEF PutDevice, With
<1>4. ASSUME NEW s \in Schedules, NEW o \in Ordinals, NEW type \in PhaseType,
             NEW temp \in Temperatures,
             \/ CreatePhase(s, o, type, temp)
             \/ \E p \in phases : UpdatePhase(p, s, o, type, temp)
      PROVE  Typed'
  <2> HIDE DEF Typed, TypeOK
  <2> QED BY <1>4, CreatePhaseTyped, UpdatePhaseTyped
<1>5. ASSUME NEW s \in Schedules, DeleteSchedule(s)
      PROVE  Typed'
  BY <1>5 DEF DeleteSchedule, Delete
<1>6. ASSUME NEW d \in Devices, DeleteDevice(d)
      PROVE  Typed'
  BY <1>6 DEF DeleteDevice, Delete
<1>7. ASSUME NEW p \in phases, DeletePhase(p)
      PROVE  Typed'
  BY <1>7 DEF DeletePhase, Delete
<1>8. ASSUME NEW r \in deleting, Commit(r)
      PROVE  Typed'
  BY <1>8 DEF Commit, Remove
<1>9. CASE UNCHANGED vars
  BY <1>9 DEF vars
<1> HIDE DEF Typed, TypeOK
<1> QED BY <1>1, <1>2, <1>3, <1>4, <1>5, <1>6, <1>7, <1>8, <1>9 DEF Next

(* Every row has its type and two phases never share an id or a place,     *)
(* with overlapping requests and with PUTs.                                *)
THEOREM StoreTypes == Spec => []TypeOK
<1>1. Typed => TypeOK
  BY DEF Typed
<1> QED BY <1>1, InitTyped, NextTyped, PTL DEF Spec

-----------------------------------------------------------------------------
(* What a POST accepts.                                                    *)

LEMMA CreatedContinuous ==
  ASSUME Typed, NEW s \in Schedules, NEW o \in Ordinals, NEW type \in PhaseType,
         NEW temp \in Temperatures, CreatePhase(s, o, type, temp),
         NEW p \in phases', p.id = lastPhase'
  PROVE  Continuous(PhasesOf(p.schedule)')
<1> DEFINE new == [id |-> lastPhase + 1, schedule |-> s, ordinal |-> o,
                   phase_type |-> type, temperature |-> temp]
<1>1. /\ phases' = phases \union {new} /\ lastPhase' = lastPhase + 1
      /\ Valid(PhasesOf(s) \union {new})
  BY DEF CreatePhase
<1>2. \A q \in phases : q.id \in Int /\ q.id <= lastPhase
  BY DEF Typed, TypeOK, Phase
<1>3. lastPhase \in Int /\ new.schedule = s
  BY DEF Typed, TypeOK
<1> HIDE DEF new
<1>4. p = new
  BY <1>1, <1>2, <1>3
<1>5. PhasesOf(p.schedule)' = PhasesOf(s) \union {new}
  BY <1>1, <1>3, <1>4 DEF PhasesOf
<1>6. \A q \in PhasesOf(p.schedule)' : q.ordinal \in Int /\ q.phase_type \in PhaseType
  <2>1. Typed'
    BY CreatePhaseTyped
  <2> QED BY <2>1, StoreAssumption DEF Typed, TypeOK, Phase, PhasesOf
<1> HIDE DEF PhasesOf
<1> QED BY <1>1, <1>5, <1>6, ValidContinuous

(* Only a POST uses a new id.                                              *)
LEMMA OnlyCreateCounts ==
  ASSUME [Next]_vars, lastPhase' # lastPhase
  PROVE  \E s \in Schedules, o \in Ordinals, type \in PhaseType, temp \in Temperatures :
           CreatePhase(s, o, type, temp)
BY DEF Next, vars, PutUser, PutSchedule, PutDevice, UpdatePhase, DeleteUser,
       DeleteSchedule, DeleteDevice, DeletePhase, Delete, Commit

(* A phase is only created in a schedule that is continuous with it, even  *)
(* if PUTs or overlapping requests had broken that schedule before.        *)
THEOREM CreatedPhasesFit == Spec => CreatedValid
<1>1. ASSUME Typed, [Next]_vars
      PROVE  \A p \in phases' : lastPhase' # lastPhase /\ p.id = lastPhase'
                                   => Continuous(PhasesOf(p.schedule)')
  BY <1>1, OnlyCreateCounts, CreatedContinuous
<1>2. Typed /\ [Next]_vars =>
        [\A p \in phases' : lastPhase' # lastPhase /\ p.id = lastPhase'
                              => Continuous(PhasesOf(p.schedule)')]_vars
  BY <1>1
<1> QED BY <1>2, InitTyped, NextTyped, PTL DEF Spec, CreatedValid

-----------------------------------------------------------------------------
(* One request at a time, and no PUTs of phases.                           *)

Serial == ~ Overlap /\ ~ PhasePuts

(* Every schedule passes the code's validation, existing or not (one that  *)
(* does not exist has no phases).                                          *)
AllValid == \A s \in Schedules : Valid(PhasesOf(s))

(* What a delete has validated still holds when it commits.                *)
Deleting(r) ==
  \/ /\ r.kind = "user" /\ r.phases = {}
     /\ \A s \in DOMAIN schedules : schedules[s] # r.id
     /\ \A d \in DOMAIN devices : devices[d] # r.id
  \/ r.kind = "device" /\ r.phases = {}
  \/ r.kind = "schedule" /\ r.phases = {p.id : p \in PhasesOf(r.id)}
  \/ /\ r.kind = "phase"
     /\ \E p \in phases : r.phases = {p.id} /\ Valid(PhasesOf(p.schedule) \ {p})

SerialInv ==
  /\ Typed
  /\ NoOrphans
  /\ AllValid
  /\ \A r, q \in deleting : r = q
  /\ \A r \in deleting : Deleting(r)

LEMMA InitSerial == Init => SerialInv
<1> SUFFICES ASSUME Init PROVE SerialInv
  OBVIOUS
<1>1. Typed
  BY InitTyped
<1> QED BY <1>1 DEF Init, SerialInv, NoOrphans, AllValid, PhasesOf, Valid

(* Writes of users, schedules and devices do not touch the phases.         *)
LEMMA PutSerial ==
  ASSUME Serial, SerialInv, [Next]_vars, Free,
         UNCHANGED <<phases, deleting>>, DOMAIN schedules \subseteq DOMAIN schedules'
  PROVE  SerialInv'
<1>1. Typed'
  BY NextTyped DEF SerialInv
<1>2. deleting = {}
  BY DEF Serial, Free
<1> QED BY <1>1, <1>2 DEF SerialInv, NoOrphans, AllValid, PhasesOf, Valid

LEMMA CreateSerial ==
  ASSUME Serial, SerialInv, [Next]_vars, NEW s \in Schedules, NEW o \in Ordinals,
         NEW type \in PhaseType, NEW temp \in Temperatures,
         CreatePhase(s, o, type, temp)
  PROVE  SerialInv'
<1> DEFINE new == [id |-> lastPhase + 1, schedule |-> s, ordinal |-> o,
                   phase_type |-> type, temperature |-> temp]
<1>1. Typed'
  BY NextTyped DEF SerialInv
<1>2. /\ deleting = {} /\ UNCHANGED <<schedules, deleting>>
      /\ phases' = phases \union {new} /\ s \in DOMAIN schedules
      /\ Valid(PhasesOf(s) \union {new})
  BY DEF CreatePhase, Serial, Free
<1>3. new.schedule = s
  OBVIOUS
<1> HIDE DEF new
<1>4. NoOrphans'
  BY <1>2, <1>3 DEF SerialInv, NoOrphans
<1>5. ASSUME NEW x \in Schedules PROVE Valid(PhasesOf(x)')
  <2>1. CASE x = s
    <3>1. PhasesOf(x)' = PhasesOf(s) \union {new}
      BY <1>2, <1>3, <2>1 DEF PhasesOf
    <3> QED BY <1>2, <3>1
  <2>2. CASE x # s
    <3>1. PhasesOf(x)' = PhasesOf(x)
      BY <1>2, <1>3, <2>2 DEF PhasesOf
    <3> QED BY <3>1 DEF SerialInv, AllValid
  <2> QED BY <2>1, <2>2
<1>6. AllValid'
  BY <1>5 DEF AllValid, Valid
<1> QED BY <1>1, <1>2, <1>4, <1>6 DEF SerialInv

(* The request that is being deleted has been validated just now.          *)
LEMMA DeleteSerial ==
  ASSUME Serial, SerialInv, [Next]_vars, NEW kind, NEW id, NEW ids,
         Delete(kind, id, ids), Deleting([kind |-> kind, id |-> id, phases |-> ids])
  PROVE  SerialInv'
<1> DEFINE r == [kind |-> kind, id |-> id, phases |-> ids]
<1>1. Typed'
  BY NextTyped DEF SerialInv
<1>2. deleting' = {r} /\ UNCHANGED <<schedules, devices, phases>>
  BY DEF Delete, Serial, Free
<1> HIDE DEF r
<1>3. Deleting(r)'
  BY <1>2 DEF Deleting, r, PhasesOf, Valid
<1>4. NoOrphans' /\ AllValid'
  BY <1>2 DEF SerialInv, NoOrphans, AllValid, PhasesOf, Valid
<1> QED BY <1>1, <1>2, <1>3, <1>4 DEF SerialInv

LEMMA CommitSerial ==
  ASSUME Serial, SerialInv, [Next]_vars, NEW r \in deleting, Commit(r)
  PROVE  SerialInv'
<1>1. Typed'
  BY NextTyped DEF SerialInv
<1>2. deleting' = {}
  BY DEF Commit, SerialInv
<1>3. \A p, q \in phases : p.id = q.id => p = q
  BY DEF SerialInv, Typed, TypeOK
<1>4. /\ phases' = {p \in phases : p.id \notin r.phases}
      /\ schedules' = IF r.kind = "schedule" THEN Remove(schedules, r.id) ELSE schedules
  BY DEF Commit
<1>5. Deleting(r)
  BY DEF SerialInv
<1>6. NoOrphans' /\ AllValid'
  <2>1. CASE r.kind \notin {"schedule", "phase"}
    <3>1. phases' = phases /\ schedules' = schedules
      BY <1>4, <1>5, <2>1 DEF Deleting
    <3> QED BY <3>1 DEF SerialInv, NoOrphans, AllValid, PhasesOf, Valid
  <2>2. CASE r.kind = "schedule"
    <3>1. phases' = {p \in phases : p.schedule # r.id}
      BY <1>3, <1>4, <1>5, <2>2 DEF Deleting, PhasesOf
    <3>2. DOMAIN schedules' = DOMAIN schedules \ {r.id}
      BY <1>4, <2>2 DEF Remove
    <3>3. NoOrphans'
      BY <3>1, <3>2 DEF SerialInv, NoOrphans
    <3>4. \A s \in Schedules : PhasesOf(s)' = IF s = r.id THEN {} ELSE PhasesOf(s)
      BY <3>1 DEF PhasesOf
    <3>5. Valid({})
      BY DEF Valid
    <3>6. \A s \in Schedules : Valid(PhasesOf(s)')
      BY <3>4, <3>5 DEF SerialInv, AllValid
    <3> QED BY <3>3, <3>6 DEF AllValid, Valid
  <2>3. CASE r.kind = "phase"
    <3>1. PICK p \in phases : r.phases = {p.id} /\ Valid(PhasesOf(p.schedule) \ {p})
      BY <1>5, <2>3 DEF Deleting
    <3>2. phases' = phases \ {p} /\ schedules' = schedules
      BY <1>3, <1>4, <2>3, <3>1
    <3>3. NoOrphans'
      BY <3>2 DEF SerialInv, NoOrphans
    <3>4. \A s \in Schedules :
            PhasesOf(s)' = IF s = p.schedule THEN PhasesOf(s) \ {p} ELSE PhasesOf(s)
      BY <3>2 DEF PhasesOf
    <3>5. \A s \in Schedules : Valid(PhasesOf(s)')
      BY <3>1, <3>4 DEF SerialInv, AllValid
    <3> QED BY <3>3, <3>5 DEF AllValid, Valid
  <2> QED BY <2>1, <2>2, <2>3
<1> QED BY <1>1, <1>2, <1>6 DEF SerialInv

LEMMA NextSerial ==
  ASSUME Serial
  PROVE  SerialInv /\ [Next]_vars => SerialInv'
<1> SUFFICES ASSUME SerialInv, [Next]_vars PROVE SerialInv'
  OBVIOUS
<1>1. ASSUME NEW u \in Users, PutUser(u)
      PROVE  SerialInv'
  BY <1>1, PutSerial DEF PutUser
<1>2. ASSUME NEW s \in Schedules, NEW u \in Users, PutSchedule(s, u)
      PROVE  SerialInv'
  BY <1>2, PutSerial DEF PutSchedule, With
<1>3. ASSUME NEW d \in Devices, NEW u \in Users, PutDevice(d, u)
      PROVE  SerialInv'
  BY <1>3, PutSerial DEF PutDevice
<1>4. ASSUME NEW s \in Schedules, NEW o \in Ordinals, NEW type \in PhaseType,
             NEW temp \in Temperatures, CreatePhase(s, o, type, temp)
      PROVE  SerialInv'
  BY <1>4, CreateSerial
<1>5. ASSUME NEW s \in Schedules, NEW o \in Ordinals, NEW type \in PhaseType,
             NEW temp \in Temperatures, NEW p \in phases, UpdatePhase(p, s, o, type, temp)
      PROVE  FALSE
  BY <1>5 DEF UpdatePhase, Serial
<1>6. ASSUME NEW u \in Users, DeleteUser(u)
      PROVE  SerialInv'
  <2>1. Deleting([kind |-> "user", id |-> u, phases |-> {}])
    BY <1>6 DEF DeleteUser, Deleting
  <2> QED BY <1>6, <2>1, DeleteSerial DEF DeleteUser
<1>7. ASSUME NEW s \in Schedules, DeleteSchedule(s)
      PROVE  SerialInv'
  <2>1. Deleting([kind |-> "schedule", id |-> s, phases |-> {p.id : p \in PhasesOf(s)}])
    BY DEF Deleting
  <2> QED BY <1>7, <2>1, DeleteSerial DEF DeleteSchedule
<1>8. ASSUME NEW d \in Devices, DeleteDevice(d)
      PROVE  SerialInv'
  <2>1. Deleting([kind |-> "device", id |-> d, phases |-> {}])
    BY DEF Deleting
  <2> QED BY <1>8, <2>1, DeleteSerial DEF DeleteDevice
<1>9. ASSUME NEW p \in phases, DeletePhase(p)
      PROVE  SerialInv'
  <2>1. Deleting([kind |-> "phase", id |-> p.id, phases |-> {p.id}])
    BY <1>9 DEF DeletePhase, Deleting
  <2> QED BY <1>9, <2>1, DeleteSerial DEF DeletePhase
<1>10. ASSUME NEW r \in deleting, Commit(r)
       PROVE  SerialInv'
  BY <1>10, CommitSerial
<1>11. CASE UNCHANGED vars
  <2>1. Typed'
    BY NextTyped DEF SerialInv
  <2> QED BY <1>11, <2>1
            DEF vars, SerialInv, NoOrphans, AllValid, Deleting, PhasesOf, Valid
<1> QED BY <1>1, <1>2, <1>3, <1>4, <1>5, <1>6, <1>7, <1>8, <1>9, <1>10, <1>11 DEF Next

LEMMA SerialInvariant == ASSUME Serial PROVE Spec => []SerialInv
<1> QED BY InitSerial, NextSerial, PTL DEF Spec

(* One request at a time and without PUTs of phases, every schedule is     *)
(* continuous at all times (README:37).                                    *)
THEOREM SchedulesStayValid == ASSUME Serial PROVE Spec => []ScheduleValid
<1>1. ASSUME SerialInv PROVE ScheduleValid
  <2> SUFFICES ASSUME NEW s \in DOMAIN schedules
               PROVE  Continuous(PhasesOf(s))
    BY DEF ScheduleValid
  <2>1. s \in Schedules /\ Valid(PhasesOf(s))
    BY <1>1 DEF SerialInv, Typed, TypeOK, AllValid
  <2>2. \A p \in PhasesOf(s) : p.ordinal \in Int /\ p.phase_type \in PhaseType
    BY <1>1, StoreAssumption DEF SerialInv, Typed, TypeOK, Phase, PhasesOf
  <2> HIDE DEF PhasesOf
  <2> QED BY <2>1, <2>2, ValidContinuous
<1>2. SerialInv => ScheduleValid
  BY <1>1
<1> QED BY <1>2, SerialInvariant, PTL

(* One request at a time, deleting a schedule leaves no phase behind.      *)
THEOREM NoPhaseIsOrphaned == ASSUME Serial PROVE Spec => []NoOrphans
<1>1. SerialInv => NoOrphans
  BY DEF SerialInv
<1> QED BY <1>1, SerialInvariant, PTL

(* One request at a time, a user that is deleted owns nothing then.        *)
THEOREM DeletedUsersOwnNothing == ASSUME Serial PROVE Spec => UserLeavesNothing
<1>1. ASSUME SerialInv, [Next]_vars
      PROVE  \A u \in users \ users' :
               /\ \A s \in DOMAIN schedules' : schedules'[s] # u
               /\ \A d \in DOMAIN devices' : devices'[d] # u
  <2> SUFFICES ASSUME NEW u \in users \ users'
               PROVE  /\ \A s \in DOMAIN schedules' : schedules'[s] # u
                      /\ \A d \in DOMAIN devices' : devices'[d] # u
    OBVIOUS
  <2>1. PICK r \in deleting : Commit(r)
    BY <1>1 DEF Next, vars, PutUser, PutSchedule, PutDevice, CreatePhase, UpdatePhase,
                DeleteUser, DeleteSchedule, DeleteDevice, DeletePhase, Delete
  <2>2. r.kind = "user" /\ r.id = u
    BY <2>1 DEF Commit
  <2>3. Deleting(r)
    BY <1>1 DEF SerialInv
  <2> QED BY <2>1, <2>2, <2>3 DEF Commit, Deleting
<1>2. SerialInv /\ [Next]_vars =>
        [\A u \in users \ users' :
           /\ \A s \in DOMAIN schedules' : schedules'[s] # u
           /\ \A d \in DOMAIN devices' : devices'[d] # u]_vars
  BY <1>1
<1> QED BY <1>2, SerialInvariant, NextSerial, PTL DEF Spec, UserLeavesNothing

(* One request at a time, a schedule can always be taken apart from its    *)
(* end.                                                                    *)
THEOREM SchedulesComeApart == ASSUME Serial PROVE Spec => []Dismantlable
<1>1. ASSUME NEW ps, Valid(ps), NEW p \in ps, \A q \in ps : q.ordinal <= p.ordinal
      PROVE  Valid(ps \ {p})
  <2>1. \A q \in ps \ {p} : First(ps \ {p}, q) => First(ps, q)
    BY <1>1 DEF First
  <2>2. \A q, r \in ps \ {p} : Consecutive(ps \ {p}, q, r) => Consecutive(ps, q, r)
    <3> SUFFICES ASSUME NEW q \in ps \ {p}, NEW r \in ps \ {p}, Consecutive(ps \ {p}, q, r),
                        NEW x \in ps
                 PROVE  x.ordinal <= q.ordinal \/ x.ordinal >= r.ordinal
      BY DEF Consecutive
    <3>1. CASE x = p
      BY <1>1, <3>1
    <3>2. CASE x # p
      BY <3>2 DEF Consecutive
    <3> QED BY <3>1, <3>2
  <2> QED BY <1>1, <2>1, <2>2 DEF Valid
<1>2. SerialInv => Dismantlable
  <2> SUFFICES ASSUME SerialInv, NEW p \in phases,
                      \A q \in PhasesOf(p.schedule) : q.ordinal <= p.ordinal
               PROVE  Valid(PhasesOf(p.schedule) \ {p})
    BY DEF Dismantlable
  <2>1. p \in PhasesOf(p.schedule) /\ p.schedule \in Schedules
    BY DEF SerialInv, Typed, TypeOK, Phase, PhasesOf
  <2>2. Valid(PhasesOf(p.schedule))
    BY <2>1 DEF SerialInv, AllValid
  <2> HIDE DEF PhasesOf
  <2> QED BY <2>1, <2>2, <1>1
<1> QED BY <1>2, SerialInvariant, PTL
=============================================================================
