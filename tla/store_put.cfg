\* A client PUTs a phase.
SPECIFICATION Spec
CONSTANTS
  Users = {u1}
  Schedules = {s1}
  Devices = {d1}
  Ordinals = {1, 2}
  Temperatures = {ambient, hot}
  ambient = ambient
  hot = hot
  u1 = u1
  s1 = s1
  d1 = d1
  MaxPhase = 2
  MaxDeleting = 1
  PhasePuts = TRUE
  Overlap = FALSE
INVARIANTS ScheduleValid
