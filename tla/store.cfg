\* One request at a time, and no client PUTs a phase.
SPECIFICATION Spec
CONSTANTS
  Users = {u1, u2}
  Schedules = {s1, s2}
  Devices = {d1}
  Ordinals = {1, 2, 3}
  Temperatures = {ambient, hot}
  ambient = ambient
  hot = hot
  u1 = u1
  u2 = u2
  s1 = s1
  s2 = s2
  d1 = d1
  MaxPhase = 4
  MaxDeleting = 1
  PhasePuts = FALSE
  Overlap = FALSE
SYMMETRY Symmetry
INVARIANTS ScheduleValid NoOrphans Dismantlable
