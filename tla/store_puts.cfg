\* One request at a time; clients PUT phases.
SPECIFICATION Spec
CONSTANTS
  Users = {u1, u2}
  Schedules = {s1, s2}
  Devices = {d1}
  Ordinals = {1, 2}
  Temperatures = {ambient, hot}
  ambient = ambient
  hot = hot
  u1 = u1
  u2 = u2
  s1 = s1
  s2 = s2
  d1 = d1
  MaxPhase = 2
  MaxDeleting = 1
  PhasePuts = TRUE
  Overlap = FALSE
SYMMETRY Symmetry
INVARIANTS TypeOK
PROPERTIES CreatedValid UserLeavesNothing
