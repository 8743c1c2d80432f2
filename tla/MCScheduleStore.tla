-------------------------- MODULE MCScheduleStore --------------------------
(* Instances of ScheduleStore for TLC.  Users, schedules and devices are   *)
(* interchangeable; so are the temperatures, which are only compared.      *)
EXTENDS ScheduleStore, TLC

Symmetry ==
  Permutations(Users) \union Permutations(Schedules)
    \union Permutations(Devices) \union Permutations(Temperatures)
=============================================================================
