\* One callback at a time, as the Mesos driver makes them; an ad hoc job.
CONSTANTS
  k1 = k1
  Kills = {k1}
  SerialCallbacks = TRUE
  IsService = FALSE
SPECIFICATION FairSpec
VIEW Unrecorded
INVARIANTS
  TypeOK
  StopIsExplained
  RunningInOrder
PROPERTIES
  LaunchResolves
  DeadlineConcludes
  ExecutorLeaves
