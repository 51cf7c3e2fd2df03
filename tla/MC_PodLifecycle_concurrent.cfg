\* KillTask may run beside LaunchTask; an ad hoc job.
CONSTANTS
  k1 = k1
  Kills = {k1}
  SerialCallbacks = FALSE
  IsService = FALSE
SPECIFICATION Spec
INVARIANTS
  SingleOutcome
  ConcludedPodIsDown
PROPERTIES
  ImplementsLifecycle
