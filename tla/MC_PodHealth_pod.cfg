\* A service or an ad hoc pod; the application's container may appear late.
CONSTANTS
  infra = infra
  web = web
  Containers = {infra, web}
  Checked = {infra, web}
  Infra = infra
  Late = {web}
SPECIFICATION FairSpec
INVARIANTS
  TypeOK
  VerdictIsSound
  FailedHasCause
  RemovedHasExited
  StepsTellVerdict
PROPERTIES
  HealthCheckEnds
  FailureIsNoticed
  CompletionIsNoticed
