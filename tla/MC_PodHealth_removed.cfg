\* A pod without health checks.
CONSTANTS
  infra = infra
  job = job
  Containers = {infra, job}
  Checked = {}
  Infra = infra
  Late = {}
SPECIFICATION Spec
INVARIANTS
  RemovedExitedWithZero
