\* docs/how-to-develop.md:36 against the deferred driver.Stop of KillTask.
CONSTANTS
  k1 = k1
  Kills = {k1}
  SerialCallbacks = TRUE
  IsService = TRUE
SPECIFICATION Spec
INVARIANT KillOfFailedIsNoOp
