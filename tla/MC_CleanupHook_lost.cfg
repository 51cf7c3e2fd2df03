\* All configurations of the cleanup, the executor lost anywhere in it.
SPECIFICATION HookSpec
INVARIANTS
  HookTypeOK
  KilledIsCleaned
  FailedLosesNetwork
  LeftoversStopped
