\* Hooks for every status; a KillTask and a Shutdown beside the report.
CONSTANTS
  Reporters = {"report", "kill"}
  Points <- MCPoints
  Extensions <- MCExtensions
  Builds <- MCBuilds
  HooksFor <- MCHooksFor
  Order <- MCOrder
SPECIFICATION Spec
INVARIANTS
  TypeOK
  StoppedAfterHooks
  
  OutcomeStopsDriver
