\* pod.go:897 and plugin/type.go:42 against the order of stop and report.
CONSTANTS
  k1 = k1
  Kills = {k1}
  SerialCallbacks = TRUE
  IsService = FALSE
SPECIFICATION Spec
INVARIANT StopFollowsReport
