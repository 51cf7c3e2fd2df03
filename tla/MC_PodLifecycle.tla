--------------------------- MODULE MC_PodLifecycle ---------------------------
(* Instances of PodLifecycle for TLC.                                      *)
EXTENDS PodLifecycleProperties

(* The state without `launched` and the history variables cleaned, faults  *)
(* and raced: no guard reads them, and of the properties of the serial run *)
(* only TypeOK mentions them, so that what is left behaves the same.       *)
Unrecorded == <<podStatus, attempted, monitored, res, ctx, threadVars, ch, driver, exited,
                pod, sent, task, shut>>
=============================================================================
