--------------------------- MODULE MC_StatusReport ---------------------------
(* StatusReport for TLC.  One executor has every plugin it is configured   *)
(* with; in the other, two hooks compete for a name, and a hook and the    *)
(* plugin that the order names are missing.                                *)
EXTENDS StatusReport

Ext(point, name, type) == [point |-> point, name |-> name, type |-> type]
Alerter == Ext("PodStatusHook", "a", "alerter")
Auditor == Ext("PodStatusHook", "a", "auditor")
ByType == Ext("PodStatusHook", "", "b")
General == Ext("ComposePlugin", "general", "generalExt")
Default == Ext("Monitor", "default", "monitor")

MCPoints == {"PodStatusHook", "ComposePlugin", "Monitor"}
MCExtensions == {Alerter, Auditor, ByType, General, Default}
MCBuilds == {{Alerter, ByType, General, Default}, {Alerter, Auditor}}
MCHooksFor == [s \in {"RUNNING", "FAILED", "FINISHED"} |->
                 CASE s = "RUNNING" -> <<"b">> [] s = "FAILED" -> <<"b", "a">> [] OTHER -> <<"a">>]
MCOrder == <<"general">>
=============================================================================
