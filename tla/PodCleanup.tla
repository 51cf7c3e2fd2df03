----------------------------- MODULE PodCleanup -----------------------------
(***************************************************************************)
(* How a pod that was up is taken down: KillTask and a report of the       *)
(* monitor (SendPodStatus) may both stop it, and each then runs the        *)
(* PostKillTask of the general plugin (pluginimpl/general/impl.go:170-228),*)
(* which reads the pod status again to decide what to remove with          *)
(* docker-compose and docker.                                              *)
(*                                                                         *)
(* LaunchCmdAttempted is TRUE throughout: KillTask stops only running pods *)
(* and SendPodStatus only attempted ones.                                  *)
(***************************************************************************)
Threads == {"kill", "report"}

VARIABLES config,    \* what cleanpod.* and the network configuration say
          podStatus, \* CurPodStatus.Status
          pc,        \* where each thread is
          verdict,   \* what the report thread reports
          listed,    \* MonitorContainerList is not empty
          pod,       \* what docker has of the pod
          faults     \* history: docker commands that failed

vars == <<config, podStatus, pc, verdict, listed, pod, faults>>

(* cleanpod.cleanfailtask, .cleanvolumeandcontaineronmesoskill and         *)
(* .cleanimageonmesoskill; a network that was there before the pod; no     *)
(* infra container, because the pod uses the host's network.               *)
Configs == [failTask : BOOLEAN, volume : BOOLEAN, image : BOOLEAN,
            preExist : BOOLEAN, hostMode : BOOLEAN]

Commands == {"stop", "volume", "image", "lookup", "inspect", "network"}

TypeOK ==
  /\ config \in Configs
  /\ podStatus \in {"RUNNING", "KILLED", "FAILED", "FINISHED"}
  /\ pc \in [Threads -> {"idle", "set", "stop", "decide", "volume", "image",
                         "network", "done"}]
  /\ verdict \in {"FAILED", "FINISHED"} /\ listed \in BOOLEAN
  /\ pod \in [containers : {"up", "down", "gone"}, volumes : BOOLEAN,
              images : BOOLEAN, network : BOOLEAN]
  /\ faults \subseteq Commands

Init ==
  /\ config \in Configs
  /\ podStatus = "RUNNING"
  /\ pc = [t \in Threads |-> "idle"]
  /\ \/ verdict \in {"FAILED", "FINISHED"} /\ listed = TRUE
     \/ verdict = "FINISHED" /\ listed = FALSE
  /\ pod = [containers |-> IF listed THEN "up" ELSE "down",
            volumes |-> TRUE, images |-> TRUE, network |-> TRUE]
  /\ faults = {}

Goto(t, label) == pc' = [pc EXCEPT ![t] = label]

(* A docker command: it does what effect says, or fails and does nothing.  *)
Run(command, effect) ==
  \/ pod' = effect /\ UNCHANGED faults
  \/ faults' = faults \cup {command} /\ UNCHANGED pod

-----------------------------------------------------------------------------
(* KillTask and SendPodStatus up to StopPod: both look at the status first *)
(* and set it in a later step.                                             *)

Begin(t) == /\ pc[t] = "idle" /\ podStatus = "RUNNING"
            /\ Goto(t, "set")
            /\ UNCHANGED <<config, podStatus, verdict, listed, pod, faults>>

StatusOf_Empty(t) == IF t = "kill" THEN "KILLED" ELSE "EMPTY"   \* a bug: no verdict yet

StatusOf(t) == IF t = "kill" THEN "KILLED" ELSE verdict

SetStatus(t) ==
  /\ pc[t] = "set"
  /\ podStatus' = StatusOf(t)
  /\ Goto(t, IF StatusOf(t) = "FINISHED" /\ ~listed THEN "decide" ELSE "stop")
  /\ UNCHANGED <<config, verdict, listed, pod, faults>>

Stopped == [pod EXCEPT !.containers = IF @ = "up" THEN "down" ELSE @]

(* docker-compose stop, else ForceKill of what is on the list; after an    *)
(* error there is no PostKillTask.                                         *)
StopPod(t) ==
  /\ pc[t] = "stop"
  /\ \/ /\ pod' = Stopped
        /\ Goto(t, "decide")
        /\ UNCHANGED faults
     \/ /\ faults' = faults \cup {"stop"}
        /\ Goto(t, IF listed THEN "done" ELSE "decide")
        /\ UNCHANGED pod
  /\ UNCHANGED <<config, podStatus, verdict, listed>>

-----------------------------------------------------------------------------
(* PostKillTask *)

CleansUp_FailTask == config.failTask           \* a bug: the killed forgotten

CleansUp == podStatus # "FAILED" \/ config.failTask

Decide(t) ==
  /\ pc[t] = "decide"
  /\ Goto(t, IF CleansUp THEN "volume" ELSE "network")
  /\ UNCHANGED <<config, podStatus, verdict, listed, pod, faults>>

(* docker-compose down, which leaves an external network alone.            *)
Down == [pod EXCEPT !.containers = "gone", !.network = @ /\ config.preExist]

RemovePodVolume(t) ==
  /\ pc[t] = "volume"
  /\ IF config.volume THEN Run("volume", [Down EXCEPT !.volumes = FALSE])
                      ELSE UNCHANGED <<pod, faults>>
  /\ Goto(t, "image")
  /\ UNCHANGED <<config, podStatus, verdict, listed>>

RemovePodImage(t) ==
  /\ pc[t] = "image"
  /\ IF config.image THEN Run("image", [Down EXCEPT !.images = FALSE])
                     ELSE UNCHANGED <<pod, faults>>
  /\ Goto(t, "done")
  /\ UNCHANGED <<config, podStatus, verdict, listed>>

(* A bug: the name of the network is asked of running containers only.     *)
KeepsNetwork_WhenDown == config.preExist \/ config.hostMode \/ pod.containers = "down"

KeepsNetwork == config.preExist \/ config.hostMode

(* The network of a failed pod goes by the name its infra container has:   *)
(* an infra container already gone has none, and nothing is removed.       *)
(* Docker does not remove a network in use.                                *)
RemoveNetwork(t) ==
  /\ pc[t] = "network"
  /\ \/ /\ KeepsNetwork \/ pod.containers # "down" \/ ~pod.network
        /\ UNCHANGED <<pod, faults>>
     \/ /\ ~KeepsNetwork
        /\ \E command \in {"lookup", "inspect"} : faults' = faults \cup {command}
        /\ UNCHANGED pod
     \/ /\ ~KeepsNetwork /\ pod.containers = "down" /\ pod.network
        /\ Run("network", [pod EXCEPT !.network = FALSE])
  /\ Goto(t, "done")
  /\ UNCHANGED <<config, podStatus, verdict, listed>>

PostKillTask(t) == Decide(t) \/ RemovePodVolume(t) \/ RemovePodImage(t) \/ RemoveNetwork(t)

Finished == (\A t \in Threads : pc[t] \in {"idle", "done"}) /\ podStatus # "RUNNING"
Done == Finished /\ UNCHANGED vars

Next == Done \/ \E t \in Threads :
                  Begin(t) \/ SetStatus(t) \/ StopPod(t) \/ PostKillTask(t)

Spec == Init /\ [][Next]_vars

-----------------------------------------------------------------------------
(* Properties                                                              *)

(* A pod that ends up killed has lost its containers and volumes if the    *)
(* configuration says so, even when a report was under way beside the      *)
(* kill, each thread reading the status the other may have set.            *)
KilledIsCleaned ==
  Finished /\ podStatus = "KILLED" /\ faults = {} /\ config.volume =>
    ~pod.volumes /\ pod.containers = "gone"

(* The pod's own network does not outlive a pod that ends up failed,       *)
(* whichever of the two cleanups removes it and how.                       *)
FailedLosesNetwork ==
  /\ Finished /\ podStatus = "FAILED" /\ faults = {}
  /\ ~config.preExist /\ ~config.hostMode
  /\ config.failTask => config.volume \/ config.image
  => ~pod.network

-----------------------------------------------------------------------------
(* The inductive invariant behind them.  docker-compose down takes the     *)
(* pod's own network with the containers;                                  *)
DownTakesNetwork == pod.containers = "gone" /\ ~config.preExist => ~pod.network

(* a status KILLED that still stands is the one the kill's own cleanup     *)
(* read, for only the kill sets it, and once;                              *)
KillCleans ==
  podStatus = "KILLED" =>
    /\ pc["kill"] \in {"stop", "decide", "volume", "image", "done"}
    /\ pc["kill"] \in {"image", "done"} /\ faults = {} /\ config.volume =>
         ~pod.volumes /\ pod.containers = "gone"

(* and so is a status FAILED for the report's cleanup, which finds the     *)
(* containers stopped and takes the way cleanfailtask says.                *)
FailureCleans ==
  podStatus = "FAILED" =>
    /\ pc["report"] \in {"stop", "decide", "volume", "image", "network", "done"}
    /\ pc["report"] \in {"volume", "image"} => config.failTask
    /\ pc["report"] = "network" => ~config.failTask
    /\ faults = {} /\ pc["report"] \in {"decide", "volume", "image", "network"} =>
         pod.containers # "up"
    /\ faults = {} /\ ~config.preExist =>
         /\ pc["report"] = "image" /\ config.volume => ~pod.network
         /\ /\ pc["report"] = "done" /\ ~config.hostMode
            /\ config.failTask => config.volume \/ config.image
            => ~pod.network

CleanupInv == TypeOK /\ DownTakesNetwork /\ KillCleans /\ FailureCleans
=============================================================================
