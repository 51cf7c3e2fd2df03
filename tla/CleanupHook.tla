----------------------------- MODULE CleanupHook -----------------------------
(***************************************************************************)
(* The teardown of PodCleanup with an executor that may be gone at any     *)
(* point of it, and the hook in the Mesos agent (mesos-modules/hook/       *)
(* compose_pod_cleanup_hook.cpp) that runs when the agent removes an       *)
(* executor: it lists the containers labelled with the executor's id,      *)
(* stops them, deletes the cgroup they name, and keeps them.               *)
(***************************************************************************)
EXTENDS PodCleanup

VARIABLES executor, \* "running" or "gone"
          orphans,  \* docker-compose commands that outlive the executor
          hook,     \* what the hook does next
          cgroup,   \* the pod's cgroup exists
          mute      \* history: commands of the hook that failed

agent == <<hook, cgroup, mute>>
allVars == <<vars, executor, orphans, agent>>

HookTypeOK ==
  /\ TypeOK
  /\ executor \in {"running", "gone"} /\ orphans \subseteq Threads
  /\ hook \in {"list", "stop", "cgroup", "done"}
  /\ cgroup \in BOOLEAN /\ mute \subseteq {"ps", "stop", "inspect", "lscgroup", "cgdelete"}
  /\ hook # "list" => executor = "gone"

HookInit == /\ Init
            /\ executor = "running" /\ orphans = {}
            /\ hook = "list" /\ cgroup = TRUE /\ mute = {}

Teardown == /\ executor = "running"
            /\ Next
            /\ UNCHANGED <<executor, orphans, agent>>

(* The executor exits, crashes or is killed.  docker-compose commands are  *)
(* processes of their own and may go on without it.                        *)
ExecutorEnds ==
  /\ executor = "running"
  /\ executor' = "gone"
  /\ orphans' \in SUBSET {t \in Threads : pc[t] \in {"stop", "volume", "image"}}
  /\ UNCHANGED <<vars, agent>>

OrphanEnds ==
  /\ \E t \in orphans : /\ StopPod(t) \/ RemovePodVolume(t) \/ RemovePodImage(t)
                        /\ orphans' = orphans \ {t}
  /\ UNCHANGED <<executor, agent>>

-----------------------------------------------------------------------------
(* slaveRemoveExecutorHook                                                 *)

After_CgroupFirst == [list |-> "cgroup", cgroup |-> "stop", stop |-> "done"]  \* a bug

After == [list |-> "stop", stop |-> "cgroup", cgroup |-> "done"]

(* docker ps -a: what it prints when it fails is taken for container ids.  *)
ListContainers ==
  /\ hook = "list" /\ executor = "gone"
  /\ \/ hook' = (IF pod.containers = "gone" THEN "done" ELSE After["list"]) /\ UNCHANGED mute
     \/ hook' = "done" /\ mute' = mute \cup {"ps"}
  /\ UNCHANGED <<pod, cgroup>>

StopContainers ==
  /\ hook = "stop"
  /\ hook' = After["stop"]
  /\ \/ pod' = Stopped /\ UNCHANGED mute
     \/ mute' = mute \cup {"stop"} /\ UNCHANGED pod
  /\ UNCHANGED cgroup

(* docker inspect names the cgroup of the containers, lscgroup lists what  *)
(* is below it, and cgdelete does not delete a group in use.  A command    *)
(* that fails is only logged: nothing is deleted.                          *)
DeleteCgroup ==
  /\ hook = "cgroup"
  /\ hook' = After["cgroup"]
  /\ \/ cgroup' = (cgroup /\ pod.containers # "down") /\ UNCHANGED mute
     \/ /\ \E command \in {"inspect", "lscgroup", "cgdelete"} : mute' = mute \cup {command}
        /\ UNCHANGED cgroup
  /\ UNCHANGED pod

RemoveExecutor ==
  /\ ListContainers \/ StopContainers \/ DeleteCgroup
  /\ UNCHANGED <<config, podStatus, pc, verdict, listed, faults, executor, orphans>>

HookDone == hook = "done" /\ UNCHANGED allVars

HookNext == Teardown \/ ExecutorEnds \/ OrphanEnds \/ RemoveExecutor \/ HookDone

HookSpec == HookInit /\ [][HookNext]_allVars

-----------------------------------------------------------------------------
(* Properties                                                              *)

(* Wherever in the teardown the executor was lost, and whatever docker-    *)
(* compose commands it left running, once the agent's hook is done no      *)
(* container of the pod is up unless its docker ps or docker stop failed,  *)
(* and the cgroup of containers that are kept is deleted unless one of its *)
(* commands failed, docker inspect, lscgroup and cgdelete included         *)
(* (compose_pod_cleanup_hook.cpp:43-80, 98-106).                           *)
LeftoversStopped ==
  hook = "done" =>
    /\ mute \cap {"ps", "stop"} = {} => pod.containers # "up"
    /\ mute = {} /\ pod.containers = "down" => ~cgroup

-----------------------------------------------------------------------------
(* The inductive invariant: whatever an orphan still does, it starts no    *)
(* container, and after the hook's stop those that are kept are down.      *)
HookStops ==
  /\ hook \in {"cgroup", "done"} /\ mute \cap {"ps", "stop"} = {} => pod.containers # "up"
  /\ hook = "done" /\ mute = {} /\ pod.containers = "down" => ~cgroup

HookInv == HookTypeOK /\ CleanupInv /\ HookStops
=============================================================================
