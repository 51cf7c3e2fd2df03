-------------------------- MODULE CleanupHook_proofs --------------------------
(***************************************************************************)
(* Proofs about PodCleanup and CleanupHook: what is left of a pod however  *)
(* a kill, a report, docker commands that fail, the loss of the executor   *)
(* and the agent's hook interleave.                                        *)
(***************************************************************************)
EXTENDS CleanupHook, TLAPS

Pods == [containers : {"up", "down", "gone"}, volumes : BOOLEAN,
         images : BOOLEAN, network : BOOLEAN]

(* docker-compose stop, by whoever runs it, only takes containers down     *)
(* (pod.go:402-459, compose_pod_cleanup_hook.cpp:58-59).                   *)
LEMMA StoppedFacts ==
  ASSUME TypeOK
  PROVE  /\ Stopped \in Pods /\ Stopped.containers # "up"
         /\ Stopped.containers = "gone" <=> pod.containers = "gone"
         /\ Stopped.volumes = pod.volumes /\ Stopped.network = pod.network
<1>1. pod \in Pods
  BY DEF TypeOK, Pods
<1>2. /\ Stopped.containers = (IF pod.containers = "up" THEN "down" ELSE pod.containers)
      /\ Stopped.volumes = pod.volumes /\ Stopped.network = pod.network
  BY <1>1 DEF Stopped, Pods
<1>3. Stopped \in Pods
  BY <1>1 DEF Stopped, Pods
<1> QED
  BY <1>1, <1>2, <1>3 DEF Pods

(* docker-compose down takes the containers and the pod's own network      *)
(* (pod.go:479-529).                                                       *)
LEMMA DownFacts ==
  ASSUME TypeOK
  PROVE  /\ Down \in Pods /\ Down.containers = "gone" /\ Down.volumes = pod.volumes
         /\ Down.network => pod.network /\ config.preExist
         /\ [Down EXCEPT !.volumes = FALSE] \in Pods
         /\ [Down EXCEPT !.volumes = FALSE].containers = "gone"
         /\ [Down EXCEPT !.volumes = FALSE].volumes = FALSE
         /\ [Down EXCEPT !.volumes = FALSE].network = Down.network
         /\ [Down EXCEPT !.images = FALSE] \in Pods
         /\ [Down EXCEPT !.images = FALSE].containers = "gone"
         /\ [Down EXCEPT !.images = FALSE].volumes = pod.volumes
         /\ [Down EXCEPT !.images = FALSE].network = Down.network
<1>1. pod \in Pods /\ config.preExist \in BOOLEAN
  BY DEF TypeOK, Pods, Configs
<1>2. /\ Down \in Pods /\ Down.containers = "gone" /\ Down.volumes = pod.volumes
      /\ Down.network = (pod.network /\ config.preExist)
  BY <1>1 DEF Down, Pods
<1>3. /\ [Down EXCEPT !.volumes = FALSE] \in Pods
      /\ [Down EXCEPT !.volumes = FALSE].containers = Down.containers
      /\ [Down EXCEPT !.volumes = FALSE].volumes = FALSE
      /\ [Down EXCEPT !.volumes = FALSE].network = Down.network
  BY <1>2 DEF Pods
<1>4. /\ [Down EXCEPT !.images = FALSE] \in Pods
      /\ [Down EXCEPT !.images = FALSE].containers = Down.containers
      /\ [Down EXCEPT !.images = FALSE].volumes = Down.volumes
      /\ [Down EXCEPT !.images = FALSE].network = Down.network
  BY <1>2 DEF Pods
<1> QED
  BY <1>1, <1>2, <1>3, <1>4

-----------------------------------------------------------------------------
(* What every step does to the pod: nothing comes back, and the pod's own  *)
(* network goes with the containers at the latest.                         *)
Shrinks ==
  /\ pod' \in Pods /\ faults' \subseteq Commands /\ faults \subseteq faults'
  /\ pod.containers = "gone" => pod'.containers = "gone"
  /\ pod.containers # "up" => pod'.containers # "up"
  /\ pod'.volumes => pod.volumes
  /\ pod'.network => pod.network
  /\ pod'.containers = "gone" /\ ~config.preExist => ~pod'.network

(* A step that leaves the pod alone, or stops it, is one of them           *)
(* (pod.go:402-459).                                                       *)
LEMMA StopShrinks ==
  ASSUME CleanupInv, pod' \in {pod, Stopped},
         NEW command \in Commands, faults' \in {faults, faults \cup {command}}
  PROVE  Shrinks
<1>1. pod \in Pods /\ faults \subseteq Commands /\ TypeOK
  BY DEF CleanupInv, TypeOK, Pods
<1>2. pod.containers = "gone" /\ ~config.preExist => ~pod.network
  BY DEF CleanupInv, DownTakesNetwork
<1>3. CASE pod' = pod
  BY <1>1, <1>2, <1>3 DEF Shrinks
<1>4. CASE pod' = Stopped
  BY <1>1, <1>2, <1>4, StoppedFacts DEF Shrinks
<1> QED
  BY <1>3, <1>4

(* And so is one that removes volumes or images (pod.go:479-529).          *)
LEMMA DownShrinks ==
  ASSUME CleanupInv,
         pod' \in {[Down EXCEPT !.volumes = FALSE], [Down EXCEPT !.images = FALSE]},
         faults' = faults
  PROVE  Shrinks
<1>1. pod \in Pods /\ faults \subseteq Commands /\ TypeOK
  BY DEF CleanupInv, TypeOK, Pods
<1>2. Down.network => pod.network /\ config.preExist
  BY <1>1, DownFacts
<1>3. CASE pod' = [Down EXCEPT !.volumes = FALSE]
  <2>1. /\ pod' \in Pods /\ pod'.containers = "gone" /\ pod'.volumes = FALSE
        /\ pod'.network = Down.network
    BY <1>1, <1>3, DownFacts
  <2> QED
    BY <1>1, <1>2, <2>1 DEF Shrinks
<1>4. CASE pod' = [Down EXCEPT !.images = FALSE]
  <2>1. /\ pod' \in Pods /\ pod'.containers = "gone" /\ pod'.volumes = pod.volumes
        /\ pod'.network = Down.network
    BY <1>1, <1>4, DownFacts
  <2> QED
    BY <1>1, <1>2, <2>1 DEF Shrinks
<1> QED
  BY <1>3, <1>4

-----------------------------------------------------------------------------
(* CleanupInv is inductive.                                                *)

(* It holds of a pod that was just up.                                     *)
LEMMA CleanupInit == Init => CleanupInv
<1> SUFFICES ASSUME Init PROVE CleanupInv
  OBVIOUS
<1>1. pod \in Pods /\ pod.containers \in {"up", "down"}
  BY DEF Init, Pods
<1>2. pc \in [Threads -> {"idle", "set", "stop", "decide", "volume", "image", "network", "done"}]
  BY DEF Init
<1>3. TypeOK
  BY <1>1, <1>2 DEF Init, TypeOK, Pods
<1>4. DownTakesNetwork /\ KillCleans /\ FailureCleans
  BY <1>1 DEF Init, DownTakesNetwork, KillCleans, FailureCleans
<1> QED
  BY <1>3, <1>4 DEF CleanupInv

(* Any step that shrinks the pod and moves one thread keeps the types.     *)
LEMMA TypeKept ==
  ASSUME CleanupInv, Shrinks, NEW t \in Threads,
         NEW label \in {"idle", "set", "stop", "decide", "volume", "image", "network", "done"},
         Goto(t, label), UNCHANGED <<config, podStatus, verdict, listed>>
  PROVE  /\ TypeOK' /\ DownTakesNetwork'
         /\ pc'[t] = label /\ \A u \in Threads : u # t => pc'[u] = pc[u]
<1>1. pc \in [Threads -> {"idle", "set", "stop", "decide", "volume", "image", "network", "done"}]
  BY DEF CleanupInv, TypeOK
<1>2. /\ pc' \in [Threads -> {"idle", "set", "stop", "decide", "volume", "image", "network", "done"}]
      /\ pc'[t] = label /\ \A u \in Threads : u # t => pc'[u] = pc[u]
  BY <1>1 DEF Goto
<1>3. TypeOK'
  BY <1>2 DEF CleanupInv, TypeOK, Shrinks, Pods
<1>4. DownTakesNetwork'
  BY DEF Shrinks, DownTakesNetwork
<1> QED
  BY <1>2, <1>3, <1>4

(* Begin keeps it: the status is still RUNNING (pod.go:883-888).           *)
LEMMA BeginKeeps ==
  ASSUME CleanupInv, NEW t \in Threads, Begin(t)
  PROVE  CleanupInv'
<1>1. Shrinks
  BY StopShrinks DEF Begin, Commands
<1>2. TypeOK' /\ DownTakesNetwork'
  BY <1>1, TypeKept DEF Begin
<1>3. KillCleans' /\ FailureCleans'
  BY DEF Begin, KillCleans, FailureCleans
<1> QED
  BY <1>2, <1>3 DEF CleanupInv

(* SetStatus keeps it: whoever sets the status is about to stop the pod,   *)
(* and what the other's cleanup did no longer counts (pod.go:890-911).     *)
LEMMA SetStatusKeeps ==
  ASSUME CleanupInv, NEW t \in Threads, SetStatus(t)
  PROVE  CleanupInv'
<1>0. TypeOK /\ UNCHANGED <<config, verdict, listed, pod, faults>> /\ podStatus' = StatusOf(t)
      /\ Goto(t, IF StatusOf(t) = "FINISHED" /\ ~listed THEN "decide" ELSE "stop")
  BY DEF CleanupInv, SetStatus
<1>1. /\ StatusOf(t) \in {"KILLED", "FAILED", "FINISHED"}
      /\ StatusOf(t) = "KILLED" => t = "kill"
      /\ StatusOf(t) = "FAILED" => t = "report"
  BY <1>0 DEF StatusOf, TypeOK, Threads
<1>2. pc \in [Threads -> {"idle", "set", "stop", "decide", "volume", "image", "network", "done"}]
  BY <1>0 DEF TypeOK
<1>3. /\ pc' \in [Threads -> {"idle", "set", "stop", "decide", "volume", "image", "network", "done"}]
      /\ StatusOf(t) # "FINISHED" => pc'[t] = "stop"
  BY <1>0, <1>2 DEF Goto
<1>4. TypeOK'
  BY <1>0, <1>1, <1>3 DEF TypeOK
<1>5. DownTakesNetwork'
  BY <1>0 DEF CleanupInv, DownTakesNetwork
<1>6. KillCleans'
  BY <1>0, <1>1, <1>3 DEF KillCleans
<1>7. FailureCleans'
  BY <1>0, <1>1, <1>3 DEF FailureCleans
<1> QED
  BY <1>4, <1>5, <1>6, <1>7 DEF CleanupInv

(* StopPod keeps it: a stop that did not fail leaves nothing up            *)
(* (pod.go:402-459).                                                       *)
LEMMA StopPodKeeps ==
  ASSUME CleanupInv, NEW t \in Threads, StopPod(t)
  PROVE  CleanupInv' /\ Shrinks
<1>0. TypeOK /\ pc[t] = "stop" /\ UNCHANGED <<config, podStatus, verdict, listed>>
  BY DEF CleanupInv, StopPod
<1>1. PICK label \in {"decide", "done"} :
        /\ Goto(t, label)
        /\ \/ pod' = Stopped /\ faults' = faults /\ label = "decide"
           \/ pod' = pod /\ faults' = faults \cup {"stop"}
  BY DEF StopPod
<1>2. Shrinks
  BY <1>1, StopShrinks DEF Commands
<1>3. /\ TypeOK' /\ DownTakesNetwork'
      /\ pc'[t] = label /\ \A u \in Threads : u # t => pc'[u] = pc[u]
  BY <1>0, <1>1, <1>2, TypeKept
<1>4. faults' = {} => faults = {} /\ label = "decide" /\ pod'.containers # "up"
  BY <1>0, <1>1, StoppedFacts
<1>5. KillCleans'
  BY <1>0, <1>2, <1>3, <1>4 DEF CleanupInv, KillCleans, Shrinks, Threads
<1>6. FailureCleans'
  BY <1>0, <1>2, <1>3, <1>4 DEF CleanupInv, FailureCleans, Shrinks, Threads
<1> QED
  BY <1>2, <1>3, <1>5, <1>6 DEF CleanupInv

(* Decide keeps it: it reads the status that stands (impl.go:173-181).     *)
LEMMA DecideKeeps ==
  ASSUME CleanupInv, NEW t \in Threads, Decide(t)
  PROVE  CleanupInv'
<1>0. TypeOK /\ pc[t] = "decide" /\ UNCHANGED <<config, podStatus, verdict, listed, pod, faults>>
  BY DEF CleanupInv, Decide
<1>1. PICK label \in {"volume", "network"} :
        Goto(t, label) /\ (label = "volume" <=> CleansUp)
  BY DEF Decide
<1>2. Shrinks
  BY <1>0, StopShrinks DEF Commands
<1>3. /\ TypeOK' /\ DownTakesNetwork'
      /\ pc'[t] = label /\ \A u \in Threads : u # t => pc'[u] = pc[u]
  BY <1>0, <1>1, <1>2, TypeKept
<1>4. /\ podStatus = "KILLED" => label = "volume"
      /\ podStatus = "FAILED" => (label = "volume" <=> config.failTask)
  BY <1>1 DEF CleansUp
<1>5. KillCleans'
  BY <1>0, <1>3, <1>4 DEF CleanupInv, KillCleans, Threads
<1>6. FailureCleans'
  BY <1>0, <1>3, <1>4 DEF CleanupInv, FailureCleans, Threads
<1> QED
  BY <1>3, <1>5, <1>6 DEF CleanupInv

(* RemovePodVolume keeps it (pod.go:479-503).                              *)
LEMMA RemovePodVolumeKeeps ==
  ASSUME CleanupInv, NEW t \in Threads, RemovePodVolume(t)
  PROVE  CleanupInv' /\ Shrinks
<1>0. /\ TypeOK /\ pc[t] = "volume" /\ Goto(t, "image")
      /\ UNCHANGED <<config, podStatus, verdict, listed>>
  BY DEF CleanupInv, RemovePodVolume
<1>1. \/ config.volume /\ pod' = [Down EXCEPT !.volumes = FALSE] /\ faults' = faults
      \/ pod' = pod /\ faults' = faults /\ ~config.volume
      \/ pod' = pod /\ faults' = faults \cup {"volume"}
  BY DEF RemovePodVolume, Run
<1>2. Shrinks
  BY <1>1, StopShrinks, DownShrinks DEF Commands
<1>3. /\ TypeOK' /\ DownTakesNetwork'
      /\ pc'[t] = "image" /\ \A u \in Threads : u # t => pc'[u] = pc[u]
  BY <1>0, <1>2, TypeKept
<1>4. /\ faults' = {} => faults = {}
      /\ faults' = {} /\ config.volume => pod'.containers = "gone" /\ ~pod'.volumes
  BY <1>0, <1>1, DownFacts
<1>5. faults' = {} /\ config.volume /\ ~config.preExist => ~pod'.network
  BY <1>2, <1>4 DEF Shrinks
<1>6. KillCleans'
  BY <1>0, <1>2, <1>3, <1>4 DEF CleanupInv, KillCleans, Shrinks, Threads
<1>7. FailureCleans'
  BY <1>0, <1>2, <1>3, <1>4, <1>5 DEF CleanupInv, FailureCleans, Shrinks, Threads
<1> QED
  BY <1>2, <1>3, <1>6, <1>7 DEF CleanupInv

(* RemovePodImage keeps it (pod.go:505-529).                               *)
LEMMA RemovePodImageKeeps ==
  ASSUME CleanupInv, NEW t \in Threads, RemovePodImage(t)
  PROVE  CleanupInv' /\ Shrinks
<1>0. /\ TypeOK /\ pc[t] = "image" /\ Goto(t, "done")
      /\ UNCHANGED <<config, podStatus, verdict, listed>>
  BY DEF CleanupInv, RemovePodImage
<1>1. \/ config.image /\ pod' = [Down EXCEPT !.images = FALSE] /\ faults' = faults
      \/ pod' = pod /\ faults' = faults /\ ~config.image
      \/ pod' = pod /\ faults' = faults \cup {"image"}
  BY DEF RemovePodImage, Run
<1>2. Shrinks
  BY <1>1, StopShrinks, DownShrinks DEF Commands
<1>3. /\ TypeOK' /\ DownTakesNetwork'
      /\ pc'[t] = "done" /\ \A u \in Threads : u # t => pc'[u] = pc[u]
  BY <1>0, <1>2, TypeKept
<1>4. /\ faults' = {} => faults = {}
      /\ faults' = {} /\ config.image => pod'.containers = "gone"
  BY <1>0, <1>1, DownFacts
<1>5. faults' = {} /\ config.image /\ ~config.preExist => ~pod'.network
  BY <1>2, <1>4 DEF Shrinks
<1>6. KillCleans'
  BY <1>0, <1>2, <1>3, <1>4 DEF CleanupInv, KillCleans, Shrinks, Threads
<1>7. FailureCleans'
  BY <1>0, <1>2, <1>3, <1>4, <1>5 DEF CleanupInv, FailureCleans, Shrinks, Threads
<1> QED
  BY <1>2, <1>3, <1>6, <1>7 DEF CleanupInv

(* RemoveNetwork keeps it (pod.go:531-558, impl.go:183-209).               *)
LEMMA RemoveNetworkKeeps ==
  ASSUME CleanupInv, NEW t \in Threads, RemoveNetwork(t)
  PROVE  CleanupInv'
<1>0. /\ TypeOK /\ pc[t] = "network" /\ Goto(t, "done")
      /\ UNCHANGED <<config, podStatus, verdict, listed>>
  BY DEF CleanupInv, RemoveNetwork
<1>1. \/ /\ KeepsNetwork \/ pod.containers # "down" \/ ~pod.network
         /\ UNCHANGED <<pod, faults>>
      \/ pod' = pod /\ \E command \in Commands : faults' = faults \cup {command}
      \/ pod' = [pod EXCEPT !.network = FALSE] /\ faults' = faults /\ pod.containers = "down"
  BY DEF RemoveNetwork, Run, Commands
<1>2. pod \in Pods /\ faults \subseteq Commands
  BY <1>0 DEF TypeOK, Pods
<1>3. pod' = [pod EXCEPT !.network = FALSE] =>
        pod' \in Pods /\ pod'.network = FALSE /\ pod'.containers = pod.containers
          /\ pod'.volumes = pod.volumes
  BY <1>2 DEF Pods
<1>4. Shrinks
  <2>1. CASE pod' = pod /\ \E command \in Commands : faults' \in {faults, faults \cup {command}}
    BY <2>1, StopShrinks
  <2>2. CASE pod' = [pod EXCEPT !.network = FALSE] /\ faults' = faults
    BY <1>2, <1>3, <2>2 DEF Shrinks
  <2> QED
    BY <1>1, <2>1, <2>2 DEF Commands
<1>5. /\ TypeOK' /\ DownTakesNetwork'
      /\ pc'[t] = "done" /\ \A u \in Threads : u # t => pc'[u] = pc[u]
  BY <1>0, <1>4, TypeKept
<1>6. /\ faults' = {} => faults = {}
      /\ faults' = {} /\ ~config.preExist /\ ~config.hostMode =>
           pod.containers # "down" \/ ~pod'.network
  BY <1>1, <1>3 DEF KeepsNetwork
<1>7. podStatus = "FAILED" /\ t = "report" /\ faults' = {} /\ ~config.preExist /\ ~config.hostMode =>
        ~pod'.network
  <2>1. podStatus = "FAILED" /\ t = "report" /\ faults = {} => pod.containers # "up"
    BY <1>0 DEF CleanupInv, FailureCleans
  <2>2. pod.containers \in {"up", "down", "gone"}
    BY <1>2 DEF Pods
  <2>3. pod.containers = "gone" /\ ~config.preExist => ~pod'.network
    BY <1>4 DEF Shrinks
  <2> QED
    BY <1>6, <2>1, <2>2, <2>3
<1>8. KillCleans'
  BY <1>0, <1>4, <1>5, <1>6 DEF CleanupInv, KillCleans, Shrinks, Threads
<1>9. FailureCleans'
  BY <1>0, <1>4, <1>5, <1>6, <1>7 DEF CleanupInv, FailureCleans, Shrinks, Threads
<1> QED
  BY <1>5, <1>8, <1>9 DEF CleanupInv

(* Every step of the teardown keeps it.                                    *)
LEMMA CleanupStep == CleanupInv /\ [Next]_vars => CleanupInv'
<1> SUFFICES ASSUME CleanupInv, [Next]_vars PROVE CleanupInv'
  OBVIOUS
<1>1. CASE UNCHANGED vars
  BY <1>1 DEF vars, CleanupInv, TypeOK, DownTakesNetwork, KillCleans, FailureCleans
<1>2. CASE \E t \in Threads : Begin(t) \/ SetStatus(t) \/ StopPod(t) \/ PostKillTask(t)
  BY <1>2, BeginKeeps, SetStatusKeeps, StopPodKeeps, DecideKeeps, RemovePodVolumeKeeps,
     RemovePodImageKeeps, RemoveNetworkKeeps DEF PostKillTask
<1> QED
  BY <1>1, <1>2 DEF Next, Done

-----------------------------------------------------------------------------
(* HookInv is inductive.                                                   *)

(* An orphan takes the step its thread would have taken.                   *)
LEMMA OrphanKeeps ==
  ASSUME HookInv, OrphanEnds
  PROVE  HookInv'
<1>0. CleanupInv /\ orphans \subseteq Threads /\ UNCHANGED <<executor, agent>>
  BY DEF HookInv, HookTypeOK, OrphanEnds
<1>1. PICK t \in orphans : /\ StopPod(t) \/ RemovePodVolume(t) \/ RemovePodImage(t)
                          /\ orphans' = orphans \ {t}
  BY DEF OrphanEnds
<1>2. CleanupInv' /\ Shrinks
  BY <1>0, <1>1, StopPodKeeps, RemovePodVolumeKeeps, RemovePodImageKeeps
<1>3. HookTypeOK'
  BY <1>0, <1>1, <1>2 DEF HookInv, HookTypeOK, CleanupInv, agent
<1>4. HookStops'
  <2>1. pod.containers \in {"up", "down", "gone"}
    BY <1>0 DEF CleanupInv, TypeOK
  <2>2. pod'.containers = "down" => pod.containers \in {"up", "down"}
    BY <1>2, <2>1 DEF Shrinks
  <2> QED
    BY <1>0, <1>2, <2>2 DEF HookInv, HookStops, Shrinks, agent
<1> QED
  BY <1>2, <1>3, <1>4 DEF HookInv

(* The hook only stops what is still up, and the cgroup goes with what it  *)
(* keeps, or a command fails (compose_pod_cleanup_hook.cpp:43-106).        *)
LEMMA RemoveExecutorKeeps ==
  ASSUME HookInv, RemoveExecutor
  PROVE  HookInv'
<1>0. /\ CleanupInv /\ HookTypeOK /\ HookStops
      /\ UNCHANGED <<config, podStatus, pc, verdict, listed, faults, executor, orphans>>
  BY DEF HookInv, RemoveExecutor
<1>1. TypeOK /\ pod \in Pods
  BY <1>0 DEF CleanupInv, TypeOK, Pods
<1>2. pod' \in {pod, Stopped}
  BY DEF RemoveExecutor, ListContainers, StopContainers, DeleteCgroup
<1>3. Shrinks
  BY <1>0, <1>2, StopShrinks DEF Commands
<1>4. CleanupInv'
  <2>1. TypeOK'
    BY <1>0, <1>1, <1>3 DEF TypeOK, Shrinks, Pods
  <2>2. DownTakesNetwork'
    BY <1>0, <1>3 DEF Shrinks, DownTakesNetwork
  <2>3. KillCleans'
    BY <1>0, <1>3 DEF CleanupInv, KillCleans, Shrinks
  <2>4. FailureCleans'
    BY <1>0, <1>3 DEF CleanupInv, FailureCleans, Shrinks
  <2> QED
    BY <2>1, <2>2, <2>3, <2>4 DEF CleanupInv
<1>5. CASE ListContainers
  <2>1. /\ hook' \in {"stop", "done"} /\ executor = "gone" /\ mute' \in {mute, mute \cup {"ps"}}
        /\ hook' = "done" /\ mute' \cap {"ps", "stop"} = {} => pod.containers = "gone"
        /\ UNCHANGED <<pod, cgroup>>
    BY <1>5 DEF ListContainers, After
  <2>2. HookTypeOK'
    BY <1>0, <1>4, <2>1 DEF HookTypeOK, CleanupInv
  <2>3. HookStops'
    BY <2>1 DEF HookStops
  <2> QED
    BY <1>4, <2>2, <2>3 DEF HookInv
<1>6. CASE StopContainers
  <2>1. /\ hook = "stop" /\ hook' = "cgroup" /\ UNCHANGED cgroup
        /\ mute' \in {mute, mute \cup {"stop"}}
        /\ mute' \cap {"ps", "stop"} = {} => pod' = Stopped
    BY <1>6 DEF StopContainers, After
  <2>2. HookTypeOK'
    BY <1>0, <1>4, <2>1 DEF HookTypeOK, CleanupInv
  <2>3. HookStops'
    BY <1>1, <2>1, StoppedFacts DEF HookStops
  <2> QED
    BY <1>4, <2>2, <2>3 DEF HookInv
<1>7. CASE DeleteCgroup
  <2>1. hook = "cgroup" /\ hook' = "done" /\ UNCHANGED pod
    BY <1>7 DEF DeleteCgroup, After
  <2>2. PICK failed \in SUBSET {"inspect", "lscgroup", "cgdelete"} :
          /\ mute' = mute \cup failed
          /\ failed = {} => cgroup' = (cgroup /\ pod.containers # "down")
          /\ failed # {} => cgroup' = cgroup
    <3>1. CASE mute' = mute /\ cgroup' = (cgroup /\ pod.containers # "down")
      <4>1. mute' = mute \cup {}
        BY <3>1
      <4> QED
        BY <3>1, <4>1
    <3>2. CASE \E command \in {"inspect", "lscgroup", "cgdelete"} :
                 mute' = mute \cup {command} /\ cgroup' = cgroup
      BY <3>2
    <3> QED
      BY <1>7, <3>1, <3>2 DEF DeleteCgroup
  <2>3. HookTypeOK'
    BY <1>0, <1>4, <2>1, <2>2 DEF HookTypeOK, CleanupInv
  <2>4. mute' \cap {"ps", "stop"} = {} => mute \cap {"ps", "stop"} = {}
    BY <2>2
  <2>5. mute' = {} => cgroup' = (cgroup /\ pod.containers # "down")
    BY <2>2
  <2>6. HookStops'
    BY <1>0, <2>1, <2>4, <2>5 DEF HookStops
  <2> QED
    BY <1>4, <2>3, <2>6 DEF HookInv
<1> QED
  BY <1>5, <1>6, <1>7 DEF RemoveExecutor

(* Every step keeps it: the hook waits for the executor to be gone.        *)
LEMMA HookStep == HookInv /\ [HookNext]_allVars => HookInv'
<1> SUFFICES ASSUME HookInv, [HookNext]_allVars PROVE HookInv'
  OBVIOUS
<1>0. CleanupInv /\ HookTypeOK /\ HookStops
  BY DEF HookInv
<1>1. CASE UNCHANGED allVars
  <2>1. CleanupInv'
    BY <1>0, <1>1, CleanupStep DEF allVars
  <2>2. HookTypeOK'
    BY <1>0, <1>1, <2>1 DEF allVars, agent, HookTypeOK, CleanupInv
  <2>3. HookStops'
    BY <1>0, <1>1 DEF allVars, vars, agent, HookStops
  <2> QED
    BY <2>1, <2>2, <2>3 DEF HookInv
<1>2. CASE Teardown
  <2>1. CleanupInv'
    BY <1>0, <1>2, CleanupStep DEF Teardown
  <2>2. executor = "running" /\ UNCHANGED <<executor, orphans, agent>>
    BY <1>2 DEF Teardown
  <2>3. HookTypeOK' /\ hook' = "list"
    BY <1>0, <2>1, <2>2 DEF HookTypeOK, CleanupInv, agent
  <2> QED
    BY <2>1, <2>3 DEF HookInv, HookStops
<1>3. CASE ExecutorEnds
  <2>1. CleanupInv'
    BY <1>0, <1>3, CleanupStep DEF ExecutorEnds
  <2>2. HookTypeOK'
    BY <1>0, <1>3, <2>1 DEF ExecutorEnds, HookTypeOK, CleanupInv, agent
  <2>3. HookStops'
    BY <1>0, <1>3 DEF ExecutorEnds, vars, agent, HookStops
  <2> QED
    BY <2>1, <2>2, <2>3 DEF HookInv
<1> QED
  BY <1>1, <1>2, <1>3, OrphanKeeps, RemoveExecutorKeeps DEF HookNext, HookDone

-----------------------------------------------------------------------------
(* The theorems                                                            *)

(* The teardown within a running executor keeps CleanupInv.                *)
THEOREM CleanupInvCorrect == Spec => []CleanupInv
  BY CleanupInit, CleanupStep, PTL DEF Spec

(* And so do the loss of the executor and the agent's hook, with HookInv.  *)
THEOREM HookInvCorrect == HookSpec => []HookInv
<1>1. HookInit => HookInv
  <2> SUFFICES ASSUME HookInit PROVE HookInv
    OBVIOUS
  <2>1. CleanupInv
    BY CleanupInit DEF HookInit
  <2>2. HookTypeOK
    BY <2>1 DEF HookInit, HookTypeOK, CleanupInv
  <2> QED
    BY <2>1, <2>2 DEF HookInit, HookInv, HookStops
<1> QED
  BY <1>1, HookStep, PTL DEF HookSpec

(* The hook does nothing before the executor is gone, and everything keeps *)
(* to its type.                                                            *)
THEOREM HookTypeCorrect == HookSpec => []HookTypeOK
<1>1. HookInv => HookTypeOK
  BY DEF HookInv
<1> QED
  BY <1>1, HookInvCorrect, PTL

(* What the two cleanups promise of a pod that ended follows from          *)
(* CleanupInv.                                                             *)
LEMMA CleanupPromises == CleanupInv => KilledIsCleaned /\ FailedLosesNetwork
<1> SUFFICES ASSUME CleanupInv PROVE KilledIsCleaned /\ FailedLosesNetwork
  OBVIOUS
<1>1. KilledIsCleaned
  BY DEF CleanupInv, KillCleans, KilledIsCleaned, Finished, Threads
<1>2. FailedLosesNetwork
  BY DEF CleanupInv, FailureCleans, FailedLosesNetwork, Finished, Threads
<1> QED
  BY <1>1, <1>2

(* A pod that ends up killed has lost its containers and volumes if the    *)
(* configuration says so, though a report was under way beside the kill    *)
(* and an orphan went on after the executor (impl.go:170-228).             *)
THEOREM KillsCleanUp == HookSpec => []KilledIsCleaned
<1>1. HookInv => KilledIsCleaned
  BY CleanupPromises DEF HookInv
<1> QED
  BY <1>1, HookInvCorrect, PTL

(* A pod that ends up failed loses its own network, by docker-compose down *)
(* or by name (impl.go:181-226).                                           *)
THEOREM FailuresLoseNetworks == HookSpec => []FailedLosesNetwork
<1>1. HookInv => FailedLosesNetwork
  BY CleanupPromises DEF HookInv
<1> QED
  BY <1>1, HookInvCorrect, PTL

(* Once the agent's hook is done nothing of the pod is up, unless its      *)
(* docker ps or docker stop failed, and the cgroup of containers that are  *)
(* kept is gone, unless any of its commands did, docker inspect, lscgroup  *)
(* and cgdelete included (compose_pod_cleanup_hook.cpp:43-80, 98-106).     *)
THEOREM HookStopsLeftovers == HookSpec => []LeftoversStopped
<1>1. HookInv => LeftoversStopped
  BY DEF HookInv, HookStops, LeftoversStopped
<1> QED
  BY <1>1, HookInvCorrect, PTL

=============================================================================
