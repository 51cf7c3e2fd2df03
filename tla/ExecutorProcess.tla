--------------------------- MODULE ExecutorProcess ---------------------------
(***************************************************************************)
(* What outlives a goroutine of the executor, and the executor itself: its *)
(* process, the docker-compose up it has started (a process of its own),   *)
(* and the pod's containers.  The log follower and the status hooks extend *)
(* this module.                                                            *)
(***************************************************************************)
VARIABLES process,     \* running, leaving (driver stopped) or gone, and how
          upPending,   \* docker-compose up has yet to create the containers
          containers,  \* the containers of the pod
          faults       \* history: what went wrong with the copies of the logs

outside == <<process, upPending, containers, faults>>

Gone == {"exited", "crashed"}

ProcessTypeOK ==
  /\ process \in {"running", "leaving"} \cup Gone
  /\ upPending \in BOOLEAN
  /\ containers \in {"none", "up", "down"}
  /\ faults \subseteq {"logs", "stale"}

ProcessInit == /\ process = "running" /\ upPending = FALSE
               /\ containers = "none" /\ faults = {}

Alive == process \notin Gone

Fault(kind) == faults' = faults \cup {kind}

(* Containers are created, even by a docker-compose without an executor,   *)
(* and end on their own.                                                   *)
Create == /\ upPending
          /\ upPending' = FALSE /\ containers' = "up"
          /\ UNCHANGED process

EndByThemselves == /\ containers = "up"
                   /\ containers' = "down"
                   /\ UNCHANGED <<process, upPending, faults>>

(* main returns from driver.Join once the driver has stopped, whatever the *)
(* other goroutines are doing.                                             *)
Exit == /\ process = "leaving"
        /\ process' = "exited"
        /\ UNCHANGED <<upPending, containers, faults>>
=============================================================================
