---------------------------- MODULE TaskLifecycle ----------------------------
(***************************************************************************)
(* What the executor promises the Mesos agent about its one task, without  *)
(* saying how: a task is started, perhaps runs, and gets one outcome that  *)
(* no later update replaces; and the executor withdraws (stops its driver) *)
(* only once the task has an outcome or somebody asked it to leave, with a *)
(* KillTask or a Shutdown callback.                                        *)
(*                                                                         *)
(* The state names are those of mesos.TaskState as utils/pod/pod.go sends  *)
(* them.  The agent keeps the first terminal state it receives.            *)
(***************************************************************************)

VARIABLES task,     \* the task's state as the agent knows it
          driver,   \* "running" until the executor withdraws
          asked     \* TRUE once a KillTask or a Shutdown reached the executor

tlVars == <<task, driver, asked>>

Outcomes == {"FAILED", "FINISHED", "KILLED"}
TaskStates == {"STAGING", "STARTING", "RUNNING"} \cup Outcomes

TLTypeOK == /\ task \in TaskStates
            /\ driver \in {"running", "stopped"}
            /\ asked \in BOOLEAN

TLInit == task = "STAGING" /\ driver = "running" /\ asked = FALSE

(* TASK_STARTING is the first update, TASK_RUNNING comes only after it.    *)
Start == task = "STAGING" /\ task' = "STARTING"
Run   == task = "STARTING" /\ task' = "RUNNING"

(* A task that was started gets an outcome; KILLED needs a KillTask.       *)
Conclude == /\ task \in {"STARTING", "RUNNING"}
            /\ \/ task' \in {"FAILED", "FINISHED"}
               \/ asked /\ task' = "KILLED"

Advance == /\ driver = "running"
           /\ Start \/ Run \/ Conclude
           /\ UNCHANGED <<driver, asked>>

(* A request reaches a running executor, which may leave at once.          *)
Ask == /\ driver = "running" /\ ~asked
       /\ asked' = TRUE
       /\ driver' \in {"running", "stopped"}
       /\ UNCHANGED task

Withdraw == /\ driver = "running"
            /\ task \in Outcomes \/ asked
            /\ driver' = "stopped"
            /\ UNCHANGED <<task, asked>>

TLNext == Advance \/ Ask \/ Withdraw

TLSpec == TLInit /\ [][TLNext]_tlVars
=============================================================================
