----------------------------- MODULE StatusReport -----------------------------
(***************************************************************************)
(* The way of a status from the goroutine that reports it to the end of    *)
(* the executor: SendMesosStatus (utils/pod/pod.go:934) sends the update,  *)
(* may start a final copy of the logs, and pushes the status to the        *)
(* listener, whose hooks run before the driver stops.                      *)
(*                                                                         *)
(* Two goroutines report here.  "report" stands for LaunchTask, its        *)
(* deadline and the monitor, "kill" for KillTask.  Which verdict they come *)
(* to, and how SendPodStatus keeps them apart, is the subject of           *)
(* PodLifecycle.                                                           *)
(***************************************************************************)
EXTENDS LogFollower, StatusHooks

ASSUME ReportersAssumption == Reporters = {"report", "kill"}

VARIABLES podStatus, \* CurPodStatus.Status
          sender,    \* where each reporter is, and the status it reports
          launch,    \* how far the launch is: none, started, selected, up
          owed       \* history: outcomes sent while the pod was stopped

vars == <<outside, logs, registry, hooks, podStatus, sender, launch, owed>>
quiet == <<logs, registry, hooks>>

Outcomes == {"FAILED", "FINISHED", "KILLED"}

Reports == [pc : {"ready", "set", "update", "log", "sleep", "push", "leave", "done"},
            status : Statuses]

TypeOK ==
  /\ ProcessTypeOK /\ LogsTypeOK /\ HooksTypeOK
  /\ podStatus \in Statuses
  /\ sender \in [Reporters -> Reports]
  /\ launch \in {"none", "started", "selected", "up"}
  /\ owed \subseteq Reporters

Init ==
  /\ ProcessInit /\ LogsInit /\ HooksInit
  /\ podStatus = "STARTING"
  /\ sender = [t \in Reporters |-> [pc |-> "ready", status |-> "STARTING"]]
  /\ launch = "none" /\ owed = {}

Step(t, label) == sender' = [sender EXCEPT ![t].pc = label]
Report(t, label, status) == sender' = [sender EXCEPT ![t] = [pc |-> label, status |-> status]]

-----------------------------------------------------------------------------
(* The environment: docker and the Go runtime.                              *)

RegisterPlugins == Alive /\ launch = "none" /\ Register
                 /\ UNCHANGED <<outside, logs, hooks, podStatus, sender, launch, owed>>

StartContainers == Alive /\ CreateContainers
                   /\ UNCHANGED <<quiet, podStatus, sender, launch, owed>>

Environment == /\ Alive
               /\ EndByThemselves \/ Exit
               /\ UNCHANGED <<quiet, podStatus, sender, launch, owed>>

-----------------------------------------------------------------------------
(* LaunchTask, as far as it matters here                                   *)

StartLaunch ==
  /\ launch = "none" /\ waiting = {} /\ process = "running"
  /\ launch' = "started" /\ Step("report", "update")
  /\ UNCHANGED <<outside, quiet, podStatus, owed>>

SelectPlugins ==
  /\ launch = "started" /\ sender["report"].pc = "ready"
  /\ extpoints' = Select("ComposePlugin", Order)
  /\ launch' = "selected"
  /\ UNCHANGED <<outside, logs, pool, waiting, hooks, podStatus, sender, owed>>

Missing == \E k \in DOMAIN extpoints : extpoints[k] = Nil

(* A plugin that is nil, or one that fails: no pod to stop.                *)
FailBeforeUp ==
  /\ launch = "selected" /\ sender["report"].pc = "ready" /\ podStatus = "STARTING"
  /\ podStatus' = "FAILED" /\ Report("report", "update", "FAILED")
  /\ UNCHANGED <<outside, quiet, launch, owed>>

LaunchPod ==
  /\ launch = "selected" /\ sender["report"].pc = "ready" /\ podStatus = "STARTING"
  /\ ~Missing
  /\ launch' = "up" /\ upPending' = TRUE /\ StartFollower(Launch)
  /\ UNCHANGED <<process, containers, faults, registry, hooks, podStatus, sender, owed>>

(* SendPodStatus: a status that is settled is not reported again.  TASK_   *)
(* RUNNING and FINISHED come after docker-compose up; a deadline, or a     *)
(* monitor that is not registered, has FAILED.                             *)
Verdicts ==
  IF podStatus = "STARTING" THEN {"FAILED"} \cup (IF upPending THEN {} ELSE {"RUNNING", "FINISHED"})
  ELSE IF podStatus = "RUNNING"
    THEN IF Has("Monitor", "default") THEN {"FAILED", "FINISHED"} ELSE {"FAILED"}
  ELSE {}

SendPodStatus ==
  /\ launch = "up" /\ sender["report"].pc = "ready"
  /\ \E s \in Verdicts : Report("report", "set", s)
  /\ UNCHANGED <<outside, quiet, podStatus, launch, owed>>

Stopped == IF containers = "up" THEN "down" ELSE containers

SetAndStop(t) ==
  /\ sender[t].pc = "set"
  /\ podStatus' = sender[t].status
  /\ \/ sender[t].status = "RUNNING" /\ UNCHANGED containers
     \/ sender[t].status # "RUNNING" /\ containers' \in {Stopped, containers}
  /\ Step(t, "update")
  /\ UNCHANGED <<process, upPending, faults, quiet, launch, owed>>

(* KillTask stops a running pod; it stops the driver in any case.          *)
KillTask ==
  /\ launch # "none" /\ sender["kill"].pc = "ready"
  /\ IF podStatus = "RUNNING" THEN Report("kill", "set", "KILLED") ELSE Step("kill", "leave")
  /\ UNCHANGED <<outside, quiet, podStatus, launch, owed>>

-----------------------------------------------------------------------------
(* SendMesosStatus                                                         *)

AfterReport(t) == IF t = "kill" THEN "leave"
                  ELSE IF sender[t].status \in Outcomes THEN "done" ELSE "ready"

(* A driver that has been stopped returns an error.                        *)
SendUpdate(t) ==
  /\ sender[t].pc = "update"
  /\ IF process = "running"
       THEN /\ Step(t, "log")
            /\ owed' = IF sender[t].status \in Outcomes /\ containers = "down"
                       THEN owed \cup {t} ELSE owed
       ELSE Step(t, AfterReport(t)) /\ UNCHANGED owed
  /\ UNCHANGED <<outside, quiet, podStatus, launch>>

StartsFinalCopy_Killed(t) == ~logStatus /\ sender[t].status = "KILLED"   \* a bug

StartsFinalCopy(t) == ~logStatus /\ sender[t].status \in Outcomes

ReadLogStatus(t) ==
  /\ sender[t].pc = "log"
  /\ IF StartsFinalCopy(t) THEN StartFollower(t) ELSE UNCHANGED logs
  /\ Step(t, "sleep")
  /\ UNCHANGED <<outside, registry, hooks, podStatus, launch, owed>>

(* Five seconds, whether the copy is done by then or not.                  *)
Sleep(t) ==
  /\ sender[t].pc = "sleep"
  /\ Step(t, "push")
  /\ UNCHANGED <<outside, quiet, podStatus, launch, owed>>

Push(t) ==
  /\ sender[t].pc = "push" /\ taskStatusCh = <<>>
  /\ taskStatusCh' = <<sender[t].status>>
  /\ Step(t, AfterReport(t))
  /\ UNCHANGED <<outside, logs, registry, listener, next, executed, shut, cut,
                 podStatus, launch, owed>>

SendMesosStatus(t) == SendUpdate(t) \/ ReadLogStatus(t) \/ Sleep(t) \/ Push(t)

LeaveAfterKill ==
  /\ sender["kill"].pc = "leave"
  /\ StopDriver /\ Step("kill", "done")
  /\ UNCHANGED <<upPending, containers, faults, logs, registry, taskStatusCh, listener, next,
                 executed, shut, cut, podStatus, launch, owed>>

(* The Shutdown callback calls every plugin selected, also one that is nil.*)
Shutdown ==
  /\ launch # "none" /\ process = "running"
  /\ IF Missing THEN process' = "crashed" ELSE StopDriver
  /\ UNCHANGED <<upPending, containers, faults, logs, registry, taskStatusCh, listener, next,
                 executed, shut, cut, podStatus, sender, launch, owed>>

Executor == /\ Alive
            /\ \/ StartLaunch \/ SelectPlugins \/ FailBeforeUp \/ LaunchPod \/ SendPodStatus
               \/ \E t \in Reporters : SetAndStop(t) \/ SendMesosStatus(t)
               \/ KillTask \/ LeaveAfterKill \/ Shutdown

Listener == ListenOnTaskStatus
            /\ UNCHANGED <<logs, registry, podStatus, sender, launch, owed>>
FollowLogs(f) == Follow(f)
                 /\ UNCHANGED <<registry, hooks, podStatus, sender, launch, owed>>

Done == ~Alive /\ UNCHANGED vars

Next == \/ RegisterPlugins \/ StartContainers \/ Environment \/ Executor \/ Listener
        \/ Done \/ \E f \in Followers : FollowLogs(f)

Spec == Init /\ [][Next]_vars

-----------------------------------------------------------------------------
(* Properties                                                              *)

(* When the listener goes to stop the driver, every hook configured for    *)
(* the outcome that some extension registered has been shut down, and      *)
(* after a failure each has been executed unless an earlier one ended the  *)
(* execution, whatever other statuses came in between (pod.go:1352-1499).  *)
StoppedAfterHooks ==
  listener.phase = "stop" =>
    /\ {Hook(k) : k \in DOMAIN HooksFor[listener.status]} \ {Nil} \subseteq shut
    /\ listener.status = "FAILED" /\ ~cut => shut \subseteq executed

(* Once an outcome of a stopped pod was sent and the log flag read, the    *)
(* output is copied to its end or somebody is at it, although the launch's *)
(* follower and the final copies set and clear one flag (pod.go:954,       *)
(* wait.go:202-211).  Excepted are a command that failed and a flag that   *)
(* was left set when the containers were created.  Nothing waits for the   *)
(* copy: one that takes longer than the five seconds of SendMesosStatus    *)
(* (pod.go:968) is cut off when the executor exits.                        *)
OutputIsFollowed ==
  faults = {} =>
    \A t \in owed : sender[t].pc = "log" \/ copied \/ \E f \in Followers : Copies(f)

(* A failure or a finish that was pushed has the driver stopped, or the    *)
(* process down, by the time the listener rests with no outcome left to    *)
(* receive, whatever its hooks did (pod.go:971, 1363-1382).                *)
OutcomeStopsDriver ==
  /\ sender["report"].pc = "done" /\ listener = Idle
  /\ \A k \in DOMAIN taskStatusCh : taskStatusCh[k] = "KILLED"
  => process # "running"
=============================================================================
