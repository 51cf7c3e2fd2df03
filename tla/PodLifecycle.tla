---------------------------- MODULE PodLifecycle ----------------------------
(***************************************************************************)
(* The life of one pod inside the executor process: the callbacks of       *)
(* dce/main.go (LaunchTask, KillTask, Shutdown) and the goroutines they    *)
(* start (WaitOnPod, the monitor, ListenOnTaskStatus), all of which share  *)
(* CurPodStatus, LaunchCmdAttempted, MonitorContainerList, taskStatusCh    *)
(* and the Mesos driver (utils/pod/pod.go).                                *)
(*                                                                         *)
(* A thread is at a label, pc[t].  The labels "check" to "push" are the    *)
(* bodies of SendPodStatus, StopPod and SendMesosStatus, which every       *)
(* thread may run; status[t] is the pod status the thread is reporting,    *)
(* seen[t] the one it read and has not acted on yet, and back[t] the label *)
(* it returns to.  A step is one access to shared state, with the          *)
(* thread-local code up to the next one.  Logging, metrics and the docker  *)
(* logs follower are left out; sleeps only let other threads run.          *)
(***************************************************************************)
EXTENDS Naturals, Sequences

CONSTANTS Kills,            \* the KillTask callbacks Mesos may make
          SerialCallbacks,  \* TRUE: the driver runs one callback at a time
          IsService         \* aurora's IsService flag of the task

Workers == {"launch", "wait", "monitor"}
Threads == Workers \cup Kills \cup {"listener"}
Reporters == Workers \cup Kills

ASSUME KillsAssumption == Kills \cap (Workers \cup {"listener"}) = {}
ASSUME ModeAssumption == SerialCallbacks \in BOOLEAN /\ IsService \in BOOLEAN

Outcomes == {"FAILED", "FINISHED", "KILLED"}
TaskStates == {"STARTING", "RUNNING"} \cup Outcomes
CheckFailures == {"PULL_FAILED", "COMPOSE_CHECK_FAILED"}
PodStatuses == {"STAGING"} \cup TaskStates \cup CheckFailures

(* The Mesos state sent for a pod status.                                  *)
TaskStateOf(s) == IF s \in CheckFailures THEN "FAILED" ELSE s

LaunchLabels == {"idle", "arm", "prePlugins", "write1", "validate", "pull",
                 "postPlugins", "write2", "up", "upping", "health",
                 "postLaunch", "watch", "done"}
SendLabels == {"check", "set", "route", "stop", "clean", "send", "push"}

(* What goes wrong around the executor: compose files that cannot be       *)
(* written, a pod that cannot be stopped, an inspect error taken for an    *)
(* exit, and a LaunchTask, which does not look at its context, still       *)
(* launching or failing after the deadline ("late").                       *)
Faults == {"write", "stop", "inspect", "late"}

Labels == LaunchLabels \cup SendLabels
            \cup {"waiting", "poll", "mark", "stopDriver", "recv", "act"}
Returns == Labels \ (SendLabels \cup {"idle"})

VARIABLES podStatus,   \* CurPodStatus.Status
          launched,    \* CurPodStatus.Launched
          attempted,   \* LaunchCmdAttempted
          monitored,   \* len(MonitorContainerList) > 0
          res,         \* LaunchTask's res, the verdict of initHealthCheck
          ctx,         \* the launch context: none, active, cancelled, expired
          pc, status, seen, back,
          ch,          \* taskStatusCh, capacity 1
          driver,      \* the Mesos driver: running or stopped
          exited,      \* main returned after driver.Join()
          pod,         \* the pod's containers: none, up, or down again
          sent,        \* history: the updates the driver accepted
          task,        \* history: the agent's view, its first outcome sticks
          cleaned,     \* history: the PostKillTask plugins have run
          faults,      \* history: which Faults happened so far
          raced,       \* history: a status changed between check and set
          shut         \* history: the Shutdown callback came

shared == <<podStatus, launched, attempted, monitored>>
threadVars == <<pc, status, seen, back>>
history == <<sent, task, cleaned, faults, raced, shut>>
vars == <<shared, res, ctx, threadVars, ch, driver, exited, pod, history>>

TypeOK ==
  /\ podStatus \in PodStatuses
  /\ launched \in BOOLEAN /\ attempted \in BOOLEAN /\ monitored \in BOOLEAN
  /\ res \in {"none", "RUNNING", "FAILED", "FINISHED"}
  /\ ctx \in {"none", "active", "cancelled", "expired"}
  /\ pc \in [Threads -> Labels]
  /\ status \in [Threads -> PodStatuses \ {"STAGING"}]
  /\ seen \in [Threads -> PodStatuses]
  /\ back \in [Threads -> Returns]
  /\ ch \in Seq(TaskStates) /\ Len(ch) <= 1
  /\ driver \in {"running", "stopped"} /\ exited \in BOOLEAN
  /\ pod \in {"none", "up", "down"}
  /\ sent \in Seq(TaskStates)
  /\ task \in {"STAGING"} \cup TaskStates
  /\ cleaned \in BOOLEAN
  /\ faults \in SUBSET Faults
  /\ raced \in BOOLEAN
  /\ shut \in BOOLEAN

Init ==
  /\ podStatus = "STAGING"
  /\ launched = FALSE /\ attempted = FALSE /\ monitored = FALSE
  /\ res = "none" /\ ctx = "none"
  /\ pc = [t \in Threads |-> "idle"]
  /\ status = [t \in Threads |-> "STARTING"]
  /\ seen = [t \in Threads |-> "STAGING"]
  /\ back = [t \in Threads |-> "done"]
  /\ ch = <<>> /\ driver = "running" /\ exited = FALSE /\ pod = "none"
  /\ sent = <<>> /\ task = "STAGING"
  /\ cleaned = FALSE /\ faults = {} /\ raced = FALSE /\ shut = FALSE

-----------------------------------------------------------------------------
(* Helpers *)

Goto(t, label) == /\ pc' = [pc EXCEPT ![t] = label]
                  /\ UNCHANGED <<status, seen, back>>

(* Enter SendPodStatus, or SendMesosStatus alone, for status s.            *)
Enter(t, label, s, return) == /\ pc' = [pc EXCEPT ![t] = label]
                              /\ status' = [status EXCEPT ![t] = s]
                              /\ back' = [back EXCEPT ![t] = return]
                              /\ UNCHANGED seen

Cancel == ctx' = IF ctx = "active" THEN "cancelled" ELSE ctx

(* A launch step taken although the deadline expired.                      *)
NoteLate == faults' = IF ctx = "expired" THEN faults \cup {"late"} ELSE faults

(* The driver makes callbacks while it runs, and if it serialises them     *)
(* only when none is in progress.                                          *)
MayCallBack ==
  /\ ~exited /\ driver = "running"
  /\ SerialCallbacks => \A c \in {"launch"} \cup Kills : pc[c] \in {"idle", "done"}

At(t, label) == ~exited /\ pc[t] = label

-----------------------------------------------------------------------------
(* SendPodStatus, StopPod and SendMesosStatus, run by thread t.            *)

Settled_SameOnly(t) == podStatus = status[t]    \* a bug: no terminal check

Settled(t) == podStatus \in Outcomes \cup {status[t]}

(* The early return reads CurPodStatus under its lock and releases it.     *)
CheckStatus(t) ==
  /\ At(t, "check")
  /\ IF Settled(t)
       THEN pc' = [pc EXCEPT ![t] = back[t]] /\ UNCHANGED seen
       ELSE pc' = [pc EXCEPT ![t] = "set"] /\ seen' = [seen EXCEPT ![t] = podStatus]
  /\ UNCHANGED <<shared, status, back, res, ctx, ch, driver, exited, pod, history>>

SetStatus(t) ==
  /\ At(t, "set")
  /\ podStatus' = status[t]
  /\ raced' = (raced \/ podStatus # seen[t])
  /\ seen' = [seen EXCEPT ![t] = "STAGING"]
  /\ pc' = [pc EXCEPT ![t] = "route"]
  /\ UNCHANGED <<status, back, launched, attempted, monitored, res, ctx, ch, driver, exited, pod,
                 sent, task, cleaned, faults, shut>>

(* A bug: a pod that fails before it is monitored is not stopped.          *)
CleanupFor_KeepPod(s) ==
  IF s \in {"FINISHED", "FAILED"} THEN IF monitored THEN "stop" ELSE "clean" ELSE "send"

(* The switch: which cleanup precedes the Mesos update.                    *)
CleanupFor(s) ==
  CASE s = "RUNNING"   -> "send"
    [] s = "FINISHED"  -> IF monitored THEN "stop" ELSE "clean"
    [] s = "FAILED"    -> IF attempted THEN "stop" ELSE "send"
    [] OTHER           -> "clean"

RouteStatus(t) ==
  /\ At(t, "route")
  /\ launched' = (launched \/ status[t] = "RUNNING")
  /\ Goto(t, CleanupFor(status[t]))
  /\ UNCHANGED <<podStatus, attempted, monitored, res, ctx, ch, driver, exited, pod, history>>

(* docker-compose stop, else ForceKill; when both fail, or the command     *)
(* cannot be built, StopPod returns early and PostKillTask is skipped.     *)
(* ForceKill kills what is on MonitorContainerList: it succeeds on a list  *)
(* that is empty, or lacks a container, and leaves the pod up.             *)
StopContainers(t) ==
  /\ At(t, "stop")
  /\ \/ /\ pod' = IF pod = "up" THEN "down" ELSE pod
        /\ Goto(t, "clean")
        /\ UNCHANGED faults
     \/ /\ faults' = faults \cup {"stop"}
        /\ Goto(t, "send") \/ Goto(t, "clean")
        /\ UNCHANGED pod
  /\ UNCHANGED <<shared, res, ctx, ch, driver, exited, sent, task, cleaned, raced, shut>>

PostKillPlugins(t) ==
  /\ At(t, "clean")
  /\ cleaned' = TRUE
  /\ Goto(t, "send")
  /\ UNCHANGED <<shared, res, ctx, ch, driver, exited, pod, sent, task, faults, raced, shut>>

(* driver.SendStatusUpdate: refused by a stopped driver, and then nothing  *)
(* is pushed on the channel.                                               *)
SendUpdate(t) ==
  /\ At(t, "send")
  /\ IF driver = "running"
       THEN /\ sent' = Append(sent, TaskStateOf(status[t]))
            /\ task' = IF task \in Outcomes THEN task ELSE TaskStateOf(status[t])
            /\ Goto(t, "push")
       ELSE /\ Goto(t, back[t])
            /\ UNCHANGED <<sent, task>>
  /\ UNCHANGED <<shared, res, ctx, ch, driver, exited, pod, cleaned, faults, raced, shut>>

ChannelHasRoom_Two == Len(ch) < 2                \* a bug: capacity 2

ChannelHasRoom == Len(ch) < 1

(* After the five-second sleep; blocks while the channel is full.          *)
PushStatus(t) ==
  /\ At(t, "push")
  /\ ChannelHasRoom
  /\ ch' = Append(ch, TaskStateOf(status[t]))
  /\ Goto(t, back[t])
  /\ UNCHANGED <<shared, res, ctx, driver, exited, pod, history>>

Report(t) == \/ CheckStatus(t) \/ SetStatus(t) \/ RouteStatus(t)
             \/ StopContainers(t) \/ PostKillPlugins(t)
             \/ SendUpdate(t) \/ PushStatus(t)

-----------------------------------------------------------------------------
(* LaunchTask.  Setting the status and cancelling the context are one step *)
(* of a failing launch: a deadline between them is one just before both.   *)

LaunchTask ==
  /\ pc["launch"] = "idle" /\ MayCallBack
  /\ podStatus' = "STARTING"
  /\ pc' = [pc EXCEPT !["launch"] = "send", !["listener"] = "recv"]
  /\ status' = [status EXCEPT !["launch"] = "STARTING"]
  /\ back' = [back EXCEPT !["launch"] = "arm"]
  /\ UNCHANGED <<seen, launched, attempted, monitored, res, ctx, ch, driver, exited, pod, history>>

(* context.WithTimeout and go WaitOnPod.                                   *)
ArmDeadline ==
  /\ At("launch", "arm")
  /\ ctx' = "active"
  /\ pc' = [pc EXCEPT !["launch"] = "prePlugins", !["wait"] = "waiting"]
  /\ UNCHANGED <<shared, res, status, seen, back, ch, driver, exited, pod, history>>

(* An early step of the launch that failed: no cleanup, the update is sent *)
(* directly, and LaunchTask goes on at return.                             *)
FailEarly(s, return) ==
  /\ podStatus' = s
  /\ Cancel
  /\ Enter("launch", "send", s, return)

(* The steps before docker-compose up, with the status their failure sets. *)
EarlySteps == [prePlugins  |-> [next |-> "write1",      fail |-> "FAILED"],
               validate    |-> [next |-> "pull",        fail |-> "COMPOSE_CHECK_FAILED"],
               pull        |-> [next |-> "postPlugins", fail |-> "PULL_FAILED"],
               postPlugins |-> [next |-> "write2",      fail |-> "FAILED"]]

EarlyStep(s) ==
  /\ At("launch", s)
  /\ \/ Goto("launch", EarlySteps[s].next) /\ UNCHANGED <<podStatus, ctx, faults>>
     \/ FailEarly(EarlySteps[s].fail, "done") /\ NoteLate
  /\ UNCHANGED <<launched, attempted, monitored, res, ch, driver, exited, pod,
                 sent, task, cleaned, raced, shut>>

(* WriteChangeToFiles, twice: its failure is reported like the others, but *)
(* there is no return after it.                                            *)
WriteSteps == [write1 |-> "validate", write2 |-> "up"]

WriteFiles(s) ==
  /\ At("launch", s)
  /\ \/ Goto("launch", WriteSteps[s]) /\ UNCHANGED <<podStatus, ctx, faults>>
     \/ FailEarly("FAILED", WriteSteps[s]) /\ faults' = faults \cup {"write"}
  /\ UNCHANGED <<launched, attempted, monitored, res, ch, driver, exited, pod,
                 sent, task, cleaned, raced, shut>>

(* LaunchPod: the command cannot be built, or docker-compose up starts.    *)
BeginUp ==
  /\ At("launch", "up")
  /\ \/ /\ attempted' = TRUE
        /\ Goto("launch", "upping")
        /\ NoteLate
        /\ UNCHANGED ctx
     \/ /\ Cancel
        /\ Enter("launch", "check", "FAILED", "done")
        /\ UNCHANGED <<attempted, faults>>
  /\ UNCHANGED <<podStatus, launched, monitored, res, ch, driver, exited, pod,
                 sent, task, cleaned, raced, shut>>

(* docker-compose up returns; a failing one may leave containers behind.   *)
EndUp ==
  /\ At("launch", "upping")
  /\ \/ /\ pod' = "up"
        /\ Goto("launch", "health")
        /\ UNCHANGED ctx
     \/ /\ pod' \in {pod, "up"}
        /\ Cancel
        /\ Enter("launch", "check", "FAILED", "done")
  /\ NoteLate
  /\ UNCHANGED <<shared, res, ch, driver, exited, sent, task, cleaned, raced, shut>>

(* Verdict v of HealthCheck or of the monitor, and whether containers stay *)
(* on the monitor list.  FINISHED means the application containers are     *)
(* gone: with an empty list the whole pod is, unless an inspect error was  *)
(* taken for an exit.                                                      *)
Verdict(v, listed) ==
  /\ v = "FINISHED" => ~IsService
  /\ monitored' = listed
  /\ \/ /\ v = "FINISHED" /\ ~listed /\ pod = "up"
        /\ \/ pod' = "down" /\ UNCHANGED faults
           \/ faults' = faults \cup {"inspect"} /\ UNCHANGED pod
     \/ /\ v = "FINISHED" /\ ~listed => pod # "up"
        /\ UNCHANGED <<pod, faults>>

(* initHealthCheck: a verdict, or FAILED on its own timeout.               *)
InitHealthCheck ==
  /\ At("launch", "health")
  /\ \E v \in {"RUNNING", "FAILED", "FINISHED"}, listed \in BOOLEAN :
       /\ v = "RUNNING" => listed
       /\ Verdict(v, listed)
       /\ res' = v
       /\ IF v = "FAILED"
            THEN Cancel /\ Enter("launch", "check", "FAILED", "postLaunch")
            ELSE Goto("launch", "postLaunch") /\ UNCHANGED ctx
  /\ UNCHANGED <<podStatus, launched, attempted, ch, driver, exited,
                 sent, task, cleaned, raced, shut>>

ReportFinished_Lost == Cancel /\ Goto("launch", "done")   \* a bug: no report

(* An ad hoc job that is over before the launch is.                        *)
ReportFinished == Cancel /\ Enter("launch", "check", "FINISHED", "done")

(* The PostLaunchTask plugins; unless one returns POD_FAILED, res decides. *)
(* A panic there is recovered and counts as no answer.                     *)
PostLaunchTask ==
  /\ At("launch", "postLaunch")
  /\ \/ Cancel /\ Enter("launch", "check", "FAILED", "done")
     \/ /\ res = "RUNNING"
        /\ Cancel
        /\ IF podStatus # "RUNNING" THEN Enter("launch", "check", "RUNNING", "watch")
                                    ELSE Goto("launch", "done")
     \/ res = "FINISHED" /\ ReportFinished
     \/ res = "FAILED" /\ Goto("launch", "done") /\ UNCHANGED ctx
  /\ UNCHANGED <<shared, res, ch, driver, exited, pod, history>>

(* go MonitorPoller, whether or not RUNNING was reported.                  *)
StartMonitor ==
  /\ At("launch", "watch")
  /\ pc' = [pc EXCEPT !["launch"] = "done", !["monitor"] = "poll"]
  /\ UNCHANGED <<shared, res, ctx, status, seen, back, ch, driver, exited, pod, history>>

Launch == \/ ArmDeadline
          \/ \E s \in DOMAIN EarlySteps : EarlyStep(s)
          \/ \E s \in DOMAIN WriteSteps : WriteFiles(s)
          \/ BeginUp \/ EndUp \/ InitHealthCheck \/ PostLaunchTask \/ StartMonitor

-----------------------------------------------------------------------------
(* The other goroutines and callbacks.                                     *)

(* The launch timeout fires.                                               *)
Deadline ==
  /\ ~exited /\ ctx = "active"
  /\ ctx' = "expired"
  /\ UNCHANGED <<shared, res, threadVars, ch, driver, exited, pod, history>>

OnDeadline_Dump == Goto("wait", "done")         \* a bug: dumps, reports nothing

OnDeadline == Enter("wait", "check", "FAILED", "done")

WaitOnPod ==
  /\ At("wait", "waiting")
  /\ \/ ctx = "expired" /\ OnDeadline
     \/ ctx = "cancelled" /\ Goto("wait", "done")
  /\ UNCHANGED <<shared, res, ctx, ch, driver, exited, pod, history>>

(* The default monitor polls until it has a verdict.                       *)
MonitorVerdict ==
  /\ At("monitor", "poll")
  /\ \E v \in {"FAILED", "FINISHED"}, listed \in BOOLEAN :
       /\ listed => monitored
       /\ Verdict(v, listed)
       /\ Enter("monitor", "check", v, "done")
  /\ UNCHANGED <<podStatus, launched, attempted, res, ctx, ch, driver, exited,
                 sent, task, cleaned, raced, shut>>

(* KillTask reads the status, then acts on what it read; every path ends   *)
(* in the deferred driver.Stop.                                            *)
KillTask(k) ==
  /\ pc[k] = "idle" /\ MayCallBack
  /\ pc["launch"] # "idle"
  /\ seen' = [seen EXCEPT ![k] = podStatus]
  /\ pc' = [pc EXCEPT ![k] = IF podStatus = "RUNNING" THEN "mark" ELSE "stopDriver"]
  /\ UNCHANGED <<shared, status, back, res, ctx, ch, driver, exited, pod, history>>

MarkKilled(k) ==
  /\ At(k, "mark")
  /\ podStatus' = "KILLED"
  /\ raced' = (raced \/ podStatus # seen[k])
  /\ Enter(k, "stop", "KILLED", "stopDriver")
  /\ UNCHANGED <<launched, attempted, monitored, res, ctx, ch, driver, exited, pod,
                 sent, task, cleaned, faults, shut>>

KillStopsDriver(k) ==
  /\ At(k, "stopDriver")
  /\ driver' = "stopped"
  /\ Goto(k, "done")
  /\ UNCHANGED <<shared, res, ctx, ch, exited, pod, history>>

Kill(k) == MarkKilled(k) \/ KillStopsDriver(k)

Shutdown ==
  /\ MayCallBack
  /\ shut' = TRUE
  /\ driver' = "stopped"
  /\ UNCHANGED <<shared, res, ctx, threadVars, ch, exited, pod, sent, task, cleaned, faults, raced>>

(* ListenOnTaskStatus: hooks run for RUNNING and FAILED, the driver stops  *)
(* after FAILED and FINISHED, other states are dropped.                    *)
ReceiveStatus ==
  /\ At("listener", "recv") /\ ch # <<>>
  /\ ch' = Tail(ch)
  /\ IF Head(ch) \in {"RUNNING", "FAILED", "FINISHED"}
       THEN Enter("listener", "act", Head(ch), "recv")
       ELSE UNCHANGED threadVars
  /\ UNCHANGED <<shared, res, ctx, driver, exited, pod, history>>

StopsDriver_Always(s) == TRUE                    \* a bug: RUNNING stops it too
StopsDriver_Failed(s) == s = "FAILED"            \* a bug: FINISHED does not

StopsDriver(s) == s \in {"FAILED", "FINISHED"}

ActOnStatus ==
  /\ At("listener", "act")
  /\ driver' = IF StopsDriver(status["listener"]) THEN "stopped" ELSE driver
  /\ Goto("listener", "recv")
  /\ UNCHANGED <<shared, res, ctx, ch, exited, pod, history>>

(* driver.Join returns in main once the driver stopped, and the process    *)
(* ends wherever its goroutines are.                                       *)
Exit ==
  /\ driver = "stopped" /\ ~exited
  /\ exited' = TRUE
  /\ UNCHANGED <<shared, res, ctx, threadVars, ch, driver, pod, history>>

Exited == exited /\ UNCHANGED vars

Listen == ReceiveStatus \/ ActOnStatus

Next == \/ LaunchTask \/ Launch \/ Deadline \/ WaitOnPod \/ MonitorVerdict
        \/ \E t \in Reporters : Report(t)
        \/ \E k \in Kills : KillTask(k) \/ Kill(k)
        \/ Shutdown \/ Listen \/ Exit \/ Exited

Spec == Init /\ [][Next]_vars

(* The Go scheduler runs every runnable goroutine, docker commands and     *)
(* plugins return, and health checking ends at its timeout.  Nothing makes *)
(* Mesos kill, a deadline fire or a monitor reach a verdict.               *)
Fairness == /\ WF_vars(Launch) /\ WF_vars(WaitOnPod) /\ WF_vars(Listen)
            /\ WF_vars(Exit)
            /\ \A t \in Reporters : WF_vars(Report(t))
            /\ \A k \in Kills : WF_vars(Kill(k))

FairSpec == Spec /\ Fairness
=============================================================================
