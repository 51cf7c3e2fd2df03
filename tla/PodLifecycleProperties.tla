----------------------- MODULE PodLifecycleProperties -----------------------
(***************************************************************************)
(* What PodLifecycle should guarantee, whatever the interleaving, the      *)
(* deadline and the kills do.  Where the code gives a weaker promise the   *)
(* property says so: it excepts the environment errors in faults, a launch *)
(* that went on past its deadline, and a status that changed between the   *)
(* check and the set of another thread (raced).                            *)
(***************************************************************************)
EXTENDS PodLifecycle

Asked == shut \/ \E k \in Kills : pc[k] # "idle"

-----------------------------------------------------------------------------
(* Safety *)

(* The executor stops its driver only when the agent has an outcome or a   *)
(* KillTask or Shutdown asked for it: no path through ListenOnTaskStatus   *)
(* (pod.go:1352) acts on an update the agent did not get.                  *)
StopIsExplained == driver = "stopped" => task \in Outcomes \/ Asked

(* A task gets at most one outcome, although the launch, the deadline, the *)
(* monitor and KillTask all report one: the check of SendPodStatus         *)
(* (pod.go:883-888) stops the late ones.                                   *)
SingleOutcome ==
  ~raced /\ faults \cap {"write", "late"} = {} =>
    \A i, j \in DOMAIN sent : sent[i] \in Outcomes /\ sent[j] \in Outcomes => i = j

(* TASK_RUNNING is only ever the second update, right after TASK_STARTING: *)
(* never repeated, and never after an outcome, though the monitor, the     *)
(* deadline and the launch all report (main.go:303-315).  A callback that  *)
(* runs beside LaunchTask could kill between the status and the update.    *)
RunningInOrder ==
  ctx # "expired" /\ SerialCallbacks =>
    \A i \in DOMAIN sent : sent[i] = "RUNNING" => i = 2 /\ sent[1] = "STARTING"

(* The executor does not leave a pod behind: when its driver has stopped   *)
(* and the agent has an outcome, whoever reported it and whoever stopped   *)
(* the driver, no container runs, now or later, and the PostKillTask       *)
(* plugins (networks, volumes, images) have run if docker-compose up was   *)
(* attempted (pod.go:893-927, 1352-1382, main.go:343-357).                 *)
ConcludedPodIsDown ==
  faults = {} /\ driver = "stopped" /\ task \in Outcomes => pod # "up" /\ (attempted => cleaned)

(* The executor's interface to Mesos is the abstract TaskLifecycle.        *)
TL == INSTANCE TaskLifecycle WITH asked <- Asked
ImplementsLifecycle == TL!TLSpec

(* The inductive invariant behind StopIsExplained and ImplementsLifecycle. *)
(* An outcome on its way to the listener is one the agent already has;     *)
Told ==
  /\ \A t \in Reporters :
       pc[t] = "push" /\ TaskStateOf(status[t]) \in Outcomes => task \in Outcomes
  /\ \A i \in DOMAIN ch : ch[i] \in Outcomes => task \in Outcomes
  /\ pc["listener"] = "act" /\ StopsDriver(status["listener"]) => task \in Outcomes

(* until TASK_STARTING is accepted nobody but LaunchTask is under way;     *)
NotYetStarted ==
  task = "STAGING" /\ driver = "running" =>
    /\ podStatus \in {"STAGING", "STARTING"}
    /\ pc["launch"] = "idle" \/ (pc["launch"] = "send" /\ status["launch"] = "STARTING")
    /\ pc["wait"] = "idle" /\ pc["monitor"] = "idle"
    /\ \A k \in Kills : pc[k] \in {"idle", "stopDriver"}

(* and each thread reports only what is its to report.                     *)
OwnReports ==
  /\ \A t \in Reporters : pc[t] \in SendLabels =>
       /\ status[t] = "KILLED" => t \in Kills
       /\ status[t] = "STARTING" => t = "launch" /\ pc[t] \in {"send", "push"}
  /\ pc["launch"] = "idle" \/ (pc["launch"] = "send" /\ status["launch"] = "STARTING")
       => task = "STAGING"

IInv == TypeOK /\ StopIsExplained /\ Told /\ NotYetStarted /\ OwnReports

(* The inductive invariant behind the other four.  The launch has not said *)
(* that it runs docker-compose up;                                         *)
Starting == \/ pc["launch"] \in {"idle", "arm"}
            \/ pc["launch"] \in {"send", "push"} /\ status["launch"] = "STARTING"
UpLabels == {"prePlugins", "write1", "validate", "pull", "postPlugins", "write2", "up", "upping"}
EarlyDays ==
  Starting \/ (pc["launch"] \in UpLabels /\ "write" \notin faults /\ ctx # "expired")

(* while it has not, nothing failed and the deadline has not passed,       *)
(* nobody else reports and there is no pod;                                *)
LaunchFirst ==
  /\ EarlyDays => /\ podStatus \in {"STAGING", "STARTING"} /\ task \notin Outcomes
                  /\ pc["wait"] \in {"idle", "waiting", "done"}
                  /\ \A k \in Kills : pc[k] \in {"idle", "stopDriver", "done"}
                  /\ pod # "up" /\ (pc["launch"] # "upping" => ~attempted)
  /\ Starting <=> ctx = "none"
  /\ Starting => pc["wait"] = "idle"
  /\ pc["launch"] = "idle" => podStatus = "STAGING" /\ sent = <<>>
  /\ pc["launch"] = "upping" \/ pod = "up" => attempted
  /\ pc["monitor"] # "idle" => pc["launch"] = "done"

(* each thread comes to the reporting routines with statuses of its own    *)
(* and leaves them for labels of its own;                                  *)
LaunchReturns == [STARTING |-> {"arm"}, RUNNING |-> {"watch"}, FINISHED |-> {"done"},
                  FAILED |-> {"done", "postLaunch", "validate", "up"},
                  PULL_FAILED |-> {"done"}, COMPOSE_CHECK_FAILED |-> {"done"}]
Reporting(t) ==
  /\ pc[t] \in {"check", "set", "route"} => status[t] \in {"RUNNING", "FAILED", "FINISHED"}
  /\ pc[t] \in {"stop", "clean"} => status[t] \in {"FAILED", "FINISHED", "KILLED"}
  /\ t \in Kills => /\ status[t] = "KILLED" /\ back[t] = "stopDriver"
                    /\ pc[t] \notin {"check", "set", "route"}
  /\ t = "wait" => status[t] = "FAILED" /\ back[t] = "done"
  /\ t = "monitor" => status[t] \in {"FAILED", "FINISHED"} /\ back[t] = "done"
  /\ t = "launch" => /\ status[t] \in DOMAIN LaunchReturns /\ back[t] \in LaunchReturns[status[t]]
                     /\ back[t] \in {"validate", "up"} => "write" \in faults
ReportsAndReturns ==
  /\ \A t \in Reporters : pc[t] \in SendLabels => Reporting(t)
  /\ \A k \in Kills : pc[k] = "mark" => seen[k] = "RUNNING"

(* a pod that finished with nothing left to monitor is down;               *)
FinishedIsDown ==
  /\ pc["launch"] \in SendLabels /\ back["launch"] = "postLaunch" => res = "FAILED"
  /\ faults = {} /\ ~monitored =>
       /\ pc["launch"] = "postLaunch" /\ res = "FINISHED" => pod # "up"
       /\ \A t \in {"launch", "monitor"} :
            pc[t] \in {"check", "set", "route"} /\ status[t] = "FINISHED" => pod # "up"

(* an outcome is sent, or was, when the pod is down and cleaned;           *)
DownAndCleaned ==
  faults = {} =>
    /\ \A t \in Reporters : TaskStateOf(status[t]) \in Outcomes =>
         /\ pc[t] \in {"clean", "send"} => pod # "up"
         /\ pc[t] = "send" /\ attempted => cleaned
    /\ task \in Outcomes => pod # "up" /\ (attempted => cleaned)

(* the thread that concludes the pod is the only one, and the first;       *)
Final == Outcomes \cup CheckFailures
Undisturbed == ~raced /\ faults \cap {"write", "late"} = {}
Concludes(t) == /\ pc[t] \in {"route", "stop", "clean", "send"}
                /\ TaskStateOf(status[t]) \in Outcomes
OutcomeSent == \E i \in DOMAIN sent : sent[i] \in Outcomes
OneConcludes ==
  Undisturbed =>
    /\ podStatus \notin Final => ~OutcomeSent /\ \A t \in Reporters : ~Concludes(t)
    /\ \A t \in Reporters : Concludes(t) =>
         ~OutcomeSent /\ \A u \in Reporters : Concludes(u) => u = t
    /\ \A t \in Reporters : pc[t] = "set" => seen[t] \notin Final \cup {status[t]}
    /\ podStatus \in CheckFailures =>
         /\ ctx = "cancelled" /\ pc["launch"] \in {"send", "push", "done"}
         /\ pc["launch"] # "done" => status["launch"] \in CheckFailures
         /\ \A t \in Reporters : pc[t] \notin {"check", "set", "mark", "poll"}

(* and until the launch is over it is alone in reporting, so that the      *)
(* status tells what was sent.                                             *)
OnlyStarting == driver = "running" => sent = <<"STARTING">>
LaunchAlone ==
  ctx # "expired" /\ SerialCallbacks /\ pc["launch"] # "done" =>
    /\ pc["wait"] \in {"idle", "waiting", "done"} /\ \A k \in Kills : pc[k] = "idle"
    /\ pc["launch"] = "send" /\ status["launch"] = "STARTING" => sent = <<>>
    /\ pc["launch"] # "idle" => podStatus # "STAGING"
    /\ podStatus = "STARTING" =>
         OnlyStarting \/ (pc["launch"] = "send" /\ status["launch"] = "STARTING")
    /\ podStatus \in CheckFailures =>
         pc["launch"] \in {"send", "push"} /\ status["launch"] \in CheckFailures
    /\ pc["launch"] \in {"route", "stop", "clean", "send", "push"} =>
         status["launch"] = "STARTING" \/ podStatus # "STARTING"
    /\ pc["launch"] \in {"set", "route", "send"} /\ status["launch"] = "RUNNING" =>
         OnlyStarting /\ (pc["launch"] = "set" => podStatus = "STARTING")

OutcomeInv == /\ IInv /\ LaunchFirst /\ ReportsAndReturns /\ FinishedIsDown
              /\ DownAndCleaned /\ OneConcludes /\ SingleOutcome
              /\ LaunchAlone /\ RunningInOrder

-----------------------------------------------------------------------------
(* Liveness, under Fairness *)

(* Every launch is resolved: it runs, has an outcome or the executor has   *)
(* been told to leave (main.go:73-327).                                    *)
LaunchResolves ==
  pc["launch"] # "idle" ~> task \in {"RUNNING"} \cup Outcomes \/ driver = "stopped"

(* An expired deadline always ends in an outcome (pod.go:995-1014).        *)
DeadlineConcludes == ctx = "expired" ~> task \in Outcomes \/ driver = "stopped"

(* An outcome, or a KillTask or Shutdown in whatever state, ends the       *)
(* process: the capacity-1 channel never wedges the threads that push on   *)
(* it and the one that drains it (pod.go:968-974, 1352-1391).              *)
ExecutorLeaves == task \in Outcomes \/ Asked ~> exited

-----------------------------------------------------------------------------
(* Statements of the documentation the code does not keep.                 *)

(* docs/how-to-develop.md:36, a KillTask that finds the pod failed is a    *)
(* no-op: the failure being reported still reaches the agent.              *)
KillOfFailedIsNoOp ==
  \A k \in Kills : pc[k] = "done" /\ seen[k] = "FAILED" => task \in Outcomes \/ shut

(* pod.go:897, a finished pod is stopped after the status is sent to       *)
(* Mesos, and plugin/type.go:42, PostKillTask is executed after a kill is: *)
(* a finished or killed pod that still had containers, and is down with    *)
(* its PostKillTask run, has its status sent.                              *)
StopFollowsReport ==
  podStatus \in {"FINISHED", "KILLED"} /\ monitored /\ pod = "down" /\ cleaned =>
    \E i \in DOMAIN sent : sent[i] = podStatus
=============================================================================
