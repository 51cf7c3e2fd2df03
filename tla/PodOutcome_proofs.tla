-------------------------- MODULE PodOutcome_proofs --------------------------
(***************************************************************************)
(* Proofs that a pod has one outcome, and that its containers are down and *)
(* cleaned when the agent has it: OutcomeInv is inductive, for every set   *)
(* of KillTask callbacks, both callback modes and both kinds of task.      *)
(***************************************************************************)
EXTENDS PodLifecycle_proofs

(* What the type invariant says of the threads.                            *)
LEMMA ThreadTypes ==
  ASSUME IInv
  PROVE  /\ pc \in [Threads -> Labels] /\ seen \in [Threads -> PodStatuses]
         /\ status \in [Threads -> PodStatuses \ {"STAGING"}]
         /\ back \in [Threads -> Returns]
         /\ Reporters \subseteq Threads /\ Kills \subseteq Threads
         /\ {"launch", "wait", "monitor", "listener"} \subseteq Threads
  BY ThreadFacts DEF IInv, TypeOK

(* Faults, and that a status was overtaken, stay on record.                *)
LEMMA FaultsGrow == ASSUME [Next]_vars PROVE faults \subseteq faults' /\ (raced => raced')
<1> USE DEF history
<1>1. CASE \E t \in Reporters : Report(t)
  <2>1. CASE \E t \in Reporters : SetStatus(t)
    BY <2>1 DEF SetStatus
  <2> QED
    BY <1>1, <2>1 DEF Report, CheckStatus, RouteStatus, StopContainers, PostKillPlugins,
       SendUpdate, PushStatus
<1>2. CASE LaunchTask \/ Launch
  BY <1>2 DEF LaunchTask, Launch, ArmDeadline, EarlyStep, FailEarly, WriteFiles, BeginUp, EndUp,
     InitHealthCheck, Verdict, PostLaunchTask, StartMonitor, NoteLate
<1>3. CASE Deadline \/ WaitOnPod \/ MonitorVerdict \/ \E k \in Kills : KillTask(k) \/ Kill(k)
  <2>1. CASE \E k \in Kills : MarkKilled(k)
    BY <2>1 DEF MarkKilled
  <2> QED
    BY <1>3, <2>1 DEF Deadline, WaitOnPod, MonitorVerdict, Verdict, KillTask, Kill, KillStopsDriver
<1>4. CASE Shutdown \/ Listen \/ Exit \/ Exited \/ UNCHANGED vars
  BY <1>4 DEF Shutdown, Listen, ReceiveStatus, ActOnStatus, Exit, Exited, vars
<1> QED
  BY <1>1, <1>2, <1>3, <1>4 DEF Next

-----------------------------------------------------------------------------
(* Each thread reports its own statuses and returns to its own labels.     *)

(* A step of the reporting routines keeps the thread's status and return   *)
(* label and takes it to the next routine, or out to that label.           *)
NextLabels(t) ==
  CASE pc[t] = "check" -> {"set", back[t]}
    [] pc[t] = "set"   -> {"route"}
    [] pc[t] = "route" -> {CleanupFor(status[t])}
    [] pc[t] = "stop"  -> {"clean", "send"}
    [] pc[t] = "clean" -> {"send"}
    [] pc[t] = "send"  -> {"push", back[t]}
    [] pc[t] = "push"  -> {back[t]}

LEMMA ReportMoves ==
  ASSUME IInv, NEW t \in Reporters, Report(t)
  PROVE  /\ pc[t] \in SendLabels /\ status' = status /\ back' = back
         /\ pc'[t] \in NextLabels(t) /\ back[t] \notin SendLabels \cup {"idle"}
         /\ \A u \in Threads \ {t} : pc'[u] = pc[u] /\ seen'[u] = seen[u]
<1>1. /\ pc[t] \in SendLabels /\ status' = status /\ back' = back
      /\ \A u \in Threads \ {t} : pc'[u] = pc[u] /\ seen'[u] = seen[u]
  BY ThreadTypes DEF Report, CheckStatus, SetStatus, RouteStatus, StopContainers,
     PostKillPlugins, SendUpdate, PushStatus, At, Goto, SendLabels, threadVars
<1>2. pc'[t] \in NextLabels(t)
  BY ThreadTypes DEF Report, CheckStatus, SetStatus, RouteStatus, StopContainers,
     PostKillPlugins, SendUpdate, PushStatus, At, Goto, NextLabels
<1>3. back[t] \notin SendLabels \cup {"idle"}
  BY ThreadTypes DEF Returns
<1> QED
  BY <1>1, <1>2, <1>3

(* So a report remains what its thread may report.                         *)
LEMMA ReportReturns ==
  ASSUME IInv, ReportsAndReturns, NEW t \in Reporters, Report(t), faults \subseteq faults'
  PROVE  ReportsAndReturns'
<1>1. Reporting(t) /\ t \in Threads
  BY ReportMoves, ThreadFacts DEF ReportsAndReturns
<1>2. ASSUME pc'[t] \in SendLabels PROVE Reporting(t)'
  <2>1. pc'[t] \in {"check", "set", "route"} => pc[t] \in {"check", "set"}
    BY <1>1, <1>2, ReportMoves DEF NextLabels, CleanupFor, SendLabels
  <2>2. pc'[t] \in {"stop", "clean"} =>
          pc[t] = "stop" \/ (pc[t] = "route" /\ status[t] \in {"FAILED", "FINISHED"})
    BY <1>1, <1>2, ReportMoves DEF NextLabels, CleanupFor, SendLabels, Reporting
  <2> QED
    BY <1>1, <2>1, <2>2, ReportMoves DEF Reporting
<1>3. \A u \in Reporters \ {t} : pc'[u] \in SendLabels => Reporting(u)'
  BY <1>1, ReportMoves, ThreadFacts DEF ReportsAndReturns, Reporting
<1>4. \A k \in Kills : pc'[k] = "mark" => seen'[k] = "RUNNING"
  <2>1. t \in Kills => pc'[t] # "mark"
    BY <1>1, ReportMoves DEF NextLabels, CleanupFor, SendLabels, Reporting
  <2> QED
    BY <2>1, ReportMoves, ThreadFacts DEF ReportsAndReturns
<1> QED
  BY <1>2, <1>3, <1>4 DEF ReportsAndReturns

(* Entering them is done with a status and a return label of the thread's. *)
LEMMA EnterReturns ==
  ASSUME IInv, ReportsAndReturns, NEW t \in Reporters, NEW l, NEW s, NEW b, Enter(t, l, s, b),
         faults \subseteq faults', Reporting(t)', l # "mark"
  PROVE  ReportsAndReturns'
<1>1. /\ pc'[t] = l /\ seen' = seen
      /\ \A u \in Threads \ {t} : pc'[u] = pc[u] /\ status'[u] = status[u] /\ back'[u] = back[u]
  BY ThreadTypes DEF Enter
<1>2. \A u \in Reporters \ {t} : pc'[u] \in SendLabels => Reporting(u)'
  BY <1>1, ThreadFacts DEF ReportsAndReturns, Reporting
<1> QED
  BY <1>1, <1>2, ThreadFacts DEF ReportsAndReturns

(* What a thread that enters the routines reports.                         *)
LEMMA EnterSets ==
  ASSUME IInv, NEW t \in Reporters, NEW l, NEW s, NEW b, Enter(t, l, s, b)
  PROVE  /\ pc'[t] = l /\ status'[t] = s /\ back'[t] = b /\ seen' = seen
         /\ \A u \in Threads \ {t} : pc'[u] = pc[u] /\ status'[u] = status[u] /\ back'[u] = back[u]
  BY ThreadTypes DEF Enter

(* Moving on outside the routines changes nothing about the reports.       *)
LEMMA GotoReturns ==
  ASSUME IInv, ReportsAndReturns, NEW t \in Reporters, NEW l, Goto(t, l),
         faults \subseteq faults', l \notin SendLabels \cup {"mark"}
  PROVE  ReportsAndReturns'
<1>1. pc'[t] = l /\ \A u \in Threads \ {t} : pc'[u] = pc[u]
  BY ThreadTypes DEF Goto
<1> QED
  BY <1>1, ThreadFacts DEF Goto, ReportsAndReturns, Reporting

(* LaunchTask and its steps report what is the launch's to report.         *)
LEMMA LaunchReturnsKept ==
  ASSUME IInv, ReportsAndReturns, LaunchTask \/ Launch, faults \subseteq faults'
  PROVE  ReportsAndReturns'
<1>0. /\ "launch" \in Reporters /\ "launch" \notin Kills \cup {"wait", "monitor"}
      /\ UpLabels \cap (SendLabels \cup {"mark"}) = {}
      /\ {"health", "postLaunch", "watch", "done"} \cap (SendLabels \cup {"mark"}) = {}
  BY ThreadFacts DEF UpLabels, SendLabels
<1>1. ASSUME NEW l \in {"check", "send"}, NEW s \in DOMAIN LaunchReturns, NEW b \in LaunchReturns[s],
             Enter("launch", l, s, b), b \in {"validate", "up"} => "write" \in faults',
             l = "check" => s \in {"RUNNING", "FAILED", "FINISHED"}
      PROVE  ReportsAndReturns'
  <2>1. Reporting("launch")'
    BY <1>0, <1>1, EnterSets DEF Reporting
  <2> QED
    BY <1>0, <1>1, <2>1, EnterReturns
<1>2. CASE LaunchTask \/ ArmDeadline \/ StartMonitor
  <2>1. /\ seen' = seen /\ \A u \in Reporters \ {"launch"} :
                /\ status'[u] = status[u] /\ back'[u] = back[u]
                /\ pc'[u] = pc[u] \/ pc'[u] \in {"waiting", "poll"}
    BY <1>2, ThreadTypes, ThreadFacts DEF LaunchTask, ArmDeadline, StartMonitor
  <2>2. pc'["launch"] \in SendLabels => Reporting("launch")'
    <3>1. CASE LaunchTask
      <4>1. pc'["launch"] = "send" /\ status'["launch"] = "STARTING" /\ back'["launch"] = "arm"
        BY <3>1, ThreadTypes DEF LaunchTask
      <4>2. "STARTING" \in DOMAIN LaunchReturns /\ "arm" \in LaunchReturns["STARTING"]
        BY DEF LaunchReturns
      <4> QED
        BY <1>0, <4>1, <4>2 DEF Reporting
    <3>2. CASE ArmDeadline \/ StartMonitor
      BY <3>2, ThreadTypes DEF ArmDeadline, StartMonitor, SendLabels
    <3> QED
      BY <1>2, <3>1, <3>2
  <2> QED
    BY <1>0, <2>1, <2>2, ThreadFacts, SendLabelFacts DEF ReportsAndReturns, Reporting
<1>3. CASE \E s \in DOMAIN EarlySteps : EarlyStep(s)
  <2> PICK s \in DOMAIN EarlySteps : EarlyStep(s)
    BY <1>3
  <2>1. /\ EarlySteps[s].next \in UpLabels
        /\ EarlySteps[s].fail \in DOMAIN LaunchReturns /\ "done" \in LaunchReturns[EarlySteps[s].fail]
    BY DEF EarlySteps, UpLabels, LaunchReturns
  <2> QED
    BY <1>0, <1>1, <2>1, GotoReturns DEF EarlyStep, FailEarly
<1>4. CASE \E s \in DOMAIN WriteSteps : WriteFiles(s)
  <2> PICK s \in DOMAIN WriteSteps : WriteFiles(s)
    BY <1>4
  <2>1. /\ WriteSteps[s] \in UpLabels /\ "FAILED" \in DOMAIN LaunchReturns
        /\ WriteSteps[s] \in LaunchReturns["FAILED"]
    BY DEF WriteSteps, UpLabels, LaunchReturns
  <2> QED
    BY <1>0, <1>1, <2>1, GotoReturns DEF WriteFiles, FailEarly
<1>5. CASE BeginUp \/ EndUp \/ InitHealthCheck \/ PostLaunchTask
  <2>1. /\ {"RUNNING", "FAILED", "FINISHED"} \subseteq DOMAIN LaunchReturns
        /\ {"done", "postLaunch"} \subseteq LaunchReturns["FAILED"]
        /\ "watch" \in LaunchReturns["RUNNING"] /\ "done" \in LaunchReturns["FINISHED"]
        /\ "upping" \in UpLabels
    BY DEF LaunchReturns, UpLabels
  <2> QED
    BY <1>0, <1>1, <1>5, <2>1, GotoReturns
       DEF BeginUp, EndUp, InitHealthCheck, PostLaunchTask, ReportFinished
<1> QED
  BY <1>2, <1>3, <1>4, <1>5 DEF Launch

(* Every step keeps it.                                                    *)
LEMMA ReturnsStep ==
  ASSUME IInv, ReportsAndReturns, [Next]_vars
  PROVE  ReportsAndReturns'
<1>0. faults \subseteq faults'
  BY FaultsGrow
<1>1. CASE Deadline \/ Shutdown \/ Exit \/ Exited \/ UNCHANGED vars
  BY <1>0, <1>1 DEF Deadline, Shutdown, Exit, Exited, vars, threadVars, ReportsAndReturns, Reporting
<1>2. CASE WaitOnPod
  BY <1>0, <1>2, GotoReturns, EnterReturns, EnterSets, ThreadFacts
     DEF WaitOnPod, OnDeadline, Reporting, SendLabels
<1>3. CASE MonitorVerdict
  BY <1>0, <1>3, EnterReturns, EnterSets, ThreadFacts DEF MonitorVerdict, Reporting, SendLabels
<1>4. CASE \E k \in Kills : KillTask(k) \/ Kill(k)
  <2> PICK k \in Kills : KillTask(k) \/ Kill(k)
    BY <1>4
  <2>0. k \in Reporters /\ k \notin {"launch", "wait", "monitor"}
    BY ThreadFacts
  <2>1. CASE KillTask(k)
    <3>1. /\ UNCHANGED <<status, back>> /\ pc'[k] \in {"mark", "stopDriver"}
          /\ pc'[k] = "mark" => seen'[k] = "RUNNING"
          /\ \A u \in Threads \ {k} : pc'[u] = pc[u] /\ seen'[u] = seen[u]
      BY <2>1, ThreadTypes DEF KillTask
    <3> QED
      BY <1>0, <2>0, <3>1, ThreadFacts DEF ReportsAndReturns, Reporting, SendLabels
  <2>2. CASE MarkKilled(k)
    BY <1>0, <2>0, <2>2, EnterReturns, EnterSets DEF MarkKilled, Reporting
  <2>3. CASE KillStopsDriver(k)
    BY <1>0, <2>0, <2>3, GotoReturns DEF KillStopsDriver, SendLabels
  <2> QED
    BY <2>1, <2>2, <2>3 DEF Kill
<1>5. CASE Listen
  <2>1. /\ seen' = seen
        /\ \A u \in Reporters : pc'[u] = pc[u] /\ status'[u] = status[u] /\ back'[u] = back[u]
    BY <1>5, ThreadTypes, ThreadFacts DEF Listen, ReceiveStatus, ActOnStatus, Enter, Goto, threadVars
  <2> QED
    BY <1>0, <2>1, ThreadFacts DEF ReportsAndReturns, Reporting
<1> QED
  BY <1>0, <1>1, <1>2, <1>3, <1>4, <1>5, ReportReturns, LaunchReturnsKept DEF Next

-----------------------------------------------------------------------------
(* Until docker-compose up has returned, nobody but the launch reports.    *)

(* A reporting thread keeps LaunchFirst: it is the launch, and TASK_STARTING *)
(* leads only to the rest of the launch, or the early days are over.       *)
LEMMA ReportFirst ==
  ASSUME IInv, LaunchFirst, ReportsAndReturns, NEW t \in Reporters, Report(t),
         faults \subseteq faults'
  PROVE  LaunchFirst'
<1>1. /\ UNCHANGED <<ctx, attempted>> /\ (pod' = "up" => pod = "up")
      /\ podStatus' = podStatus \/ pc[t] = "set"
      /\ pc[t] # "send" => UNCHANGED <<task, sent>>
      /\ pc[t] = "send" => task' \in {task, TaskStateOf(status[t])}
  BY DEF Report, CheckStatus, SetStatus, RouteStatus, StopContainers, PostKillPlugins, SendUpdate,
     PushStatus, At, history, shared
<1>2. /\ pc[t] \in SendLabels /\ Reporting(t) /\ status' = status
      /\ pc'[t] \in NextLabels(t) /\ back[t] \notin SendLabels \cup {"idle"}
      /\ \A u \in Threads \ {t} : pc'[u] = pc[u]
  BY ReportMoves DEF ReportsAndReturns
<1>3. CASE t = "launch"
  <2>0. \A u \in Kills \cup {"wait", "monitor"} : pc'[u] = pc[u]
    BY <1>2, <1>3, ThreadFacts
  <2>1. CASE Starting
    <3>1. status["launch"] = "STARTING" /\ back["launch"] = "arm" /\ pc["launch"] \in {"send", "push"}
      BY <1>2, <1>3, <2>1 DEF Starting, SendLabels, Reporting, LaunchReturns
    <3>2. pc'["launch"] \in {"push", "arm"} /\ Starting'
      BY <1>2, <1>3, <3>1 DEF Starting, NextLabels
    <3>3. task' \notin Outcomes
      BY <1>1, <1>3, <2>1, <3>1 DEF LaunchFirst, EarlyDays, TaskStateOf, CheckFailures, Outcomes
    <3> QED
      BY <1>1, <1>3, <2>0, <2>1, <3>1, <3>2, <3>3 DEF LaunchFirst, EarlyDays
  <2>2. CASE ~Starting
    <3>1. back["launch"] \notin {"idle", "arm", "upping"} /\ status["launch"] # "STARTING"
      BY <1>2, <1>3, <2>2 DEF Starting, Reporting, LaunchReturns, SendLabels
    <3>2. back["launch"] \in UpLabels => "write" \in faults
      BY <1>2, <1>3 DEF Reporting, LaunchReturns, UpLabels
    <3>3. pc'["launch"] \in SendLabels \cup {back["launch"]}
      BY <1>2, <1>3 DEF NextLabels, CleanupFor, SendLabels
    <3>4. ~Starting' /\ ~EarlyDays' /\ pc'["launch"] \notin {"idle", "upping"}
      BY <1>2, <3>1, <3>2, <3>3, faults \subseteq faults' DEF Starting, EarlyDays, UpLabels, SendLabels
    <3>5. pc["launch"] # "done" /\ pc["launch"] # "idle"
      BY <1>2, <1>3 DEF SendLabels
    <3> QED
      BY <1>1, <2>0, <2>2, <3>4, <3>5 DEF LaunchFirst
  <2> QED
    BY <2>1, <2>2
<1>4. CASE t # "launch"
  <2>1. pc'["launch"] = pc["launch"] /\ status'["launch"] = status["launch"]
    BY <1>2, <1>4, ThreadFacts
  <2>2. ~EarlyDays
    BY <1>2, <1>4, ThreadFacts DEF LaunchFirst, SendLabels, EarlyDays, Starting, UpLabels
  <2>3. ~EarlyDays' /\ ~Starting /\ ~Starting'
    BY <1>1, <2>1, <2>2 DEF EarlyDays, Starting
  <2>4. pc'["monitor"] # "idle" => pc["monitor"] # "idle"
    BY <1>2, ThreadFacts DEF SendLabels
  <2> QED
    BY <1>1, <2>1, <2>3, <2>4 DEF LaunchFirst, Starting
<1> QED
  BY <1>3, <1>4

(* So does every step of LaunchTask.                                       *)
LEMMA LaunchFirstKept ==
  ASSUME IInv, LaunchFirst, LaunchTask \/ Launch, faults \subseteq faults'
  PROVE  LaunchFirst'
<1>0. /\ "launch" \in Reporters /\ {"launch", "wait", "monitor"} \cap Kills = {}
      /\ UpLabels \cap {"idle", "arm", "send", "push", "done"} = {}
  BY ThreadFacts DEF UpLabels
<1>1. CASE LaunchTask
  <2>1. /\ pc["launch"] = "idle" /\ pc'["launch"] = "send" /\ status'["launch"] = "STARTING"
        /\ \A u \in Kills \cup {"wait", "monitor"} : pc'[u] = pc[u]
        /\ podStatus' = "STARTING" /\ UNCHANGED <<attempted, ctx, pod, task, sent>>
    BY <1>0, <1>1, ThreadTypes, ThreadFacts DEF LaunchTask, history
  <2> QED
    BY <1>0, <2>1 DEF LaunchFirst, EarlyDays, Starting
<1>2. CASE ArmDeadline
  <2>1. /\ pc["launch"] = "arm" /\ pc'["launch"] = "prePlugins" /\ pc'["wait"] = "waiting"
        /\ \A u \in Kills \cup {"monitor"} : pc'[u] = pc[u] 
        /\ ctx' = "active" /\ UNCHANGED <<podStatus, attempted, pod, task, sent>>
    BY <1>0, <1>2, ThreadTypes, ThreadFacts DEF ArmDeadline, At, shared, history
  <2> QED
    BY <1>0, <2>1 DEF LaunchFirst, EarlyDays, Starting
<1>3. ASSUME NEW l, Goto("launch", l), pc["launch"] \in UpLabels \ {"upping"}, l \in UpLabels,
             UNCHANGED <<podStatus, ctx, pod, task, sent>>,
             IF l = "upping" THEN attempted' = TRUE ELSE attempted' = attempted
      PROVE  LaunchFirst'
  <2>1. /\ pc'["launch"] = l /\ \A u \in Kills \cup {"wait", "monitor"} : pc'[u] = pc[u]
    BY <1>0, <1>3, ThreadTypes DEF Goto
  <2>2. EarlyDays' => EarlyDays
    BY <1>0, <1>3, <2>1 DEF EarlyDays, Starting
  <2> QED
    BY <1>0, <1>3, <2>1, <2>2 DEF LaunchFirst, Starting
<1>4. ASSUME NEW l, NEW s, NEW b, Enter("launch", l, s, b), l \in {"check", "send"}, s # "STARTING",
             pc["launch"] \in UpLabels \cup {"health", "postLaunch"},
             ctx' # "none", UNCHANGED <<task, sent, attempted>>, pod' = "up" => pod = "up" \/ attempted
      PROVE  LaunchFirst'
  <2>1. /\ pc'["launch"] = l /\ status'["launch"] = s
        /\ \A u \in Kills \cup {"wait", "monitor"} : pc'[u] = pc[u]
    BY <1>0, <1>4, EnterSets, ThreadTypes, ThreadFacts
  <2>2. ~EarlyDays' /\ ~Starting'
    BY <1>4, <2>1 DEF EarlyDays, Starting, UpLabels
  <2> QED
    BY <1>0, <1>4, <2>1, <2>2 DEF LaunchFirst, UpLabels
<1>5. ASSUME NEW l, Goto("launch", l), l \in {"health", "postLaunch", "done"},
             pc["launch"] \in UpLabels \cup {"health", "postLaunch"},
             ctx' # "none", UNCHANGED <<task, sent, attempted>>, pod' = "up" => pod = "up" \/ attempted
      PROVE  LaunchFirst'
  <2>1. /\ pc'["launch"] = l /\ \A u \in Kills \cup {"wait", "monitor"} : pc'[u] = pc[u]
    BY <1>0, <1>5, ThreadTypes DEF Goto
  <2>2. ~EarlyDays' /\ ~Starting'
    BY <1>5, <2>1 DEF EarlyDays, Starting, UpLabels
  <2> QED
    BY <1>0, <1>5, <2>1, <2>2 DEF LaunchFirst, UpLabels
<1>6. pc["launch"] \in UpLabels \cup {"health", "postLaunch"} => ctx # "none"
  BY DEF LaunchFirst, Starting, UpLabels
<1>7. CASE \E s \in DOMAIN EarlySteps : EarlyStep(s)
  <2> PICK s \in DOMAIN EarlySteps : EarlyStep(s)
    BY <1>7
  <2>1. /\ s \in UpLabels \ {"upping"} /\ EarlySteps[s].next \in UpLabels \ {"upping"}
        /\ EarlySteps[s].fail # "STARTING"
    BY DEF EarlySteps, UpLabels
  <2> QED
    BY <1>3, <1>4, <1>6, <2>1 DEF EarlyStep, FailEarly, Cancel, At
<1>8. CASE \E s \in DOMAIN WriteSteps : WriteFiles(s)
  <2> PICK s \in DOMAIN WriteSteps : WriteFiles(s)
    BY <1>8
  <2>1. s \in UpLabels \ {"upping"} /\ WriteSteps[s] \in UpLabels \ {"upping"}
    BY DEF WriteSteps, UpLabels
  <2> QED
    BY <1>3, <1>4, <1>6, <2>1 DEF WriteFiles, FailEarly, Cancel, At
<1>9. CASE BeginUp
  <2>1. pc["launch"] = "up" /\ {"up", "upping"} \subseteq UpLabels
    BY <1>9 DEF BeginUp, At, UpLabels
  <2> QED
    BY <1>3, <1>4, <1>6, <1>9, <2>1 DEF BeginUp, Cancel
<1>10. CASE EndUp
  <2>1. pc["launch"] = "upping" /\ "upping" \in UpLabels /\ attempted
    BY <1>10 DEF EndUp, At, UpLabels, LaunchFirst
  <2> QED
    BY <1>4, <1>5, <1>6, <1>10, <2>1 DEF EndUp, Cancel, shared
<1>11. CASE InitHealthCheck
  BY <1>4, <1>5, <1>6, <1>11 DEF InitHealthCheck, Verdict, Cancel, At
<1>12. CASE PostLaunchTask
  BY <1>4, <1>5, <1>6, <1>12 DEF PostLaunchTask, ReportFinished, Cancel, At, shared, history
<1>13. CASE StartMonitor
  <2>1. /\ pc["launch"] = "watch" /\ pc'["launch"] = "done"
        /\ \A u \in Kills \cup {"wait"} : pc'[u] = pc[u]
        /\ UNCHANGED <<podStatus, ctx, attempted, pod, task, sent, status, faults>>
    BY <1>0, <1>13, ThreadTypes, ThreadFacts DEF StartMonitor, At, shared, history
  <2>2. ~EarlyDays' /\ ~Starting' /\ ~Starting
    BY <2>1 DEF EarlyDays, Starting, UpLabels
  <2> QED
    BY <2>1, <2>2 DEF LaunchFirst
<1> QED
  BY <1>1, <1>2, <1>7, <1>8, <1>9, <1>10, <1>11, <1>12, <1>13 DEF Launch

(* And so does every other step.                                           *)
LEMMA FirstStep ==
  ASSUME IInv, LaunchFirst, ReportsAndReturns, [Next]_vars
  PROVE  LaunchFirst'
<1>0. faults \subseteq faults' /\ {"launch", "wait", "monitor"} \cap Kills = {}
  BY FaultsGrow, ThreadFacts
<1>1. CASE Shutdown \/ Exit \/ Exited \/ UNCHANGED vars
  BY <1>1 DEF Shutdown, Exit, Exited, vars, threadVars, shared, history, LaunchFirst, EarlyDays, Starting
<1>2. CASE Deadline
  BY <1>2 DEF Deadline, threadVars, shared, history, LaunchFirst, EarlyDays, Starting
<1>3. CASE WaitOnPod
  <2>1. /\ UNCHANGED <<podStatus, ctx, attempted, pod, task, sent, faults>>
        /\ ctx = "expired" \/ (ctx = "cancelled" /\ pc'["wait"] = "done")
        /\ \A u \in Threads \ {"wait"} : pc'[u] = pc[u] /\ status'[u] = status[u]
    BY <1>3, ThreadTypes DEF WaitOnPod, OnDeadline, Goto, Enter, shared, history
  <2> QED
    BY <1>0, <2>1, ThreadTypes DEF LaunchFirst, EarlyDays, Starting
<1>4. CASE MonitorVerdict
  <2>1. /\ UNCHANGED <<podStatus, ctx, attempted, task, sent>>
        /\ pod' = "up" => pod = "up"
        /\ pc["monitor"] = "poll"
        /\ \A u \in Threads \ {"monitor"} : pc'[u] = pc[u] /\ status'[u] = status[u]
    BY <1>4, ThreadTypes DEF MonitorVerdict, Verdict, Enter, At
  <2> QED
    BY <1>0, <2>1, ThreadTypes DEF LaunchFirst, EarlyDays, Starting, UpLabels
<1>5. CASE \E k \in Kills : KillTask(k) \/ Kill(k)
  <2> PICK k \in Kills : KillTask(k) \/ Kill(k)
    BY <1>5
  <2>1. /\ UNCHANGED <<ctx, attempted, pod, task, sent, faults>>
        /\ podStatus' = podStatus \/ pc[k] = "mark"
        /\ pc[k] = "mark" \/ pc'[k] \in {"stopDriver", "done"} \/ podStatus = "RUNNING"
        /\ \A u \in Threads \ {k} : pc'[u] = pc[u] /\ status'[u] = status[u]
        /\ pc[k] = "mark" => pc["launch"] # "idle"
    BY ThreadTypes, <1>0 DEF KillTask, Kill, MarkKilled, KillStopsDriver, Goto, Enter, At, shared, history,
       LaunchFirst, EarlyDays, Starting
  <2> QED
    BY <1>0, <2>1, ThreadTypes DEF LaunchFirst, EarlyDays, Starting
<1>6. CASE Listen
  <2>1. /\ UNCHANGED <<podStatus, ctx, attempted, pod, task, sent, faults>>
        /\ \A u \in Reporters : pc'[u] = pc[u] /\ status'[u] = status[u]
    BY <1>6, ThreadTypes, ThreadFacts DEF Listen, ReceiveStatus, ActOnStatus, Enter, Goto, threadVars,
       shared, history
  <2> QED
    BY <2>1, ThreadFacts DEF LaunchFirst, EarlyDays, Starting
<1> QED
  BY <1>0, <1>1, <1>2, <1>3, <1>4, <1>5, <1>6, ReportFirst, LaunchFirstKept DEF Next

-----------------------------------------------------------------------------
(* A pod that finished with nothing left to monitor is down.               *)

(* Steps that leave the launch and the monitor where they are, or move     *)
(* them on within the reporting routines, keep FinishedIsDown.             *)
LEMMA FinishedKept ==
  ASSUME FinishedIsDown, faults \subseteq faults', UNCHANGED <<monitored, res>>,
         pod' = "up" => pod = "up",
         \A t \in {"launch", "monitor"} :
           /\ status'[t] = status[t] /\ back'[t] = back[t]
           /\ pc'[t] \in {"check", "set", "route"} => pc[t] \in {"check", "set", "route"},
         pc'["launch"] \in SendLabels => pc["launch"] \in SendLabels,
         pc'["launch"] = "postLaunch" =>
           \/ pc["launch"] = "postLaunch"
           \/ pc["launch"] \in SendLabels /\ back["launch"] = "postLaunch"
  PROVE  FinishedIsDown'
  BY DEF FinishedIsDown

(* The steps of LaunchTask: FINISHED is the verdict on a pod that is down. *)
LEMMA FinishedLaunch ==
  ASSUME IInv, LaunchFirst, FinishedIsDown, LaunchTask \/ Launch, faults \subseteq faults'
  PROVE  FinishedIsDown'
<1>0. /\ "launch" \in Reporters /\ "launch" \in Threads
      /\ pc["launch"] # "done" => pc["monitor"] = "idle"
  BY ThreadFacts DEF LaunchFirst
<1>1. CASE LaunchTask \/ ArmDeadline \/ StartMonitor
  <2>1. /\ pc'["launch"] \in {"send", "prePlugins", "done"} /\ pc'["monitor"] \in {"idle", "poll"}
        /\ pc'["launch"] \in SendLabels => back'["launch"] = "arm"
    BY <1>0, <1>1, ThreadTypes DEF LaunchTask, ArmDeadline, StartMonitor, At, SendLabels
  <2> QED
    BY <2>1 DEF FinishedIsDown
<1>2. ASSUME NEW l, Goto("launch", l), pc["launch"] # "done",
             l \notin SendLabels, l # "postLaunch"
      PROVE  FinishedIsDown'
  <2>1. pc'["launch"] = l /\ pc'["monitor"] = "idle"
    BY <1>0, <1>2, ThreadTypes DEF Goto
  <2> QED
    BY <1>2, <2>1 DEF FinishedIsDown, SendLabels
<1>3. ASSUME NEW l \in {"check", "send"}, NEW s, NEW b, Enter("launch", l, s, b), pc["launch"] # "done",
             b = "postLaunch" => res' = "FAILED",
             s = "FINISHED" => (faults' = {} /\ ~monitored' => pod' # "up")
      PROVE  FinishedIsDown'
  <2>1. pc'["launch"] = l /\ pc'["monitor"] = "idle" /\ status'["launch"] = s /\ back'["launch"] = b
    BY <1>0, <1>3, EnterSets, ThreadTypes
  <2> QED
    BY <1>3, <2>1 DEF FinishedIsDown
<1>4. CASE \E s \in DOMAIN EarlySteps : EarlyStep(s)
  <2> PICK s \in DOMAIN EarlySteps : EarlyStep(s)
    BY <1>4
  <2>1. /\ s # "done" /\ EarlySteps[s].next \notin SendLabels \cup {"postLaunch"}
        /\ EarlySteps[s].fail # "FINISHED"
    BY DEF EarlySteps, SendLabels
  <2> QED
    BY <1>2, <1>3, <2>1 DEF EarlyStep, FailEarly, At
<1>5. CASE \E s \in DOMAIN WriteSteps : WriteFiles(s)
  <2> PICK s \in DOMAIN WriteSteps : WriteFiles(s)
    BY <1>5
  <2>1. s # "done" /\ WriteSteps[s] \notin SendLabels \cup {"postLaunch"}
    BY DEF WriteSteps, SendLabels
  <2> QED
    BY <1>2, <1>3, <2>1 DEF WriteFiles, FailEarly, At
<1>6. CASE BeginUp \/ EndUp
  BY <1>2, <1>3, <1>6 DEF BeginUp, EndUp, At, SendLabels
<1>7. CASE InitHealthCheck
  <2>1. PICK v \in {"RUNNING", "FAILED", "FINISHED"}, listed \in BOOLEAN :
          /\ Verdict(v, listed) /\ res' = v /\ (v = "RUNNING" => listed)
          /\ IF v = "FAILED"
               THEN Cancel /\ Enter("launch", "check", "FAILED", "postLaunch")
               ELSE Goto("launch", "postLaunch") /\ UNCHANGED ctx
    BY <1>7 DEF InitHealthCheck
  <2>2. v = "FINISHED" /\ ~monitored' /\ faults' = {} => pod' # "up"
    BY <2>1 DEF Verdict
  <2>3. CASE v = "FAILED"
    BY <1>3, <1>7, <2>1, <2>3 DEF InitHealthCheck, At
  <2>4. CASE v # "FAILED"
    <3>1. pc'["launch"] = "postLaunch" /\ pc'["monitor"] = "idle"
      BY <1>0, <1>7, <2>1, <2>4, ThreadTypes DEF Goto, InitHealthCheck, At
    <3> QED
      BY <2>1, <2>2, <3>1 DEF FinishedIsDown, SendLabels
  <2> QED
    BY <2>3, <2>4
<1>8. CASE PostLaunchTask
  <2>1. pc["launch"] = "postLaunch" /\ UNCHANGED <<monitored, res, pod, faults>>
    BY <1>8 DEF PostLaunchTask, At, shared, history
  <2>2. res = "FINISHED" => (faults' = {} /\ ~monitored' => pod' # "up")
    BY <2>1 DEF FinishedIsDown
  <2> QED
    BY <1>2, <1>3, <1>8, <2>1, <2>2 DEF PostLaunchTask, ReportFinished, SendLabels
<1> QED
  BY <1>1, <1>4, <1>5, <1>6, <1>7, <1>8 DEF Launch

(* Every step keeps it.                                                    *)
LEMMA FinishedStep ==
  ASSUME IInv, LaunchFirst, ReportsAndReturns, FinishedIsDown, [Next]_vars
  PROVE  FinishedIsDown'
<1>0. faults \subseteq faults' /\ {"launch", "monitor"} \subseteq Reporters /\ {"launch", "monitor"} \cap Kills = {}
  BY FaultsGrow, ThreadFacts
<1>1. CASE \E t \in Reporters : Report(t)
  <2> PICK t \in Reporters : Report(t)
    BY <1>1
  <2>1. UNCHANGED <<monitored, res>> /\ (pod' = "up" => pod = "up")
    BY DEF Report, CheckStatus, SetStatus, RouteStatus, StopContainers, PostKillPlugins, SendUpdate,
       PushStatus, shared
  <2>2. \A u \in {"launch", "monitor"} \ {t} : pc'[u] = pc[u]
    BY <1>0, ReportMoves, ThreadTypes
  <2>3. /\ pc[t] \in SendLabels /\ pc'[t] \in NextLabels(t)
        /\ back[t] \notin SendLabels \cup {"idle"} /\ Reporting(t)
    BY ReportMoves DEF ReportsAndReturns
  <2>4. /\ pc'[t] \in {"check", "set", "route"} => pc[t] \in {"check", "set", "route"}
        /\ pc'[t] = "postLaunch" => back[t] = "postLaunch"
    BY <2>3 DEF NextLabels, CleanupFor, SendLabels
  <2> QED
    BY <1>0, <2>1, <2>2, <2>3, <2>4, ReportMoves, FinishedKept
<1>2. CASE Deadline \/ Shutdown \/ Exit \/ Exited \/ UNCHANGED vars
  <2>1. UNCHANGED <<monitored, res, pod, pc, status, back>>
    BY <1>2 DEF Deadline, Shutdown, Exit, Exited, vars, threadVars, shared
  <2> QED
    BY <1>0, <2>1, FinishedKept
<1>3. CASE WaitOnPod \/ Listen \/ \E k \in Kills : KillTask(k) \/ Kill(k)
  <2>1. /\ UNCHANGED <<monitored, res, pod>>
        /\ \A u \in {"launch", "monitor"} : pc'[u] = pc[u] /\ status'[u] = status[u] /\ back'[u] = back[u]
    BY <1>0, <1>3, ThreadTypes, ThreadFacts DEF WaitOnPod, OnDeadline, Listen, ReceiveStatus, ActOnStatus,
       KillTask, Kill, MarkKilled, KillStopsDriver, Goto, Enter, threadVars, shared
  <2> QED
    BY <1>0, <2>1, FinishedKept
<1>4. CASE MonitorVerdict
  <2>1. PICK v \in {"FAILED", "FINISHED"}, listed \in BOOLEAN :
          Verdict(v, listed) /\ Enter("monitor", "check", v, "done")
    BY <1>4 DEF MonitorVerdict
  <2>2. v = "FINISHED" /\ ~monitored' /\ faults' = {} => pod' # "up"
    BY <2>1 DEF Verdict
  <2>3. pc'["launch"] = "done" /\ status'["monitor"] = v
    BY <1>0, <1>4, <2>1, ThreadTypes, EnterSets DEF LaunchFirst, MonitorVerdict, At
  <2> QED
    BY <2>2, <2>3 DEF FinishedIsDown, SendLabels
<1> QED
  BY <1>0, <1>1, <1>2, <1>3, <1>4, FinishedLaunch DEF Next

-----------------------------------------------------------------------------
(* An outcome is sent when the pod is down and cleaned, and it stays so.   *)

(* Steps that bring no thread to the cleanup plugins or the update, start  *)
(* no containers and send nothing keep DownAndCleaned.                     *)
LEMMA DownKept ==
  ASSUME DownAndCleaned, faults \subseteq faults', task' = task, cleaned' = cleaned,
         pod' = "up" => pod = "up", attempted' = attempted,
         \A t \in Reporters : pc'[t] \in {"clean", "send"} => pc'[t] = pc[t] /\ status'[t] = status[t]
  PROVE  DownAndCleaned'
  BY DEF DownAndCleaned

(* The reporting routines: the pod is stopped, or was never started, or is *)
(* gone, before the plugins run and the update is sent.                    *)
LEMMA DownReport ==
  ASSUME IInv, LaunchFirst, ReportsAndReturns, FinishedIsDown, DownAndCleaned,
         NEW t \in Reporters, Report(t), faults \subseteq faults'
  PROVE  DownAndCleaned'
<1>1. /\ pc[t] \in SendLabels /\ Reporting(t) /\ status' = status
      /\ pc'[t] \in NextLabels(t) /\ back[t] \notin SendLabels \cup {"idle"}
      /\ \A u \in Reporters \ {t} : pc'[u] = pc[u]
  BY ReportMoves, ThreadFacts DEF ReportsAndReturns
<1>2. /\ attempted' = attempted /\ (pod' = "up" => pod = "up") /\ (cleaned => cleaned')
      /\ pc[t] # "send" => task' = task
  BY DEF Report, CheckStatus, SetStatus, RouteStatus, StopContainers, PostKillPlugins, SendUpdate,
     PushStatus, At, shared, history
<1>3. ASSUME faults' = {}, TaskStateOf(status[t]) \in Outcomes, pc'[t] \in {"clean", "send"}
      PROVE  pod' # "up" /\ (pc'[t] = "send" /\ attempted => cleaned')
  <2>1. pc[t] \in {"route", "stop", "clean"} /\ faults = {}
    BY <1>1, <1>3 DEF NextLabels, SendLabels
  <2>2. CASE pc[t] = "route"
    <3>1. status[t] \in {"FAILED", "FINISHED"} /\ pc'[t] = CleanupFor(status[t])
      BY <1>1, <1>3, <2>2 DEF Reporting, TaskStateOf, CheckFailures, Outcomes, NextLabels
    <3>2. CASE status[t] = "FAILED"
      BY <1>2, <1>3, <3>1, <3>2 DEF CleanupFor, LaunchFirst
    <3>3. CASE status[t] = "FINISHED"
      <4>1. ~monitored /\ pc'[t] = "clean"
        BY <1>3, <3>1, <3>3 DEF CleanupFor
      <4>2. t \in {"launch", "monitor"}
        BY <1>1, <3>3, ThreadFacts DEF Reporting
      <4> QED
        BY <1>2, <2>1, <2>2, <3>3, <4>1, <4>2 DEF FinishedIsDown
    <3> QED
      BY <3>1, <3>2, <3>3
  <2>3. CASE pc[t] = "stop"
    <3>1. StopContainers(t)
      BY <2>3 DEF Report, CheckStatus, SetStatus, RouteStatus, PostKillPlugins, SendUpdate, PushStatus, At
    <3>2. pod' # "up" /\ Goto(t, "clean")
      BY <1>3, <3>1 DEF StopContainers
    <3>3. pc'[t] = "clean"
      BY <3>2, ThreadTypes DEF Goto
    <3> QED
      BY <3>2, <3>3
  <2>4. CASE pc[t] = "clean"
    <3>1. PostKillPlugins(t)
      BY <2>4 DEF Report, CheckStatus, SetStatus, RouteStatus, StopContainers, SendUpdate, PushStatus, At
    <3> QED
      BY <1>2, <1>3, <2>1, <2>4, <3>1 DEF PostKillPlugins, DownAndCleaned
  <2> QED
    BY <2>1, <2>2, <2>3, <2>4
<1>4. ASSUME faults' = {}, task' \in Outcomes
      PROVE  pod' # "up" /\ (attempted => cleaned')
  <2>1. CASE task \in Outcomes
    BY <1>2, <1>4, <2>1 DEF DownAndCleaned
  <2>2. CASE task \notin Outcomes
    <3>1. SendUpdate(t) /\ pc[t] = "send" /\ task' = TaskStateOf(status[t])
      BY <1>2, <1>4, <2>2 DEF Report, CheckStatus, SetStatus, RouteStatus, StopContainers, PostKillPlugins,
         PushStatus, SendUpdate, At
    <3> QED
      BY <1>2, <1>4, <3>1 DEF DownAndCleaned
  <2> QED
    BY <2>1, <2>2
<1>5. ASSUME faults' = {}, NEW u \in Reporters \ {t}, TaskStateOf(status[u]) \in Outcomes
      PROVE  /\ pc'[u] \in {"clean", "send"} => pod' # "up"
             /\ pc'[u] = "send" /\ attempted' => cleaned'
  BY <1>1, <1>2, <1>5 DEF DownAndCleaned
<1> QED
  BY <1>1, <1>2, <1>3, <1>4, <1>5 DEF DownAndCleaned

(* The steps of LaunchTask: a step that fails early has started nothing,   *)
(* and docker-compose up runs while nobody has concluded the pod.          *)
LEMMA DownLaunch ==
  ASSUME IInv, LaunchFirst, DownAndCleaned, LaunchTask \/ Launch, faults \subseteq faults'
  PROVE  DownAndCleaned'
<1>0. "launch" \in Reporters /\ \A t \in Reporters \ {"launch"} : t # "listener"
  BY ThreadFacts
<1>1. CASE LaunchTask \/ ArmDeadline \/ StartMonitor
  <2>1. /\ UNCHANGED <<task, cleaned, pod, attempted>>
        /\ \A t \in Reporters \ {"launch"} : /\ pc'[t] \in {pc[t], "waiting", "poll"}
                                             /\ status'[t] = status[t]
        /\ pc'["launch"] \in {"clean", "send"} => status'["launch"] = "STARTING"
    BY <1>0, <1>1, ThreadTypes DEF LaunchTask, ArmDeadline, StartMonitor, shared, history
  <2>2. TaskStateOf("STARTING") \notin Outcomes
    BY DEF TaskStateOf, CheckFailures, Outcomes
  <2>3. \A t \in Reporters \ {"launch"} : pc'[t] \in {"clean", "send"} => pc'[t] = pc[t]
    BY <2>1
  <2> QED
    BY <2>1, <2>2, <2>3 DEF DownAndCleaned
<1>2. ASSUME NEW l, NEW s, NEW b, Goto("launch", l) \/ Enter("launch", l, s, b),
             l \notin {"clean", "send"}, UNCHANGED <<task, cleaned, attempted>>, pod' = "up" => pod = "up"
      PROVE  DownAndCleaned'
  <2>1. \A t \in Reporters : pc'[t] \in {"clean", "send"} => pc'[t] = pc[t] /\ status'[t] = status[t]
    BY <1>0, <1>2, EnterSets, ThreadTypes DEF Goto
  <2> QED
    BY <1>2, <2>1, DownKept
<1>3. ASSUME NEW s, NEW b, Enter("launch", "send", s, b), pc["launch"] \in UpLabels \ {"upping"},
             UNCHANGED <<task, cleaned, attempted, pod>>,
             faults' = {} => ctx # "expired" /\ "write" \notin faults
      PROVE  DownAndCleaned'
  <2>1. \A t \in Reporters \ {"launch"} : pc'[t] = pc[t] /\ status'[t] = status[t]
    BY <1>0, <1>3, EnterSets, ThreadTypes
  <2>2. faults' = {} => pod # "up" /\ ~attempted
    BY <1>3 DEF LaunchFirst, EarlyDays
  <2> QED
    BY <1>3, <2>1, <2>2 DEF DownAndCleaned
<1>4. ASSUME NEW l, NEW s, NEW b, Goto("launch", l) \/ Enter("launch", l, s, b),
             l \notin {"clean", "send"}, UNCHANGED task, pc["launch"] \in UpLabels,
             faults' = {} => ctx # "expired" /\ "write" \notin faults
      PROVE  DownAndCleaned'
  <2>1. /\ pc'["launch"] = l /\ pc["launch"] # "done"
        /\ \A t \in Reporters \ {"launch"} : pc'[t] = pc[t]
    BY <1>0, <1>4, EnterSets, ThreadTypes DEF Goto, UpLabels
  <2>2. faults' = {} => task \notin Outcomes /\ \A t \in Reporters : pc'[t] \notin {"clean", "send"}
    BY <1>4, <2>1, ThreadFacts DEF LaunchFirst, EarlyDays
  <2> QED
    BY <1>4, <2>2 DEF DownAndCleaned
<1>5. CASE \E s \in DOMAIN EarlySteps : EarlyStep(s)
  <2> PICK s \in DOMAIN EarlySteps : EarlyStep(s)
    BY <1>5
  <2>1. s \in UpLabels \ {"upping"} /\ EarlySteps[s].next \notin {"clean", "send"}
    BY DEF EarlySteps, UpLabels
  <2>2. UNCHANGED <<task, cleaned, attempted, pod>>
    BY DEF EarlyStep
  <2>3. CASE FailEarly(EarlySteps[s].fail, "done") /\ NoteLate
    <3>1. faults' = {} => ctx # "expired" /\ "write" \notin faults
      BY <2>3 DEF NoteLate
    <3> QED
      BY <1>3, <2>1, <2>2, <2>3, <3>1 DEF EarlyStep, FailEarly, At
  <2> QED
    BY <1>2, <2>1, <2>2, <2>3 DEF EarlyStep
<1>6. CASE \E s \in DOMAIN WriteSteps : WriteFiles(s)
  <2> PICK s \in DOMAIN WriteSteps : WriteFiles(s)
    BY <1>6
  <2>1. s \in UpLabels \ {"upping"} /\ WriteSteps[s] \notin {"clean", "send"}
    BY DEF WriteSteps, UpLabels
  <2> QED
    BY <1>2, <1>3, <2>1 DEF WriteFiles, FailEarly, At
<1>7. CASE BeginUp
  <2>1. pc["launch"] \in UpLabels /\ UNCHANGED task
    BY <1>7 DEF BeginUp, At, UpLabels
  <2>2. CASE Enter("launch", "check", "FAILED", "done") /\ UNCHANGED attempted
    BY <1>2, <1>7, <2>2 DEF BeginUp
  <2>3. CASE Goto("launch", "upping") /\ NoteLate
    <3>1. faults' = {} => ctx # "expired" /\ "write" \notin faults
      BY <2>3 DEF NoteLate
    <3> QED
      BY <1>4, <2>1, <2>3, <3>1
  <2> QED
    BY <1>7, <2>2, <2>3 DEF BeginUp
<1>8. CASE EndUp
  <2>1. pc["launch"] \in UpLabels /\ UNCHANGED task
    BY <1>8 DEF EndUp, At, UpLabels
  <2>2. faults' = {} => ctx # "expired" /\ "write" \notin faults
    BY <1>8 DEF EndUp, NoteLate
  <2>3. Goto("launch", "health") \/ Enter("launch", "check", "FAILED", "done")
    BY <1>8 DEF EndUp
  <2> QED
    BY <1>4, <2>1, <2>2, <2>3
<1>9. CASE InitHealthCheck \/ PostLaunchTask
  BY <1>2, <1>9 DEF InitHealthCheck, Verdict, PostLaunchTask, ReportFinished, shared, history
<1> QED
  BY <1>1, <1>5, <1>6, <1>7, <1>8, <1>9 DEF Launch

(* Every step keeps it.                                                    *)
LEMMA DownStep ==
  ASSUME IInv, LaunchFirst, ReportsAndReturns, FinishedIsDown, DownAndCleaned, [Next]_vars
  PROVE  DownAndCleaned'
<1>0. faults \subseteq faults' /\ "listener" \notin Reporters
  BY FaultsGrow, ThreadFacts
<1>1. CASE Deadline \/ Shutdown \/ Exit \/ Exited \/ UNCHANGED vars
  <2>1. UNCHANGED <<task, cleaned, pod, attempted, pc, status>>
    BY <1>1 DEF Deadline, Shutdown, Exit, Exited, vars, threadVars, shared, history
  <2> QED
    BY <1>0, <2>1, DownKept
<1>2. CASE WaitOnPod \/ MonitorVerdict \/ Listen \/ \E k \in Kills : KillTask(k) \/ Kill(k)
  <2>1. UNCHANGED <<task, cleaned, attempted>> /\ (pod' = "up" => pod = "up")
    BY <1>2 DEF WaitOnPod, MonitorVerdict, Verdict, Listen, ReceiveStatus, ActOnStatus,
       KillTask, Kill, MarkKilled, KillStopsDriver, shared, history
  <2>2. \A t \in Reporters : pc'[t] \in {"clean", "send"} => pc'[t] = pc[t] /\ status'[t] = status[t]
    BY <1>0, <1>2, ThreadTypes DEF WaitOnPod, OnDeadline, MonitorVerdict, Listen, ReceiveStatus, ActOnStatus,
       KillTask, Kill, MarkKilled, KillStopsDriver, Goto, Enter, threadVars
  <2> QED
    BY <1>0, <2>1, <2>2, DownKept
<1> QED
  BY <1>0, <1>1, <1>2, DownReport, DownLaunch DEF Next

-----------------------------------------------------------------------------
(* One thread concludes the pod, and once.                                 *)

(* TASK_RUNNING and TASK_STARTING are no outcomes; the rest are.           *)
LEMMA OutcomeStates ==
  /\ \A s \in Outcomes \cup CheckFailures : TaskStateOf(s) \in Outcomes
  /\ TaskStateOf("STARTING") \notin Outcomes /\ TaskStateOf("RUNNING") \notin Outcomes
  /\ {"STAGING", "STARTING", "RUNNING"} \cap Final = {}
  /\ Outcomes \cap CheckFailures = {} /\ "KILLED" \in Outcomes
  BY DEF TaskStateOf, CheckFailures, Outcomes, Final

(* What the updates accepted so far are after one more.                    *)
LEMMA SentGrows ==
  ASSUME IInv, NEW t \in Reporters, sent' = Append(sent, TaskStateOf(status[t]))
  PROVE  \A i \in DOMAIN sent' : \/ i \in DOMAIN sent /\ sent'[i] = sent[i]
                                 \/ i = Len(sent) + 1 /\ sent'[i] = TaskStateOf(status[t])
<1>1. sent \in Seq(TaskStates) /\ TaskStateOf(status[t]) \in TaskStates
  BY ThreadTypes, StatesAreTyped DEF IInv, TypeOK
<1> QED
  BY <1>1, AppendTyped

(* A step that changes neither the status nor the updates, and brings no   *)
(* thread to a concluding label, keeps it.                                 *)
LEMMA OneKept ==
  ASSUME OneConcludes, SingleOutcome, faults \subseteq faults', raced => raced', UNCHANGED <<podStatus, sent>>,
         \A t \in Reporters : Concludes(t)' => Concludes(t),
         Undisturbed => \A t \in Reporters : pc'[t] = "set" => seen'[t] \notin Final \cup {status'[t]},
         Undisturbed /\ podStatus \in CheckFailures =>
           /\ ctx' = "cancelled" /\ pc'["launch"] \in {"send", "push", "done"}
           /\ pc'["launch"] # "done" => status'["launch"] \in CheckFailures
           /\ \A t \in Reporters : pc'[t] \notin {"check", "set", "mark", "poll"}
  PROVE  OneConcludes' /\ SingleOutcome'
<1>1. Undisturbed' => Undisturbed
  BY DEF Undisturbed
<1>2. OutcomeSent' <=> OutcomeSent
  BY DEF OutcomeSent
<1>3. SingleOutcome'
  BY <1>1 DEF SingleOutcome, Undisturbed
<1>4. OneConcludes'
  BY <1>1, <1>2 DEF OneConcludes
<1> QED
  BY <1>3, <1>4

(* A thread that sets the status finds one that nobody concluded, unless   *)
(* another set it since, and is then the only one to conclude.             *)
LEMMA OneSets ==
  ASSUME OneConcludes, SingleOutcome, NEW t \in Reporters, NEW s \in PodStatuses,
         Undisturbed' => /\ Undisturbed /\ podStatus \notin Final
                         /\ s \in CheckFailures =>
                              /\ ctx' = "cancelled" /\ t = "launch" /\ pc'[t] = "send"
                              /\ \A u \in Reporters : pc'[u] \notin {"check", "set", "mark", "poll"},
         podStatus' = s, status'[t] = s, pc'[t] # "set",
         sent' = sent,
         Concludes(t)' => s \in Final,
         \A u \in Reporters \ {t} : pc'[u] = pc[u] /\ seen'[u] = seen[u] /\ status'[u] = status[u]
  PROVE  OneConcludes' /\ SingleOutcome'
<1>1. OutcomeSent' <=> OutcomeSent
  BY DEF OutcomeSent
<1>2. SingleOutcome'
  BY DEF SingleOutcome, Undisturbed
<1>3. ASSUME Undisturbed' PROVE ~OutcomeSent' /\ \A u \in Reporters \ {t} : ~Concludes(u)'
  BY <1>1, <1>3 DEF OneConcludes, Concludes
<1>4. Undisturbed' => \A u \in Reporters : pc'[u] = "set" => seen'[u] \notin Final \cup {status'[u]}
  BY DEF OneConcludes
<1> QED
  BY <1>2, <1>3, <1>4 DEF OneConcludes

(* The reporting routines.                                                 *)
LEMMA OneReports ==
  ASSUME IInv, ReportsAndReturns, OneConcludes, SingleOutcome, NEW t \in Reporters, Report(t),
         faults \subseteq faults', raced => raced'
  PROVE  OneConcludes' /\ SingleOutcome'
<1>1. /\ pc[t] \in SendLabels /\ Reporting(t) /\ status' = status
      /\ pc'[t] \in NextLabels(t) /\ back[t] \notin SendLabels \cup {"idle"}
      /\ \A u \in Reporters \ {t} : pc'[u] = pc[u] /\ seen'[u] = seen[u]
      /\ t \in Threads /\ seen \in [Threads -> PodStatuses]
  BY ReportMoves, ThreadFacts, ThreadTypes DEF ReportsAndReturns
<1>2. Undisturbed' => Undisturbed
  BY DEF Undisturbed
<1>3. ASSUME Undisturbed, podStatus \in CheckFailures, pc[t] \notin {"check", "set"}
      PROVE  /\ pc'["launch"] \in {"send", "push", "done"}
             /\ pc'["launch"] # "done" => pc["launch"] # "done"
             /\ \A u \in Reporters : pc'[u] \notin {"check", "set", "mark", "poll"}
  <2>1. t = "launch" => status[t] \in CheckFailures /\ pc[t] \in {"send", "push"} /\ back[t] = "done"
    BY <1>1, <1>3, OutcomeStates DEF OneConcludes, SendLabels, Reporting, LaunchReturns, CheckFailures
  <2>2. back[t] \notin {"mark", "poll"}
    BY <1>1, <2>1, ThreadFacts DEF Reporting
  <2>3. pc'[t] \notin {"check", "set", "mark", "poll"}
    BY <1>1, <1>3, <2>2 DEF NextLabels, CleanupFor, SendLabels
  <2>4. t = "launch" => pc'[t] \in {"push", "done"}
    BY <1>1, <2>1 DEF NextLabels
  <2> QED
    BY <1>1, <1>3, <2>1, <2>3, <2>4, ThreadFacts DEF OneConcludes
<1>4. CASE CheckStatus(t)
  <2>1. /\ UNCHANGED <<podStatus, sent, ctx>> /\ pc[t] = "check"
        /\ pc'[t] = "set" => seen'[t] = podStatus /\ podStatus \notin Outcomes \cup {status[t]}
    BY <1>1, <1>4, ThreadTypes DEF CheckStatus, At, Settled, shared, history, SendLabels
  <2>2. Undisturbed => podStatus \notin CheckFailures
    BY <2>1 DEF OneConcludes
  <2>3. \A u \in Reporters : Concludes(u)' => Concludes(u)
    BY <1>1, <2>1 DEF Concludes, NextLabels, SendLabels
  <2>4. Undisturbed => \A u \in Reporters : pc'[u] = "set" => seen'[u] \notin Final \cup {status'[u]}
    BY <1>1, <2>1, <2>2 DEF OneConcludes, Final
  <2> QED
    BY <2>1, <2>2, <2>3, <2>4, OneKept
<1>5. CASE SetStatus(t)
  <2>1. /\ pc[t] = "set" /\ pc'[t] = "route" /\ podStatus' = status[t] /\ sent' = sent
        /\ raced' = (raced \/ podStatus # seen[t])
    BY <1>1, <1>5, ThreadTypes DEF SetStatus, At
  <2>2. status[t] \in {"RUNNING", "FAILED", "FINISHED"}
    BY <1>1, <2>1 DEF Reporting
  <2>3. Undisturbed' => podStatus \notin Final
    BY <1>2, <2>1 DEF Undisturbed, OneConcludes
  <2>4. Concludes(t)' => status[t] \in Final
    BY <1>1, <2>2, OutcomeStates DEF Concludes, Final, Outcomes
  <2>5. status[t] \in PodStatuses /\ status[t] \notin CheckFailures
    BY <2>2 DEF PodStatuses, TaskStates, Outcomes, CheckFailures
  <2> QED
    BY <1>1, <1>2, <2>1, <2>3, <2>4, <2>5, OneSets
<1>6. CASE RouteStatus(t) \/ StopContainers(t) \/ PostKillPlugins(t) \/ PushStatus(t)
  <2>1. UNCHANGED <<podStatus, sent, ctx>> /\ pc[t] \in {"route", "stop", "clean", "push"}
    BY <1>6 DEF RouteStatus, StopContainers, PostKillPlugins, PushStatus, At, shared, history
  <2>2. \A u \in Reporters : Concludes(u)' => Concludes(u)
    BY <1>1, <2>1 DEF Concludes, NextLabels, SendLabels
  <2>3. pc'[t] # "set"
    BY <1>1, <2>1 DEF NextLabels, CleanupFor, SendLabels
  <2>4. Undisturbed => \A u \in Reporters : pc'[u] = "set" => seen'[u] \notin Final \cup {status'[u]}
    BY <1>1, <2>3 DEF OneConcludes
  <2>5. Undisturbed /\ podStatus \in CheckFailures =>
           /\ ctx' = "cancelled" /\ pc'["launch"] \in {"send", "push", "done"}
           /\ pc'["launch"] # "done" => status'["launch"] \in CheckFailures
           /\ \A u \in Reporters : pc'[u] \notin {"check", "set", "mark", "poll"}
    BY <1>1, <1>3, <2>1 DEF OneConcludes
  <2> QED
    BY <2>1, <2>2, <2>4, <2>5, OneKept
<1>7. CASE SendUpdate(t)
  <2>1. /\ UNCHANGED <<podStatus, ctx, faults, raced>> /\ pc[t] = "send" /\ pc'[t] \notin SendLabels \ {"push"}
        /\ sent' \in {sent, Append(sent, TaskStateOf(status[t]))}
    BY <1>1, <1>7 DEF SendUpdate, At, shared, NextLabels, SendLabels
  <2>2. \A u \in Reporters : Concludes(u)' => Concludes(u) /\ u # t
    BY <1>1, <2>1 DEF Concludes, SendLabels
  <2>3. Undisturbed => \A u \in Reporters : pc'[u] = "set" => seen'[u] \notin Final \cup {status'[u]}
    BY <1>1, <2>1 DEF OneConcludes, SendLabels
  <2>4. Undisturbed /\ podStatus \in CheckFailures =>
           /\ ctx' = "cancelled" /\ pc'["launch"] \in {"send", "push", "done"}
           /\ pc'["launch"] # "done" => status'["launch"] \in CheckFailures
           /\ \A u \in Reporters : pc'[u] \notin {"check", "set", "mark", "poll"}
    BY <1>1, <1>3, <2>1 DEF OneConcludes
  <2>5. CASE sent' = sent
    BY <2>1, <2>2, <2>3, <2>4, <2>5, OneKept
  <2>6. CASE sent' = Append(sent, TaskStateOf(status[t])) /\ TaskStateOf(status[t]) \notin Outcomes
    <3>1. OutcomeSent' => OutcomeSent
      BY <2>6, SentGrows DEF OutcomeSent
    <3>2. SingleOutcome'
      BY <1>2, <2>6, SentGrows DEF SingleOutcome, Undisturbed
    <3> QED
      BY <1>2, <2>1, <2>2, <2>3, <2>4, <3>1, <3>2 DEF OneConcludes
  <2>7. CASE sent' = Append(sent, TaskStateOf(status[t])) /\ TaskStateOf(status[t]) \in Outcomes
    <3>1. Concludes(t)
      BY <2>1, <2>7 DEF Concludes
    <3>2. Undisturbed' => /\ podStatus \in Final /\ ~OutcomeSent
                          /\ \A u \in Reporters : ~Concludes(u)'
      BY <1>2, <2>2, <3>1 DEF OneConcludes
    <3>3. SingleOutcome'
      BY <2>7, <3>2, SentGrows DEF SingleOutcome, Undisturbed, OutcomeSent
    <3> QED
      BY <1>2, <2>1, <2>3, <2>4, <3>2, <3>3 DEF OneConcludes
  <2> QED
    BY <2>1, <2>5, <2>6, <2>7
<1> QED
  BY <1>4, <1>5, <1>6, <1>7 DEF Report

(* The steps of LaunchTask: one that fails before docker-compose up finds  *)
(* a status nobody concluded, unless the files could not be written or the *)
(* deadline passed.                                                        *)
LEMMA OneLaunch ==
  ASSUME IInv, LaunchFirst, OneConcludes, SingleOutcome, LaunchTask \/ Launch,
         faults \subseteq faults', raced => raced'
  PROVE  OneConcludes' /\ SingleOutcome'
<1>0. /\ "launch" \in Reporters /\ \A t \in Reporters \ {"launch"} : t # "listener"
      /\ Undisturbed' => Undisturbed
  BY ThreadFacts DEF Undisturbed
<1>1. CASE LaunchTask
  <2>1. /\ pc["launch"] = "idle" /\ podStatus' = "STARTING" /\ sent' = sent
        /\ pc'["launch"] = "send" /\ status'["launch"] = "STARTING"
        /\ \A u \in Reporters \ {"launch"} : pc'[u] = pc[u] /\ seen'[u] = seen[u] /\ status'[u] = status[u]
    BY <1>0, <1>1, ThreadTypes DEF LaunchTask, history
  <2>2. podStatus \notin Final /\ "STARTING" \notin CheckFailures /\ "STARTING" \in PodStatuses
    BY <2>1, OutcomeStates DEF LaunchFirst, Final, CheckFailures, PodStatuses, TaskStates
  <2>3. ~Concludes("launch")'
    BY <2>1, OutcomeStates DEF Concludes
  <2> QED
    BY <1>0, <2>1, <2>2, <2>3, OneSets
<1>2. CASE ArmDeadline \/ StartMonitor
  <2>1. /\ pc["launch"] \in {"arm", "watch"} /\ UNCHANGED <<podStatus, sent>>
        /\ pc'["launch"] \in {"prePlugins", "done"}
        /\ \A u \in Reporters \ {"launch"} :
             pc'[u] \in {pc[u], "waiting", "poll"} /\ seen'[u] = seen[u] /\ status'[u] = status[u]
    BY <1>0, <1>2, ThreadTypes DEF ArmDeadline, StartMonitor, At, shared, history
  <2>2. ~(Undisturbed /\ podStatus \in CheckFailures)
    BY <2>1 DEF OneConcludes
  <2>3. /\ \A u \in Reporters : Concludes(u)' => Concludes(u)
        /\ Undisturbed => \A u \in Reporters : pc'[u] = "set" => seen'[u] \notin Final \cup {status'[u]}
    BY <1>0, <2>1 DEF Concludes, OneConcludes
  <2> QED
    BY <2>1, <2>2, <2>3, OneKept
<1>3. ASSUME NEW l, NEW s, NEW b, Goto("launch", l) \/ Enter("launch", l, s, b),
             l \notin {"set", "route", "stop", "clean", "send"},
             pc["launch"] \in UpLabels \cup {"health", "postLaunch"},
             UNCHANGED <<podStatus, sent>>
      PROVE  OneConcludes' /\ SingleOutcome'
  <2>1. /\ pc'["launch"] = l
        /\ \A u \in Reporters \ {"launch"} : pc'[u] = pc[u] /\ seen'[u] = seen[u] /\ status'[u] = status[u]
    BY <1>0, <1>3, EnterSets, ThreadTypes DEF Goto
  <2>2. ~(Undisturbed /\ podStatus \in CheckFailures)
    BY <1>3 DEF OneConcludes, UpLabels
  <2>3. /\ \A u \in Reporters : Concludes(u)' => Concludes(u)
        /\ Undisturbed => \A u \in Reporters : pc'[u] = "set" => seen'[u] \notin Final \cup {status'[u]}
    BY <1>3, <2>1 DEF Concludes, OneConcludes
  <2> QED
    BY <1>3, <2>2, <2>3, OneKept
<1>4. ASSUME NEW s \in PodStatuses, NEW b, FailEarly(s, b), s \in Final, sent' = sent,
             pc["launch"] \in UpLabels,
             Undisturbed' => ctx # "expired" /\ "write" \notin faults
      PROVE  OneConcludes' /\ SingleOutcome'
  <2>1. /\ pc'["launch"] = "send" /\ status'["launch"] = s /\ podStatus' = s
        /\ \A u \in Reporters \ {"launch"} : pc'[u] = pc[u] /\ seen'[u] = seen[u] /\ status'[u] = status[u]
    BY <1>0, <1>4, EnterSets, ThreadTypes DEF FailEarly
  <2>2. Undisturbed' => EarlyDays
    BY <1>4 DEF EarlyDays
  <2>3. Undisturbed' => podStatus \notin Final
    BY <2>2, OutcomeStates DEF LaunchFirst
  <2>4. Undisturbed' => \A u \in Reporters : pc'[u] \notin {"check", "set", "mark", "poll"}
    <3>1. pc["monitor"] = "idle"
      BY <1>4 DEF LaunchFirst, UpLabels
    <3> QED
      BY <2>1, <2>2, <3>1, ThreadFacts DEF LaunchFirst
  <2>5. Undisturbed' => ctx' = "cancelled"
    <3>1. ctx # "none"
      BY <1>4 DEF LaunchFirst, Starting, UpLabels
    <3> QED
      BY <1>4, <3>1 DEF FailEarly, Cancel, IInv, TypeOK
  <2> QED
    BY <1>0, <1>4, <2>1, <2>3, <2>4, <2>5, OneSets
<1>5. CASE \E s \in DOMAIN EarlySteps : EarlyStep(s)
  <2> PICK s \in DOMAIN EarlySteps : EarlyStep(s)
    BY <1>5
  <2>1. /\ s \in UpLabels /\ EarlySteps[s].next \in UpLabels
        /\ EarlySteps[s].fail \in {"FAILED"} \cup CheckFailures
    BY DEF EarlySteps, UpLabels, CheckFailures
  <2>2. UpLabels \cap {"set", "route", "stop", "clean", "send"} = {}
    BY DEF UpLabels
  <2>3. EarlySteps[s].fail \in PodStatuses /\ EarlySteps[s].fail \in Final
    BY <2>1 DEF PodStatuses, TaskStates, Outcomes, Final
  <2>4. pc["launch"] = s /\ sent' = sent
    BY DEF EarlyStep, At
  <2>5. CASE FailEarly(EarlySteps[s].fail, "done") /\ NoteLate
    <3>1. Undisturbed' => ctx # "expired" /\ "write" \notin faults
      BY <1>0, <2>5 DEF NoteLate, Undisturbed
    <3> QED
      BY <1>4, <2>1, <2>3, <2>4, <2>5, <3>1
  <2>6. CASE Goto("launch", EarlySteps[s].next) /\ UNCHANGED <<podStatus, ctx, faults>>
    BY <1>3, <2>1, <2>2, <2>4, <2>6
  <2> QED
    BY <2>5, <2>6 DEF EarlyStep
<1>6. CASE \E s \in DOMAIN WriteSteps : WriteFiles(s)
  <2> PICK s \in DOMAIN WriteSteps : WriteFiles(s)
    BY <1>6
  <2>1. /\ s \in UpLabels /\ WriteSteps[s] \notin {"set", "route", "stop", "clean", "send"}
        /\ pc["launch"] = s /\ sent' = sent
    BY DEF WriteSteps, UpLabels, WriteFiles, At
  <2>2. CASE FailEarly("FAILED", WriteSteps[s]) /\ faults' = faults \cup {"write"}
    <3>1. ~Undisturbed'
      BY <2>2 DEF Undisturbed
    <3> QED
      BY <3>1 DEF OneConcludes, SingleOutcome, Undisturbed
  <2>3. CASE Goto("launch", WriteSteps[s]) /\ UNCHANGED <<podStatus, ctx, faults>>
    BY <1>3, <2>1, <2>3
  <2> QED
    BY <2>2, <2>3 DEF WriteFiles
<1>7. CASE BeginUp \/ EndUp \/ InitHealthCheck \/ PostLaunchTask
  <2>1. /\ pc["launch"] \in UpLabels \cup {"health", "postLaunch"}
        /\ UNCHANGED <<podStatus, sent>>
    BY <1>7 DEF BeginUp, EndUp, InitHealthCheck, PostLaunchTask, At, UpLabels, shared, history
  <2>2. \E l \in {"upping", "health", "postLaunch", "check", "done"} :
          Goto("launch", l) \/ \E s, b : Enter("launch", l, s, b)
    BY <1>7 DEF BeginUp, EndUp, InitHealthCheck, PostLaunchTask, ReportFinished
  <2> QED
    BY <1>3, <2>1, <2>2
<1> QED
  BY <1>1, <1>2, <1>5, <1>6, <1>7 DEF Launch

(* Every step keeps it: a KillTask marks only a pod it saw running.        *)
LEMMA OneStep ==
  ASSUME IInv, LaunchFirst, ReportsAndReturns, OneConcludes, SingleOutcome, [Next]_vars
  PROVE  OneConcludes' /\ SingleOutcome'
<1>0. /\ faults \subseteq faults' /\ (raced => raced') /\ "listener" \notin Reporters
      /\ {"launch", "wait", "monitor"} \cap Kills = {}
  BY FaultsGrow, ThreadFacts
<1>1. CASE Deadline \/ Shutdown \/ Exit \/ Exited \/ Listen \/ UNCHANGED vars
  <2>1. /\ UNCHANGED <<podStatus, sent>> /\ (ctx = "cancelled" => ctx' = ctx)
        /\ \A u \in Reporters : pc'[u] = pc[u] /\ seen'[u] = seen[u] /\ status'[u] = status[u]
    BY <1>0, <1>1, ThreadTypes DEF Deadline, Shutdown, Exit, Exited, Listen, ReceiveStatus, ActOnStatus,
       Enter, Goto, vars, threadVars, shared, history
  <2>2. \A u \in Reporters : Concludes(u)' => Concludes(u)
    BY <2>1 DEF Concludes
  <2> QED
    BY <1>0, <2>1, <2>2, OneKept, ThreadFacts DEF OneConcludes
<1>2. ASSUME NEW t \in Reporters \ {"launch"}, pc[t] \notin {"set", "mark"}, pc'[t] \in {"done", "check", "mark", "stopDriver"},
             UNCHANGED <<podStatus, sent, ctx>>,
             \A u \in Threads \ {t} : pc'[u] = pc[u] /\ seen'[u] = seen[u] /\ status'[u] = status[u],
             pc'[t] = "check" => ctx = "expired" \/ pc[t] = "poll",
             pc'[t] = "mark" => podStatus = "RUNNING"
      PROVE  OneConcludes' /\ SingleOutcome'
  <2>1. \A u \in Reporters : Concludes(u)' => Concludes(u)
    BY <1>2, ThreadTypes DEF Concludes
  <2>2. Undisturbed => \A u \in Reporters : pc'[u] = "set" => seen'[u] \notin Final \cup {status'[u]}
    BY <1>2, ThreadTypes DEF OneConcludes
  <2>3. "RUNNING" \notin CheckFailures
    BY DEF CheckFailures
  <2>4. Undisturbed /\ podStatus \in CheckFailures =>
           /\ ctx' = "cancelled" /\ pc'["launch"] \in {"send", "push", "done"}
           /\ pc'["launch"] # "done" => status'["launch"] \in CheckFailures
           /\ \A u \in Reporters : pc'[u] \notin {"check", "set", "mark", "poll"}
    BY <1>2, <2>3, ThreadTypes DEF OneConcludes
  <2> QED
    BY <1>0, <1>2, <2>1, <2>2, <2>4, OneKept
<1>3. CASE WaitOnPod
  <2>1. /\ pc["wait"] = "waiting" /\ pc'["wait"] \in {"done", "check"} /\ UNCHANGED <<podStatus, sent, ctx>>
        /\ pc'["wait"] = "check" => ctx = "expired"
        /\ \A u \in Threads \ {"wait"} : pc'[u] = pc[u] /\ seen'[u] = seen[u] /\ status'[u] = status[u]
    BY <1>3, ThreadTypes DEF WaitOnPod, OnDeadline, At, Goto, Enter, shared, history
  <2> QED
    BY <1>2, <2>1, ThreadFacts
<1>4. CASE MonitorVerdict
  <2>1. /\ pc["monitor"] = "poll" /\ pc'["monitor"] = "check" /\ UNCHANGED <<podStatus, sent, ctx>>
        /\ \A u \in Threads \ {"monitor"} : pc'[u] = pc[u] /\ seen'[u] = seen[u] /\ status'[u] = status[u]
    BY <1>4, ThreadTypes DEF MonitorVerdict, At, Goto, Enter, shared, history
  <2> QED
    BY <1>2, <2>1, ThreadFacts
<1>5. CASE \E k \in Kills : KillTask(k) \/ KillStopsDriver(k)
  <2> PICK k \in Kills : KillTask(k) \/ KillStopsDriver(k)
    BY <1>5
  <2>1. /\ k \in Reporters \ {"launch"} /\ pc[k] \notin {"set", "mark"}
        /\ pc'[k] \in {"mark", "stopDriver", "done"}
        /\ UNCHANGED <<podStatus, sent, ctx>>
        /\ pc'[k] = "mark" => podStatus = "RUNNING"
        /\ \A u \in Threads \ {k} : pc'[u] = pc[u] /\ seen'[u] = seen[u] /\ status'[u] = status[u]
    BY ThreadTypes, ThreadFacts DEF KillTask, KillStopsDriver, At, Goto, shared, history
  <2> QED
    BY <1>2, <2>1
<1>6. CASE \E k \in Kills : MarkKilled(k)
  <2> PICK k \in Kills : MarkKilled(k)
    BY <1>6
  <2>0. /\ k \in Reporters /\ pc[k] = "mark" /\ podStatus' = "KILLED" /\ sent' = sent
        /\ raced' = (raced \/ podStatus # seen[k]) /\ Enter(k, "stop", "KILLED", "stopDriver")
    BY ThreadFacts DEF MarkKilled, At
  <2>1. /\ pc[k] = "mark" /\ pc'[k] = "stop" /\ podStatus' = "KILLED" /\ status'[k] = "KILLED"
        /\ raced' = (raced \/ podStatus # seen[k]) /\ sent' = sent
        /\ \A u \in Threads \ {k} : pc'[u] = pc[u] /\ seen'[u] = seen[u] /\ status'[u] = status[u]
    BY <2>0, EnterSets
  <2>2. seen[k] = "RUNNING"
    BY <2>1 DEF ReportsAndReturns
  <2>3. Undisturbed' => Undisturbed /\ podStatus \notin Final
    BY <1>0, <2>1, <2>2, OutcomeStates DEF Undisturbed
  <2>4. "KILLED" \in PodStatuses /\ "KILLED" \notin CheckFailures /\ "KILLED" \in Final
    BY DEF PodStatuses, TaskStates, Outcomes, CheckFailures, Final
  <2> QED
    BY <2>1, <2>3, <2>4, OneSets, ThreadFacts
<1> QED
  BY <1>0, <1>1, <1>3, <1>4, <1>5, <1>6, OneReports, OneLaunch DEF Next, Kill

-----------------------------------------------------------------------------
(* Before the deadline the status tells what the launch has sent.          *)

(* What cannot be undone: an expired deadline, a launch that is over, a    *)
(* driver that stopped.                                                    *)
LEMMA NoReturn ==
  ASSUME IInv, LaunchFirst, [Next]_vars
  PROVE  /\ ctx = "expired" => ctx' = "expired"
         /\ pc["launch"] = "done" => pc'["launch"] = "done"
         /\ driver' = "running" => driver = "running"
<1> USE DEF history, shared
<1>0. "launch" \notin Kills /\ ("launch" \in Threads /\ "wait" \in Threads /\ "monitor" \in Threads)
  BY ThreadFacts, ThreadTypes
<1>1. CASE \E t \in Reporters : Report(t)
  <2> PICK t \in Reporters : Report(t)
    BY <1>1
  <2>1. UNCHANGED <<ctx, driver>>
    BY DEF Report, CheckStatus, SetStatus, RouteStatus, StopContainers, PostKillPlugins, SendUpdate, PushStatus
  <2>2. pc["launch"] = "done" => pc'["launch"] = "done"
    BY <1>0, ReportMoves DEF SendLabels
  <2> QED
    BY <2>1, <2>2
<1>2. CASE LaunchTask \/ Launch
  <2>1. pc["launch"] # "done" /\ driver' = driver
    BY <1>2 DEF LaunchTask, Launch, ArmDeadline, EarlyStep, EarlySteps, WriteFiles, WriteSteps, BeginUp, EndUp,
       InitHealthCheck, PostLaunchTask, StartMonitor, At
  <2>2. ctx = "expired" => ctx' = "expired"
    <3>1. CASE ArmDeadline
      BY <3>1 DEF ArmDeadline, At, LaunchFirst, Starting
    <3>2. CASE ~ArmDeadline
      BY <1>2, <3>2 DEF LaunchTask, Launch, EarlyStep, FailEarly, WriteFiles, BeginUp, EndUp,
         InitHealthCheck, PostLaunchTask, ReportFinished, StartMonitor, Cancel
    <3> QED
      BY <3>1, <3>2
  <2> QED
    BY <2>1, <2>2
<1>3. CASE Deadline \/ Shutdown \/ Exit \/ Exited \/ Listen \/ UNCHANGED vars
  BY <1>0, <1>3, ThreadTypes DEF Deadline, Shutdown, Exit, Exited, Listen, ReceiveStatus, ActOnStatus,
     Enter, Goto, vars, threadVars
<1>4. CASE WaitOnPod \/ MonitorVerdict \/ \E k \in Kills : KillTask(k) \/ Kill(k)
  BY <1>0, <1>4, ThreadTypes DEF WaitOnPod, OnDeadline, MonitorVerdict, KillTask, Kill, MarkKilled,
     KillStopsDriver, Goto, Enter
<1> QED
  BY <1>1, <1>2, <1>3, <1>4 DEF Next

(* TASK_RUNNING is sent second, by the launch.                             *)
LEMMA OrderReports ==
  ASSUME IInv, LaunchFirst, ReportsAndReturns, LaunchAlone, RunningInOrder,
         NEW t \in Reporters, Report(t)
  PROVE  RunningInOrder'
<1> SUFFICES ASSUME ctx' # "expired", SerialCallbacks, NEW i \in DOMAIN sent', sent'[i] = "RUNNING"
             PROVE  i = 2 /\ sent'[1] = "STARTING"
  BY DEF RunningInOrder
<1>0. ctx' = ctx
  BY DEF Report, CheckStatus, SetStatus, RouteStatus, StopContainers, PostKillPlugins, SendUpdate, PushStatus
<1>1. CASE sent' = sent
  BY <1>0, <1>1 DEF RunningInOrder
<1>2. CASE sent' # sent
  <2> DEFINE s == TaskStateOf(status[t])
  <2>1. /\ SendUpdate(t) /\ pc[t] = "send" /\ driver = "running" /\ sent' = Append(sent, s)
        /\ sent \in Seq(TaskStates) /\ s \in TaskStates
    BY <1>2, ThreadTypes, StatesAreTyped DEF Report, CheckStatus, SetStatus, RouteStatus, StopContainers,
       PostKillPlugins, SendUpdate, PushStatus, At, history, IInv, TypeOK
  <2>2. CASE s = "RUNNING"
    <3>1. status[t] = "RUNNING" /\ Reporting(t)
      BY <2>1, <2>2, ReportMoves DEF TaskStateOf, CheckFailures, ReportsAndReturns
    <3>2. t = "launch"
      BY <3>1, ThreadFacts DEF Reporting
    <3>3. sent = <<"STARTING">>
      BY <1>0, <2>1, <3>1, <3>2 DEF LaunchAlone, OnlyStarting
    <3>4. Len(sent) = 1 /\ sent[1] = "STARTING"
      BY <3>3
    <3>5. sent'[1] = "STARTING" /\ Len(sent') = 2 /\ i \in 1 .. 2
      BY <2>1, <3>4, AppendTyped, SMTT(30)
    <3> QED
      BY <3>5
  <2>3. CASE s # "RUNNING"
    <3>1. i \in 1 .. Len(sent) /\ sent'[i] = sent[i]
      BY <2>1, <2>3, AppendTyped
    <3>2. i = 2 /\ sent[1] = "STARTING" /\ 1 \in 1 .. Len(sent)
      BY <1>0, <2>1, <3>1 DEF RunningInOrder
    <3> QED
      BY <2>1, <3>2, AppendTyped
  <2> QED
    BY <2>2, <2>3
<1> QED
  BY <1>1, <1>2

(* The launch reports alone, and what it sends agrees with the status.     *)
LEMMA AloneReports ==
  ASSUME IInv, LaunchFirst, ReportsAndReturns, LaunchAlone, NEW t \in Reporters, Report(t)
  PROVE  LaunchAlone'
<1>0. UNCHANGED <<ctx, driver>>
  BY DEF Report, CheckStatus, SetStatus, RouteStatus, StopContainers, PostKillPlugins, SendUpdate, PushStatus
<1>1. /\ pc[t] \in SendLabels /\ Reporting(t) /\ status' = status /\ back' = back
      /\ pc'[t] \in NextLabels(t) /\ back[t] \notin SendLabels \cup {"idle"}
      /\ \A u \in Threads \ {t} : pc'[u] = pc[u]
  BY ReportMoves DEF ReportsAndReturns
<1> SUFFICES ASSUME ctx # "expired", SerialCallbacks, pc'["launch"] # "done"
             PROVE  LaunchAlone'
  BY <1>0 DEF LaunchAlone
<1>2. t = "launch"
  <2>1. t # "launch" => pc["launch"] # "done"
    BY <1>1, ThreadFacts
  <2>2. t # "launch" => pc[t] \notin SendLabels
    BY <2>1, ThreadFacts DEF LaunchAlone, LaunchFirst, SendLabels
  <2> QED
    BY <1>1, <2>2
<1>3. pc["launch"] \notin {"done", "idle"} /\ \A u \in Kills \cup {"wait"} : pc'[u] = pc[u]
  BY <1>1, <1>2, ThreadFacts DEF SendLabels
<1>4. /\ pc["wait"] \in {"idle", "waiting", "done"} /\ \A k \in Kills : pc[k] = "idle"
      /\ podStatus # "STAGING"
      /\ pc["launch"] = "send" /\ status["launch"] = "STARTING" => sent = <<>>
      /\ podStatus = "STARTING" =>
           OnlyStarting \/ (pc["launch"] = "send" /\ status["launch"] = "STARTING")
      /\ podStatus \in CheckFailures =>
           pc["launch"] \in {"send", "push"} /\ status["launch"] \in CheckFailures
      /\ pc["launch"] \in {"route", "stop", "clean", "send", "push"} =>
           status["launch"] = "STARTING" \/ podStatus # "STARTING"
      /\ pc["launch"] \in {"set", "route", "send"} /\ status["launch"] = "RUNNING" =>
           OnlyStarting /\ (pc["launch"] = "set" => podStatus = "STARTING")
  BY <1>3 DEF LaunchAlone
<1>5. status["launch"] \in CheckFailures => back["launch"] = "done"
  BY <1>1, <1>2 DEF Reporting, LaunchReturns, CheckFailures
<1>6. CASE CheckStatus(t)
  <2>1. UNCHANGED <<podStatus, sent>> /\ pc[t] = "check"
    BY <1>6 DEF CheckStatus, At, shared, history
  <2>2. pc'[t] = "set" => podStatus \notin Outcomes \cup {status[t]}
    BY <1>1, <1>6, <2>1, ThreadTypes DEF CheckStatus, Settled, SendLabels
  <2>3. pc'[t] = "set" => podStatus = "STARTING" \/ status["launch"] # "RUNNING"
    BY <1>2, <1>4, <2>1, <2>2 DEF IInv, TypeOK, PodStatuses, TaskStates
  <2>4. pc'["launch"] \in {"set", back["launch"]} /\ pc["launch"] = "check"
    BY <1>1, <1>2, <2>1 DEF NextLabels
  <2> QED
    BY <1>0, <1>1, <1>2, <1>3, <1>4, <2>1, <2>3, <2>4 DEF LaunchAlone, OnlyStarting, SendLabels
<1>7. CASE SetStatus(t)
  <2>1. /\ sent' = sent /\ pc["launch"] = "set" /\ pc'["launch"] = "route"
        /\ podStatus' = status["launch"]
    BY <1>1, <1>2, <1>7 DEF SetStatus, At, NextLabels
  <2>2. status["launch"] \in {"RUNNING", "FAILED", "FINISHED"}
    BY <1>1, <1>2, <2>1 DEF Reporting
  <2>3. podStatus' \notin CheckFailures \cup {"STAGING", "STARTING"}
    BY <2>1, <2>2 DEF CheckFailures
  <2> QED
    BY <1>0, <1>1, <1>3, <1>4, <2>1, <2>3 DEF LaunchAlone, OnlyStarting
<1>8. CASE RouteStatus(t) \/ StopContainers(t) \/ PostKillPlugins(t)
  <2>1. UNCHANGED <<podStatus, sent>> /\ pc["launch"] \in {"route", "stop", "clean"}
    BY <1>2, <1>8 DEF RouteStatus, StopContainers, PostKillPlugins, At, shared, history
  <2>2. pc'["launch"] \in {"stop", "clean", "send"}
    BY <1>1, <1>2, <2>1 DEF NextLabels, CleanupFor
  <2>3. status["launch"] # "STARTING" /\ (pc["launch"] \in {"stop", "clean"} => status["launch"] # "RUNNING")
    BY <1>1, <1>2, <2>1 DEF Reporting
  <2> QED
    BY <1>0, <1>1, <1>3, <1>4, <2>1, <2>2, <2>3 DEF LaunchAlone, OnlyStarting
<1>9. CASE SendUpdate(t)
  <2>1. /\ podStatus' = podStatus /\ pc["launch"] = "send" /\ pc'["launch"] \in {"push", back["launch"]}
        /\ driver = "running" => sent' = Append(sent, TaskStateOf(status["launch"]))
        /\ driver # "running" => sent' = sent /\ pc'["launch"] = back["launch"]
        /\ driver = "running" => pc'["launch"] = "push"
    BY <1>1, <1>2, <1>9, ThreadTypes DEF SendUpdate, Goto, At, shared, NextLabels
  <2>2. status["launch"] = "STARTING" => OnlyStarting'
    BY <1>0, <1>4, <2>1 DEF OnlyStarting, TaskStateOf, CheckFailures
  <2>3. podStatus \in CheckFailures => pc'["launch"] = "push"
    BY <1>4, <1>5, <2>1
  <2> QED
    BY <1>0, <1>1, <1>2, <1>3, <1>4, <2>1, <2>2, <2>3 DEF LaunchAlone, SendLabels
<1>10. CASE PushStatus(t)
  <2>1. UNCHANGED <<podStatus, sent>> /\ pc["launch"] = "push" /\ pc'["launch"] = back["launch"]
    BY <1>1, <1>2, <1>10 DEF PushStatus, At, shared, history, NextLabels
  <2> QED
    BY <1>0, <1>1, <1>2, <1>3, <1>4, <1>5, <2>1 DEF LaunchAlone, OnlyStarting, SendLabels
<1> QED
  BY <1>6, <1>7, <1>8, <1>9, <1>10 DEF Report

(* The steps of LaunchTask.                                                *)
LEMMA AloneLaunch ==
  ASSUME IInv, LaunchFirst, LaunchAlone, LaunchTask \/ Launch,
         ctx = "expired" => ctx' = "expired"
  PROVE  LaunchAlone'
<1> SUFFICES ASSUME ctx # "expired", SerialCallbacks, pc'["launch"] # "done"
             PROVE  LaunchAlone'
  BY DEF LaunchAlone
<1>0. /\ "launch" \in Reporters /\ {"launch", "wait", "monitor"} \cap Kills = {}
      /\ UNCHANGED driver /\ sent' = sent /\ pc["launch"] # "done"
  BY ThreadFacts DEF LaunchTask, Launch, ArmDeadline, EarlyStep, EarlySteps, WriteFiles, WriteSteps, BeginUp,
     EndUp, InitHealthCheck, PostLaunchTask, StartMonitor, At, history
<1>1. CASE LaunchTask
  <2>1. /\ pc["launch"] = "idle" /\ podStatus' = "STARTING"
        /\ pc'["launch"] = "send" /\ status'["launch"] = "STARTING"
        /\ \A u \in Kills \cup {"wait"} : pc'[u] = pc[u]
    BY <1>0, <1>1, ThreadTypes, ThreadFacts DEF LaunchTask
  <2>2. "STARTING" \notin CheckFailures
    BY DEF CheckFailures
  <2> QED
    BY <1>0, <2>1, <2>2 DEF LaunchAlone, LaunchFirst
<1>2. CASE ArmDeadline
  <2>1. /\ pc["launch"] = "arm" /\ pc'["launch"] = "prePlugins" /\ pc'["wait"] = "waiting"
        /\ \A u \in Kills : pc'[u] = pc[u]
        /\ UNCHANGED podStatus
    BY <1>0, <1>2, ThreadTypes, ThreadFacts DEF ArmDeadline, At, shared
  <2> QED
    BY <1>0, <2>1 DEF LaunchAlone, OnlyStarting
<1>3. ASSUME NEW l, NEW s, NEW b, Goto("launch", l) \/ Enter("launch", l, s, b),
             l \notin {"set", "route", "stop", "clean", "send", "push", "idle"},
             pc["launch"] \in UpLabels \cup {"health", "postLaunch"}, UNCHANGED podStatus
      PROVE  LaunchAlone'
  <2>1. /\ pc'["launch"] = l /\ \A u \in Kills \cup {"wait"} : pc'[u] = pc[u]
    BY <1>0, <1>3, EnterSets, ThreadTypes, ThreadFacts DEF Goto
  <2>2. pc["launch"] \notin {"send", "push", "idle"}
    BY <1>3 DEF UpLabels
  <2> QED
    BY <1>0, <1>3, <2>1, <2>2 DEF LaunchAlone, OnlyStarting
<1>4. ASSUME NEW s \in {"FAILED"} \cup CheckFailures, NEW b, FailEarly(s, b)
      PROVE  LaunchAlone'
  <2>1. /\ pc'["launch"] = "send" /\ status'["launch"] = s /\ podStatus' = s
        /\ \A u \in Kills \cup {"wait"} : pc'[u] = pc[u]
    BY <1>0, <1>4, EnterSets, ThreadTypes, ThreadFacts DEF FailEarly
  <2>2. s \notin {"STAGING", "STARTING", "RUNNING"}
    BY DEF CheckFailures
  <2>3. "FAILED" \notin CheckFailures
    BY DEF CheckFailures
  <2> QED
    BY <1>0, <2>1, <2>2, <2>3 DEF LaunchAlone
<1>5. CASE \E s \in DOMAIN EarlySteps : EarlyStep(s)
  <2> PICK s \in DOMAIN EarlySteps : EarlyStep(s)
    BY <1>5
  <2>1. /\ s \in UpLabels /\ EarlySteps[s].fail \in {"FAILED"} \cup CheckFailures
        /\ EarlySteps[s].next \notin {"set", "route", "stop", "clean", "send", "push", "idle"}
    BY DEF EarlySteps, UpLabels, CheckFailures
  <2> QED
    BY <1>3, <1>4, <2>1 DEF EarlyStep, At
<1>6. CASE \E s \in DOMAIN WriteSteps : WriteFiles(s)
  <2> PICK s \in DOMAIN WriteSteps : WriteFiles(s)
    BY <1>6
  <2>1. s \in UpLabels /\ WriteSteps[s] \notin {"set", "route", "stop", "clean", "send", "push", "idle"}
    BY DEF WriteSteps, UpLabels
  <2> QED
    BY <1>3, <1>4, <2>1 DEF WriteFiles, At
<1>7. CASE BeginUp \/ EndUp \/ InitHealthCheck \/ PostLaunchTask
  <2>1. pc["launch"] \in UpLabels \cup {"health", "postLaunch"} /\ UNCHANGED podStatus
    BY <1>7 DEF BeginUp, EndUp, InitHealthCheck, PostLaunchTask, At, UpLabels, shared
  <2>2. \E l \in {"upping", "health", "postLaunch", "check", "done"} :
          Goto("launch", l) \/ \E s, b : Enter("launch", l, s, b)
    BY <1>7 DEF BeginUp, EndUp, InitHealthCheck, PostLaunchTask, ReportFinished
  <2> QED
    BY <1>3, <2>1, <2>2
<1>8. CASE StartMonitor
  <2>1. pc'["launch"] = "done"
    BY <1>8, ThreadTypes DEF StartMonitor
  <2> QED
    BY <2>1 DEF LaunchAlone
<1> QED
  BY <1>1, <1>2, <1>5, <1>6, <1>7, <1>8 DEF Launch

(* Only a report sends an update.                                          *)
LEMMA OrderStep ==
  ASSUME IInv, LaunchFirst, ReportsAndReturns, LaunchAlone, RunningInOrder, [Next]_vars
  PROVE  RunningInOrder'
<1>1. CASE \E t \in Reporters : Report(t)
  BY <1>1, OrderReports
<1>2. CASE ~\E t \in Reporters : Report(t)
  <2>1. sent' = sent
    BY <1>2 DEF Next, LaunchTask, Launch, ArmDeadline, EarlyStep, WriteFiles, BeginUp, EndUp,
     InitHealthCheck, PostLaunchTask, StartMonitor, Deadline, WaitOnPod, MonitorVerdict,
     KillTask, Kill, MarkKilled, KillStopsDriver, Shutdown, Listen, ReceiveStatus, ActOnStatus,
     Exit, Exited, vars, history
  <2> QED
    BY <2>1, NoReturn DEF RunningInOrder
<1> QED
  BY <1>1, <1>2

(* Every step leaves the launch alone: a serial driver kills only when the *)
(* launch is over.                                                         *)
LEMMA AloneStep ==
  ASSUME IInv, LaunchFirst, ReportsAndReturns, LaunchAlone, [Next]_vars
  PROVE  LaunchAlone'
<1>0. /\ ctx = "expired" => ctx' = "expired"
      /\ pc["launch"] = "done" => pc'["launch"] = "done"
      /\ driver' = "running" => driver = "running"
      /\ {"launch", "wait", "monitor"} \cap Kills = {} /\ "listener" \notin Reporters
  BY NoReturn, ThreadFacts
<1>1. CASE \E t \in Reporters : Report(t)
  BY <1>1, AloneReports
<1>3. CASE LaunchTask \/ Launch
  BY <1>0, <1>3, AloneLaunch
<1>4. CASE Shutdown \/ Exit \/ Exited \/ Listen \/ UNCHANGED vars
  <2>1. /\ UNCHANGED <<ctx, podStatus, sent>>
        /\ \A u \in Reporters : pc'[u] = pc[u] /\ status'[u] = status[u]
    BY <1>0, <1>4, ThreadTypes DEF Shutdown, Exit, Exited, Listen, ReceiveStatus, ActOnStatus, Enter, Goto,
       vars, threadVars, shared, history
  <2> QED
    BY <1>0, <2>1, ThreadFacts DEF LaunchAlone, OnlyStarting
<1>5. CASE Deadline
  BY <1>5 DEF Deadline, LaunchAlone
<1>6. CASE WaitOnPod
  <2>1. /\ UNCHANGED <<podStatus, sent, driver, ctx>> /\ (ctx = "expired" \/ pc'["wait"] = "done")
        /\ \A u \in Threads \ {"wait"} : pc'[u] = pc[u] /\ status'[u] = status[u]
    BY <1>6, ThreadTypes DEF WaitOnPod, OnDeadline, At, Goto, Enter, shared, history
  <2>2. pc'["launch"] = pc["launch"] /\ status'["launch"] = status["launch"] /\ \A k \in Kills : pc'[k] = pc[k]
    BY <1>0, <2>1, ThreadTypes
  <2> QED
    BY <2>1, <2>2 DEF LaunchAlone, OnlyStarting
<1>7. CASE MonitorVerdict
  <2>1. pc["launch"] = "done"
    BY <1>7 DEF MonitorVerdict, At, LaunchFirst
  <2> QED
    BY <1>0, <2>1 DEF LaunchAlone
<1>8. CASE \E k \in Kills : KillTask(k) \/ Kill(k)
  <2> PICK k \in Kills : KillTask(k) \/ Kill(k)
    BY <1>8
  <2>1. CASE KillTask(k)
    <3>1. SerialCallbacks => pc["launch"] = "done"
      BY <2>1 DEF KillTask, MayCallBack
    <3> QED
      BY <1>0, <3>1 DEF LaunchAlone
  <2>2. CASE Kill(k)
    <3>1. pc[k] # "idle"
      BY <2>2 DEF Kill, MarkKilled, KillStopsDriver, At
    <3> QED
      BY <1>0, <3>1 DEF LaunchAlone
  <2> QED
    BY <2>1, <2>2
<1> QED
  BY <1>1, <1>3, <1>4, <1>5, <1>6, <1>7, <1>8 DEF Next

-----------------------------------------------------------------------------
(* The theorems                                                            *)

(* The strengthened invariant holds when the executor starts;              *)
LEMMA OutcomeInit == Init => OutcomeInv
<1> SUFFICES ASSUME Init PROVE OutcomeInv
  OBVIOUS
<1>1. IInv /\ Reporters \subseteq Threads /\ Kills \subseteq Threads /\ {"launch", "wait", "monitor"} \subseteq Threads
  BY InvInit, ThreadTypes
<1>2. /\ \A t \in Threads : pc[t] = "idle"
      /\ DOMAIN sent = {} /\ sent = <<>> /\ "idle" \notin SendLabels
  BY DEF Init, SendLabels
<1>3. LaunchFirst /\ FinishedIsDown /\ LaunchAlone
  BY <1>1, <1>2, OutcomeStates DEF Init, LaunchFirst, Starting, EarlyDays, FinishedIsDown, LaunchAlone,
     UpLabels, Outcomes, CheckFailures
<1>4. ReportsAndReturns
  BY <1>1, <1>2 DEF ReportsAndReturns
<1>5. DownAndCleaned
  BY <1>1, <1>2 DEF Init, DownAndCleaned, Outcomes
<1>6. OneConcludes
  BY <1>1, <1>2 DEF Init, OneConcludes, Concludes, OutcomeSent, CheckFailures
<1>7. SingleOutcome /\ RunningInOrder
  BY <1>2 DEF SingleOutcome, RunningInOrder
<1> QED
  BY <1>1, <1>3, <1>4, <1>5, <1>6, <1>7 DEF OutcomeInv

(* and is kept by every step.                                              *)
LEMMA OutcomeStep == OutcomeInv /\ [Next]_vars => OutcomeInv'
  BY InvStep, ReturnsStep, FirstStep, FinishedStep, DownStep, OneStep, AloneStep, OrderStep DEF OutcomeInv

(* In every reachable state the launch is first, every thread keeps to its *)
(* own reports, and one thread at a time concludes the pod (pod.go:876-992, *)
(* main.go:73-327).                                                        *)
THEOREM OutcomeInvCorrect == Spec => []OutcomeInv
  BY OutcomeInit, OutcomeStep, PTL DEF Spec

(* A task gets at most one outcome, whoever reports, unless a status was   *)
(* overtaken between check and set, the compose files could not be written *)
(* or the launch went on past its deadline (pod.go:883-888).               *)
THEOREM OneOutcome == Spec => []SingleOutcome
<1>1. OutcomeInv => SingleOutcome
  BY DEF OutcomeInv
<1> QED
  BY <1>1, OutcomeInvCorrect, PTL

(* When the driver has stopped and the agent has an outcome, no container  *)
(* of the pod runs and the PostKillTask plugins have run if docker-compose *)
(* up was attempted, unless an error around the executor was on record     *)
(* (pod.go:893-927, 1352-1382, main.go:343-357).                           *)
THEOREM LeftPodIsDown == Spec => []ConcludedPodIsDown
<1>1. OutcomeInv => ConcludedPodIsDown
  BY DEF OutcomeInv, DownAndCleaned, ConcludedPodIsDown
<1> QED
  BY <1>1, OutcomeInvCorrect, PTL

(* TASK_RUNNING is sent at most once, right after TASK_STARTING, when the  *)
(* driver serialises its callbacks and the deadline has not passed         *)
(* (main.go:303-315).                                                      *)
THEOREM RunningSecond == Spec => []RunningInOrder
<1>1. OutcomeInv => RunningInOrder
  BY DEF OutcomeInv
<1> QED
  BY <1>1, OutcomeInvCorrect, PTL
=============================================================================
