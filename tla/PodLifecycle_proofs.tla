------------------------ MODULE PodLifecycle_proofs ------------------------
(***************************************************************************)
(* Proofs about PodLifecycle for every set of KillTask callbacks, both     *)
(* callback modes and both kinds of task.                                  *)
(***************************************************************************)
EXTENDS PodLifecycleProperties, TLAPS

(* Type correctness: each step keeps every variable in its set.            *)
LEMMA TypeInit == Init => TypeOK
<1> SUFFICES ASSUME Init PROVE TypeOK
  OBVIOUS
<1>1. ch \in Seq(TaskStates) /\ Len(ch) <= 1 /\ sent \in Seq(TaskStates)
  BY DEF Init
<1>2. /\ "idle" \in Labels /\ "done" \in Returns
      /\ "STAGING" \in PodStatuses /\ "STARTING" \in PodStatuses \ {"STAGING"}
  BY DEF Returns, Labels, LaunchLabels, SendLabels, PodStatuses, TaskStates
<1>3. /\ pc \in [Threads -> Labels] /\ back \in [Threads -> Returns]
      /\ status \in [Threads -> PodStatuses \ {"STAGING"}]
      /\ seen \in [Threads -> PodStatuses]
  BY <1>2 DEF Init
<1> QED
  BY <1>1, <1>2, <1>3 DEF Init, TypeOK

(* Every pod status a thread may report has a Mesos task state, which is   *)
(* what SendMesosStatus is given (pod.go:893-927).                         *)
LEMMA StatesAreTyped ==
  ASSUME NEW s \in PodStatuses \ {"STAGING"}
  PROVE  TaskStateOf(s) \in TaskStates
  BY DEF TaskStateOf, PodStatuses, TaskStates, CheckFailures, Outcomes

(* What Append returns.                                                    *)
LEMMA AppendTyped ==
  ASSUME NEW S, NEW q \in Seq(S), NEW e \in S
  PROVE  /\ Append(q, e) \in Seq(S) /\ Len(Append(q, e)) = Len(q) + 1
         /\ \A i \in 1 .. Len(q) : Append(q, e)[i] = q[i]
         /\ Append(q, e)[Len(q) + 1] = e
  OBVIOUS

(* What Head and Tail return of a sequence that is not empty.              *)
LEMMA TailTyped ==
  ASSUME NEW S, NEW q \in Seq(S), q # <<>>
  PROVE  /\ Head(q) \in S /\ Tail(q) \in Seq(S) /\ Len(Tail(q)) = Len(q) - 1
         /\ Head(q) = q[1] /\ Len(q) >= 1
         /\ \A i \in 1 .. Len(q) - 1 : Tail(q)[i] = q[i + 1]
  OBVIOUS

(* The part of TypeOK about the threads' program counters and locals.      *)
ThreadsOK == /\ pc \in [Threads -> Labels]
             /\ status \in [Threads -> PodStatuses \ {"STAGING"}]
             /\ seen \in [Threads -> PodStatuses]
             /\ back \in [Threads -> Returns]

(* Moving a thread to another label keeps the threads' part of TypeOK.     *)
LEMMA GotoTyped ==
  ASSUME ThreadsOK, NEW t \in Threads, NEW l \in Labels, Goto(t, l)
  PROVE  ThreadsOK'
  BY DEF ThreadsOK, Goto

(* So does entering SendPodStatus or SendMesosStatus.                      *)
LEMMA EnterTyped ==
  ASSUME ThreadsOK, NEW t \in Threads, NEW l \in Labels,
         NEW s \in PodStatuses \ {"STAGING"}, NEW b \in Returns,
         Enter(t, l, s, b)
  PROVE  ThreadsOK'
  BY DEF ThreadsOK, Enter

(* The steps of SendPodStatus, StopPod and SendMesosStatus keep TypeOK;    *)
(* PushStatus keeps the channel within its capacity (pod.go:76).           *)
LEMMA ReportTyped ==
  ASSUME TypeOK, NEW t \in Reporters, Report(t)
  PROVE  TypeOK'
<1> USE DEF At, Goto, shared, threadVars, history
<1>0. t \in Threads
  BY DEF Reporters, Threads
<1>1. CASE CheckStatus(t)
  BY <1>0, <1>1 DEF CheckStatus, Settled, TypeOK, Returns, Labels, SendLabels
<1>2. CASE SetStatus(t)
  BY <1>0, <1>2 DEF SetStatus, TypeOK, Returns, Labels, SendLabels, PodStatuses
<1>3. CASE RouteStatus(t)
  BY <1>0, <1>3 DEF RouteStatus, CleanupFor, TypeOK, Returns, Labels, SendLabels
<1>4. CASE StopContainers(t)
  <2>1. faults' \in SUBSET Faults
    BY <1>4 DEF StopContainers, TypeOK, Faults
  <2>2. pod' \in {"none", "up", "down"}
    BY <1>4 DEF StopContainers, TypeOK
  <2>3. pc' \in [Threads -> Labels] /\ UNCHANGED <<status, seen, back>>
    BY <1>0, <1>4 DEF StopContainers, TypeOK, Returns, Labels, SendLabels
  <2> QED
    BY <1>4, <2>1, <2>2, <2>3 DEF StopContainers, TypeOK
<1>5. CASE PostKillPlugins(t)
  BY <1>0, <1>5 DEF PostKillPlugins, TypeOK, Returns, Labels, SendLabels
<1>6. CASE SendUpdate(t)
  <2>1. TaskStateOf(status[t]) \in TaskStates
    BY <1>0, StatesAreTyped DEF TypeOK
  <2>2. Append(sent, TaskStateOf(status[t])) \in Seq(TaskStates)
    BY <2>1, AppendTyped DEF TypeOK
  <2>4. sent' \in Seq(TaskStates)
    BY <1>6, <2>2 DEF SendUpdate, TypeOK
  <2>5. task' \in {"STAGING"} \cup TaskStates
    BY <1>6, <2>1 DEF SendUpdate, TypeOK
  <2>3. pc' \in [Threads -> Labels] /\ UNCHANGED <<status, seen, back>>
    BY <1>0, <1>6 DEF SendUpdate, TypeOK, Returns, Labels, SendLabels
  <2> QED
    BY <1>6, <2>3, <2>4, <2>5 DEF SendUpdate, TypeOK
<1>7. CASE PushStatus(t)
  BY <1>0, <1>7, StatesAreTyped DEF PushStatus, ChannelHasRoom, TypeOK, Returns, Labels, SendLabels
<1> QED
  BY <1>1, <1>2, <1>3, <1>4, <1>5, <1>6, <1>7 DEF Report

(* A verdict of HealthCheck or the monitor changes nothing but the pod,    *)
(* the monitor list and the faults, and keeps their types.                 *)
LEMMA VerdictTyped ==
  ASSUME TypeOK, NEW v, NEW listed \in BOOLEAN, Verdict(v, listed)
  PROVE  /\ monitored' \in BOOLEAN /\ pod' \in {"none", "up", "down"}
         /\ faults' \in SUBSET Faults
<1>1. monitored' \in BOOLEAN
  BY DEF Verdict
<1>2. pod' \in {"none", "up", "down"}
  BY DEF Verdict, TypeOK
<1>3. faults' \in SUBSET Faults
  BY DEF Verdict, TypeOK, Faults
<1> QED
  BY <1>1, <1>2, <1>3

(* The steps of LaunchTask after its first keep TypeOK.                    *)
LEMMA LaunchTyped ==
  ASSUME TypeOK, LaunchTask \/ Launch
  PROVE  TypeOK'
<1> USE DEF shared, threadVars, history
<1>t. /\ ThreadsOK
      /\ {"upping", "health", "postLaunch", "check", "send", "done"} \subseteq Labels
      /\ {"postLaunch", "watch", "done"} \subseteq Returns
  BY DEF TypeOK, ThreadsOK, Returns, Labels, LaunchLabels, SendLabels
<1>0. /\ {"launch", "wait", "monitor", "listener"} \subseteq Threads
      /\ {"STARTING", "RUNNING", "FAILED", "FINISHED"} \cup CheckFailures
            \subseteq PodStatuses \ {"STAGING"}
  BY DEF Threads, Workers, PodStatuses, TaskStates, Outcomes, CheckFailures
<1>1. CASE LaunchTask
  BY <1>0, <1>1 DEF LaunchTask, At, Goto, Enter, Cancel, NoteLate, TypeOK, Returns, Labels, LaunchLabels, SendLabels
<1>2. CASE ArmDeadline
  BY <1>0, <1>2 DEF ArmDeadline, At, Goto, Enter, Cancel, NoteLate, TypeOK, Returns, Labels, LaunchLabels, SendLabels
<1>3. CASE \E s \in DOMAIN EarlySteps : EarlyStep(s)
  <2> PICK s \in DOMAIN EarlySteps : EarlyStep(s)
    BY <1>3
  <2>1. /\ EarlySteps[s].next \in LaunchLabels \ {"idle"}
        /\ EarlySteps[s].fail \in PodStatuses \ {"STAGING"}
    BY <1>0 DEF EarlySteps, LaunchLabels, CheckFailures
  <2>2. CASE FailEarly(EarlySteps[s].fail, "done") /\ NoteLate
    BY <1>0, <2>1, <2>2 DEF EarlyStep, FailEarly, At, Goto, Enter, Cancel, NoteLate, TypeOK, Returns, Labels, LaunchLabels,
                           SendLabels, Faults
  <2>3. CASE Goto("launch", EarlySteps[s].next) /\ UNCHANGED <<podStatus, ctx, faults>>
    BY <1>0, <2>1, <2>3 DEF EarlyStep, TypeOK, At, Goto, Enter, Cancel, NoteLate, Labels
  <2> QED
    BY <2>2, <2>3 DEF EarlyStep
<1>4. CASE \E s \in DOMAIN WriteSteps : WriteFiles(s)
  <2> PICK s \in DOMAIN WriteSteps : WriteFiles(s)
    BY <1>4
  <2>1. WriteSteps[s] \in Returns /\ WriteSteps[s] \in Labels
    BY DEF WriteSteps, Returns, Labels, LaunchLabels, SendLabels
  <2>2. ThreadsOK'
    BY <1>0, <1>t, <2>1, GotoTyped, EnterTyped DEF WriteFiles, FailEarly
  <2>3. /\ podStatus' \in PodStatuses /\ faults' \in SUBSET Faults
        /\ ctx' \in {"none", "active", "cancelled", "expired"}
    BY <1>0 DEF WriteFiles, FailEarly, Cancel, TypeOK, Faults
  <2> QED
    BY <2>2, <2>3 DEF WriteFiles, TypeOK, ThreadsOK
<1>5. CASE BeginUp
  <2>1. ThreadsOK'
    BY <1>0, <1>5, <1>t, GotoTyped, EnterTyped DEF BeginUp
  <2>2. /\ attempted' \in BOOLEAN /\ faults' \in SUBSET Faults
        /\ ctx' \in {"none", "active", "cancelled", "expired"}
    BY <1>5 DEF BeginUp, Cancel, NoteLate, TypeOK, Faults
  <2> QED
    BY <1>5, <2>1, <2>2 DEF BeginUp, TypeOK, ThreadsOK
<1>6. CASE EndUp
  <2>1. /\ pod' \in {"none", "up", "down"} /\ ctx' \in {"none", "active", "cancelled", "expired"}
        /\ faults' \in SUBSET Faults
    BY <1>6 DEF EndUp, Cancel, NoteLate, TypeOK, Faults
  <2>2. ThreadsOK'
    BY <1>0, <1>6, <1>t, GotoTyped, EnterTyped DEF EndUp
  <2> QED
    BY <1>6, <2>1, <2>2 DEF EndUp, TypeOK, ThreadsOK
<1>7. CASE InitHealthCheck
  <2>1. PICK v \in {"RUNNING", "FAILED", "FINISHED"}, listed \in BOOLEAN :
          /\ Verdict(v, listed)
          /\ res' = v
          /\ IF v = "FAILED"
               THEN Cancel /\ Enter("launch", "check", "FAILED", "postLaunch")
               ELSE Goto("launch", "postLaunch") /\ UNCHANGED ctx
    BY <1>7 DEF InitHealthCheck
  <2>2. ThreadsOK'
    BY <1>0, <1>t, <2>1, GotoTyped, EnterTyped
  <2>3. /\ monitored' \in BOOLEAN /\ pod' \in {"none", "up", "down"}
        /\ faults' \in SUBSET Faults
    BY <2>1, VerdictTyped
  <2>4. ctx' \in {"none", "active", "cancelled", "expired"}
    BY <2>1 DEF Cancel, TypeOK
  <2> QED
    BY <1>7, <2>1, <2>2, <2>3, <2>4 DEF InitHealthCheck, TypeOK, ThreadsOK
<1>8. CASE PostLaunchTask
  <2>1. ThreadsOK'
    BY <1>0, <1>8, <1>t, GotoTyped, EnterTyped DEF PostLaunchTask, ReportFinished
  <2>2. ctx' \in {"none", "active", "cancelled", "expired"}
    BY <1>8 DEF PostLaunchTask, ReportFinished, Cancel, TypeOK
  <2> QED
    BY <1>8, <2>1, <2>2 DEF PostLaunchTask, TypeOK, ThreadsOK
<1>9. CASE StartMonitor
  BY <1>0, <1>9 DEF StartMonitor, At, Goto, Enter, Cancel, NoteLate, TypeOK, Returns, Labels, LaunchLabels
<1> QED
  BY <1>1, <1>2, <1>3, <1>4, <1>5, <1>6, <1>7, <1>8, <1>9 DEF Launch

(* So do the callbacks, the deadline, the monitor, the listener and the    *)
(* end of the process.                                                     *)
LEMMA OthersTyped ==
  ASSUME TypeOK,
         \/ Deadline \/ WaitOnPod \/ MonitorVerdict
         \/ \E k \in Kills : KillTask(k) \/ Kill(k)
         \/ Shutdown \/ Listen \/ Exit \/ Exited
  PROVE  TypeOK'
<1> USE DEF shared, threadVars, history
<1>t. ThreadsOK /\ {"check", "done", "recv", "act"} \subseteq Labels /\ {"done", "recv"} \subseteq Returns
  BY DEF TypeOK, ThreadsOK, Returns, Labels, LaunchLabels, SendLabels
<1>0. /\ {"launch", "wait", "monitor", "listener"} \cup Kills \subseteq Threads
      /\ {"RUNNING", "FAILED", "FINISHED", "KILLED"} \subseteq PodStatuses \ {"STAGING"}
  BY DEF Threads, Workers, PodStatuses, TaskStates, Outcomes
<1>1. CASE Deadline
  BY <1>1 DEF Deadline, TypeOK
<1>2. CASE WaitOnPod
  BY <1>0, <1>2, SMTT(30) DEF WaitOnPod, At, Goto, Enter, OnDeadline, TypeOK, Returns, Labels, LaunchLabels, SendLabels
<1>3. CASE MonitorVerdict
  <2>1. PICK v \in {"FAILED", "FINISHED"}, listed \in BOOLEAN :
          Verdict(v, listed) /\ Enter("monitor", "check", v, "done")
    BY <1>3 DEF MonitorVerdict
  <2>2. ThreadsOK'
    BY <1>0, <1>t, <2>1, EnterTyped
  <2>3. /\ monitored' \in BOOLEAN /\ pod' \in {"none", "up", "down"}
        /\ faults' \in SUBSET Faults
    BY <2>1, VerdictTyped
  <2> QED
    BY <1>3, <2>2, <2>3 DEF MonitorVerdict, TypeOK, ThreadsOK
<1>4. CASE \E k \in Kills : KillTask(k)
  BY <1>0, <1>4 DEF KillTask, At, Goto, Enter, TypeOK, Labels
<1>5. CASE \E k \in Kills : MarkKilled(k)
  BY <1>0, <1>5 DEF MarkKilled, At, Goto, Enter, TypeOK, Returns, Labels, SendLabels
<1>6. CASE \E k \in Kills : KillStopsDriver(k)
  BY <1>0, <1>6 DEF KillStopsDriver, At, Goto, Enter, TypeOK, Returns, Labels, LaunchLabels
<1>7. CASE Shutdown
  BY <1>7 DEF Shutdown, TypeOK
<1>8. CASE ReceiveStatus
  <2>1. ch' \in Seq(TaskStates) /\ Len(ch') <= 1 /\ Head(ch) \in TaskStates
    BY <1>8, TailTyped DEF ReceiveStatus, TypeOK
  <2>2. TaskStates \subseteq PodStatuses \ {"STAGING"}
    BY DEF PodStatuses, TaskStates, Outcomes
  <2>3. ThreadsOK'
    <3>1. CASE UNCHANGED threadVars
      BY <1>t, <3>1 DEF ThreadsOK
    <3>2. CASE Enter("listener", "act", Head(ch), "recv")
      BY <1>0, <1>t, <2>1, <2>2, <3>2, EnterTyped
    <3> QED
      BY <1>8, <3>1, <3>2 DEF ReceiveStatus
  <2> QED
    BY <1>8, <2>1, <2>3 DEF ReceiveStatus, TypeOK, ThreadsOK
<1>9. CASE ActOnStatus
  <2>1. ThreadsOK'
    BY <1>0, <1>9, <1>t, GotoTyped DEF ActOnStatus
  <2>2. driver' \in {"running", "stopped"}
    BY <1>9 DEF ActOnStatus, TypeOK
  <2> QED
    BY <1>9, <2>1, <2>2 DEF ActOnStatus, TypeOK, ThreadsOK
<1>10. CASE Exit
  BY <1>10 DEF Exit, TypeOK
<1>11. CASE Exited
  BY <1>11 DEF Exited, TypeOK, vars
<1> QED
  BY <1>1, <1>2, <1>3, <1>4, <1>5, <1>6, <1>7, <1>8, <1>9, <1>10, <1>11 DEF Kill, Listen

(* TypeOK is inductive by itself.                                          *)
LEMMA TypeStep == TypeOK /\ [Next]_vars => TypeOK'
<1> SUFFICES ASSUME TypeOK, [Next]_vars PROVE TypeOK'
  OBVIOUS
<1>1. CASE UNCHANGED vars
  BY <1>1 DEF vars, shared, threadVars, history, TypeOK
<1> QED
  BY <1>1, ReportTyped, LaunchTyped, OthersTyped DEF Next

(* Every variable keeps its type: in particular taskStatusCh never holds   *)
(* more than its capacity, whoever pushes (pod.go:76, 968).                *)
THEOREM TypeCorrect == Spec => []TypeOK
  BY TypeInit, TypeStep, PTL DEF Spec

-----------------------------------------------------------------------------
(* The inductive invariant                                                 *)

(* The inductive invariant holds when the executor starts.                 *)
LEMMA InvInit == Init => IInv
<1> SUFFICES ASSUME Init PROVE IInv
  OBVIOUS
<1>1. TypeOK
  BY TypeInit
<1>2. /\ Reporters \subseteq Threads /\ Kills \subseteq Threads
      /\ {"launch", "wait", "monitor", "listener"} \subseteq Threads
  BY DEF Reporters, Threads, Workers
<1>3. \A t \in Threads : pc[t] = "idle"
  BY DEF Init
<1>4. Told
  BY <1>2, <1>3 DEF Told, Init
<1>5. NotYetStarted
  BY <1>2, <1>3 DEF NotYetStarted, Init
<1>6. OwnReports
  BY <1>2, <1>3 DEF OwnReports, Init, SendLabels
<1> QED
  BY <1>1, <1>4, <1>5, <1>6 DEF IInv, StopIsExplained, Init

(* A thread that moves on without becoming idle withdraws no request.      *)
LEMMA AskedKept ==
  ASSUME pc \in [Threads -> Labels], NEW t \in Threads, NEW l \in Labels,
         l # "idle", pc[t] # "idle", pc' = [pc EXCEPT ![t] = l], shut' = shut
  PROVE  Asked' <=> Asked
<1>1. \A k \in Kills : pc'[k] # "idle" <=> pc[k] # "idle"
  BY DEF Threads
<1> QED
  BY <1>1 DEF Asked

(* Which threads report, from the assumption that kills are threads of     *)
(* their own.                                                              *)
LEMMA ThreadFacts ==
  /\ Reporters \subseteq Threads /\ Kills \subseteq Reporters
  /\ {"launch", "wait", "monitor"} \subseteq Reporters
  /\ "listener" \in Threads /\ "listener" \notin Reporters
  /\ {"launch", "wait", "monitor", "listener"} \cap Kills = {}
  /\ Reporters = {"launch", "wait", "monitor"} \cup Kills
  BY KillsAssumption DEF Reporters, Threads, Workers

(* The labels of the reporting routines are none of the others.            *)
LEMMA SendLabelFacts ==
  /\ SendLabels \subseteq Labels
  /\ {"idle", "stopDriver", "waiting", "poll", "mark", "done"} \cap SendLabels = {}
  BY DEF Labels, SendLabels

(* Steps of SendPodStatus and StopPod before the update is sent.           *)
LEMMA BeforeSendInv ==
  ASSUME IInv, TypeOK', NEW t \in Reporters,
         CheckStatus(t) \/ SetStatus(t) \/ RouteStatus(t)
           \/ StopContainers(t) \/ PostKillPlugins(t)
  PROVE  IInv'
<1>1. /\ pc[t] \in SendLabels \ {"send", "push"} /\ ~exited
      /\ UNCHANGED <<task, driver, ch, shut, status>>
  BY DEF CheckStatus, SetStatus, RouteStatus, StopContainers, PostKillPlugins, At,
         Goto, SendLabels, shared, threadVars, history
<1>2. PICK l \in Returns \cup (SendLabels \ {"push"}) : pc' = [pc EXCEPT ![t] = l]
  BY ThreadFacts DEF CheckStatus, SetStatus, RouteStatus, CleanupFor, StopContainers,
         PostKillPlugins, Goto, IInv, TypeOK, SendLabels
<1>3. /\ t \in Threads /\ pc \in [Threads -> Labels] /\ l # "idle" /\ l # "push"
      /\ l \in Labels /\ pc[t] # "idle"
  BY <1>1, ThreadFacts, SendLabelFacts DEF IInv, TypeOK, Returns, SendLabels
<1>4. /\ pc'[t] = l /\ \A u \in Threads : u # t => pc'[u] = pc[u]
  BY <1>2, <1>3
<1>5. StopIsExplained'
  <2>1. Asked' <=> Asked
    BY <1>1, <1>2, <1>3, AskedKept
  <2> QED
    BY <1>1, <2>1 DEF IInv, StopIsExplained
<1>6. Told'
  BY <1>1, <1>3, <1>4, ThreadFacts DEF IInv, Told
<1>7. NotYetStarted'
  BY <1>1, ThreadFacts, SendLabelFacts DEF IInv, NotYetStarted, SendLabels
<1>8. OwnReports'
  BY <1>1, <1>3, <1>4, ThreadFacts, SendLabelFacts DEF IInv, OwnReports
<1> QED
  BY <1>5, <1>6, <1>7, <1>8 DEF IInv

(* What a thread about to send can say, by the state of the task.          *)
LEMMA SendFacts ==
  ASSUME IInv, NEW t \in Reporters, pc[t] = "send", driver = "running"
  PROVE  /\ TaskStateOf(status[t]) = "STARTING" => task = "STAGING"
         /\ TaskStateOf(status[t]) # "STARTING" => task # "STAGING"
         /\ TaskStateOf(status[t]) = "KILLED" => Asked
<1>1. t \in Threads /\ status[t] \in PodStatuses \ {"STAGING"} /\ "send" \in SendLabels
  BY ThreadFacts DEF IInv, TypeOK, SendLabels
<1>2. ASSUME TaskStateOf(status[t]) = "STARTING" PROVE task = "STAGING"
  BY <1>1, <1>2 DEF IInv, OwnReports, TaskStateOf, CheckFailures
<1>3. ASSUME TaskStateOf(status[t]) # "STARTING", task = "STAGING" PROVE FALSE
  <2>1. status[t] # "STARTING"
    BY <1>3 DEF TaskStateOf, CheckFailures
  <2> QED
    BY <1>3, <2>1, ThreadFacts DEF IInv, NotYetStarted
<1>4. ASSUME TaskStateOf(status[t]) = "KILLED" PROVE Asked
  <2>1. status[t] = "KILLED"
    BY <1>1, <1>4 DEF TaskStateOf, CheckFailures
  <2> QED
    BY <1>1, <2>1 DEF IInv, OwnReports, Asked
<1> QED
  BY <1>2, <1>3, <1>4

(* SendUpdate keeps the invariant: an outcome it puts on its way is one    *)
(* the agent now has.                                                      *)
LEMMA SendInv ==
  ASSUME IInv, TypeOK', NEW t \in Reporters, SendUpdate(t)
  PROVE  IInv'
<1> DEFINE s == TaskStateOf(status[t])
<1>1. /\ pc[t] = "send" /\ UNCHANGED <<podStatus, driver, ch, shut, status>>
      /\ t \in Threads /\ pc \in [Threads -> Labels] /\ t # "listener"
  BY ThreadFacts DEF SendUpdate, At, Goto, IInv, TypeOK, shared
<1>2. PICK l \in Returns \cup {"push"} :
        /\ pc' = [pc EXCEPT ![t] = l]
        /\ l = "push" => task' = IF task \in Outcomes THEN task ELSE s
  <2>1. CASE driver = "running"
    BY <2>1 DEF SendUpdate, Goto
  <2>2. CASE driver # "running"
    <3>1. back[t] \in Returns /\ back[t] # "push"
      BY <1>1 DEF IInv, TypeOK, Returns, SendLabels
    <3> QED
      BY <2>2, <3>1 DEF SendUpdate, Goto
  <2> QED
    BY <2>1, <2>2
<1>3. l \in Labels \ {"idle"} /\ (l \in SendLabels => l = "push")
  BY <1>2, SendLabelFacts DEF Returns, SendLabels
<1>4. /\ pc'[t] = l /\ \A u \in Threads : u # t => pc'[u] = pc[u]
  BY <1>1, <1>2
<1>5. task' = task \/ (driver = "running" /\ task \notin Outcomes /\ task' = s)
  BY DEF SendUpdate
<1>6. s # "STAGING"
  BY <1>1 DEF IInv, TypeOK, TaskStateOf
<1>7. /\ task \in Outcomes => task' \in Outcomes
      /\ task' = "STAGING" => task = "STAGING" /\ driver # "running"
  BY <1>5, <1>6 DEF SendUpdate, Outcomes
<1>8. StopIsExplained'
  <2>1. Asked' <=> Asked
    BY <1>1, <1>2, <1>3, AskedKept DEF SendUpdate
  <2> QED
    BY <1>1, <1>7, <2>1 DEF IInv, StopIsExplained
<1>9. Told'
  <2>1. l = "push" /\ s \in Outcomes => task' \in Outcomes
    BY <1>2
  <2> QED
    BY <1>1, <1>4, <1>7, <2>1, ThreadFacts DEF IInv, Told
<1>10. NotYetStarted'
  BY <1>1, <1>7 DEF NotYetStarted
<1>11. OwnReports'
  <2>1. CASE driver = "running"
    <3>1. task = "STAGING" => t = "launch"
      BY <1>1, <2>1, ThreadFacts DEF IInv, NotYetStarted
    <3> QED
      BY <1>1, <1>3, <1>4, <1>5, <3>1, ThreadFacts, SendLabelFacts, SendFacts, <2>1
         DEF IInv, OwnReports, SendLabels
  <2>2. CASE driver # "running"
    <3>1. UNCHANGED task
      BY <2>2 DEF SendUpdate
    <3> QED
      BY <1>1, <1>3, <1>4, <3>1, ThreadFacts, SendLabelFacts DEF IInv, OwnReports, SendLabels
  <2> QED
    BY <2>1, <2>2
<1> QED
  BY <1>8, <1>9, <1>10, <1>11 DEF IInv

(* PushStatus keeps it: what enters the channel was on its way already.    *)
LEMMA PushInv ==
  ASSUME IInv, TypeOK', NEW t \in Reporters, PushStatus(t)
  PROVE  IInv'
<1> DEFINE s == TaskStateOf(status[t])
<1>1. /\ pc[t] = "push" /\ UNCHANGED <<podStatus, driver, task, shut, status>>
      /\ t \in Threads /\ pc \in [Threads -> Labels] /\ t # "listener"
  BY ThreadFacts DEF PushStatus, At, Goto, IInv, TypeOK, shared, history
<1>2. PICK l \in Returns : pc' = [pc EXCEPT ![t] = l]
  BY <1>1 DEF PushStatus, Goto, IInv, TypeOK
<1>3. l \in Labels \ {"idle"} /\ l \notin SendLabels
  BY <1>2 DEF Returns
<1>4. /\ pc'[t] = l /\ \A u \in Threads : u # t => pc'[u] = pc[u]
  BY <1>1, <1>2
<1>5. \A i \in DOMAIN ch' : ch'[i] = s \/ (i \in DOMAIN ch /\ ch'[i] = ch[i])
  <2>1. ch \in Seq(TaskStates) /\ s \in TaskStates
    BY <1>1, StatesAreTyped DEF IInv, TypeOK
  <2>2. ch' = Append(ch, s)
    BY DEF PushStatus
  <2> QED
    BY <2>1, <2>2, AppendTyped
<1>6. StopIsExplained'
  <2>1. Asked' <=> Asked
    BY <1>1, <1>2, <1>3, AskedKept
  <2> QED
    BY <1>1, <2>1 DEF IInv, StopIsExplained
<1>7. Told'
  <2>1. s \in Outcomes => task \in Outcomes
    BY <1>1 DEF IInv, Told
  <2>2. \A i \in DOMAIN ch' : ch'[i] \in Outcomes => task \in Outcomes
    BY <1>5, <2>1 DEF IInv, Told
  <2> QED
    BY <1>1, <1>3, <1>4, <2>2, ThreadFacts DEF IInv, Told, SendLabels
<1>8. NotYetStarted'
  BY <1>1, ThreadFacts DEF IInv, NotYetStarted
<1>9. OwnReports'
  BY <1>1, <1>3, <1>4, ThreadFacts, SendLabelFacts DEF IInv, OwnReports, SendLabels
<1> QED
  BY <1>6, <1>7, <1>8, <1>9 DEF IInv

(* All steps of a reporting thread keep the invariant.                     *)
LEMMA ReportInv ==
  ASSUME IInv, TypeOK', NEW t \in Reporters, Report(t)
  PROVE  IInv'
  BY BeforeSendInv, SendInv, PushInv DEF Report

(* A thread under way moves on, perhaps into SendPodStatus, and may start  *)
(* the deadline or the monitor.                                            *)
LEMMA MoveInv ==
  ASSUME IInv, TypeOK', NEW t \in Reporters,
         pc[t] \notin SendLabels \cup {"idle", "stopDriver"},
         UNCHANGED <<task, driver, ch, shut>>,
         pc'[t] \notin {"idle", "push"},
         \A u \in Threads \ {t} :
           /\ status'[u] = status[u]
           /\ pc'[u] = pc[u] \/ (u \in {"wait", "monitor"} /\ pc'[u] \in {"waiting", "poll"}),
         pc'[t] \in SendLabels =>
           status'[t] # "STARTING" /\ (status'[t] = "KILLED" => t \in Kills)
  PROVE  IInv'
<1>1. Asked' <=> Asked
  <2>1. \A k \in Kills : pc'[k] = "idle" <=> pc[k] = "idle"
    BY ThreadFacts
  <2> QED
    BY <2>1 DEF Asked
<1>2. StopIsExplained'
  BY <1>1 DEF IInv, StopIsExplained
<1>3. Told'
  BY ThreadFacts DEF IInv, Told
<1>4. NotYetStarted'
  BY ThreadFacts, SendLabelFacts DEF IInv, NotYetStarted, SendLabels
<1>5. OwnReports'
  <2>1. \A u \in Reporters : pc'[u] \in SendLabels =>
          /\ status'[u] = "KILLED" => u \in Kills
          /\ status'[u] = "STARTING" => u = "launch" /\ pc'[u] \in {"send", "push"}
    BY ThreadFacts, SendLabelFacts DEF IInv, OwnReports
  <2>2. pc'["launch"] = "idle" \/ (pc'["launch"] = "send" /\ status'["launch"] = "STARTING")
          => task' = "STAGING"
    BY ThreadFacts, SendLabelFacts DEF IInv, OwnReports, SendLabels
  <2> QED
    BY <2>1, <2>2 DEF OwnReports
<1> QED
  BY <1>2, <1>3, <1>4, <1>5 DEF IInv

(* Moving a thread outside the reporting routines is a step MoveInv speaks *)
(* of.                                                                     *)
LEMMA GotoMoves ==
  ASSUME IInv, TypeOK', NEW t \in Reporters, NEW l, Goto(t, l),
         pc[t] \notin SendLabels \cup {"idle", "stopDriver"},
         UNCHANGED <<task, driver, ch, shut>>,
         l \notin SendLabels \cup {"idle"}
  PROVE  IInv'
<1>1. /\ pc'[t] = l /\ status' = status
      /\ \A u \in Threads \ {t} : pc'[u] = pc[u]
  BY ThreadFacts DEF Goto, IInv, TypeOK
<1> QED
  BY <1>1, MoveInv DEF SendLabels

(* So is entering them with a status that is the thread's to report.       *)
LEMMA EnterMoves ==
  ASSUME IInv, TypeOK', NEW t \in Reporters, NEW l \in {"check", "send", "stop"},
         NEW s \in PodStatuses \ {"STAGING", "STARTING"}, NEW b, Enter(t, l, s, b),
         pc[t] \notin SendLabels \cup {"idle", "stopDriver"},
         UNCHANGED <<task, driver, ch, shut>>,
         s = "KILLED" => t \in Kills
  PROVE  IInv'
<1>1. /\ pc'[t] = l /\ status'[t] = s
      /\ \A u \in Threads \ {t} : pc'[u] = pc[u] /\ status'[u] = status[u]
  BY ThreadFacts DEF Enter, IInv, TypeOK
<1> QED
  BY <1>1, MoveInv DEF SendLabels

(* The steps of LaunchTask after its first keep the invariant.             *)
LEMMA LaunchInv ==
  ASSUME IInv, TypeOK', Launch
  PROVE  IInv'
<1> USE DEF history
<1>0. /\ "launch" \in Reporters /\ "launch" \notin Kills
      /\ {"RUNNING", "FAILED", "FINISHED"} \cup CheckFailures
            \subseteq PodStatuses \ {"STAGING", "STARTING", "KILLED"}
  BY ThreadFacts DEF PodStatuses, TaskStates, Outcomes, CheckFailures
<1>1. CASE ArmDeadline \/ StartMonitor
  <2>1. /\ pc["launch"] \in {"arm", "watch"} /\ pc'["launch"] \in {"prePlugins", "done"}
        /\ status' = status /\ UNCHANGED <<task, driver, ch, shut>>
        /\ \A u \in Threads \ {"launch"} :
             pc'[u] = pc[u] \/ (u \in {"wait", "monitor"} /\ pc'[u] \in {"waiting", "poll"})
    BY <1>1, ThreadFacts DEF ArmDeadline, StartMonitor, At, IInv, TypeOK
  <2> QED
    BY <1>0, <2>1, MoveInv DEF SendLabels
<1>2. CASE \E s \in DOMAIN EarlySteps : EarlyStep(s)
  <2> PICK s \in DOMAIN EarlySteps : EarlyStep(s)
    BY <1>2
  <2>1. /\ EarlySteps[s].next \notin SendLabels \cup {"idle"}
        /\ s \notin SendLabels \cup {"idle", "stopDriver"}
        /\ EarlySteps[s].fail \in {"RUNNING", "FAILED", "FINISHED"} \cup CheckFailures
    BY DEF EarlySteps, SendLabels, CheckFailures
  <2> QED
    BY <1>0, <2>1, GotoMoves, EnterMoves DEF EarlyStep, FailEarly, At
<1>3. CASE \E s \in DOMAIN WriteSteps : WriteFiles(s)
  <2> PICK s \in DOMAIN WriteSteps : WriteFiles(s)
    BY <1>3
  <2>1. /\ WriteSteps[s] \notin SendLabels \cup {"idle"}
        /\ s \notin SendLabels \cup {"idle", "stopDriver"}
    BY DEF WriteSteps, SendLabels
  <2> QED
    BY <1>0, <2>1, GotoMoves, EnterMoves DEF WriteFiles, FailEarly, At
<1>4. CASE BeginUp \/ EndUp
  BY <1>0, <1>4, GotoMoves, EnterMoves DEF BeginUp, EndUp, At, SendLabels
<1>5. CASE InitHealthCheck
  BY <1>0, <1>5, GotoMoves, EnterMoves DEF InitHealthCheck, At, SendLabels
<1>6. CASE PostLaunchTask
  BY <1>0, <1>6, GotoMoves, EnterMoves DEF PostLaunchTask, ReportFinished, At, SendLabels
<1> QED
  BY <1>1, <1>2, <1>3, <1>4, <1>5, <1>6 DEF Launch

(* LaunchTask's first steps keep it: only TASK_STARTING is under way.      *)
LEMMA LaunchTaskInv ==
  ASSUME IInv, TypeOK', LaunchTask
  PROVE  IInv'
<1>1. /\ pc["launch"] = "idle" /\ driver = "running" /\ task = "STAGING"
      /\ podStatus' = "STARTING" /\ UNCHANGED <<task, driver, ch, shut>>
  BY DEF LaunchTask, MayCallBack, IInv, OwnReports, history
<1>2. /\ pc'["launch"] = "send" /\ status'["launch"] = "STARTING"
      /\ pc'["listener"] = "recv"
      /\ \A u \in Reporters \ {"launch"} : pc'[u] = pc[u] /\ status'[u] = status[u]
  BY ThreadFacts DEF LaunchTask, IInv, TypeOK
<1>3. pc["wait"] = "idle" /\ pc["monitor"] = "idle" /\ \A k \in Kills : pc[k] \in {"idle", "stopDriver"}
  BY <1>1 DEF IInv, NotYetStarted
<1>4. StopIsExplained'
  BY <1>1 DEF StopIsExplained
<1>5. Told'
  BY <1>1, <1>2, ThreadFacts DEF IInv, Told
<1>6. NotYetStarted'
  BY <1>1, <1>2, <1>3, ThreadFacts DEF NotYetStarted
<1>7. OwnReports'
  BY <1>1, <1>2, <1>3, ThreadFacts, SendLabelFacts DEF OwnReports, SendLabels
<1> QED
  BY <1>4, <1>5, <1>6, <1>7 DEF IInv

(* KillTask keeps it: KILLED is reported by kills only, and stopping the   *)
(* driver is then asked for.                                               *)
LEMMA KillInv ==
  ASSUME IInv, TypeOK', NEW k \in Kills, KillTask(k) \/ Kill(k)
  PROVE  IInv'
<1>0. k \in Reporters /\ k \in Threads /\ k \notin {"launch", "wait", "monitor", "listener"}
  BY ThreadFacts
<1>1. CASE KillTask(k)
  <2>1. /\ pc[k] = "idle" /\ driver = "running" /\ UNCHANGED <<podStatus, task, driver, ch, shut, status>>
        /\ pc'[k] = IF podStatus = "RUNNING" THEN "mark" ELSE "stopDriver"
        /\ \A u \in Threads \ {k} : pc'[u] = pc[u]
    BY <1>0, <1>1 DEF KillTask, MayCallBack, IInv, TypeOK, shared, history
  <2>2. StopIsExplained'
    BY <2>1 DEF StopIsExplained
  <2>3. Told'
    BY <1>0, <2>1, ThreadFacts DEF IInv, Told
  <2>4. NotYetStarted'
    BY <1>0, <2>1, ThreadFacts DEF IInv, NotYetStarted
  <2>5. OwnReports'
    BY <1>0, <2>1, ThreadFacts, SendLabelFacts DEF IInv, OwnReports, SendLabels
  <2> QED
    BY <2>2, <2>3, <2>4, <2>5 DEF IInv
<1>2. CASE MarkKilled(k)
  BY <1>0, <1>2, EnterMoves DEF MarkKilled, At, SendLabels, PodStatuses, TaskStates,
                                Outcomes, history
<1>3. CASE KillStopsDriver(k)
  <2>1. /\ pc[k] = "stopDriver" /\ driver' = "stopped" /\ UNCHANGED <<task, ch, shut, status>>
        /\ pc'[k] = "done" /\ \A u \in Threads \ {k} : pc'[u] = pc[u]
    BY <1>0, <1>3 DEF KillStopsDriver, Goto, At, IInv, TypeOK, history
  <2>2. StopIsExplained'
    BY <2>1 DEF StopIsExplained, Asked
  <2>3. Told'
    BY <1>0, <2>1, ThreadFacts DEF IInv, Told
  <2>4. NotYetStarted'
    BY <2>1 DEF NotYetStarted
  <2>5. OwnReports'
    BY <1>0, <2>1, ThreadFacts, SendLabelFacts DEF IInv, OwnReports
  <2> QED
    BY <2>2, <2>3, <2>4, <2>5 DEF IInv
<1> QED
  BY <1>1, <1>2, <1>3 DEF Kill

(* ListenOnTaskStatus keeps it: the driver it stops had an outcome sent.   *)
LEMMA ListenInv ==
  ASSUME IInv, TypeOK', Listen
  PROVE  IInv'
<1>0. "listener" \in Threads /\ "listener" \notin Reporters
  BY ThreadFacts
<1>1. CASE ReceiveStatus
  <2>1. /\ UNCHANGED <<podStatus, task, driver, shut>>
        /\ \A u \in Reporters : pc'[u] = pc[u] /\ status'[u] = status[u]
    BY <1>0, <1>1, ThreadFacts DEF ReceiveStatus, Enter, IInv, TypeOK, shared, threadVars, history
  <2>2. ch \in Seq(TaskStates) /\ ch # <<>> /\ ch' = Tail(ch)
    BY <1>1 DEF ReceiveStatus, IInv, TypeOK
  <2>3. /\ Head(ch) \in Outcomes => task \in Outcomes
        /\ \A i \in DOMAIN ch' : ch'[i] \in Outcomes => task \in Outcomes
    BY <2>2, TailTyped DEF IInv, Told
  <2>4. pc'["listener"] = "act" => status'["listener"] = Head(ch)
    BY <1>0, <1>1 DEF ReceiveStatus, Enter, At, IInv, TypeOK, threadVars
  <2>5. StopIsExplained'
    BY <2>1, ThreadFacts DEF IInv, StopIsExplained, Asked
  <2>6. Told'
    <3>1. \A t \in Reporters : pc'[t] = "push" /\ TaskStateOf(status'[t]) \in Outcomes => task \in Outcomes
      BY <2>1 DEF IInv, Told
    <3>2. pc'["listener"] = "act" /\ StopsDriver(status'["listener"]) => task \in Outcomes
      BY <2>3, <2>4 DEF StopsDriver, Outcomes
    <3> QED
      BY <2>1, <2>3, <3>1, <3>2, SMTT(30) DEF Told, StopsDriver, TaskStateOf
  <2>7. NotYetStarted' /\ OwnReports'
    BY <2>1, ThreadFacts DEF IInv, NotYetStarted, OwnReports
  <2> QED
    BY <2>5, <2>6, <2>7 DEF IInv
<1>2. CASE ActOnStatus
  <2>1. /\ UNCHANGED <<podStatus, task, ch, shut, status>> /\ pc["listener"] = "act"
        /\ pc'["listener"] = "recv" /\ \A u \in Reporters : pc'[u] = pc[u]
        /\ driver' = IF StopsDriver(status["listener"]) THEN "stopped" ELSE driver
    BY <1>0, <1>2, ThreadFacts DEF ActOnStatus, Goto, At, IInv, TypeOK, shared, history
  <2>2. StopIsExplained'
    BY <2>1, ThreadFacts DEF IInv, Told, StopIsExplained, Asked
  <2>3. Told'
    BY <2>1 DEF IInv, Told
  <2>4. NotYetStarted' /\ OwnReports'
    BY <2>1, ThreadFacts DEF IInv, NotYetStarted, OwnReports
  <2> QED
    BY <2>2, <2>3, <2>4 DEF IInv
<1> QED
  BY <1>1, <1>2 DEF Listen

(* IInv is inductive.                                                      *)
LEMMA InvStep == IInv /\ [Next]_vars => IInv'
<1> SUFFICES ASSUME IInv, [Next]_vars PROVE IInv'
  OBVIOUS
<1>0. TypeOK'
  BY TypeStep DEF IInv
<1>1. CASE UNCHANGED vars \/ Exited \/ Exit \/ Deadline
  <2>1. /\ UNCHANGED <<podStatus, task, ch, shut, status, pc, driver>>
    BY <1>1 DEF vars, Exited, Exit, Deadline, shared, threadVars, history
  <2> QED
    BY <1>0, <2>1 DEF IInv, StopIsExplained, Asked, Told, NotYetStarted, OwnReports
<1>2. CASE Shutdown
  <2>1. UNCHANGED <<podStatus, task, ch, status, pc>> /\ shut' /\ driver' = "stopped"
    BY <1>2 DEF Shutdown, shared, threadVars
  <2> QED
    BY <1>0, <2>1 DEF IInv, StopIsExplained, Asked, Told, NotYetStarted, OwnReports
<1>3. CASE WaitOnPod
  BY <1>0, <1>3, GotoMoves, EnterMoves, ThreadFacts
     DEF WaitOnPod, OnDeadline, At, SendLabels, PodStatuses, TaskStates, Outcomes, history
<1>4. CASE MonitorVerdict
  BY <1>0, <1>4, EnterMoves, ThreadFacts
     DEF MonitorVerdict, At, SendLabels, PodStatuses, TaskStates, Outcomes, history
<1> QED
  BY <1>0, <1>1, <1>2, <1>3, <1>4, LaunchTaskInv, LaunchInv, ReportInv, KillInv, ListenInv
     DEF Next

(* In every reachable state an outcome on its way to the listener is one   *)
(* the agent has, nothing but LaunchTask is under way before TASK_STARTING *)
(* is accepted, and each thread reports only what is its to report.        *)
THEOREM InvCorrect == Spec => []IInv
  BY InvInit, InvStep, PTL DEF Spec

(* The executor stops its driver only after the agent has an outcome, or   *)
(* because a KillTask or a Shutdown asked it to leave.                     *)
THEOREM DriverStopsForAReason == Spec => []StopIsExplained
<1>1. IInv => StopIsExplained
  BY DEF IInv
<1> QED
  BY <1>1, InvCorrect, PTL

-----------------------------------------------------------------------------
(* PodLifecycle implements TaskLifecycle                                   *)

(* Whether anyone asked depends only on the kills begun and on shut.       *)
LEMMA AskedSame ==
  ASSUME shut' = shut, \A k \in Kills : pc'[k] = "idle" <=> pc[k] = "idle"
  PROVE  Asked' = Asked
<1>1. Asked' <=> Asked
  BY DEF Asked
<1> QED
  BY <1>1 DEF Asked

(* The steps of Mesos's view: nothing, an update, a request, a withdrawal. *)
LEMMA ReportRefines ==
  ASSUME IInv, NEW t \in Reporters, Report(t)
  PROVE  [TL!TLNext]_(TL!tlVars)
<1>1. /\ pc[t] \in SendLabels /\ UNCHANGED <<driver, shut>> /\ t \in Threads
      /\ pc \in [Threads -> Labels] /\ back[t] \in Labels \ {"idle"}
  BY ThreadFacts DEF Report, CheckStatus, SetStatus, RouteStatus, StopContainers,
     PostKillPlugins, SendUpdate, PushStatus, At, SendLabels, history, IInv, TypeOK, Returns
<1>2. PICK l \in Labels \ {"idle"} : pc' = [pc EXCEPT ![t] = l]
  BY <1>1 DEF Report, CheckStatus, SetStatus, RouteStatus, CleanupFor, StopContainers,
     PostKillPlugins, SendUpdate, PushStatus, Goto, SendLabels, Labels
<1>3. Asked' <=> Asked
  BY <1>1, <1>2, AskedKept, SendLabelFacts
<1>4. CASE SendUpdate(t) /\ driver = "running"
  <2> DEFINE s == TaskStateOf(status[t])
  <2>1. pc[t] = "send" /\ task' = IF task \in Outcomes THEN task ELSE s
    BY <1>4 DEF SendUpdate, At
  <2>2. s \in TaskStates /\ task \in {"STAGING"} \cup TaskStates
    BY <1>1, StatesAreTyped DEF IInv, TypeOK
  <2>3. CASE task' = task
    BY <1>1, <1>3, <2>3 DEF TL!tlVars, Asked
  <2>4. CASE task' # task
    <3>1. task \notin Outcomes /\ task' = s
      BY <2>1, <2>4
    <3>2. TL!Start \/ TL!Run \/ TL!Conclude
      BY <1>4, <2>1, <2>2, <2>4, <3>1, SendFacts
         DEF TL!Start, TL!Run, TL!Conclude, TaskStates, Outcomes
    <3> QED
      BY <1>1, <1>3, <1>4, <3>2 DEF TL!TLNext, TL!Advance
  <2> QED
    BY <2>3, <2>4
<1>5. CASE ~(SendUpdate(t) /\ driver = "running")
  <2>1. task' = task
    BY <1>5 DEF Report, CheckStatus, SetStatus, RouteStatus, StopContainers,
       PostKillPlugins, SendUpdate, PushStatus, history
  <2> QED
    BY <1>1, <1>3, <2>1 DEF TL!tlVars
<1> QED
  BY <1>4, <1>5

(* Every step of the executor is a step of TaskLifecycle or leaves its     *)
(* state alone.                                                            *)
LEMMA NextRefines == IInv /\ [Next]_vars => [TL!TLNext]_(TL!tlVars)
<1> SUFFICES ASSUME IInv, [Next]_vars PROVE [TL!TLNext]_(TL!tlVars)
  OBVIOUS
<1>1. CASE LaunchTask \/ Launch \/ Deadline \/ WaitOnPod \/ MonitorVerdict
           \/ ReceiveStatus \/ Exit \/ Exited \/ UNCHANGED vars
  <2>1. UNCHANGED <<task, driver, shut>>
    BY <1>1 DEF LaunchTask, Launch, ArmDeadline, EarlyStep, WriteFiles, BeginUp, EndUp,
       InitHealthCheck, PostLaunchTask, StartMonitor, Deadline, WaitOnPod, MonitorVerdict,
       ReceiveStatus, Exit, Exited, vars, history
  <2>2. \A k \in Kills : pc'[k] = pc[k]
    BY <1>1, ThreadFacts DEF LaunchTask, Launch, ArmDeadline, EarlyStep, FailEarly, WriteFiles,
       BeginUp, EndUp, InitHealthCheck, PostLaunchTask, ReportFinished, StartMonitor, Deadline,
       WaitOnPod, OnDeadline, MonitorVerdict, ReceiveStatus, Exit, Exited, vars, threadVars,
       Goto, Enter, IInv, TypeOK
  <2> QED
    BY <2>1, <2>2, AskedSame DEF TL!tlVars
<1>2. CASE \E t \in Reporters : Report(t)
  BY <1>2, ReportRefines
<1>3. CASE \E k \in Kills : KillTask(k) \/ Kill(k)
  <2> PICK k \in Kills : KillTask(k) \/ Kill(k)
    BY <1>3
  <2>0. k \in Threads /\ pc \in [Threads -> Labels]
    BY ThreadFacts DEF IInv, TypeOK
  <2>1. CASE KillTask(k)
    <3>1. driver = "running" /\ UNCHANGED <<task, driver>> /\ Asked'
      BY <2>0, <2>1 DEF KillTask, MayCallBack, Asked, history
    <3> QED
      BY <3>1 DEF TL!TLNext, TL!Ask, TL!tlVars, Asked
  <2>2. CASE MarkKilled(k)
    <3>1. UNCHANGED <<task, driver, shut>> /\ \A u \in Kills : pc'[u] = "idle" <=> pc[u] = "idle"
      BY <2>0, <2>2, ThreadFacts DEF MarkKilled, Enter, At, history
    <3> QED
      BY <3>1, AskedSame DEF TL!tlVars
  <2>3. CASE KillStopsDriver(k)
    <3>1. /\ UNCHANGED <<task, shut>> /\ driver' = "stopped" /\ Asked
          /\ \A u \in Kills : pc'[u] = "idle" <=> pc[u] = "idle"
      BY <2>0, <2>3, ThreadFacts DEF KillStopsDriver, Goto, At, Asked, history
    <3> QED
      BY <3>1, AskedSame DEF TL!TLNext, TL!Withdraw, TL!tlVars, IInv, TypeOK
  <2> QED
    BY <2>1, <2>2, <2>3 DEF Kill
<1>4. CASE Shutdown
  <2>1. driver = "running" /\ driver' = "stopped" /\ UNCHANGED <<task, pc>> /\ Asked'
    BY <1>4 DEF Shutdown, MayCallBack, Asked, threadVars
  <2> QED
    BY <2>1 DEF TL!TLNext, TL!Ask, TL!Withdraw
<1>5. CASE ActOnStatus
  <2>1. /\ UNCHANGED <<task, shut>> /\ \A k \in Kills : pc'[k] = pc[k]
        /\ driver' = driver \/ (driver' = "stopped" /\ task \in Outcomes)
    BY <1>5, ThreadFacts DEF ActOnStatus, Goto, At, IInv, TypeOK, Told, history
  <2> QED
    BY <2>1, AskedSame DEF TL!TLNext, TL!Withdraw, TL!tlVars, Outcomes, TL!Outcomes, IInv, TypeOK
<1> QED
  BY <1>1, <1>2, <1>3, <1>4, <1>5 DEF Next, Listen

(* What the agent sees of the executor is the abstract task lifecycle: one *)
(* path from STAGING to one outcome, no outcome KILLED without a KillTask, *)
(* no withdrawal without an outcome or a request.                          *)
THEOREM LifecycleImplemented == Spec => ImplementsLifecycle
<1>1. Init => TL!TLInit
  <2>1. Init => Asked = FALSE
    BY ThreadFacts DEF Init, Asked
  <2> QED
    BY <2>1 DEF Init, TL!TLInit
<1> QED
  BY <1>1, InvCorrect, NextRefines, PTL DEF Spec, ImplementsLifecycle, TL!TLSpec
=============================================================================
