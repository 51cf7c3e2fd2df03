-------------------------- MODULE StatusReport_proofs --------------------------
(***************************************************************************)
(* Proofs about StatusReport, for any extensions an executor may be built  *)
(* with, any hooks configured for a status and any order of plugins.       *)
(***************************************************************************)
EXTENDS StatusReport, TLAPS

-----------------------------------------------------------------------------
(* The invariant                                                           *)

(* Before the launch nothing is under way, so that the registry no longer  *)
(* changes once a status has been reported.                                *)
Quiet == launch = "none" =>
           /\ listener = Idle /\ taskStatusCh = <<>>
           /\ \A t \in Reporters : sender[t].pc = "ready"

Senders == /\ sender \in [Reporters -> Reports]
           /\ sender["report"].status # "KILLED"

QueueHoldsOne == taskStatusCh = <<>> \/ \E s \in Statuses : taskStatusCh = <<s>>

Phases == [phase : {"idle", "execute", "shutdown", "stop"}, status : Statuses]

Listening ==
  /\ listener \in Phases /\ next \in Nat \ {0}
  /\ listener.phase = "idle" => listener = Idle /\ ~cut
  /\ listener.phase = "execute" => listener.status \in {"RUNNING", "FAILED"} /\ ~cut
  /\ listener.phase \in {"shutdown", "stop"} => listener.status \in {"FAILED", "FINISHED"}

Indices == DOMAIN HooksFor[listener.status]
Executed(k) == Hook(k) # Nil => Hook(k) \in executed
ShutDown(k) == Hook(k) # Nil => Hook(k) \in shut

(* How far the listener has come with the hooks of its status.             *)
HooksReached ==
  /\ listener.phase = "execute" => \A k \in Indices : k < next => Executed(k)
  /\ listener.phase \in {"idle", "execute"} => shut = {}
  /\ listener.phase = "shutdown" => \A k \in Indices : k < next => ShutDown(k)
  /\ listener.phase = "stop" => \A k \in Indices : ShutDown(k)
  /\ listener.phase \in {"shutdown", "stop"} /\ listener.status = "FAILED" /\ ~cut =>
       \A k \in Indices : Executed(k)
  /\ listener.phase \in {"shutdown", "stop"} =>
       \A e \in shut : \E k \in Indices : e = Hook(k) /\ e # Nil

(* A failure or a finish that was reported is in the queue, in the hands   *)
(* of the listener, or has stopped the driver.                             *)
OutcomeUnderWay ==
  sender["report"].pc = "done" =>
    \/ process # "running"
    \/ listener # Idle /\ listener.status \in {"FAILED", "FINISHED"}
    \/ \E s \in {"FAILED", "FINISHED"} : taskStatusCh = <<s>>

RInv == Quiet /\ Senders /\ QueueHoldsOne /\ Listening /\ HooksReached /\ OutcomeUnderWay

USE ReportersAssumption

LEMMA RInvInit == Init => RInv
  BY DEF Init, ProcessInit, LogsInit, HooksInit, RInv, Quiet, Senders, QueueHoldsOne, Listening,
         HooksReached, OutcomeUnderWay, Idle, Phases, Reports, Statuses

(* Nothing the listener and the registry consist of has changed.           *)
Undisturbed == UNCHANGED <<pool, taskStatusCh, listener, next, executed, shut, cut>>

LEMMA UndisturbedListener == Undisturbed /\ RInv => QueueHoldsOne' /\ Listening' /\ HooksReached'
  BY DEF Undisturbed, RInv, QueueHoldsOne, Listening, HooksReached, Indices, Executed, ShutDown,
         Hook, Lookup, Has

-----------------------------------------------------------------------------
(* The registry, docker, the log followers and main                        *)

LEMMA SurroundingsStep ==
  ASSUME RInv, RegisterPlugins \/ StartContainers \/ Environment \/ \E f \in Followers : FollowLogs(f)
  PROVE  RInv'
<1> USE DEF RInv, outside, hooks, logs, registry, quiet
<1>1. CASE RegisterPlugins
  <2>1. listener = Idle /\ UNCHANGED <<hooks, sender, launch, process>>
    BY <1>1 DEF RegisterPlugins, Quiet
  <2>2. HooksReached'
    BY <2>1 DEF HooksReached, Idle
  <2> QED
    BY <2>1, <2>2 DEF Quiet, Senders, QueueHoldsOne, Listening, OutcomeUnderWay
<1>2. CASE StartContainers \/ Environment
  <2>1. Undisturbed /\ UNCHANGED <<sender, launch>> /\ (process # "running" => process' # "running")
    BY <1>2 DEF StartContainers, CreateContainers, Create, Fault, Environment, EndByThemselves, Exit, Undisturbed
  <2> QED
    BY <2>1, UndisturbedListener DEF Quiet, Senders, OutcomeUnderWay, Undisturbed
<1>3. ASSUME NEW f \in Followers, FollowLogs(f) PROVE RInv'
  <2>1. Undisturbed /\ UNCHANGED <<sender, launch, process>>
    BY <1>3 DEF FollowLogs, Follow, Undisturbed
  <2> QED
    BY <2>1, UndisturbedListener DEF Quiet, Senders, OutcomeUnderWay, Undisturbed
<1> QED
  BY <1>1, <1>2, <1>3

-----------------------------------------------------------------------------
(* LaunchTask, KillTask, Shutdown and the reports                          *)

LEMMA LaunchStep ==
  ASSUME RInv, StartLaunch \/ SelectPlugins \/ FailBeforeUp \/ LaunchPod \/ SendPodStatus
  PROVE  RInv'
<1> USE DEF RInv, outside, hooks, logs, registry, quiet
<1>1. Undisturbed
  BY DEF StartLaunch, SelectPlugins, FailBeforeUp, LaunchPod, SendPodStatus, Undisturbed
<1>2. process' = process /\ launch' # "none"
  BY DEF StartLaunch, SelectPlugins, FailBeforeUp, LaunchPod, SendPodStatus
<1>3. Senders' /\ (sender'["report"].pc = "done" => sender["report"].pc = "done")
  <2> USE DEF Senders, Reports
  <2>1. CASE StartLaunch
    BY <2>1 DEF StartLaunch, Step
  <2>2. CASE SelectPlugins \/ LaunchPod
    BY <2>2 DEF SelectPlugins, LaunchPod
  <2>3. CASE FailBeforeUp
    BY <2>3 DEF FailBeforeUp, Report, Statuses
  <2>4. CASE SendPodStatus
    <3>1. PICK s \in {"FAILED", "FINISHED", "RUNNING"} : Report("report", "set", s)
      BY <2>4 DEF SendPodStatus, Verdicts
    <3> QED
      BY <3>1 DEF Report, Statuses
  <2> QED
    BY <2>1, <2>2, <2>3, <2>4
<1> QED
  BY <1>1, <1>2, <1>3, UndisturbedListener DEF Quiet, OutcomeUnderWay, Undisturbed

(* SetAndStop and SendMesosStatus up to the push.                          *)
LEMMA ReportStep ==
  ASSUME RInv, NEW t \in Reporters, SetAndStop(t) \/ SendUpdate(t) \/ ReadLogStatus(t) \/ Sleep(t)
  PROVE  RInv'
<1> USE DEF RInv, outside, hooks, logs, registry, quiet
<1>1. Undisturbed
  BY DEF SetAndStop, SendUpdate, ReadLogStatus, Sleep, Undisturbed, StartFollower
<1>2. process' = process /\ launch' = launch /\ sender[t].pc # "ready"
  BY DEF SetAndStop, SendUpdate, ReadLogStatus, Sleep
<1>3. PICK label \in {"update", "log", "sleep", "push", "ready", "leave", "done"} :
         /\ Step(t, label)
         /\ label = "done" => process # "running"
  BY DEF SetAndStop, SendUpdate, ReadLogStatus, Sleep, AfterReport
<1>4. Senders' /\ (sender'["report"].pc = "done" =>
                     sender["report"].pc = "done" \/ process # "running")
  BY <1>3 DEF Step, Senders, Reports
<1> QED
  BY <1>1, <1>2, <1>4, UndisturbedListener DEF Quiet, OutcomeUnderWay, Undisturbed

LEMMA PushStep == ASSUME RInv, NEW t \in Reporters, Push(t) PROVE RInv'
<1> USE DEF RInv, outside, hooks, logs, registry, quiet
<1>1. sender[t].status \in Statuses /\ launch # "none"
  BY DEF Push, Senders, Reports, Quiet
<1>2. taskStatusCh = <<>> /\ taskStatusCh' = <<sender[t].status>>
  BY DEF Push
<1>3. Senders'
  BY DEF Push, Senders, Step, AfterReport, Reports
<1>4. sender'["report"].pc = "done" =>
        sender["report"].pc = "done" \/ (t = "report" /\ sender[t].status \in {"FAILED", "FINISHED"})
  BY DEF Push, Senders, Step, AfterReport, Reports, Outcomes
<1>5. Listening' /\ HooksReached'
  BY DEF Push, Listening, HooksReached, Indices, Executed, ShutDown, Hook, Lookup, Has
<1>6. OutcomeUnderWay'
  BY <1>2, <1>4 DEF Push, OutcomeUnderWay
<1> QED
  BY <1>1, <1>2, <1>3, <1>5, <1>6 DEF Push, Quiet, QueueHoldsOne

LEMMA CallbackStep == ASSUME RInv, KillTask \/ LeaveAfterKill \/ Shutdown PROVE RInv'
<1> USE DEF RInv, outside, hooks, logs, registry, quiet
<1>1. Undisturbed
  BY DEF KillTask, LeaveAfterKill, Shutdown, StopDriver, Undisturbed
<1>2. launch' = launch /\ launch # "none" /\ (process # "running" => process' # "running")
  BY DEF KillTask, LeaveAfterKill, Shutdown, StopDriver, Quiet
<1>3. Senders' /\ sender'["report"] = sender["report"]
  BY DEF KillTask, LeaveAfterKill, Shutdown, Step, Report, Senders, Reports, Statuses
<1> QED
  BY <1>1, <1>2, <1>3, UndisturbedListener DEF Quiet, OutcomeUnderWay, Undisturbed

-----------------------------------------------------------------------------
(* The listener                                                            *)

(* The lists of hooks are sequences.                                       *)
LEMMA HooksAreSequences ==
  ASSUME NEW s \in {"RUNNING", "FAILED", "FINISHED"}
  PROVE  Len(HooksFor[s]) \in Nat /\ DOMAIN HooksFor[s] = 1 .. Len(HooksFor[s])
  BY HooksAssumption

LEMMA ReceiveStep ==
  ASSUME RInv, Receive, UNCHANGED <<pool, sender, launch>>
  PROVE  RInv'
<1> USE DEF RInv
<1>1. PICK s \in Statuses : taskStatusCh = <<s>>
  BY DEF Receive, QueueHoldsOne
<1>2. taskStatusCh' = <<>> /\ Head(taskStatusCh) = s
  BY <1>1 DEF Receive
<1>3. launch # "none"
  BY <1>1 DEF Quiet
<1>4. \/ s \in {"RUNNING", "FAILED"} /\ Listen("execute", s)
      \/ s = "FINISHED" /\ Listen("shutdown", s)
      \/ s \in {"STARTING", "KILLED"} /\ UNCHANGED <<listener, next>>
  BY <1>2 DEF Receive
<1>5. shut = {} /\ shut' = {} /\ ~cut /\ ~cut' /\ listener = Idle /\ process' = process
  BY DEF Receive, Listening, HooksReached, Idle
<1>6. Listening'
  BY <1>4, <1>5 DEF Listening, Listen, Phases, Idle, Statuses
<1>7. HooksReached'
  <2>1. CASE s \in {"RUNNING", "FAILED"} /\ Listen("execute", s)
    <3>1. next' = 1 /\ listener'.phase = "execute" /\ listener'.status = s
      BY <2>1 DEF Listen
    <3>2. \A k \in Indices' : k \in Nat /\ k >= 1
      BY <2>1, <3>1, HooksAreSequences DEF Indices
    <3> QED
      BY <1>5, <3>1, <3>2 DEF HooksReached
  <2>2. CASE s = "FINISHED" /\ Listen("shutdown", s)
    <3>1. next' = 1 /\ listener'.phase = "shutdown" /\ listener'.status = s
      BY <2>2 DEF Listen
    <3>2. \A k \in Indices' : k \in Nat /\ k >= 1
      BY <2>2, <3>1, HooksAreSequences DEF Indices
    <3> QED
      BY <1>5, <2>2, <3>1, <3>2 DEF HooksReached
  <2>3. CASE UNCHANGED <<listener, next>>
    BY <1>5, <2>3 DEF HooksReached, Idle
  <2> QED
    BY <1>4, <2>1, <2>2, <2>3
<1>8. OutcomeUnderWay'
  <2>1. s \in {"FAILED", "FINISHED"} => listener' # Idle /\ listener'.status = s
    BY <1>4 DEF Listen, Idle
  <2> QED
    BY <1>1, <1>5, <2>1 DEF OutcomeUnderWay
<1> QED
  BY <1>2, <1>3, <1>6, <1>7, <1>8 DEF Quiet, Senders, QueueHoldsOne

LEMMA ExecuteStep ==
  ASSUME RInv, ExecuteNext, UNCHANGED <<pool, sender, launch>>
  PROVE  RInv'
<1> USE DEF RInv
<1>1. /\ listener.phase = "execute" /\ listener # Idle /\ launch # "none"
      /\ listener.status \in {"RUNNING", "FAILED"} /\ ~cut /\ shut' = {}
      /\ UNCHANGED <<taskStatusCh, process>>
  BY DEF ExecuteNext, Listening, Quiet, Idle
<1>2. Len(HooksFor[listener.status]) \in Nat /\ Indices = 1 .. Len(HooksFor[listener.status])
  BY <1>1, HooksAreSequences DEF Indices
<1>3. CASE UNCHANGED <<listener, cut>> /\ next' = next + 1
  <2>1. Indices' = Indices /\ (\A k \in Indices : Hook(k)' = Hook(k))
    BY <1>3 DEF Indices, Hook, Lookup, Has
  <2>2. executed \subseteq executed' /\ (Hook(next) # Nil => Hook(next) \in executed')
    <3>1. listener' # [phase |-> "shutdown", status |-> "FAILED"] /\ listener' # Idle
      BY <1>1, <1>3
    <3> QED
      BY <3>1 DEF ExecuteNext, Listen, Rest
  <2>3. \A k \in Indices : k < next' => k < next \/ k = next
    BY <1>2, <1>3 DEF Listening
  <2>4. \A k \in Indices : k < next' => Executed(k)'
    <3> SUFFICES ASSUME NEW k \in Indices, k < next' PROVE Hook(k) # Nil => Hook(k) \in executed'
      BY <2>1 DEF Executed
    <3>1. CASE k = next
      BY <2>2, <3>1
    <3>2. CASE k < next
      BY <1>1, <2>2, <3>2 DEF HooksReached, Executed
    <3> QED
      BY <2>3, <3>1, <3>2
  <2> QED
    <3>1. HooksReached'
      BY <1>1, <1>3, <2>1, <2>4 DEF HooksReached
    <3>2. Listening'
      BY <1>1, <1>3 DEF Listening
    <3> QED
      BY <1>1, <1>3, <3>1, <3>2 DEF OutcomeUnderWay, Quiet, Senders, QueueHoldsOne
<1>4. CASE StopsAfterHooks /\ cut' = MoreHooks /\ Listen("shutdown", "FAILED") /\ UNCHANGED executed
  <2>1. /\ listener.status = "FAILED" /\ listener'.status = "FAILED"
        /\ listener'.phase = "shutdown" /\ next' = 1 /\ listener' # Idle
    BY <1>4 DEF StopsAfterHooks, Listen, Idle
  <2>2. Indices' = Indices /\ (\A k \in Indices : Hook(k)' = Hook(k))
    BY <2>1 DEF Indices, Hook, Lookup, Has
  <2>3. ~cut' => \A k \in Indices : Executed(k)'
    <3> SUFFICES ASSUME ~cut', NEW k \in Indices, Hook(k) # Nil PROVE Hook(k) \in executed
      BY <1>4, <2>2 DEF Executed
    <3>1. k < next
      <4>1. ~MoreHooks
        BY <1>4
      <4> QED
        BY <1>2, <4>1 DEF MoreHooks, Listening
    <3> QED
      BY <1>1, <3>1 DEF HooksReached, Executed
  <2>4. HooksReached'
    BY <1>1, <1>2, <2>1, <2>2, <2>3 DEF HooksReached
  <2>5. Listening'
    BY <1>4, <2>1 DEF Listening, Listen, Phases, Statuses, Idle
  <2> QED
    BY <1>1, <2>1, <2>4, <2>5 DEF OutcomeUnderWay, Quiet, Senders, QueueHoldsOne
<1>5. CASE ~StopsAfterHooks /\ Rest
  <2>1. listener.status = "RUNNING"
    BY <1>1, <1>5 DEF StopsAfterHooks
  <2>2. OutcomeUnderWay'
    BY <1>1, <2>1 DEF OutcomeUnderWay
  <2>3. Listening' /\ HooksReached'
    BY <1>5 DEF Rest, Idle, Listening, HooksReached, Phases, Statuses
  <2> QED
    BY <1>1, <2>2, <2>3 DEF Quiet, Senders, QueueHoldsOne
<1> QED
  BY <1>3, <1>4, <1>5 DEF ExecuteNext

LEMMA ShutDownStep ==
  ASSUME RInv, ShutDownNext, UNCHANGED <<pool, sender, launch>>
  PROVE  RInv'
<1> USE DEF RInv
<1>1. /\ listener.phase = "shutdown" /\ listener # Idle /\ launch # "none"
      /\ listener.status \in {"FAILED", "FINISHED"}
      /\ UNCHANGED <<taskStatusCh, executed, cut>>
      /\ process # "running" => process' # "running"
  BY DEF ShutDownNext, Listening, Quiet, Idle
<1>2. Len(HooksFor[listener.status]) \in Nat /\ Indices = 1 .. Len(HooksFor[listener.status])
  BY <1>1, HooksAreSequences DEF Indices
<1>3. listener'.status = listener.status /\ listener' # Idle
  BY <1>1 DEF ShutDownNext, Listen, Idle
<1>4. Indices' = Indices /\ (\A k \in Indices : Hook(k)' = Hook(k))
  BY <1>3 DEF Indices, Hook, Lookup, Has
<1>5. OutcomeUnderWay' /\ Quiet' /\ Senders' /\ QueueHoldsOne'
  BY <1>1, <1>3 DEF OutcomeUnderWay, Quiet, Senders, QueueHoldsOne
<1>6. CASE ~MoreHooks /\ Listen("stop", listener.status) /\ UNCHANGED <<shut, process>>
  <2>1. \A k \in Indices : ShutDown(k)'
    BY <1>1, <1>2, <1>4, <1>6 DEF MoreHooks, HooksReached, ShutDown, Listening
  <2>2. HooksReached'
    BY <1>1, <1>4, <1>6, <2>1 DEF HooksReached, Executed, Listen
  <2>3. Listening'
    BY <1>1, <1>6 DEF Listening, Listen, Phases, Statuses, Idle
  <2> QED
    BY <1>5, <2>2, <2>3
<1>7. CASE /\ MoreHooks /\ UNCHANGED listener /\ next' = next + 1
            /\ \/ Hook(next) = Nil /\ shut' = shut
               \/ Hook(next) # Nil /\ shut' = shut \cup {Hook(next)}
  <2>1. next \in Indices
    BY <1>2, <1>7 DEF MoreHooks, Listening
  <2>2. \A k \in Indices : k < next' => k < next \/ k = next
    BY <1>2, <1>7 DEF Listening
  <2>3. Hook(next) # Nil => Hook(next) \in shut'
    BY <1>7
  <2>4. \A k \in Indices : k < next' => ShutDown(k)'
    <3> SUFFICES ASSUME NEW k \in Indices, k < next' PROVE Hook(k) # Nil => Hook(k) \in shut'
      BY <1>4 DEF ShutDown
    <3>1. CASE k = next
      BY <2>3, <3>1
    <3>2. CASE k < next
      BY <1>1, <1>7, <3>2 DEF HooksReached, ShutDown
    <3> QED
      BY <2>2, <3>1, <3>2
  <2>5. \A e \in shut' : \E k \in Indices : e = Hook(k) /\ e # Nil
    BY <1>1, <1>7, <2>1 DEF HooksReached
  <2>6. HooksReached'
    BY <1>1, <1>4, <1>7, <2>4, <2>5 DEF HooksReached, Executed
  <2>7. Listening'
    BY <1>1, <1>7 DEF Listening
  <2> QED
    BY <1>5, <2>6, <2>7
<1>8. CASE UNCHANGED <<listener, shut, next>>
  BY <1>1, <1>4, <1>5, <1>8 DEF HooksReached, Executed, ShutDown, Listening
<1> QED
  <2>1. \/ ~MoreHooks /\ Listen("stop", listener.status) /\ UNCHANGED <<shut, process>>
        \/ /\ MoreHooks /\ UNCHANGED listener /\ next' = next + 1
           /\ \/ Hook(next) = Nil /\ shut' = shut
              \/ Hook(next) # Nil /\ shut' = shut \cup {Hook(next)}
        \/ UNCHANGED <<listener, shut, next>>
    BY DEF ShutDownNext
  <2> QED
    BY <1>6, <1>7, <1>8, <2>1

LEMMA StopStep ==
  ASSUME RInv, ListenerStops, UNCHANGED <<pool, sender, launch>>
  PROVE  RInv'
<1> USE DEF RInv
<1>1. process' # "running" /\ launch # "none" /\ UNCHANGED taskStatusCh
  BY DEF ListenerStops, StopDriver, Quiet, Idle
<1>2. Listening' /\ HooksReached'
  BY DEF ListenerStops, Rest, Idle, Listening, HooksReached, Phases, Statuses
<1> QED
  BY <1>1, <1>2 DEF OutcomeUnderWay, Quiet, Senders, QueueHoldsOne

-----------------------------------------------------------------------------
(* The theorems                                                            *)

LEMMA RInvStep == ASSUME RInv, [Next]_vars PROVE RInv'
<1>1. CASE Executor
  BY <1>1, LaunchStep, ReportStep, PushStep, CallbackStep DEF Executor, SendMesosStatus
<1>2. CASE Listener
  BY <1>2, ReceiveStep, ExecuteStep, ShutDownStep, StopStep DEF Listener, ListenOnTaskStatus, registry
<1>3. CASE Done \/ UNCHANGED vars
  <2>1. Undisturbed /\ UNCHANGED <<sender, launch, process>>
    BY <1>3 DEF Done, vars, outside, hooks, registry, Undisturbed
  <2> QED
    BY <2>1, UndisturbedListener DEF RInv, Quiet, Senders, OutcomeUnderWay, Undisturbed
<1> QED
  BY <1>1, <1>2, <1>3, SurroundingsStep DEF Next

LEMMA RInvAlways == Spec => []RInv
  BY RInvInit, RInvStep, PTL DEF Spec

(* Whatever extensions are built in and whichever of them are configured   *)
(* for a status, the listener stops the driver only after the hooks of the *)
(* outcome have been shut down, and executed if it is a failure            *)
(* (pod.go:1352-1499).                                                     *)
THEOREM HooksBeforeStop == Spec => []StoppedAfterHooks
<1>1. RInv => StoppedAfterHooks
  <2> SUFFICES ASSUME RInv, listener.phase = "stop" PROVE StoppedAfterHooks
    BY DEF StoppedAfterHooks
  <2>1. {Hook(k) : k \in DOMAIN HooksFor[listener.status]} \ {Nil} \subseteq shut
    BY DEF RInv, HooksReached, ShutDown, Indices
  <2>2. listener.status = "FAILED" /\ ~cut => shut \subseteq executed
    BY DEF RInv, HooksReached, Executed
  <2> QED
    BY <2>1, <2>2 DEF StoppedAfterHooks
<1> QED
  BY <1>1, RInvAlways, PTL

(* No reported failure or finish leaves an idle executor behind, whatever  *)
(* the hooks do (pod.go:971, 1363-1382).                                   *)
THEOREM OutcomeAlwaysStopsDriver == Spec => []OutcomeStopsDriver
<1>1. RInv => OutcomeStopsDriver
  <2> SUFFICES ASSUME RInv, sender["report"].pc = "done", listener = Idle, process = "running"
               PROVE  \E k \in DOMAIN taskStatusCh : taskStatusCh[k] # "KILLED"
    BY DEF OutcomeStopsDriver
  <2>1. PICK s \in {"FAILED", "FINISHED"} : taskStatusCh = <<s>>
    BY DEF RInv, OutcomeUnderWay
  <2>2. 1 \in DOMAIN taskStatusCh /\ taskStatusCh[1] = s
    BY <2>1
  <2> QED
    BY <2>2
<1> QED
  BY <1>1, RInvAlways, PTL

-----------------------------------------------------------------------------
(* The logs                                                                *)

(* The launch's follower starts with docker-compose up, which creates      *)
(* containers once; a container that ended is not created again.           *)
Created ==
  /\ containers \in {"none", "up", "down"}
  /\ upPending => containers = "none"
  /\ launch # "up" => containers = "none" /\ ~upPending /\ follower[Launch] = "idle"

(* A flag that is set is held by a follower, and a command that has ended  *)
(* while there are containers copied what they said, unless it ended       *)
(* before they were created.                                               *)
Copying ==
  /\ follower \in [Followers -> {"idle", "wait", "run", "ended", "done"}]
  /\ logStatus => \E f \in Followers : follower[f] \in {"run", "ended"}
  /\ containers # "none" /\ faults = {} =>
       \A f \in Followers : follower[f] = "ended" => copied

(* Who reported the end of a pod that was down has seen to the copy: once  *)
(* the flag is read, all is copied or a follower is at it.                 *)
Owing ==
  \A t \in owed :
    /\ t \in Reporters /\ containers = "down" /\ sender[t].status \in Outcomes
    /\ sender[t].pc \in {"log", "sleep", "push", "leave", "done"}
    /\ faults = {} /\ ~copied => sender[t].pc = "log" \/ \E f \in Followers : Copies(f)

LInv == Created /\ Copying /\ Owing

LEMMA LInvInit == Init => LInv
  BY DEF Init, ProcessInit, LogsInit, HooksInit, LInv, Created, Copying, Owing, Followers, Launch

(* A step of one reporter that owes nothing, or of nobody, leaves the      *)
(* debts as they are.                                                      *)
LEMMA OwingKept ==
  ASSUME Owing, owed' = owed, NEW t \in Reporters, t \notin owed \/ sender'[t] = sender[t],
         \A u \in Reporters : u # t => sender'[u] = sender[u],
         containers = "down" => containers' = "down",
         UNCHANGED <<faults, copied>>,
         \A f \in Followers : Copies(f) => Copies(f)'
  PROVE  Owing'
<1>1. \A u \in owed : u \in Reporters /\ sender'[u] = sender[u]
  BY DEF Owing
<1> QED
  BY <1>1 DEF Owing

(* Docker and main.                                                        *)
LEMMA SurroundingsKeepLogs ==
  ASSUME RInv, LInv, RegisterPlugins \/ StartContainers \/ Environment
  PROVE  LInv'
<1> USE DEF LInv, outside, hooks, logs, registry, quiet
<1>1. UNCHANGED <<logs, listener, taskStatusCh, sender, launch, owed>>
  BY DEF RegisterPlugins, StartContainers, Environment, EndByThemselves, Exit
<1>2. CASE StartContainers
  <2>1. /\ upPending /\ ~upPending' /\ containers' = "up"
        /\ faults' = {} => \A f \in Followers : follower[f] # "ended"
    BY <1>2 DEF StartContainers, CreateContainers, Create, Fault
  <2>2. launch = "up" /\ owed = {}
    BY <2>1 DEF Created, Owing
  <2>3. Created' /\ Copying'
    BY <1>1, <2>1, <2>2 DEF Created, Copying
  <2>4. Owing'
    BY <1>1, <2>2 DEF Owing
  <2> QED
    BY <2>3, <2>4
<1>3. CASE RegisterPlugins \/ Environment
  <2>1. /\ UNCHANGED <<upPending, faults>>
        /\ containers' = containers \/ (containers = "up" /\ containers' = "down")
    BY <1>3 DEF RegisterPlugins, Environment, EndByThemselves, Exit
  <2>2. Created' /\ Copying'
    BY <1>1, <2>1 DEF Created, Copying
  <2>3. Owing'
    BY <1>1, <2>1 DEF Owing, Copies
  <2> QED
    BY <2>2, <2>3
<1> QED
  BY <1>2, <1>3

(* The followers: who holds the flag, and whose command has ended.         *)
LEMMA FollowKeepsLogs ==
  ASSUME LInv, NEW f \in Followers, FollowLogs(f)
  PROVE  LInv'
<1> USE DEF LInv, outside, hooks, logs, registry
<1>1. UNCHANGED <<listener, taskStatusCh, sender, launch, owed, upPending, containers>>
  BY DEF FollowLogs, Follow
<1>2. /\ follower \in [Followers -> {"idle", "wait", "run", "ended", "done"}]
      /\ follower[f] # "idle" /\ faults \subseteq faults' /\ (copied => copied')
  <2>1. CASE RunCommand(f) \/ NoteEnd(f)
    BY <2>1 DEF RunCommand, NoteEnd, Copying
  <2>2. CASE CommandEnds(f)
    <3>1. copied => copied'
      BY <2>2, Zenon DEF CommandEnds
    <3> QED
      BY <2>2, <3>1 DEF CommandEnds, Fault, Copying
  <2> QED
    BY <2>1, <2>2 DEF FollowLogs, Follow
<1>3. PICK label \in {"wait", "run", "ended", "done"} :
        /\ At(f, label)
        /\ \/ follower[f] = "wait" /\ label = "run" /\ logStatus'
           \/ /\ follower[f] = "run" /\ label = "ended" /\ logStatus' = logStatus
              /\ \/ containers # "up" /\ copied' = (copied \/ containers = "down")
                 \/ faults' # {}
           \/ /\ follower[f] = "ended" /\ label \in {"wait", "done"} /\ ~logStatus'
              /\ copied' = copied
  BY DEF FollowLogs, Follow, RunCommand, CommandEnds, NoteEnd, Fault, Afterwards
<1>4. /\ follower' \in [Followers -> {"idle", "wait", "run", "ended", "done"}]
      /\ follower'[f] = label /\ \A g \in Followers : g # f => follower'[g] = follower[g]
  BY <1>2, <1>3 DEF At
<1>5. Created'
  <2>1. launch # "up" => follower'[Launch] = follower[Launch]
    BY <1>2, <1>4 DEF Created, Followers
  <2> QED
    BY <1>1, <2>1 DEF Created
<1>6. Copying'
  <2>1. logStatus' => \E g \in Followers : follower'[g] \in {"run", "ended"}
    BY <1>3, <1>4 DEF Copying
  <2>2. containers # "none" /\ faults' = {} /\ follower'[f] = "ended" => copied'
    BY <1>3, <1>4 DEF Created
  <2> QED
    BY <1>1, <1>2, <1>4, <2>1, <2>2 DEF Copying
<1>7. Owing'
  <2> SUFFICES ASSUME NEW t \in owed, faults' = {}, ~copied', sender[t].pc # "log"
               PROVE  \E g \in Followers : Copies(g)'
    BY <1>1 DEF Owing
  <2>1. containers = "down" /\ faults = {} /\ ~copied
    BY <1>2 DEF Owing
  <2>2. PICK g \in Followers : Copies(g)
    BY <2>1, <1>2 DEF Owing
  <2>3. follower[f] = "wait" \/ follower[f] = "ended"
    BY <1>3, <2>1
  <2>4. follower[f] # "ended"
    BY <1>2, <2>1 DEF Copying
  <2>5. follower'[f] = "run"
    BY <1>3, <1>4, <2>3, <2>4
  <2> QED
    BY <2>1, <2>5 DEF Copies
<1> QED
  BY <1>5, <1>6, <1>7

(* LaunchTask: what it reports is no debt yet, and its own follower starts *)
(* before there are containers.                                            *)
LEMMA LaunchKeepsLogs ==
  ASSUME RInv, LInv, StartLaunch \/ SelectPlugins \/ FailBeforeUp \/ LaunchPod \/ SendPodStatus
  PROVE  LInv'
<1> USE DEF LInv, outside, hooks, logs, registry, quiet
<1>1. /\ sender["report"].pc = "ready" /\ "report" \in Reporters
      /\ UNCHANGED <<listener, taskStatusCh, owed, faults, containers, copied, logStatus>>
  BY DEF StartLaunch, SelectPlugins, FailBeforeUp, LaunchPod, SendPodStatus, StartFollower, RInv, Quiet
<1>2. "report" \notin owed
  BY <1>1 DEF Owing
<1>3. /\ \A t \in Reporters : t # "report" => sender'[t] = sender[t]
      /\ sender'["kill"] = sender["kill"]
  <2>1. sender \in [Reporters -> Reports]
    BY DEF RInv, Senders
  <2> QED
    BY <2>1 DEF StartLaunch, SelectPlugins, FailBeforeUp, LaunchPod, SendPodStatus, Step, Report
<1>5. CASE LaunchPod
  <2>1. /\ launch = "selected" /\ launch' = "up"
        /\ follower' = [follower EXCEPT ![Launch] = "wait"]
    BY <1>5 DEF LaunchPod, StartFollower, At
  <2>2. containers = "none" /\ follower[Launch] = "idle" /\ owed = {}
    BY <2>1 DEF Created, Owing
  <2>3. Created'
    BY <1>1, <2>1, <2>2 DEF Created
  <2>4. Copying' /\ Owing'
    BY <1>1, <2>1, <2>2 DEF Copying, Owing
  <2> QED
    BY <2>3, <2>4
<1>6. CASE StartLaunch \/ SelectPlugins \/ FailBeforeUp \/ SendPodStatus
  <2>1. /\ UNCHANGED <<follower, upPending>>
        /\ launch' = "up" => launch = "up"
        /\ launch = "up" => launch' = "up"
    BY <1>6 DEF StartLaunch, SelectPlugins, FailBeforeUp, SendPodStatus
  <2>2. Created' /\ Copying'
    BY <1>1, <2>1 DEF Created, Copying
  <2>3. Owing'
    BY <1>1, <1>2, <1>3, <2>1, OwingKept DEF Copies
  <2> QED
    BY <2>2, <2>3
<1> QED
  BY <1>5, <1>6

(* A reporter that goes on reports the same status.                        *)
LEMMA ReporterGoesOn ==
  ASSUME RInv, NEW t \in Reporters, NEW label, Step(t, label)
  PROVE  /\ sender'[t].pc = label /\ sender'[t].status = sender[t].status
         /\ \A u \in Reporters : u # t => sender'[u] = sender[u]
<1>1. sender \in [Reporters -> Reports]
  BY DEF RInv, Senders
<1>2. /\ sender'[t] = [sender[t] EXCEPT !.pc = label] /\ sender[t] \in Reports
      /\ \A u \in Reporters : u # t => sender'[u] = sender[u]
  BY <1>1 DEF Step
<1>3. sender'[t].pc = label /\ sender'[t].status = sender[t].status
  BY <1>2 DEF Reports
<1> QED
  BY <1>2, <1>3

(* Before the update nothing is owed.  A debt arises with the update of an *)
(* outcome for a pod that is down.                                         *)
LEMMA UpdateKeepsLogs ==
  ASSUME RInv, LInv, NEW t \in Reporters, SetAndStop(t) \/ SendUpdate(t)
  PROVE  LInv'
<1> USE DEF LInv, outside, hooks, logs, registry, quiet
<1>1. /\ sender[t].pc \in {"set", "update"}
      /\ UNCHANGED <<logs, listener, taskStatusCh, launch, upPending, faults>>
      /\ containers' = containers \/ (containers = "up" /\ containers' = "down")
  BY DEF SetAndStop, SendUpdate, Stopped
<1>2. t \notin owed
  BY <1>1 DEF Owing
<1>3. Created' /\ Copying'
  BY <1>1 DEF Created, Copying
<1>4. CASE owed' = owed
  <2>1. PICK label \in {"update", "log", "ready", "leave", "done"} : Step(t, label)
    BY DEF SetAndStop, SendUpdate, AfterReport
  <2>2. \A u \in Reporters : u # t => sender'[u] = sender[u]
    BY <1>1, <2>1, ReporterGoesOn
  <2>3. Owing'
    BY <1>1, <1>2, <1>4, <2>2, OwingKept DEF Copies
  <2> QED
    BY <1>3, <2>3
<1>5. CASE owed' # owed
  <2>1. /\ Step(t, "log") /\ owed' = owed \cup {t} /\ UNCHANGED containers
        /\ sender[t].status \in Outcomes /\ containers = "down"
    BY <1>5 DEF SetAndStop, SendUpdate
  <2>2. /\ sender'[t].pc = "log" /\ sender'[t].status = sender[t].status
        /\ \A u \in Reporters : u # t => sender'[u] = sender[u]
    BY <1>1, <2>1, ReporterGoesOn
  <2>3. \A u \in owed : u \in Reporters /\ sender'[u] = sender[u]
    BY <1>2, <2>2 DEF Owing
  <2>4. Owing'
    BY <1>1, <2>1, <2>2, <2>3 DEF Owing, Copies
  <2> QED
    BY <1>3, <2>4
<1> QED
  BY <1>4, <1>5

(* ReadLogStatus: whoever sees the flag set leaves the copy to the command *)
(* that is running; else it starts one.                                    *)
LEMMA ReadKeepsLogs ==
  ASSUME RInv, LInv, NEW t \in Reporters, ReadLogStatus(t)
  PROVE  LInv'
<1> USE DEF LInv, outside, hooks, logs, registry, quiet
<1>1. /\ sender[t].pc = "log" /\ Step(t, "sleep") /\ owed' = owed
      /\ UNCHANGED <<copied, logStatus>>
      /\ UNCHANGED <<listener, taskStatusCh, launch, upPending, containers, faults>>
      /\ \/ follower' = follower
         \/ ~logStatus /\ follower' = [follower EXCEPT ![t] = "wait"]
      /\ ~logStatus /\ sender[t].status \in Outcomes =>
           follower' = [follower EXCEPT ![t] = "wait"]
  BY DEF ReadLogStatus, StartFollower, StartsFinalCopy, At
<1>2. /\ sender'[t].pc = "sleep" /\ sender'[t].status = sender[t].status
      /\ \A u \in Reporters : u # t => sender'[u] = sender[u]
  BY <1>1, ReporterGoesOn
<1>3. /\ t \in Followers /\ t # Launch
      /\ follower \in [Followers -> {"idle", "wait", "run", "ended", "done"}]
      /\ follower' \in [Followers -> {"idle", "wait", "run", "ended", "done"}]
      /\ \A f \in Followers : f # t => follower'[f] = follower[f]
      /\ follower'[t] = follower[t] \/ (~logStatus /\ follower'[t] = "wait")
      /\ ~logStatus /\ sender[t].status \in Outcomes => follower'[t] = "wait"
  BY <1>1 DEF Followers, Launch, Copying
<1>4. Created' /\ Copying'
  <2>1. follower'[Launch] = follower[Launch]
    BY <1>3 DEF Followers
  <2>2. Created'
    BY <1>1, <2>1 DEF Created
  <2>3. logStatus' => \E f \in Followers : follower'[f] \in {"run", "ended"}
    BY <1>1, <1>3 DEF Copying
  <2>4. \A f \in Followers : follower'[f] = "ended" => follower[f] = "ended"
    BY <1>3
  <2>5. Copying'
    BY <1>1, <1>3, <2>3, <2>4 DEF Copying
  <2> QED
    BY <2>2, <2>5
<1>5. \A f \in Followers : Copies(f) => Copies(f)'
  BY <1>3 DEF Copies
<1>6. ASSUME t \in owed, faults = {}, ~copied
      PROVE  \E f \in Followers : Copies(f)'
  <2>1. sender[t].status \in Outcomes /\ containers = "down"
    BY <1>6 DEF Owing
  <2>2. CASE logStatus
    <3>1. PICK f \in Followers : follower[f] \in {"run", "ended"}
      BY <2>2 DEF Copying
    <3>2. follower[f] # "ended"
      BY <1>6, <2>1 DEF Copying
    <3> QED
      BY <1>5, <3>1, <3>2 DEF Copies
  <2>3. CASE ~logStatus
    BY <1>3, <2>1, <2>3 DEF Copies
  <2> QED
    BY <2>2, <2>3
<1>7. Owing'
  <2> SUFFICES ASSUME NEW u \in owed
               PROVE  /\ u \in Reporters /\ containers' = "down" /\ sender'[u].status \in Outcomes
                      /\ sender'[u].pc \in {"log", "sleep", "push", "leave", "done"}
                      /\ faults' = {} /\ ~copied' =>
                           sender'[u].pc = "log" \/ \E f \in Followers : Copies(f)'
    BY <1>1 DEF Owing
  <2>1. /\ u \in Reporters /\ containers = "down" /\ sender[u].status \in Outcomes
        /\ sender[u].pc \in {"log", "sleep", "push", "leave", "done"}
        /\ faults = {} /\ ~copied =>
             sender[u].pc = "log" \/ \E f \in Followers : Copies(f)
    BY DEF Owing
  <2>2. CASE u = t
    BY <1>1, <1>2, <1>6, <2>1, <2>2
  <2>3. CASE u # t
    BY <1>1, <1>2, <1>5, <2>1, <2>3
  <2> QED
    BY <2>2, <2>3
<1> QED
  BY <1>4, <1>7

(* The five seconds, and whoever follows the output goes on.               *)
LEMMA SleepKeepsLogs ==
  ASSUME RInv, LInv, NEW t \in Reporters, Sleep(t)
  PROVE  LInv'
<1> USE DEF LInv, outside, hooks, logs, registry, quiet
<1>1. /\ sender[t].pc = "sleep" /\ Step(t, "push") /\ owed' = owed
      /\ UNCHANGED <<logs, listener, taskStatusCh, launch, upPending, containers, faults>>
  BY DEF Sleep
<1>2. /\ sender'[t].pc = "push" /\ sender'[t].status = sender[t].status
      /\ \A u \in Reporters : u # t => sender'[u] = sender[u]
  BY <1>1, ReporterGoesOn
<1>3. Created' /\ Copying'
  BY <1>1 DEF Created, Copying
<1>4. Owing'
  BY <1>1, <1>2 DEF Owing, Copies
<1> QED
  BY <1>3, <1>4

(* A reporter pushes an outcome last, or before it leaves.                 *)
LEMMA PushKeepsLogs ==
  ASSUME RInv, LInv, NEW t \in Reporters, Push(t)
  PROVE  LInv'
<1> USE DEF LInv, outside, hooks, logs, registry, quiet
<1>1. /\ sender[t].pc = "push" /\ Step(t, AfterReport(t)) /\ owed' = owed
      /\ taskStatusCh' = <<sender[t].status>>
      /\ UNCHANGED <<logs, listener, launch, upPending, containers, faults>>
  BY DEF Push
<1>2. sender \in [Reporters -> Reports]
  BY DEF RInv, Senders
<1>3. /\ sender'[t].pc = AfterReport(t) /\ sender'[t].status = sender[t].status
      /\ \A u \in Reporters : u # t => sender'[u] = sender[u]
  BY <1>1, <1>2 DEF Step, Reports
<1>4. sender[t].status \in Outcomes => AfterReport(t) \in {"leave", "done"}
  BY DEF AfterReport
<1>6. Created' /\ Copying'
  BY <1>1 DEF Created, Copying
<1>7. Owing'
  BY <1>1, <1>3, <1>4 DEF Owing, Copies
<1> QED
  BY <1>6, <1>7

(* KillTask, which leaves once its report is done, and Shutdown.           *)
LEMMA CallbackKeepsLogs ==
  ASSUME RInv, LInv, KillTask \/ LeaveAfterKill \/ Shutdown
  PROVE  LInv'
<1> USE DEF LInv, outside, hooks, logs, registry, quiet
<1>1. UNCHANGED <<logs, listener, taskStatusCh, launch, upPending, containers, faults, owed>>
  BY DEF KillTask, LeaveAfterKill, Shutdown
<1>2. Created' /\ Copying'
  BY <1>1 DEF Created, Copying
<1>3. sender \in [Reporters -> Reports]
  BY DEF RInv, Senders
<1>4. CASE KillTask
  <2>1. sender["kill"].pc = "ready"
    BY <1>4 DEF KillTask
  <2>2. "kill" \notin owed
    BY <2>1 DEF Owing
  <2>3. sender'["report"] = sender["report"]
    BY <1>3, <1>4 DEF KillTask, Step, Report
  <2>4. Owing'
    BY <1>1, <2>2, <2>3, OwingKept DEF Copies
  <2> QED
    BY <1>2, <2>4
<1>5. CASE LeaveAfterKill
  <2>1. /\ sender["kill"].pc = "leave" /\ sender'["kill"].pc = "done"
        /\ sender'["kill"].status = sender["kill"].status
        /\ sender'["report"] = sender["report"]
    BY <1>3, <1>5 DEF LeaveAfterKill, Step, Reports
  <2>2. Owing'
    BY <1>1, <2>1 DEF Owing, Copies
  <2> QED
    BY <1>2, <2>2
<1>6. CASE Shutdown
  <2>1. sender' = sender
    BY <1>6 DEF Shutdown
  <2>2. Owing'
    BY <1>1, <2>1 DEF Owing, Copies
  <2> QED
    BY <1>2, <2>2
<1> QED
  BY <1>4, <1>5, <1>6

(* The listener touches neither the logs nor the reporters.                *)
LEMMA ListenerKeepsLogs ==
  ASSUME RInv, LInv, Listener
  PROVE  LInv'
<1> USE DEF LInv, logs, registry
<1>1. UNCHANGED <<logs, sender, launch, upPending, containers, faults, owed>>
  BY DEF Listener, ListenOnTaskStatus
<1>2. Created' /\ Copying' /\ Owing'
  BY <1>1 DEF Created, Copying, Owing, Copies
<1> QED
  BY <1>2

LEMMA LInvStep == ASSUME RInv, LInv, [Next]_vars PROVE LInv'
<1>1. CASE Executor
  BY <1>1, LaunchKeepsLogs, UpdateKeepsLogs, ReadKeepsLogs, SleepKeepsLogs, PushKeepsLogs,
     CallbackKeepsLogs DEF Executor, SendMesosStatus
<1>2. CASE Done \/ UNCHANGED vars
  BY <1>2 DEF Done, vars, outside, hooks, logs, LInv, Created, Copying, Owing, Copies
<1> QED
  BY <1>1, <1>2, SurroundingsKeepLogs, FollowKeepsLogs, ListenerKeepsLogs DEF Next

LEMMA LInvAlways == Spec => []LInv
  BY RInvAlways, LInvInit, LInvStep, PTL DEF Spec

(* Whichever goroutine reported the end of a pod that had been stopped,    *)
(* and whichever of the launch's follower and the final copies held the    *)
(* flag they share, a command that copies the output to its end has ended, *)
(* runs or is about to (pod.go:946-955, wait.go:202-211).                  *)
THEOREM OutputHasAFollower == Spec => []OutputIsFollowed
<1>1. LInv => OutputIsFollowed
  BY DEF LInv, Owing, OutputIsFollowed
<1> QED
  BY <1>1, LInvAlways, PTL

-----------------------------------------------------------------------------
(* Types: what RInv and LInv do not say already                            *)

OutsideTyped == /\ process \in {"running", "leaving"} \cup Gone
                /\ upPending \in BOOLEAN /\ faults \subseteq {"logs", "stale"}

LogsTyped == logStatus \in BOOLEAN /\ copied \in BOOLEAN /\ follower[Launch] # "done"

(* A pool per extension point, which holds extensions under their names.   *)
RegistryTyped == /\ DOMAIN pool = Points
                 /\ \A p \in Points : \A n \in DOMAIN pool[p] : pool[p][n] \in Extensions
                 /\ waiting \subseteq Extensions
                 /\ extpoints = <<>> \/ \E f \in [1 .. Len(Order) -> Extensions \cup {Nil}] : extpoints = f

ListenerTyped == /\ listener # Idle => next <= Len(HooksFor[listener.status]) + 1
                 /\ executed \subseteq Extensions /\ shut \subseteq Extensions /\ cut \in BOOLEAN

LaunchTyped == podStatus \in Statuses /\ launch \in {"none", "started", "selected", "up"}

TInv == OutsideTyped /\ LogsTyped /\ RegistryTyped /\ ListenerTyped /\ LaunchTyped

LEMMA TInvInit == Init => TInv
<1> SUFFICES ASSUME Init PROVE TInv
  OBVIOUS
<1>1. RegistryTyped
  BY BuildsAssumption DEF Init, HooksInit, RegistryTyped
<1>2. OutsideTyped /\ ListenerTyped /\ LaunchTyped
  BY DEF Init, ProcessInit, HooksInit, OutsideTyped, ListenerTyped, LaunchTyped, Statuses
<1>3. LogsTyped
  BY DEF Init, LogsInit, LogsTyped, Followers
<1> QED
  BY <1>1, <1>2, <1>3 DEF TInv

LEMMA OutsideStaysTyped == ASSUME TInv, [Next]_vars PROVE OutsideTyped'
<1> USE DEF TInv, OutsideTyped, outside, Gone
<1>1. CASE StartContainers \/ Environment \/ RegisterPlugins \/ Done \/ UNCHANGED vars
  BY <1>1 DEF StartContainers, CreateContainers, Create, Fault, Environment, EndByThemselves, Exit, RegisterPlugins, Done, vars
<1>2. CASE Executor
  <2>1. CASE StartLaunch \/ SelectPlugins \/ FailBeforeUp \/ LaunchPod \/ SendPodStatus
    BY <2>1 DEF StartLaunch, SelectPlugins, FailBeforeUp, LaunchPod, SendPodStatus
  <2>2. CASE KillTask \/ LeaveAfterKill \/ Shutdown
    BY <2>2 DEF KillTask, LeaveAfterKill, Shutdown, StopDriver
  <2>3. ASSUME NEW t \in Reporters, SetAndStop(t) \/ SendMesosStatus(t) PROVE OutsideTyped'
    BY <2>3 DEF SetAndStop, SendMesosStatus, SendUpdate, ReadLogStatus, Sleep, Push, hooks
  <2> QED
    BY <1>2, <2>1, <2>2, <2>3 DEF Executor
<1>3. CASE Listener
  <2>1. process' \in {"running", "leaving"} \cup Gone
    BY <1>3 DEF Listener, ListenOnTaskStatus, Receive, ExecuteNext, ShutDownNext, ListenerStops, StopDriver
  <2> QED
    BY <1>3, <2>1 DEF Listener, ListenOnTaskStatus
<1>4. ASSUME NEW f \in Followers, FollowLogs(f) PROVE OutsideTyped'
  BY <1>4 DEF FollowLogs, Follow, RunCommand, CommandEnds, NoteEnd, Fault
<1> QED
  BY <1>1, <1>2, <1>3, <1>4 DEF Next

(* The launch's follower repeats its command.                              *)
LEMMA LogsStayTyped == ASSUME RInv, LInv, TInv, [Next]_vars PROVE LogsTyped'
<1> USE DEF TInv, LogsTyped, logs
<1>1. follower \in [Followers -> {"idle", "wait", "run", "ended", "done"}] /\ Launch \in Followers
  BY DEF LInv, Copying, Followers
<1>2. CASE UNCHANGED logs
  BY <1>2
<1>3. ASSUME NEW f \in Followers, StartFollower(f) PROVE LogsTyped'
  BY <1>1, <1>3 DEF StartFollower, At
<1>4. ASSUME NEW f \in Followers, FollowLogs(f) PROVE LogsTyped'
  <2>1. PICK label \in {"run", "ended", "wait", "done"} :
           At(f, label) /\ (label = "done" => f # Launch)
    BY <1>4 DEF FollowLogs, Follow, RunCommand, CommandEnds, NoteEnd, Afterwards
  <2>2. follower'[Launch] # "done"
    BY <1>1, <2>1 DEF At
  <2>3. logStatus' \in BOOLEAN
    BY <1>4 DEF FollowLogs, Follow, RunCommand, CommandEnds, NoteEnd
  <2>4. copied' \in BOOLEAN
    BY <1>4, Zenon DEF FollowLogs, Follow, RunCommand, CommandEnds, NoteEnd
  <2> QED
    BY <2>2, <2>3, <2>4
<1>5. \/ UNCHANGED logs \/ (\E f \in Followers : StartFollower(f)) \/ \E f \in Followers : FollowLogs(f)
  <2>1. CASE RegisterPlugins \/ StartContainers \/ Environment \/ Listener \/ Done \/ UNCHANGED vars
    BY <2>1 DEF RegisterPlugins, StartContainers, CreateContainers, Environment, Listener, Done, vars, quiet
  <2>2. CASE StartLaunch \/ SelectPlugins \/ FailBeforeUp \/ LaunchPod \/ SendPodStatus
    BY <1>1, <2>2 DEF StartLaunch, SelectPlugins, FailBeforeUp, LaunchPod, SendPodStatus, quiet
  <2>3. CASE KillTask \/ LeaveAfterKill \/ Shutdown
    BY <2>3 DEF KillTask, LeaveAfterKill, Shutdown, quiet
  <2>4. ASSUME NEW t \in Reporters, SetAndStop(t) \/ SendMesosStatus(t)
        PROVE  UNCHANGED logs \/ \E f \in Followers : StartFollower(f)
    BY <2>4 DEF SetAndStop, SendMesosStatus, SendUpdate, ReadLogStatus, Sleep, Push, quiet, Followers
  <2> QED
    BY <2>1, <2>2, <2>3, <2>4 DEF Next, Executor
<1> QED
  BY <1>2, <1>3, <1>4, <1>5

(* What is looked up under a point of the registry is an extension or nil. *)
LEMMA LookupTyped ==
  ASSUME RegistryTyped, NEW p \in Points, NEW name
  PROVE  Lookup(p, name) \in Extensions \cup {Nil}
  BY DEF RegistryTyped, Lookup, Has

LEMMA RegistryStaysTyped == ASSUME TInv, [Next]_vars PROVE RegistryTyped'
<1> USE DEF TInv, registry
<1>1. CASE UNCHANGED registry
  BY <1>1 DEF RegistryTyped
<1>2. CASE Register
  <2>1. PICK e \in waiting : /\ waiting' = waiting \ {e}
                             /\ pool' = [pool EXCEPT ![e.point] = Registered(e.point, e)]
    BY <1>2 DEF Register
  <2>2. e \in Extensions /\ e.point \in Points
    BY <2>1, ExtensionsAssumption DEF RegistryTyped
  <2>3. \A n \in DOMAIN Registered(e.point, e) : Registered(e.point, e)[n] \in Extensions
    BY <2>2 DEF Registered, RegistryTyped
  <2>4. DOMAIN pool' = Points /\ \A p \in Points : \A n \in DOMAIN pool'[p] : pool'[p][n] \in Extensions
    BY <2>1, <2>2, <2>3 DEF RegistryTyped
  <2> QED
    BY <1>2, <2>1, <2>4 DEF Register, RegistryTyped
<1>3. CASE SelectPlugins
  <2>1. \A k \in DOMAIN Order : Lookup("ComposePlugin", Order[k]) \in Extensions \cup {Nil}
    BY LookupTyped, PointsAssumption
  <2>2. DOMAIN Order = 1 .. Len(Order)
    BY OrderAssumption
  <2>3. extpoints' \in [1 .. Len(Order) -> Extensions \cup {Nil}]
    BY <1>3, <2>1, <2>2 DEF SelectPlugins, Select
  <2> QED
    BY <1>3, <2>3 DEF SelectPlugins, RegistryTyped
<1>4. UNCHANGED registry \/ Register \/ SelectPlugins
  <2>1. CASE RegisterPlugins \/ StartContainers \/ Environment \/ Listener \/ Done \/ UNCHANGED vars
    BY <2>1 DEF RegisterPlugins, StartContainers, CreateContainers, Environment, Listener, Done, vars, quiet
  <2>2. CASE StartLaunch \/ SelectPlugins \/ FailBeforeUp \/ LaunchPod \/ SendPodStatus
    BY <2>2 DEF StartLaunch, FailBeforeUp, LaunchPod, SendPodStatus, quiet
  <2>3. CASE KillTask \/ LeaveAfterKill \/ Shutdown
    BY <2>3 DEF KillTask, LeaveAfterKill, Shutdown, quiet
  <2>4. ASSUME NEW t \in Reporters, SetAndStop(t) \/ SendMesosStatus(t) PROVE UNCHANGED registry
    BY <2>4 DEF SetAndStop, SendMesosStatus, SendUpdate, ReadLogStatus, Sleep, Push, quiet
  <2>5. ASSUME NEW f \in Followers, FollowLogs(f) PROVE UNCHANGED registry
    BY <2>5 DEF FollowLogs
  <2> QED
    BY <2>1, <2>2, <2>3, <2>4, <2>5 DEF Next, Executor
<1> QED
  BY <1>1, <1>2, <1>3, <1>4

LEMMA ListenerStaysTyped == ASSUME RInv, TInv, [Next]_vars PROVE ListenerTyped'
<1> USE DEF TInv
<1>1. CASE UNCHANGED <<listener, next, executed, shut, cut>>
  BY <1>1 DEF ListenerTyped
<1>2. CASE Listener
  <2>1. \A k : Hook(k) \in Extensions \cup {Nil}
    BY LookupTyped, PointsAssumption DEF Hook
  <2>2. \A s \in {"RUNNING", "FAILED", "FINISHED"} : Len(HooksFor[s]) \in Nat
    BY HooksAreSequences
  <2>3. next \in Nat \ {0} /\ (listener # Idle => listener.status \in {"RUNNING", "FAILED", "FINISHED"})
    BY DEF RInv, Listening, Phases
  <2>4. CASE Receive
    <3>1. listener' # Idle => next' = 1 /\ listener'.status \in {"RUNNING", "FAILED", "FINISHED"}
      BY <2>4 DEF Receive, Listen
    <3> QED
      BY <2>2, <2>4, <3>1 DEF Receive, ListenerTyped
  <2>5. CASE ExecuteNext
    <3>1. listener # Idle /\ listener.status \in {"RUNNING", "FAILED"}
      BY <2>5 DEF ExecuteNext, RInv, Listening, Idle
    <3>2. executed' \subseteq Extensions /\ shut' \subseteq Extensions
      BY <2>1, <2>5 DEF ExecuteNext, ListenerTyped, Rest
    <3>3. cut' \in BOOLEAN
      <4>1. cut' = cut \/ cut' = MoreHooks \/ cut' = FALSE
        BY <2>5, Zenon DEF ExecuteNext, Rest
      <4>2. MoreHooks \in BOOLEAN
        BY DEF MoreHooks
      <4> QED
        BY <4>1, <4>2, Zenon DEF ListenerTyped
    <3>4. listener' # Idle => next' <= Len(HooksFor[listener'.status]) + 1
      BY <2>2, <2>3, <2>5, <3>1 DEF ExecuteNext, MoreHooks, Listen, Rest
    <3> QED
      BY <3>2, <3>3, <3>4 DEF ListenerTyped
  <2>6. CASE ShutDownNext
    <3>1. listener # Idle /\ listener.status \in {"FAILED", "FINISHED"}
      BY <2>6 DEF ShutDownNext, RInv, Listening, Idle
    <3>2. shut' \subseteq Extensions /\ UNCHANGED <<executed, cut>>
      BY <2>1, <2>6 DEF ShutDownNext, ListenerTyped
    <3>3. next' <= Len(HooksFor[listener'.status]) + 1
      BY <2>2, <2>3, <2>6, <3>1 DEF ShutDownNext, ListenerTyped, MoreHooks, Listen
    <3> QED
      BY <3>2, <3>3 DEF ListenerTyped
  <2>7. CASE ListenerStops
    BY <2>7 DEF ListenerStops, StopDriver, Rest, ListenerTyped
  <2> QED
    BY <1>2, <2>4, <2>5, <2>6, <2>7 DEF Listener, ListenOnTaskStatus
<1>3. \/ UNCHANGED <<listener, next, executed, shut, cut>>
      \/ Listener
  <2> USE DEF quiet, hooks
  <2>1. CASE RegisterPlugins \/ StartContainers \/ Environment \/ Done \/ UNCHANGED vars
    BY <2>1 DEF RegisterPlugins, StartContainers, CreateContainers, Environment, Done, vars
  <2>2. CASE StartLaunch \/ SelectPlugins \/ FailBeforeUp \/ LaunchPod \/ SendPodStatus
    BY <2>2 DEF StartLaunch, SelectPlugins, FailBeforeUp, LaunchPod, SendPodStatus
  <2>3. CASE KillTask \/ LeaveAfterKill \/ Shutdown
    BY <2>3 DEF KillTask, LeaveAfterKill, Shutdown, StopDriver
  <2>4. ASSUME NEW t \in Reporters, SetAndStop(t) \/ SendMesosStatus(t)
        PROVE  UNCHANGED <<listener, next, executed, shut, cut>>
    BY <2>4 DEF SetAndStop, SendMesosStatus, SendUpdate, ReadLogStatus, Sleep, Push
  <2>5. ASSUME NEW f \in Followers, FollowLogs(f) PROVE UNCHANGED hooks
    BY <2>5 DEF FollowLogs
  <2> QED
    BY <2>1, <2>2, <2>3, <2>4, <2>5 DEF Next, Executor
<1> QED
  BY <1>1, <1>2, <1>3

LEMMA LaunchStaysTyped == ASSUME RInv, TInv, [Next]_vars PROVE LaunchTyped'
<1> USE DEF TInv, LaunchTyped
<1>1. CASE RegisterPlugins \/ StartContainers \/ Environment \/ Listener \/ Done \/ UNCHANGED vars
  BY <1>1 DEF RegisterPlugins, StartContainers, CreateContainers, Environment, Listener, Done, vars
<1>2. CASE StartLaunch \/ SelectPlugins \/ FailBeforeUp \/ LaunchPod \/ SendPodStatus
  BY <1>2 DEF StartLaunch, SelectPlugins, FailBeforeUp, LaunchPod, SendPodStatus, Statuses
<1>3. CASE KillTask \/ LeaveAfterKill \/ Shutdown
  BY <1>3 DEF KillTask, LeaveAfterKill, Shutdown
<1>4. ASSUME NEW t \in Reporters, SetAndStop(t) \/ SendMesosStatus(t) PROVE LaunchTyped'
  BY <1>4 DEF SetAndStop, SendMesosStatus, SendUpdate, ReadLogStatus, Sleep, Push, RInv, Senders, Reports
<1>5. ASSUME NEW f \in Followers, FollowLogs(f) PROVE LaunchTyped'
  BY <1>5 DEF FollowLogs
<1> QED
  BY <1>1, <1>2, <1>3, <1>4, <1>5 DEF Next, Executor

LEMMA TInvStep == ASSUME RInv, LInv, TInv, [Next]_vars PROVE TInv'
  BY OutsideStaysTyped, LogsStayTyped, RegistryStaysTyped, ListenerStaysTyped, LaunchStaysTyped DEF TInv

(* Every variable keeps to its type: the listener's index stays within one *)
(* of the end of its list of hooks, the channel holds one status at most,  *)
(* and only what is in the build is in the registry (pod.go:1352-1499,     *)
(* extpoints.go:77-116).                                                   *)
THEOREM StatusTypeCorrect == Spec => []TypeOK
<1>1. ASSUME RInv, LInv, TInv PROVE TypeOK
  <2> USE <1>1
  <2>1. ProcessTypeOK
    BY DEF ProcessTypeOK, TInv, OutsideTyped, LInv, Created
  <2>2. LogsTypeOK
    BY DEF LogsTypeOK, TInv, LogsTyped, LInv, Copying
  <2>3. Len(extpoints) \in {0, Len(Order)}
    <3>1. Len(Order) \in Nat
      BY OrderAssumption
    <3>2. CASE extpoints = <<>>
      BY <3>2
    <3>3. CASE \E f \in [1 .. Len(Order) -> Extensions \cup {Nil}] : extpoints = f
      BY <3>1, <3>3
    <3> QED
      BY <3>2, <3>3 DEF TInv, RegistryTyped
  <2>4. taskStatusCh \in Seq(Statuses) /\ Len(taskStatusCh) <= 1
    <3>1. CASE taskStatusCh = <<>>
      BY <3>1
    <3>2. ASSUME NEW st \in Statuses, taskStatusCh = <<st>>
          PROVE  taskStatusCh \in Seq(Statuses) /\ Len(taskStatusCh) <= 1
      BY <3>2
    <3> QED
      BY <3>1, <3>2 DEF RInv, QueueHoldsOne
  <2>5. listener # Idle => next \in 1 .. Len(HooksFor[listener.status]) + 1
    <3>1. listener # Idle => listener.status \in {"RUNNING", "FAILED", "FINISHED"}
      BY DEF RInv, Listening, Phases
    <3> QED
      BY <3>1, HooksAreSequences DEF RInv, Listening, TInv, ListenerTyped
  <2>6. HooksTypeOK
    BY <2>3, <2>4, <2>5 DEF HooksTypeOK, TInv, RegistryTyped, ListenerTyped, RInv, Listening, Phases
  <2> QED
    BY <2>1, <2>2, <2>6 DEF TypeOK, TInv, LaunchTyped, LInv, Owing, RInv, Senders
<1> QED
  BY <1>1, RInvAlways, LInvAlways, TInvInit, TInvStep, PTL DEF Spec
===============================================================================
