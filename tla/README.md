# A TLA+ verification project for dce-go

dce-go is a Mesos executor that runs one pod of Docker containers, described by
docker-compose files, as one Mesos task. This directory models the executor's control
logic in TLA+, checks it with TLC and proves part of it with TLAPS. Source paths
below are relative to the repository root; `pod.go` is `utils/pod/pod.go`, `main.go`
is `dce/main.go`, `monitor.go` is `dce/monitor/plugin/default/monitor.go`.

## The system

| Part | State | Operations | Talks to |
|---|---|---|---|
| Executor callbacks (`main.go`) | the list of plugins | LaunchTask, KillTask, Shutdown; `main` waits in `driver.Join` | Mesos driver (callbacks in, updates and Stop out), everything below |
| Pod status and reporting (`pod.go`) | CurPodStatus (status, launched), LaunchCmdAttempted, MonitorContainerList, taskStatusCh (capacity 1) | SendPodStatus, SendMesosStatus, StopPod, WaitOnPod, ListenOnTaskStatus | shared by LaunchTask, the deadline, the monitor, KillTask and the listener, each in a goroutine of its own |
| Initial health check (`pod.go` HealthCheck) | its list of containers, the count of healthy ones, HealthCheckListId | one pass after another over the containers with docker inspect | replies a verdict to LaunchTask on a channel, fills MonitorContainerList |
| Default monitor (`monitor.go`) | MonitorContainerList | polls forever until FAILED or FINISHED | started by LaunchTask after RUNNING, reports through SendPodStatus |
| Polling and waiting (`utils/wait/wait.go`) | timers, ticker, reply channels | PollForever, PollUntil, WaitUntil, PollRetry, RetryCmd, WaitCmd | the monitor, initHealthCheck, every docker command |
| Log follower (`wait.go` RetryCmdLogs, `pod.go` dockerLogToPodLogFile) | LogStatus, one flag for all followers | follow the containers' output, again after each end or once | started by LaunchPod and by each report of an outcome |
| General plugin (`pluginimpl/general`) | ServiceDetail, the infra compose file | edits compose files before the pull, cleans up in PostKillTask | called at fixed points of LaunchTask and StopPod |
| Compose file store (`utils/file/file.go`) | ComposeFiles, ServiceDetail, the pod's folder | list, copy, prefix, parse, write | general plugin, LaunchTask |
| Configuration (`config/config.go`) | viper's keys, shared by all | OverrideConfig from the task's labels; getters | everything |
| Plugin registry (`plugin/extpoints.go`) | named maps under a lock | Register, Unregister, Lookup, Select | LaunchTask, StopPod, MonitorPoller, hooks |
| Pod status hooks (`pod.go`) | none | init, Execute, Shutdown by configured name | ListenOnTaskStatus |
| Step metrics (`utils/pod/util.go`) | StepMetrics, a map without a lock | StartStep, EndStep, UpdateHealthCheckStatus | LaunchTask, HealthCheck, plugins |
| Mesos cleanup hook (`mesos-modules/hook`) | none | removes the containers of an executor that is gone | the agent |

What is hard here:

* five goroutines read and set the pod status; SendPodStatus checks it and sets it
  in two critical sections, KillTask reads it and sets it with no check;
* the launch deadline runs beside a LaunchTask that never looks at its context;
* every report pushes on a channel of capacity 1 whose reader also stops the driver,
  and the process ends as soon as the driver has stopped, wherever the others are;
* containers fail, finish and change health while they are inspected one by one, and
  a list is shortened while it is walked;
* docker commands fail at any point, some errors are dropped, and cleanup depends on a
  status that another goroutine may change meanwhile;
* a condition that outlives its timeout leaves its goroutine behind, a command that does
  leaves its process behind;
* statuses queue behind the hooks of an earlier status, and hooks may fail or panic;
* log followers share one flag, and a follower that ends clears it for all of them;
* file paths are prefixed and shortened in several places, each deciding anew, while
  labels change the configuration they depend on;
* the executor may be lost in the middle of a teardown, and then only the agent's hook
  is left.

What makes each part correct: the agent learns one outcome, and the executor
always leaves then, and only then or when asked, with the pod down and cleaned
(reporting); a verdict is sound and comes (health check, monitor); a poll ends and
never doubles its condition (waiting); a killed pod is cleaned and a failed one kept
as configured, whichever thread cleans (plugin); every file of the task is launched as
the plugins edited it (launch); the hooks of an outcome have run when the driver stops,
and somebody copies the logs (listener, followers); nothing of a lost executor stays up (hook).

## Modules

| Module | What it is |
|---|---|
| `TaskLifecycle` | abstract: what the executor promises the agent about its task |
| `PodLifecycle` | the callbacks of `main.go` and the reporting half of `pod.go`, all goroutines interleaved |
| `PodLifecycleProperties` | its properties, the refinement of `TaskLifecycle` and the inductive invariants `IInv` and `OutcomeInv` |
| `PodLifecycle_proofs`, `PodOutcome_proofs` | theorems about it: types, why the driver stops, the refinement; and the outcomes |
| `PodHealth`, `PodHealth_proofs` | HealthCheck and the default monitor against changing containers; theorems |
| `PollWait`, `PollWait_proofs` | PollUntil and WaitUntil; theorems |
| `PodCleanup` | two cleanups of one pod by the general plugin |
| `CleanupHook`, `CleanupHook_proofs` | extends `PodCleanup`: the executor is lost anywhere in them, docker-compose commands go on without it, the agent's hook follows; theorems about both |
| `LaunchPreparation`, `LaunchPreparation_proofs` | LaunchTask up to docker-compose up: files, labels, configuration, writing, validation, pull; theorems |
| `ExecutorProcess` | the executor's process, docker-compose up and the containers; extended by the next two |
| `LogFollower` | the followers of the containers' output |
| `StatusHooks` | the plugin registry, the listener and its hooks, stopDriver |
| `StatusReport`, `StatusReport_proofs` | extends both: the reports of LaunchTask, the monitor and KillTask through SendMesosStatus, up to the end of the process; theorems |
| `ComposeEditor`, `ComposeEditor_proofs` | the general plugin's editing of the compose files, before and after the launch; theorems |
| `MC_*` | the instances TLC checks, one `.cfg` per run |

### PodLifecycle

Each goroutine or callback is a thread at a label `pc[t]`: `launch`, `wait` (WaitOnPod),
`monitor`, `listener` (ListenOnTaskStatus) and one thread per KillTask callback. The
labels `check`, `set`, `route`, `stop`, `clean`, `send`, `push` are the bodies of
SendPodStatus, StopPod and SendMesosStatus, which all reporters run; the others belong
to one thread. A step is one access to shared state.

| Code | Actions |
|---|---|
| SendPodStatus (`pod.go:878`) | CheckStatus, SetStatus, RouteStatus |
| StopPod, ForceKill, PostKillTask (`pod.go:402`) | StopContainers, PostKillPlugins |
| SendMesosStatus (`pod.go:934`) | SendUpdate, PushStatus |
| LaunchTask (`main.go:73`) | LaunchTask, ArmDeadline, EarlyStep (plugins, validate, pull), WriteFiles, BeginUp, EndUp, InitHealthCheck, PostLaunchTask, StartMonitor |
| the launch context, WaitOnPod (`pod.go:995`) | Deadline, WaitOnPod |
| monitor goroutine (`main.go:307`) | MonitorVerdict |
| KillTask (`main.go:329`) | KillTask, MarkKilled, KillStopsDriver |
| Shutdown, main | Shutdown, Exit |
| ListenOnTaskStatus, hooks, stopDriver | ReceiveStatus, ActOnStatus |

Details kept on purpose: a failing WriteChangeToFiles reports FAILED and does not return
(`main.go:180-185`); early failures set the status and send the update directly, without
SendPodStatus; the monitor starts whether or not RUNNING was accepted; a FINISHED pod with
an empty monitor list is not stopped; ForceKill succeeds on an empty list;
SendStatusUpdate is refused once the driver has stopped, and then nothing is pushed.
Abstracted: SetPodStatus and cancel in a failing launch are one step; the
five-second sleeps only let others run (nothing in the model relies on their length); the
verdict of HealthCheck and the monitor is nondeterministic here and is `PodHealth`'s
subject; that getServices does not panic on the edited files is `LaunchPreparation`'s
LaunchedAsEdited; custom monitor plugins, which may return any status, are left out. The Mesos driver is not in this repository: it
is modelled from its use, and whether it overlaps callbacks is the constant
SerialCallbacks, checked both ways.

Four history variables name what the environment or the code's own races did, so that
properties can state precisely what they except: `faults` (`write`: the launch went on
after a failed write; `late`: it went on or failed after the deadline; `stop`: neither
stop nor kill worked; `inspect`: an inspect error was taken for an exit), `raced` (a
status changed between another thread's check and set), `shut` and `cleaned`.

### PodHealth

Docker's view of each container (`env`) changes freely: containers appear, change health,
exit with 0 or not. HealthCheck (ListServices, LookUpInfra, InspectNext, EndRound) and
then the monitor (MonitorStart, MonitorInspect, MonitorRoundEnds) inspect one container
per step. CheckContainer returns its zero values, not running and exit code 0, when the
inspect fails; HealthCheck ignores the error and the monitor does not. An exit is final:
restart policies are not modelled. The loop at `pod.go:1182` is one step, because
GetServiceContainers either returns every service or an error: a service without a
container has an empty id, which GetContainerPid refuses, so the loop never waits for it
although the comment above it says so. Timeouts are `PollWait`'s and `PodLifecycle`'s.
`steps` is the health check's part of StepMetrics (StartStep, EndStep,
UpdateHealthCheckStatus): each container's entry is Starting, Success or Error. The entry of
a container that exited with 0 says Error: EndStep gets no error (`pod.go:1261`), but the tag it
gets has a health status that is not "healthy" (`util.go:115`). Whether HealthCheck and the monitor
look for the infra container is the constant's Infra here and the key rm_infra_container in the code
(`monitor.go:33`); the general plugin, which makes the container and sets the key, keeps the two
together.

### PollWait

The poller is in its `select` or inside WaitUntil; the timers, the ticker (a channel of
one tick), done, and the condition goroutines each move on their own. Time is the order in
which timers fire: WaitUntil's timer has PollUntil's duration and starts later, so it
fires later. The initial state covers both PollUntil with a timeout and PollForever.
A goroutine keeps a slot until it has replied; slots are reused, so polls go on forever in
the model.

### PodCleanup

KillTask and a report of the monitor stop a running pod side by side; each then runs the
general plugin's PostKillTask, reading the status again. What docker-compose down and
docker network rm remove is modelled externally: down removes containers and the pod's own
networks, `-v` its volumes, `--rmi` its images; a network in use is not removed. All
cleanup and network configurations are initial states.

### CleanupHook

ExecutorEnds may come at any state of `PodCleanup`; the commands the executor was running are
processes of their own and any of them may still take effect (`orphans`). The hook is one
function: docker ps by label, docker stop, docker inspect for the name of the cgroup, lscgroup
and cgdelete for the groups below it. It runs once and ignores what its
commands return: docker ps, docker stop, docker inspect, lscgroup and cgdelete may each fail, and
`mute` records which did. The containers a stopped hook found stay, as in the
code: removeContainer has no caller. Not covered: a docker-compose up that creates containers
after the hook has listed them, which nothing in the code prevents.

### LaunchPreparation

`label` and `given` are the task's labels and what the agent fetched; `config` holds the keys
a launch reads after OverrideConfig; `disk`, `files`, `detail` and `edited` are the
file system, pod.ComposeFiles, ServiceDetail and the plugin's editedFiles. A path is the folders it leads through, the words of its
last part and whether it got its generated name: FolderPath, FirstField (the code takes
`strings.Fields(...)[0]`), InFolder and WritePath are what the code does to paths, and the
content of a file is only where it came from and whether it has services.

| Code | Actions |
|---|---|
| GetFiles, GenerateAppFolder, CopyFile (`file.go:50`, `527`, `620`) | GetFiles, GenerateAppFolder, CopyNext, CopyDone |
| OverrideConfig (`config.go:281`), the launch context, WaitOnPod | OverrideConfig, FireDeadline, WaitOnPod |
| cancel() and SendMesosStatus of a step that fails (`main.go:171-185`) | ReportFailure, in PluginFails, WriteChangeToFiles, ValidateCompose, PullFails |
| ParseYamls (`file.go:506`), the general plugin | ParseYamls, CreateInfraContainer, EditFile for each file, EditDone, PluginFails |
| WriteChangeToFiles (`file.go:224`) | WriteChangeToFiles, before the validation and after the pull |
| ValidateCompose, PullImage, PollRetry, WaitCmd | ValidateCompose, PullImage, PullFails, SkipPull, FireTimer |

Kept on purpose: the launch goes on without the folder when it cannot be made; a file that
cannot be read parses as an empty one; os.Create empties a file before it is copied, also
onto itself, which it is when dontcreatefolder is set; a blank entry of the label panics
where nothing recovers (`file.go:564`); a failed write does not end the launch; WaitCmd gives
a command up without ending it. Each step that fails cancels the launch context before it reports:
then the deadline is off and WaitOnPod ends silently (`pod.go:1010`), but WaitCmd's timer, which
knows no context, is not; after a failed write the launch goes on like that. `told` records that
TASK_FAILED was sent, by the step or by WaitOnPod. Time is the order of the timers: WaitCmd's starts
after the launch context's and has the same duration, so that it fires after it or after it was
cancelled.

Assumed of the input: the task's own paths lead through no folder of a run, which the launch
itself makes, and none of its files ends in -generated.yml; fetched files lie in the task's
folder or beside it; no file name contains the name of a folder (FolderPath looks for it in
the whole path). A file of the label may have the name of the infra container's file, which
then replaces it: that is one of the reasons in `Lost`.

### LogFollower, StatusHooks, StatusReport

`StatusHooks` holds the registry (`pool`), the channel, and the listener with the hook it has
reached; `LogFollower` the followers and their flag. `StatusReport` adds the two goroutines
that report: `report` is LaunchTask with its deadline and the monitor, `kill` is KillTask.
SendMesosStatus is SendUpdate, ReadLogStatus, Sleep, Push, each a step of its own; what
precedes it (whose verdict wins) is `PodLifecycle`'s and is simplified here to one status
that a reporter may set.

| Code | Actions |
|---|---|
| `extpoints.go` register, lookup, Select | RegisterPlugins, SelectPlugins, Lookup |
| ListenOnTaskStatus (`pod.go:1352`) | Receive |
| execPodStatusHooks (`pod.go:1431`) | ExecuteNext |
| stopDriver (`pod.go:1473`) | ShutDownNext, ListenerStops |
| dockerLogToPodLogFile, RetryCmdLogs | StartFollower, RunCommand, CommandEnds, NoteEnd |
| SendMesosStatus (`pod.go:934`) | SendUpdate, ReadLogStatus, Sleep, Push |
| KillTask, Shutdown, main | KillTask, LeaveAfterKill, Shutdown, Exit |

Extensions register in any order, before a callback arrives; the first of a name stays. A
hook returns, fails or panics: a panic in Execute is recovered and ends the execution, one in
the hook's Shutdown ends the process. The code reads the hook list once per status, and
executes hooks for RUNNING and FAILED only: those of FINISHED are shut down without having
been executed, and nothing is done for KILLED, whose driver KillTask stops itself. A nil
plugin, named in the order but not built in, fails the launch and crashes Shutdown
(`main.go:376`); both are in the model.

Nothing is assumed of time. SendMesosStatus sleeps five seconds for Mesos' sake (`pod.go:965-968`)
while the final copy, if it started one, runs in a goroutine that nothing waits for: the driver may
stop and the executor exit before it is through, and then the rest of the output is lost. The model
has these runs, and OutputIsFollowed does not claim that the copy is complete, only that there is
one: whoever sent the outcome of a stopped pod and has read the flag leaves behind a follower that
will get to the end of the output, or a copy that is. What can break that is recorded in `faults`: a
docker-compose logs that fails ("logs"), and a flag that is still set, when the containers are
created, by a command that ended before there were any ("stale"). A report that finds such a flag
starts no final copy; the code allows it, and no property forbids it.

### ComposeEditor

`pod` holds the user's files and `offered` the ports of the task (pod.GetPorts); both are
chosen at the start. `files` is pod.ComposeFiles, `detail` is ServiceDetail, keyed by the
number of a file and whether it got its generated name, `edited`, `at` and `todo` are
LaunchTaskPreImagePull's loop over files and editComposeFile's loop over a Go map, whose
order is any. `taken` counts the ports consumed, `config` holds the two configuration keys
the plugin communicates through (ports, rm_infra_container). One action edits one service,
as updateServiceSessions does; it reads and changes only that service, the ports, the extra
hosts and the configuration. A service that runs out of ports is left half edited, as in the
code. A port request is the sequence of its fields between colons: a single field is a port
docker is to choose, with more the code replaces the first field and keeps the second.

Files are assumed not to be generated ones already and no user service to be called
networkproxy. rm_infra_container and ports are unset in the shipped configuration.
Failures: CreateInfraContainer, WriteChangeToFiles, docker-compose ps and docker port.

Faults of the code seen in this model. Where a file has no services, removing the infra
container of a host pod panics (run `compose_host`). A pod in which one service uses the
host network loses the infra container even though the other services were told to join
it, so that docker-compose cannot start them; extra hosts are lost whenever the infra
container is removed; `127.0.0.1:8080:80` publishes 8080 as container port. The
properties state what holds beside these: NetworkIsThere is about pods with some service that
do not mix network modes, HostSettingsMoved about pods that keep the infra container and, for ports,
requests of one or two fields. That the files listed in the end all have services is
`LaunchPreparation`'s LaunchedAsEdited.

## What is checked

| Run | Shows |
|---|---|
| `serial` | one KillTask, callbacks one at a time, fair: the driver stops only with an outcome or a request (StopIsExplained); TASK_RUNNING is second or never (RunningInOrder); every launch resolves, an expired deadline concludes, and after an outcome or a request the process ends (ExecutorLeaves), so the channel of capacity 1 never wedges it |
| `concurrent` | overlapping callbacks: at most one outcome is sent unless a race or a late launch intervenes (SingleOutcome), the pod is down and the plugins have run when the executor leaves with an outcome (ConcludedPodIsDown), and the executor implements TaskLifecycle |
| `killnoop` | violated: a KillTask that finds the pod failed is documented as a no-op (`docs/how-to-develop.md:36`), but its deferred driver.Stop can end the process before TASK_FAILED is sent, when stopping the pod takes longer than its sleep |
| `stopfirst` | violated: a finished pod is stopped after the status is sent to Mesos (comment, `pod.go:897`), PostKillTask runs after a kill is sent (comment, `plugin/type.go:42`); both come before anything is sent |
| `health` | verdicts are sound (VerdictIsSound, FailedHasCause) and come, for both kinds of task, whatever containers do meanwhile; only a container that exited, or could not be inspected, is dropped (RemovedHasExited), and the step metrics agree with the verdict (StepsTellVerdict) |
| `health_removed` | violated: a running container whose inspect failed is dropped as "exited(exit code = 0)" (`pod.go:1264`) |
| `poll` | a poll with a deadline ends at it even if the condition hangs, never doubles its condition, leaves no goroutine blocked on its reply |
| `lost` | a killed pod is cleaned and a failed pod's network removed, with two cleanups interleaved under every configuration, any failing command, and an executor that may be lost at any step; then the agent's hook leaves nothing up unless its docker ps or docker stop fails, and no cgroup of kept containers unless one of its commands does (LeftoversStopped) |
| `compose` | a pod is refused for want of ports exactly when it asks for too many; host ports are distinct; each port and extra host arrives at the infra container; the infra container is there for those that join it; docker's choice of ports reaches the disk, as an empty one where docker port fails |
| `launch` | docker-compose is started with the files as edited, although failed writes do not end the launch (LaunchedAsEdited); no file of the label is lost but for the reasons that NoFileLost names; a command that WaitCmd gives up runs on behind a launch whose failure has been sent, or whose deadline has expired for WaitOnPod to send it (StrayIsReported); pulls stay within pullretry (TypeOK) |
| `hooks` | the driver is stopped for an outcome after that outcome's hooks (StoppedAfterHooks), and is stopped whatever they do (OutcomeStopsDriver); the output of a stopped pod is copied, or somebody is at it, once its outcome was sent and the flag read (OutputIsFollowed) |
| `compose_host` | violated: a pod on the host network with a compose file that has no services is not launched without the infra container (`docs/how-to-develop.md:285`), the plugin panics at `impl.go:122` |

Each property of a passing run is backed by a mutant: an operator `X_Something` beside the
definition `X` it replaces, a plausible bug that TLC finds with that property.

Bounds. `PodLifecycle` is finite: one KillTask, with every interleaving of five threads,
no bound on steps; an ad hoc task, because a service only loses the FINISHED verdict. Two
overlapping KillTasks were also explored and behave alike. The serial run, which checks
liveness, has a VIEW that leaves out what no guard and none of its other properties read
(launched, cleaned, faults, raced). `PodHealth` has two containers,
which is what a removal beside an inspected container, and an infra container beside an
application, need: every verdict compares one container with the rest. The two may both
have a health check; a probe that fails makes one look unchecked. `PollWait` has two
slots, one more than OneConditionAtATime allows. `PodCleanup` is finite as it is.
`CleanupHook` is finite too (350,000 states). `LaunchPreparation` has nine
listings, with a file in the task's own folder and one beside it, one name in both, two names
that share their first word, a file named like the infra container's, and a blank name; three
sets of fetched files; every override; one retry (2 million states). `StatusReport` has two builds: a complete one, and one in which
two hooks compete for a name while a hook and the ordered plugin are missing; one or two hooks
per status; two reporters (4.2 million states). An executor without any hook or monitor was
also explored and adds nothing. Both runs take a minute or two.
`ComposeEditor` has all pods of two files with up to two services (the same names may be in
both), five forms of one and two of the other: a file without services, every network mode,
ports in each form, extra hosts from two places. Six offered ports cover the largest pod, two
run out in the first or the second file, none refuses the first request.

Fairness. `PodLifecycle`: weak fairness of each runnable goroutine (the Go scheduler),
which also says that docker commands and plugins return and health checking ends at its
timeout; none for Mesos' callbacks, the deadline and the monitor's verdict. `PodHealth`:
inspecting goes on, and a health check that is starting comes to a result; nothing makes
containers exit. `PollWait`: timers fire, a reply is sent, and strong fairness of the timeout
case, as Go's select picks among ready cases at random; a condition may hang forever. The
other modules state no liveness: what must eventually happen there (the listener comes to
stop the driver, a report gets through the channel) is ExecutorLeaves of `PodLifecycle`.

## What is proved

TLC checks a few kills, containers or files; the theorems hold for every value of the
constants. Each inductive invariant stands in the module of its properties, or at the head of
its proofs, and TLC checked it on the instances of the runs before it was proved.

### The lifecycle

For every set of KillTask callbacks, both callback modes and both kinds of task
(assumptions: KillsAssumption, the callbacks are threads of their own, and ModeAssumption):

* `TypeCorrect`: TypeOK, which includes that the status channel holds at most one entry;
* `InvCorrect`: the inductive invariant `IInv`;
* `DriverStopsForAReason`: StopIsExplained;
* `LifecycleImplemented`: PodLifecycle implements TaskLifecycle;
* `OutcomeInvCorrect`: the inductive invariant `OutcomeInv`, and from it
  `OneOutcome` (SingleOutcome), `LeftPodIsDown` (ConcludedPodIsDown) and `RunningSecond`
  (RunningInOrder).

StopIsExplained is not inductive: the listener stops the driver long after an outcome was
sent. `IInv` adds Told (an outcome at `push`, in the channel or in the listener's hands is
one the agent already has), NotYetStarted (before TASK_STARTING is accepted only LaunchTask
is under way, so no later report can come first) and OwnReports (only kills report KILLED,
only the launch reports STARTING). The proof takes the reporting routines once for all
threads and every other action as a move of one thread (MoveInv); the refinement follows
from IInv, action by action.

None of the three properties of the outcomes is inductive either. SingleOutcome rests on
OneConcludes: without a race the thread that passed the check and set a final status is the
only one between there and the agent, and before a final status there is none. For that the
labels a thread returns to must be known (ReportsAndReturns), because a failing launch goes
through SendMesosStatus and carries on. ConcludedPodIsDown speaks of an executor that leaves; it
rests on DownAndCleaned, which follows the code's order (stop, clean, send) label by label, and on FinishedIsDown for
the one outcome that stops nothing, a pod that finished with an empty monitor list.
LaunchFirst says that before docker-compose up nobody else reports and no container is up:
without it a kill could be done before the containers come. RunningInOrder rests on
LaunchAlone: with callbacks one at a time and the deadline not past, the launch alone
reports until it is over, so the status tells what has been sent.

### The health check and the monitor

For any set of containers and both kinds of task, `PodHealth_proofs` proves `HealthInvCorrect`, and
from `HealthInv` TypeOK, VerdictIsSound, FailedHasCause, RemovedHasExited and
StepsTellVerdict. HealthInv adds the bounds of the index and the count (a removal takes one
from both, so the count may fall below 0 and never exceeds what the round has passed), what
each phase leaves unset, that what is off a list exited with 0 (OffTheLists), and
CountedAreWell: if the round has counted every container it passed, all of them are well
now as far as their steps go, and a container that failed before the round is still ahead.
So the round that ends with the count at the length of the list has met no failure. The proofs need what a
removal and an EXCEPT do to a list without repetition; those lemmas come first.

### The cleanup and the hook

For every configuration, network and interleaving of two cleanups, `CleanupHook_proofs`
proves KilledIsCleaned and FailedLosesNetwork of `PodCleanup` from `CleanupInv`, and of the extended
system HookTypeOK and LeftoversStopped from `HookInv`. The argument of CleanupInv: a status KILLED that still stands was
set by the kill, whose own cleanup read it, whatever the report's cleanup did between; the
same holds of FAILED and the report. The network goes with docker-compose down or, on the
other way, with docker network rm. HookInv adds that after the hook's stop nothing starts
a container again, orphans included, and that a cgroup is only left behind by containers that were
already gone or by a command of the hook that failed.

### Reports, hooks and logs

For any extensions, builds, hook lists and plugin order (assumptions: the two reporters, the
three extension points, extensions have strings for names, and hook lists and the order are sequences of
names), `StatusReport_proofs` proves HooksBeforeStop (StoppedAfterHooks), OutcomeAlwaysStopsDriver
(OutcomeStopsDriver), OutputHasAFollower (OutputIsFollowed) and StatusTypeCorrect (TypeOK).
For the hooks, `RInv` adds how far the listener has come (HooksReached: every registered hook behind the
current one has been executed, or shut down; what was shut down is a hook of this status),
that a reported outcome is on the channel, with the listener or has ended the process
(OutcomeUnderWay), that the channel holds one status, and that nothing is under way before the
launch, so that the registry no longer changes under the listener (Quiet).
For the logs, `LInv` says that a set flag has a holder whose command runs or has just ended,
and that an ended command has copied what there was, unless it ended before there were containers
(Copying); and that a reporter which sent an outcome of a pod that was down is before its look at
the flag, or some follower is at the copy, or the copy is done (Owing). All of it is conditioned on
`faults` being empty, and nothing on time. `TInv` holds the types the other two do not imply.

### Waiting, editing, preparing

For any set of slots, `PollWait_proofs` proves NeverTwoConditions and PollTypeCorrect from
`PInv`: a running condition is the one WaitUntil waits for and has no reply of, until the
poll has returned.

For any services, pods and offered ports, `ComposeEditor_proofs` proves every property of
`ComposeEditor` that its run checks: TypeOK, HostPortsDistinct, PortsSuffice,
HostSettingsMoved, NetworkIsThere and ExposedPortsWritten. The assumptions: a pod is a sequence
of files, each with finitely many services, which are in Services; a port request has at
least one field; the ports Mesos offers are distinct; no service is called networkproxy.

None of the properties says anything of the loops that lead there. `PInv`, enough for
HostPortsDistinct, adds that the files still to come are in ServiceDetail under their old names
(Unedited) and that each collected host port is one of the first `taken` offered ones
(Collected); RankGrows and MappedPorts say that ranks grow with each request that needs a
port. The others need `EInv`, which adds, while the launch has not failed, which services have
been edited (Edited: those of the files before `at`, and of the file at `at` those no longer
in `todo`), under which name each file of the pod is found and that it has kept its services
(NameNow, HasContent), what each edited service has become (ServicesMade) and what the infra
container has (InfraMade), which files are listed (ListedFiles: the edited ones, then those to
come) and what the loops have counted (Counted). Counting is by cardinality: the ports taken
are as many as the requests of edited services that need one (Needing), and of each container
port as many mappings have been collected as edited services asked for it (Moved, Arrived).
At the end every service of the pod is edited, and what the invariant says of the edited ones
is the property. A launch refused for want of ports (PortsRefused) leaves one service half
edited, so that more is needed than what the counted services and the offer allow.

### The preparation of a launch

For any listings, fetched files and retry count, `LaunchPreparation_proofs` proves
PreparationTypeCorrect (TypeOK), FilesAreAsEdited (LaunchedAsEdited), NoListedFileLost
(NoFileLost) and StraysAreReported (StrayIsReported). Assumed are the forms of the label's
and the fetched paths (ListingAssumption, PresentAssumption, as under LaunchPreparation above)
and RetryAssumption.

The inductive invariant of the first three, `PrepInv`, has three parts. `TInv` types paths,
lists and contents, and adds that whatever is kept in an entry is settled: FolderPath and
Fields no longer change it, so that WriteToFile writes an entry under its own key. `EntryInv`
says that generated names are in use from the editing on and only there (PlainNames, OneName),
that a listed file then has an entry with services (HaveEntries), that what the disk holds
under a generated name is what the entry holds unless a write was cut short (WrittenAsHeld),
and that validation has found every file (Checked). `FileInv` follows each file of the label
through the launch: under which path it is listed (Shape), that the copy at this path is whole
(Copies), and which entry it has become (Entries), or else why it may be lost. It needs lemmas
on paths: copies made in the run's folder get different keys although a label may replace the
folder in between (RunKeysDiffer), a copy overwrites no file of another name (CopiesApart),
and a file that the copy emptied stays empty (TaskFileAsKey). Proving it showed reasons for a
loss that the runs had not reached, which `Lost` and the listings now include: a file named
like the infra container's, and files told apart by a folder only some steps add.

The invariant of the fourth, `DInv`, adds that WaitCmd's timer fires only when the deadline is no
longer ahead, also when the configured timeout is negative and both are over at once; that a
context is cancelled only by a step that also reports; and that neither timer exists before the
labels have been applied.

### What stays with TLC

Liveness under fairness is out of TLAPS' reach: every temporal property but the refinement.
Every other property that a passing run checks is a theorem.

## Where docs or comments and the code part

Four runs show them (`killnoop`, `stopfirst`, `health_removed`, `compose_host`). ConcludedPodIsDown is
stated so that it does not take sides in `stopfirst`: it is about the executor leaving.
Others that were met and have no run, because a glance at the code settles them:

* "Non pre-existing networks will always be removed" (`impl.go:172`): not if the pod ended otherwise
  than failed and neither volumes nor images are cleaned (`impl.go:181-226`).
* PollForever is documented to end with a condition's error (`wait.go:39`); PollUntil drops
  the error, and the default monitor relies on that.
* launchtask.pullretry is documented to default to 1 (`docs/how-to-develop.md:351`); the code's
  default is 3 (`config.go:134`).
* the comment at `pod.go:1182` promises to wait for containers that are late; it does not.

Behaviours worth knowing that no property forbids: the launch context handed to hooks has been
cancelled by the time they run for a failed launch; RetryCmd with a retry count of 0 returns
without having run its command (`wait.go:157`); a cleanpod.timeout that is a plain number is
read as nanoseconds, which makes 0 seconds (`config.go:180`); the agent's hook keeps the cgroup if the containers are already
gone, and takes whatever docker ps prints for container ids (`compose_pod_cleanup_hook.cpp:50`).

## What is not modelled

* RetryCmd, whose loop has no shared state.
* Of the file store: SplitYAML, SearchFile, CopyDir, OverwriteFile, the dump of compose files:
  helpers for plugins, with no caller in the executor's path or no state of their own.
* Of the registry: unregister, All and Names, which nothing calls. Concurrent registration: Go
  runs init functions one after the other, before main.
* Of step metrics: the entries of plugins, pull and launch, written by LaunchTask alone, and
  times. A concurrent write to the map needs a health check that outlived its timeout beside
  LaunchTask; Go then ends the process, which no property here is about.
* Of the configuration: getters that no decision of the models depends on.
* DockerDump, the HTTP client, logging, thrift and YAML decoding, the example plugin and the
  sample framework: input and output without state that the executor's correctness depends on.
* What a plugin other than the general one does, and monitors other than the default: they are
  not in the repository. Their failures and results are choices in the models.

## Plan

1. Done: every component as in the table of modules, with the proofs listed above.
2. To come: the safety half of the liveness properties, that is, for each state a goroutine may
   wait in, the guard that some action still satisfies there, stated without ENABLED; an abstract
   specification of what a cleanup promises, for `PodCleanup` to implement.
