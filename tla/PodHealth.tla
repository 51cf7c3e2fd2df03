------------------------------ MODULE PodHealth ------------------------------
(***************************************************************************)
(* How the executor decides what state a pod is in: HealthCheck            *)
(* (utils/pod/pod.go:1159-1324), which LaunchTask runs once, and the       *)
(* default monitor (dce/monitor/plugin/default/monitor.go), which polls    *)
(* from then on.  Both look at one container at a time with docker         *)
(* inspect, through CheckContainer, while the containers keep changing.    *)
(*                                                                         *)
(* One step inspects one container, or ends a round.  A container's        *)
(* state is what docker would say of it: absent, up or exited with 0 or    *)
(* not, and its health if it has a health check.                           *)
(***************************************************************************)
EXTENDS Integers, Sequences, FiniteSets

CONSTANTS Containers,  \* the containers of the pod, one per service
          Checked,     \* those with a docker health check
          Infra,       \* the infra container, or a value outside Containers
          Late         \* those docker-compose ps does not list at first

ASSUME ContainersAssumption ==
  /\ IsFiniteSet(Containers) /\ Containers # {}
  /\ Checked \subseteq Containers /\ Late \subseteq Containers

HasInfra == Infra \in Containers
Apps == Containers \ {Infra}

VARIABLES isService,    \* types.IS_SERVICE in the configuration
          env,          \* docker's view of each container
          pc,           \* where HealthCheck or the monitor is
          containers,   \* HealthCheck's list
          monitorList,  \* MonitorContainerList
          known,        \* HealthCheckListId, the cached health checks
          i, healthCount,
          steps,        \* StepMetrics: the status of each HealthCheck- step
          verdict,      \* what HealthCheck replied
          final,        \* what the monitor returned
          faults,       \* history: docker commands that failed to answer
          wasSick,      \* history: a container was once unhealthy
          failedBefore  \* history: one had failed when the round began

checker == <<pc, containers, monitorList, known, i, healthCount, steps,
             verdict, final>>
vars == <<isService, env, checker, faults, wasSick, failedBefore>>

Runs == {"absent", "up", "exit0", "exit1"}
Healths == {"none", "starting", "healthy", "unhealthy"}
Replies == {"none", "RUNNING", "FAILED", "FINISHED"}

TypeOK ==
  /\ isService \in BOOLEAN
  /\ env \in [Containers -> [run : Runs, health : Healths]]
  /\ pc \in {"list", "infra", "round", "monitor", "poll", "done"}
  /\ containers \in Seq(Containers) /\ monitorList \in Seq(Containers)
  /\ known \subseteq Checked
  /\ i \in 1 .. Cardinality(Containers) + 1
  /\ healthCount \in -Cardinality(Containers) .. Cardinality(Containers)
  /\ steps \in [Containers -> {"none", "Starting", "Success", "Error"}]
  /\ verdict \in Replies /\ final \in Replies \ {"RUNNING"}
  /\ faults \subseteq {"lookup", "absent", "inspect"}
  /\ wasSick \in BOOLEAN /\ failedBefore \in BOOLEAN

FreshHealth(c) == IF c \in Checked THEN "starting" ELSE "none"

Init ==
  /\ isService \in BOOLEAN
  /\ env = [c \in Containers |->
              [run |-> IF c \in Late THEN "absent" ELSE "up", health |-> FreshHealth(c)]]
  /\ pc = "list" /\ containers = <<>> /\ monitorList = <<>> /\ known = {}
  /\ steps = [c \in Containers |-> "none"]
  /\ i = 1 /\ healthCount = 0 /\ verdict = "none" /\ final = "none"
  /\ faults = {} /\ wasSick = FALSE /\ failedBefore = FALSE

-----------------------------------------------------------------------------
(* Docker: containers start, change health and exit on their own.          *)

Create(c) == /\ env[c].run = "absent"
             /\ env' = [env EXCEPT ![c].run = "up"]
             /\ UNCHANGED wasSick

ChangeHealth(c) ==
  /\ env[c].run = "up" /\ c \in Checked
  /\ \E h \in {"healthy", "unhealthy"} \ {env[c].health} :
       /\ env' = [env EXCEPT ![c].health = h]
       /\ wasSick' = (wasSick \/ h = "unhealthy")

ExitContainer(c) == /\ env[c].run = "up"
                    /\ \E r \in {"exit0", "exit1"} : env' = [env EXCEPT ![c].run = r]
                    /\ UNCHANGED wasSick

Docker(c) == /\ Create(c) \/ ChangeHealth(c) \/ ExitContainer(c)
             /\ UNCHANGED <<isService, checker, faults, failedBefore>>

Failed == {c \in Containers : env[c].run = "exit1"}

-----------------------------------------------------------------------------
(* CheckContainer: what docker inspect says of container c.  When it fails *)
(* the other results keep their zero values.                               *)

NoAnswer == [healthy |-> "unhealthy", running |-> FALSE, exit |-> 0, err |-> TRUE]

CheckContainer_HealthFirst(c, healthCheck) ==  \* a bug: health before exit code
  [healthy |-> IF healthCheck THEN env[c].health
               ELSE IF env[c].run = "exit1" THEN "unhealthy" ELSE "healthy",
   running |-> env[c].run = "up",
   exit    |-> IF env[c].run = "exit1" THEN 1 ELSE 0,
   err     |-> FALSE]

CheckContainer(c, healthCheck) ==
  [healthy |-> IF env[c].run = "exit1" THEN "unhealthy"
               ELSE IF healthCheck THEN env[c].health ELSE "healthy",
   running |-> env[c].run = "up",
   exit    |-> IF env[c].run = "exit1" THEN 1 ELSE 0,
   err     |-> FALSE]

CleanExit(r) == r.exit = 0 /\ ~r.running

Unfit_Starting(r) == ~CleanExit(r) /\ r.healthy # "healthy"  \* a bug: starting is unfit

Unfit(r) == ~CleanExit(r) /\ r.healthy = "unhealthy"

RemoveAt_Next(s, k) == SubSeq(s, 1, k) \o SubSeq(s, k + 2, Len(s))  \* a bug: one off

RemoveAt(s, k) == SubSeq(s, 1, k - 1) \o SubSeq(s, k + 1, Len(s))

(* Only the infra container is left of list s.                             *)
OnlyInfra(s) == HasInfra /\ s = <<Infra>>

(* A bug: the infra container counts as an application.                    *)
VerdictOn_EmptyOnly(s) ==
  IF s = <<>> THEN IF isService THEN "FAILED" ELSE "FINISHED" ELSE "RUNNING"

(* The verdict on a pod whose containers have all ended or are healthy.    *)
VerdictOn(s) ==
  IF s = <<>> \/ OnlyInfra(s) THEN IF isService THEN "FAILED" ELSE "FINISHED"
  ELSE "RUNNING"

-----------------------------------------------------------------------------
(* HealthCheck                                                             *)

Reply(v) == verdict' = v /\ pc' = IF v = "RUNNING" THEN "monitor" ELSE "done"

(* The list of service containers, in the order of a Go map; a service     *)
(* without a container is an error, like a docker-compose ps that fails.   *)
ListServices ==
  /\ pc = "list"
  /\ \/ /\ \A c \in Containers : env[c].run # "absent"
        /\ \E s \in [1 .. Cardinality(Containers) -> Containers] :
             /\ \A j, k \in DOMAIN s : s[j] = s[k] => j = k
             /\ containers' = s /\ monitorList' = s
        /\ pc' = "infra"
        /\ UNCHANGED <<verdict, faults>>
     \/ /\ \/ faults' = faults \cup {"lookup"}
           \/ /\ \E c \in Containers : env[c].run = "absent"
              /\ faults' = faults \cup {"absent"}
        /\ Reply("FAILED")
        /\ UNCHANGED <<containers, monitorList>>
  /\ UNCHANGED <<isService, env, known, i, healthCount, steps, final, wasSick, failedBefore>>

StartRound_Zero ==                               \* a bug: one off
  i' = 0 /\ healthCount' = 0 /\ failedBefore' = (Failed # {})

StartRound == i' = 1 /\ healthCount' = 0 /\ failedBefore' = (Failed # {})

LookUpInfra ==
  /\ pc = "infra"
  /\ \/ /\ pc' = "round" /\ StartRound
        /\ steps' = [c \in Containers |-> "Starting"]
        /\ UNCHANGED <<verdict, faults>>
     \/ /\ HasInfra
        /\ faults' = faults \cup {"lookup"}
        /\ Reply("FAILED")
        /\ UNCHANGED <<i, healthCount, steps, failedBefore>>
  /\ UNCHANGED <<isService, env, containers, monitorList, known, final, wasSick>>

(* isHealthCheckConfigured, unless cached: a probe that fails counts as no *)
(* health check.  Then CheckContainer.                                     *)
Inspect(c, r) ==
  \E configured \in BOOLEAN, answered \in BOOLEAN :
    /\ IF c \in known THEN configured /\ UNCHANGED known
       ELSE /\ configured => c \in Checked
            /\ known' = IF configured THEN known \cup {c} ELSE known
    /\ r = IF answered THEN CheckContainer(c, configured) ELSE NoAnswer
    /\ faults' = IF answered THEN faults ELSE faults \cup {"inspect"}

Results == [healthy : Healths, running : BOOLEAN, exit : {0, 1}, err : BOOLEAN]

Waits(r) == ~Unfit(r) /\ ~CleanExit(r) /\ r.healthy # "healthy"

StepStatus_NoTag(r) == IF Unfit(r) THEN "Error" ELSE "Success"  \* a bug: errors only

(* EndStep: a step whose tag is not healthy has gone wrong, also that of a *)
(* container that exited with 0.                                           *)
StepStatus(r) == IF r.healthy = "healthy" THEN "Success" ELSE "Error"

EndStep(c, r) == steps' = [steps EXCEPT ![c] = StepStatus(r)]

UpdateHealthCheckStatus ==
  steps' = [c \in Containers |-> IF steps[c] = "Starting" THEN "Error" ELSE steps[c]]

Conclusion == /\ UpdateHealthCheckStatus
              /\ monitorList' = containers
              /\ Reply(VerdictOn(containers))

(* One container of the round: unfit ends the check, healthy is counted,   *)
(* cleanly exited leaves the list and costs one count, and starting waits  *)
(* for another round, unless nothing but the infra container is left.      *)
InspectNext ==
  /\ pc = "round" /\ i <= Len(containers)
  /\ \E r \in Results :
       /\ Inspect(containers[i], r)
       /\ \/ /\ Unfit(r)
             /\ EndStep(containers[i], r)
             /\ Reply("FAILED")
             /\ UNCHANGED <<containers, monitorList, i, healthCount>>
          \/ /\ ~Unfit(r) /\ r.healthy = "healthy"
             /\ EndStep(containers[i], r)
             /\ i' = i + 1 /\ healthCount' = healthCount + 1
             /\ UNCHANGED <<pc, containers, monitorList, verdict>>
          \/ /\ CleanExit(r) /\ r.healthy # "healthy"
             /\ EndStep(containers[i], r)
             /\ containers' = RemoveAt(containers, i)
             /\ healthCount' = healthCount - 1
             /\ UNCHANGED <<pc, monitorList, i, verdict>>
          \/ /\ Waits(r)
             /\ IF OnlyInfra(containers)
                  THEN Conclusion /\ UNCHANGED <<i, healthCount>>
                  ELSE i' = i + 1 /\ UNCHANGED <<pc, monitorList, healthCount, steps, verdict>>
             /\ UNCHANGED containers
  /\ UNCHANGED <<isService, env, final, wasSick, failedBefore>>

(* The loop goes on until a round counts every container on the list.      *)
AllCounted_AtFirst == healthCount = Cardinality(Containers)  \* a bug: removals ignored

AllCounted == healthCount = Len(containers)

EndRound ==
  /\ pc = "round" /\ i > Len(containers)
  /\ IF AllCounted
       THEN /\ Conclusion
            /\ UNCHANGED <<i, healthCount, failedBefore>>
       ELSE StartRound /\ UNCHANGED <<pc, monitorList, steps, verdict>>
  /\ UNCHANGED <<isService, env, containers, known, final, faults, wasSick>>

HealthCheck == ListServices \/ LookUpInfra \/ InspectNext \/ EndRound

-----------------------------------------------------------------------------
(* The default monitor, started by LaunchTask after a RUNNING verdict.     *)

Conclude(v) == final' = v /\ pc' = "done"

MonitorStart ==
  /\ pc = "monitor"
  /\ \/ pc' = "poll" /\ i' = 1 /\ UNCHANGED <<final, faults>>
     \/ HasInfra /\ faults' = faults \cup {"lookup"} /\ Conclude("FAILED") /\ UNCHANGED i
  /\ UNCHANGED <<isService, env, containers, monitorList, known, healthCount, steps, verdict,
                 wasSick, failedBefore>>

MonitorUnfit_NoExit(r) == r.err \/ (r.running /\ r.healthy = "unhealthy")  \* a bug

MonitorUnfit(r) == r.err \/ r.exit # 0 \/ (r.running /\ r.healthy = "unhealthy")

(* run(): unlike HealthCheck it takes a failing inspect for a failed pod,  *)
(* and asks for the health only of containers HealthCheck cached.          *)
MonitorInspect ==
  /\ pc = "poll" /\ i <= Len(monitorList)
  /\ LET c == monitorList[i] IN
     \E answered \in BOOLEAN :
       /\ faults' = IF answered THEN faults ELSE faults \cup {"inspect"}
       /\ LET r == IF answered THEN CheckContainer(c, c \in known) ELSE NoAnswer IN
          \/ MonitorUnfit(r) /\ Conclude("FAILED") /\ UNCHANGED <<monitorList, i>>
          \/ /\ ~MonitorUnfit(r) /\ ~r.running
             /\ monitorList' = RemoveAt(monitorList, i)
             /\ UNCHANGED <<pc, final, i>>
          \/ /\ ~MonitorUnfit(r) /\ r.running
             /\ i' = i + 1
             /\ UNCHANGED <<pc, monitorList, final>>
  /\ UNCHANGED <<isService, env, containers, known, healthCount, steps, verdict, wasSick,
                 failedBefore>>

MonitorRoundEnds ==
  /\ pc = "poll" /\ i > Len(monitorList)
  /\ IF VerdictOn(monitorList) = "RUNNING"
       THEN i' = 1 /\ UNCHANGED <<pc, final>>
       ELSE Conclude(VerdictOn(monitorList)) /\ UNCHANGED i
  /\ UNCHANGED <<isService, env, containers, monitorList, known, healthCount, steps, verdict,
                 faults, wasSick, failedBefore>>

Monitor == MonitorStart \/ MonitorInspect \/ MonitorRoundEnds

Done == pc = "done" /\ UNCHANGED vars

Next == HealthCheck \/ Monitor \/ Done \/ \E c \in Containers : Docker(c)

Spec == Init /\ [][Next]_vars

(* Inspecting goes on, and a container's health check comes to a result.   *)
Fairness == /\ WF_vars(HealthCheck) /\ WF_vars(Monitor)
            /\ \A c \in Containers :
                 WF_vars(env[c].health = "starting" /\ Docker(c))

FairSpec == Spec /\ Fairness

-----------------------------------------------------------------------------
(* Properties                                                              *)

(* A pod is declared running only if none of its containers had failed by  *)
(* the time the last round of inspections began, and an ad hoc pod         *)
(* finished, by either party, only when every application container exited *)
(* with 0, however rounds and removals interleave with the failures        *)
(* (pod.go:1218-1318, monitor.go:82-90).                                   *)
VerdictIsSound ==
  "inspect" \notin faults =>
    /\ verdict = "RUNNING" => ~failedBefore
    /\ "FINISHED" \in {verdict, final} => \A c \in Apps : env[c].run = "exit0"

(* A pod is declared failed only for a reason: a container failed or was   *)
(* unhealthy, a service has nothing left to run, or a docker command       *)
(* failed (pod.go:1182-1318, monitor.go:26-95).                            *)
FailedHasCause ==
  "FAILED" \in {verdict, final} =>
    \/ Failed # {} \/ wasSick \/ faults # {}
    \/ isService /\ \A c \in Apps : env[c].run = "exit0"

(* A container that left a list has exited with 0, so nothing that still   *)
(* runs goes unwatched (pod.go:1260-1269, monitor.go:57-63).               *)
RemovedHasExited ==
  pc \in {"round", "poll"} /\ "inspect" \notin faults =>
    \A c \in Containers :
      (\A k \in DOMAIN containers : containers[k] # c)
        \/ (pc = "poll" /\ \A k \in DOMAIN monitorList : monitorList[k] # c)
      => env[c].run = "exit0"

(* The step metrics agree with the verdict: a running pod has a success    *)
(* for every container it is left with, a finished one no step under way,  *)
(* and a failed one an error, unless the check failed before its steps     *)
(* began (pod.go:1214-1295, util.go:89-131).                               *)
StepsTellVerdict ==
  /\ verdict = "RUNNING" => \A k \in DOMAIN containers : steps[containers[k]] = "Success"
  /\ verdict = "FINISHED" => \A c \in Containers : steps[c] # "Starting"
  /\ verdict = "FAILED" /\ Apps # {} => \E c \in Containers : steps[c] \in {"none", "Error"}

(* The initial check comes to a verdict once the health checks have.       *)
HealthCheckEnds == <>(verdict # "none")

(* A container on the monitor list that fails brings the pod down.         *)
FailureIsNoticed ==
  pc = "poll" /\ (\E k \in DOMAIN monitorList : monitorList[k] \in Failed)
    ~> final # "none"

(* A pod whose applications all ended well is concluded.                   *)
CompletionIsNoticed ==
  pc = "poll" /\ (\A c \in Apps : env[c].run = "exit0") ~> final # "none"

(* pod.go:1264: what is removed from the monitor list exited with 0.       *)
RemovedExitedWithZero ==
  pc = "round" =>
    \A c \in Containers : (\A k \in DOMAIN containers : containers[k] # c) => env[c].run = "exit0"

-----------------------------------------------------------------------------
(* The inductive invariant behind the safety properties.  Lists only get   *)
(* shorter; a round counts at most the containers it passed, and loses a   *)
(* count for each container it removes;                                    *)
Size == Cardinality(Containers)
Off(c, list) == \A k \in DOMAIN list : list[k] # c
Bounds ==
  /\ Len(containers) <= Size /\ Len(monitorList) <= Size
  /\ pc = "round" => /\ i <= Len(containers) + 1
                     /\ Len(containers) - Size <= healthCount /\ healthCount <= i - 1
  /\ pc = "poll" => i <= Len(monitorList) + 1

(* the replies come last, and only a pod all of whose containers were      *)
(* created is checked;                                                     *)
Phases ==
  /\ pc \in {"list", "infra", "round"} => verdict = "none" /\ final = "none"
  /\ pc \in {"monitor", "poll"} => verdict = "RUNNING" /\ final = "none"
  /\ pc \in {"list", "infra"} => \A c \in Containers : steps[c] = "none"
  /\ pc \in {"infra", "round", "monitor", "poll"} => \A c \in Containers : env[c].run # "absent"
  /\ \A c \in Containers : env[c].health = "unhealthy" => wasSick

(* a container off a list exited with 0, and its step is an error;         *)
OffTheLists ==
  /\ pc = "infra" => \A c \in Containers : ~Off(c, containers)
  /\ pc = "round" => \A c \in Containers : Off(c, containers) => steps[c] = "Error"
  /\ pc \in {"round", "monitor", "poll"} /\ "inspect" \notin faults =>
       \A c \in Containers :
         Off(c, containers) \/ (pc # "round" /\ Off(c, monitorList)) => env[c].run = "exit0"

(* and a round that counted every container so far found them all well, so *)
(* that one which had failed before is still ahead.                        *)
CountedAreWell ==
  pc = "round" /\ healthCount >= i - 1 =>
    /\ \A k \in 1 .. i - 1 : steps[containers[k]] = "Success"
    /\ failedBefore /\ "inspect" \notin faults =>
         \E k \in i .. Len(containers) : env[containers[k]].run = "exit1"

HealthInv == /\ TypeOK /\ Bounds /\ Phases /\ OffTheLists /\ CountedAreWell
             /\ VerdictIsSound /\ FailedHasCause /\ StepsTellVerdict
=============================================================================
