--------------------------- MODULE PodHealth_proofs ---------------------------
(***************************************************************************)
(* Proofs about PodHealth for every finite set of containers, with or      *)
(* without health checks and an infra container.                           *)
(***************************************************************************)
EXTENDS PodHealth, SequenceTheorems, FiniteSetTheorems, TLAPS

(* The number of containers is a natural number.                           *)
LEMMA SizeFacts == Size \in Nat /\ Size > 0
<1>1. Cardinality(Containers) \in Nat
  BY ContainersAssumption, FS_CardinalityType
<1>2. Cardinality(Containers) # 0
  BY ContainersAssumption, FS_EmptySet
<1> QED
  BY <1>1, <1>2 DEF Size

(* What RemoveAt leaves of a list: everything but the k-th entry           *)
(* (pod.go:1264, monitor.go:60).                                           *)
LEMMA RemoveAtFacts ==
  ASSUME NEW S, NEW s \in Seq(S), NEW k \in 1 .. Len(s)
  PROVE  /\ RemoveAt(s, k) \in Seq(S) /\ Len(RemoveAt(s, k)) = Len(s) - 1
         /\ \A j \in 1 .. Len(s) - 1 :
              RemoveAt(s, k)[j] = IF j < k THEN s[j] ELSE s[j + 1]
<1> DEFINE a == SubSeq(s, 1, k - 1)
           b == SubSeq(s, k + 1, Len(s))
<1>0. Len(s) \in Nat /\ k \in Int
  OBVIOUS
<1>1. /\ a \in Seq(S) /\ Len(a) = k - 1
      /\ \A j \in 1 .. k - 1 : a[j] = s[j]
  BY <1>0, SubSeqProperties
<1>2. /\ b \in Seq(S) /\ Len(b) = Len(s) - k
      /\ \A j \in 1 .. Len(s) - k : b[j] = s[j + k]
  BY <1>0, SubSeqProperties
<1> HIDE DEF a, b
<1>3. /\ a \o b \in Seq(S) /\ Len(a \o b) = Len(a) + Len(b)
      /\ \A j \in 1 .. Len(a) + Len(b) : (a \o b)[j] = IF j <= Len(a) THEN a[j] ELSE b[j - Len(a)]
  BY <1>1, <1>2, ConcatProperties
<1>4. RemoveAt(s, k) = a \o b
  BY DEF RemoveAt, a, b
<1>5. ASSUME NEW j \in 1 .. Len(s) - 1
      PROVE  (a \o b)[j] = IF j < k THEN s[j] ELSE s[j + 1]
  <2>1. CASE j < k
    BY <1>0, <1>1, <1>2, <1>3, <2>1
  <2>2. CASE ~(j < k)
    <3>1. (a \o b)[j] = b[j - (k - 1)]
      BY <1>0, <1>1, <1>2, <1>3, <2>2
    <3>2. j - (k - 1) \in 1 .. Len(s) - k /\ (j - (k - 1)) + k = j + 1
      BY <1>0, <2>2
    <3> QED
      BY <1>2, <2>2, <3>1, <3>2
  <2> QED
    BY <2>1, <2>2
<1> QED
  BY <1>0, <1>1, <1>2, <1>3, <1>4, <1>5

(* So only the container removed can be missing afterwards.                *)
LEMMA RemoveAtOff ==
  ASSUME NEW S, NEW s \in Seq(S), NEW k \in 1 .. Len(s), NEW c, Off(c, RemoveAt(s, k))
  PROVE  Off(c, s) \/ c = s[k]
<1> DEFINE r == RemoveAt(s, k)
<1>1. /\ r \in Seq(S) /\ Len(r) = Len(s) - 1 /\ Len(s) \in Nat
      /\ \A j \in 1 .. Len(s) - 1 : r[j] = IF j < k THEN s[j] ELSE s[j + 1]
  BY RemoveAtFacts
<1>2. DOMAIN r = 1 .. Len(s) - 1
  BY <1>1
<1>3. \A j \in 1 .. Len(s) - 1 : r[j] # c
  BY <1>2 DEF Off
<1> HIDE DEF r
<1>4. ASSUME NEW j \in 1 .. Len(s), j # k PROVE s[j] # c
  <2>1. CASE j < k
    <3>1. j \in 1 .. Len(s) - 1
      BY <1>1, <2>1
    <3> QED
      BY <1>1, <1>3, <2>1, <3>1
  <2>2. CASE j > k
    <3>1. j - 1 \in 1 .. Len(s) - 1 /\ ~(j - 1 < k) /\ (j - 1) + 1 = j
      BY <1>1, <2>2
    <3>2. r[j - 1] = s[j]
      BY <1>1, <3>1
    <3> QED
      BY <1>3, <3>1, <3>2
  <2> QED
    BY <1>4, <2>1, <2>2
<1> QED
  BY <1>4 DEF Off

(* ListServices puts every container on the list: as many entries as there *)
(* are containers, none twice (pod.go:1192-1196).                          *)
LEMMA ListIsComplete ==
  ASSUME NEW s \in [1 .. Cardinality(Containers) -> Containers],
         \A j, k \in DOMAIN s : s[j] = s[k] => j = k
  PROVE  s \in Seq(Containers) /\ Len(s) = Size /\ \A c \in Containers : ~Off(c, s)
<1>0. Size \in Nat /\ DOMAIN s = 1 .. Size
  BY SizeFacts DEF Size
<1>1. s \in Seq(Containers) /\ Len(s) = Size
  BY <1>0 DEF Size
<1>2. s \in Injection(1 .. Size, Containers)
  BY <1>0 DEF Injection, IsInjective, Size
<1>3. IsFiniteSet(1 .. Size) /\ Cardinality(1 .. Size) = Size
  BY <1>0, FS_Interval
<1>4. s \in Surjection(1 .. Size, Containers)
  BY <1>2, <1>3, FS_Injection, ContainersAssumption DEF Size
<1>5. \A c \in Containers : ~Off(c, s)
  BY <1>0, <1>4 DEF Surjection, Off
<1> QED
  BY <1>1, <1>5

-----------------------------------------------------------------------------
(* What the checks answer                                                  *)

(* A verdict other than RUNNING means that no application is on the list.  *)
LEMMA VerdictFacts ==
  ASSUME NEW s
  PROVE  /\ VerdictOn(s) \in {"RUNNING", "FAILED", "FINISHED"}
         /\ VerdictOn(s) = "FAILED" => isService
         /\ VerdictOn(s) # "RUNNING" => \A c \in Apps : Off(c, s)
<1>1. /\ VerdictOn(s) \in {"RUNNING", "FAILED", "FINISHED"}
      /\ VerdictOn(s) = "FAILED" => isService
      /\ VerdictOn(s) # "RUNNING" => s = <<>> \/ s = <<Infra>>
  BY DEF VerdictOn, OnlyInfra
<1>2. s = <<>> \/ s = <<Infra>> => \A c \in Apps : Off(c, s)
  BY DEF Off, Apps
<1> QED
  BY <1>1, <1>2

(* The fields of CheckContainer's answer for a container that was created. *)
LEMMA CheckFacts ==
  ASSUME TypeOK, NEW c \in Containers, NEW b, env[c].run # "absent",
         NEW r, r = CheckContainer(c, b)
  PROVE  /\ ~r.err
         /\ env[c].run = "exit1" => ~r.running /\ r.exit = 1 /\ r.healthy = "unhealthy"
         /\ env[c].run = "exit0" => ~r.running /\ r.exit = 0
         /\ env[c].run = "up" => r.running /\ r.exit = 0
         /\ env[c].run # "exit1" => r.healthy \in {"healthy", env[c].health}
         /\ env[c].run \in {"exit0", "exit1", "up"}
<1>1. env[c].run \in {"exit0", "exit1", "up"}
  BY DEF TypeOK, Runs
<1>2. CASE env[c].run = "exit1"
  BY <1>2 DEF CheckContainer
<1>3. CASE env[c].run = "exit0"
  BY <1>3 DEF CheckContainer
<1>4. CASE env[c].run = "up"
  BY <1>4 DEF CheckContainer
<1> QED
  BY <1>1, <1>2, <1>3, <1>4

(* What CheckContainer's answer, or the lack of one, tells of a container  *)
(* that was created (pod.go:1036-1107).                                    *)
LEMMA InspectFacts ==
  ASSUME TypeOK, NEW c \in Containers, NEW r, Inspect(c, r), env[c].run # "absent"
  PROVE  /\ known' \subseteq Checked /\ faults' \in {faults, faults \cup {"inspect"}}
         /\ "inspect" \notin faults' =>
              /\ r.healthy = "healthy" => env[c].run # "exit1"
              /\ CleanExit(r) => env[c].run = "exit0"
              /\ Unfit(r) => env[c].run = "exit1" \/ env[c].health = "unhealthy"
         /\ Unfit(r) => r.healthy # "healthy"
<1>1. PICK configured \in BOOLEAN, answered \in BOOLEAN :
        /\ IF c \in known THEN configured /\ UNCHANGED known
           ELSE /\ configured => c \in Checked
                /\ known' = IF configured THEN known \cup {c} ELSE known
        /\ r = IF answered THEN CheckContainer(c, configured) ELSE NoAnswer
        /\ faults' = IF answered THEN faults ELSE faults \cup {"inspect"}
  BY DEF Inspect
<1>2. known' \subseteq Checked
  BY <1>1 DEF TypeOK
<1>3. env[c].run \in Runs
  BY DEF TypeOK
<1>4. ASSUME "inspect" \notin faults'
      PROVE  /\ r.healthy = "healthy" => env[c].run # "exit1"
             /\ CleanExit(r) => env[c].run = "exit0"
             /\ Unfit(r) => env[c].run = "exit1" \/ env[c].health = "unhealthy"
  <2>1. r = CheckContainer(c, configured)
    BY <1>1, <1>4
  <2>2. /\ env[c].run = "exit1" => ~r.running /\ r.exit = 1 /\ r.healthy = "unhealthy"
        /\ env[c].run = "exit0" => ~r.running /\ r.exit = 0
        /\ env[c].run = "up" => r.running
        /\ env[c].run # "exit1" => r.healthy \in {"healthy", env[c].health}
        /\ env[c].run \in {"exit0", "exit1", "up"}
    BY <2>1, CheckFacts
  <2> QED
    BY <2>2 DEF CleanExit, Unfit
<1> QED
  BY <1>1, <1>2, <1>4 DEF Unfit

(* What the monitor makes of an answer (monitor.go:36-76).                 *)
LEMMA MonitorFacts ==
  ASSUME TypeOK, NEW c \in Containers, NEW answered \in BOOLEAN, env[c].run # "absent",
         NEW r, r = IF answered THEN CheckContainer(c, c \in known) ELSE NoAnswer
  PROVE  /\ ~answered => MonitorUnfit(r)
         /\ answered /\ MonitorUnfit(r) => env[c].run = "exit1" \/ env[c].health = "unhealthy"
         /\ ~MonitorUnfit(r) /\ ~r.running => env[c].run = "exit0"
<1>1. env[c].run \in Runs
  BY DEF TypeOK
<1>2. ~answered => MonitorUnfit(r)
  <2>1. NoAnswer.err = TRUE
    BY DEF NoAnswer
  <2> QED
    BY <2>1 DEF MonitorUnfit
<1>3. ASSUME answered
      PROVE  /\ MonitorUnfit(r) => env[c].run = "exit1" \/ env[c].health = "unhealthy"
             /\ ~MonitorUnfit(r) /\ ~r.running => env[c].run = "exit0"
  <2>1. r = CheckContainer(c, c \in known)
    BY <1>3
  <2>2. /\ ~r.err
        /\ env[c].run = "exit1" => ~r.running /\ r.exit = 1
        /\ env[c].run = "exit0" => ~r.running /\ r.exit = 0
        /\ env[c].run = "up" => r.running /\ r.exit = 0
        /\ env[c].run # "exit1" => r.healthy \in {"healthy", env[c].health}
        /\ env[c].run \in {"exit0", "exit1", "up"}
    BY <2>1, CheckFacts
  <2>3. CASE env[c].run = "exit1"
    BY <2>2, <2>3 DEF MonitorUnfit
  <2>4. CASE env[c].run = "exit0"
    BY <2>2, <2>4 DEF MonitorUnfit
  <2>5. CASE env[c].run = "up"
    BY <2>2, <2>5 DEF MonitorUnfit
  <2> QED
    BY <2>2, <2>3, <2>4, <2>5
<1> QED
  BY <1>2, <1>3

-----------------------------------------------------------------------------
(* HealthInv is inductive.                                                 *)

(* It holds before the first check.                                        *)
LEMMA HealthInit == Init => HealthInv
<1> SUFFICES ASSUME Init PROVE HealthInv
  OBVIOUS
<1>1. Size \in Nat /\ Size > 0 /\ Len(containers) = 0 /\ Len(monitorList) = 0
  BY SizeFacts DEF Init
<1>2. TypeOK
  <2>1. env \in [Containers -> [run : Runs, health : Healths]]
    <3>1. ASSUME NEW c \in Containers
          PROVE  /\ (IF c \in Late THEN "absent" ELSE "up") \in Runs
                 /\ FreshHealth(c) \in Healths
      BY DEF Runs, Healths, FreshHealth
    <3>2. \A c \in Containers :
            [run |-> IF c \in Late THEN "absent" ELSE "up", health |-> FreshHealth(c)]
              \in [run : Runs, health : Healths]
      BY <3>1
    <3> QED
      BY <3>2 DEF Init
  <2>2. i \in 1 .. Cardinality(Containers) + 1 /\ healthCount \in -Cardinality(Containers) .. Cardinality(Containers)
    BY <1>1 DEF Init, Size
  <2>3. containers \in Seq(Containers) /\ monitorList \in Seq(Containers)
    BY DEF Init
  <2>4. steps \in [Containers -> {"none", "Starting", "Success", "Error"}]
    BY DEF Init
  <2>5. /\ isService \in BOOLEAN /\ pc = "list" /\ known = {} /\ verdict = "none" /\ final = "none"
        /\ faults = {} /\ wasSick \in BOOLEAN /\ failedBefore \in BOOLEAN
    BY DEF Init
  <2> QED
    BY <2>1, <2>2, <2>3, <2>4, <2>5 DEF TypeOK, Replies
<1>3. Bounds
  BY <1>1 DEF Init, Bounds
<1>4. Phases
  BY DEF Init, Phases, FreshHealth
<1>5. OffTheLists /\ CountedAreWell
  BY DEF Init, OffTheLists, CountedAreWell
<1>6. VerdictIsSound /\ FailedHasCause /\ StepsTellVerdict
  BY DEF Init, VerdictIsSound, FailedHasCause, StepsTellVerdict
<1> QED
  BY <1>2, <1>3, <1>4, <1>5, <1>6 DEF HealthInv

(* Docker's own steps keep it: an exit is final, and who was unhealthy is  *)
(* on record.                                                              *)
LEMMA DockerKeeps ==
  ASSUME HealthInv, NEW c \in Containers, Docker(c)
  PROVE  HealthInv'
<1>0. TypeOK /\ UNCHANGED <<isService, checker, faults, failedBefore>>
  BY DEF HealthInv, Docker
<1>a. env[c] \in [run : Runs, health : Healths] /\ DOMAIN env = Containers /\ wasSick \in BOOLEAN
  BY <1>0 DEF TypeOK
<1>b. PICK v \in [run : Runs, health : Healths] :
        /\ env' = [env EXCEPT ![c] = v]
        /\ env[c].run \notin {"exit0", "exit1"} \/ v.run = env[c].run
        /\ env[c].run # "absent" => v.run # "absent"
        /\ wasSick' = (wasSick \/ (v.health = "unhealthy" /\ env[c].health # "unhealthy"))
  <2>1. CASE Create(c)
    <3>1. env' = [env EXCEPT ![c] = [env[c] EXCEPT !.run = "up"]]
      BY <1>a, <2>1 DEF Create
    <3> DEFINE v == [env[c] EXCEPT !.run = "up"]
    <3>2. v \in [run : Runs, health : Healths] /\ v.run = "up" /\ v.health = env[c].health
      BY <1>a DEF Runs
    <3>3. env[c].run = "absent" /\ wasSick' = wasSick
      BY <2>1 DEF Create
    <3> HIDE DEF v
    <3>4. env' = [env EXCEPT ![c] = v]
      BY <3>1 DEF v
    <3> QED
      BY <1>a, <3>2, <3>3, <3>4
  <2>2. CASE ChangeHealth(c)
    <3>1. PICK h \in {"healthy", "unhealthy"} \ {env[c].health} :
            env' = [env EXCEPT ![c].health = h] /\ wasSick' = (wasSick \/ h = "unhealthy")
      BY <2>2 DEF ChangeHealth
    <3> DEFINE v == [env[c] EXCEPT !.health = h]
    <3>2. v \in [run : Runs, health : Healths] /\ v.run = env[c].run /\ v.health = h
      BY <1>a, <3>1 DEF Healths
    <3>3. env' = [env EXCEPT ![c] = v]
      BY <1>a, <3>1
    <3>4. env[c].health # h
      BY <3>1
    <3> HIDE DEF v
    <3> QED
      BY <1>a, <3>1, <3>2, <3>3, <3>4
  <2>3. CASE ExitContainer(c)
    <3>1. PICK x \in {"exit0", "exit1"} : env' = [env EXCEPT ![c].run = x]
      BY <2>3 DEF ExitContainer
    <3> DEFINE v == [env[c] EXCEPT !.run = x]
    <3>2. v \in [run : Runs, health : Healths] /\ v.run = x /\ v.health = env[c].health
      BY <1>a, <3>1 DEF Runs
    <3>3. env' = [env EXCEPT ![c] = v]
      BY <1>a, <3>1
    <3>4. env[c].run = "up" /\ wasSick' = wasSick
      BY <2>3 DEF ExitContainer
    <3> HIDE DEF v
    <3> QED
      BY <1>a, <3>1, <3>2, <3>3, <3>4
  <2> QED
    BY <2>1, <2>2, <2>3 DEF Docker
<1>c. env'[c] = v /\ \A d \in Containers : d # c => env'[d] = env[d]
  BY <1>a, <1>b
<1>1. /\ env' \in [Containers -> [run : Runs, health : Healths]] /\ wasSick' \in BOOLEAN
      /\ wasSick => wasSick'
  BY <1>0, <1>a, <1>b DEF TypeOK
<1>2. \A d \in Containers : /\ env[d].run = "exit0" => env'[d].run = "exit0"
                            /\ env[d].run = "exit1" => env'[d].run = "exit1"
                            /\ env[d].run # "absent" => env'[d].run # "absent"
                            /\ env'[d].health = "unhealthy" => env[d].health = "unhealthy" \/ wasSick'
  BY <1>b, <1>c
<1>3. Failed \subseteq Failed'
  BY <1>2 DEF Failed
<1>4. TypeOK'
  BY <1>0, <1>1 DEF TypeOK, checker
<1>5. Bounds'
  BY <1>0 DEF HealthInv, Bounds, checker
<1>6. Phases'
  BY <1>0, <1>1, <1>2 DEF HealthInv, Phases, checker
<1>7. OffTheLists'
  BY <1>0, <1>2 DEF HealthInv, OffTheLists, Off, checker
<1>8. CountedAreWell'
  <2>1. \A k \in DOMAIN containers : containers[k] \in Containers
    BY <1>0 DEF TypeOK
  <2>2. DOMAIN containers = 1 .. Len(containers) /\ i >= 1
    BY <1>0 DEF TypeOK
  <2>3. i \in Int /\ Len(containers) \in Nat
    BY <1>0, SizeFacts DEF TypeOK, Size
  <2>4. \A k \in i .. Len(containers) : containers[k] \in Containers
    BY <2>1, <2>2, <2>3
  <2> QED
    BY <1>0, <1>2, <2>4 DEF HealthInv, CountedAreWell, checker
<1>9. VerdictIsSound'
  BY <1>0, <1>2 DEF HealthInv, VerdictIsSound, Apps, checker
<1>10. FailedHasCause'
  BY <1>0, <1>1, <1>2, <1>3 DEF HealthInv, FailedHasCause, Apps, checker
<1>11. StepsTellVerdict'
  BY <1>0 DEF HealthInv, StepsTellVerdict, Apps, checker
<1> QED
  BY <1>4, <1>5, <1>6, <1>7, <1>8, <1>9, <1>10, <1>11 DEF HealthInv

(* What TypeOK says of the two lists and the counters.                     *)
LEMMA ListFacts ==
  ASSUME TypeOK
  PROVE  /\ Len(containers) \in Nat /\ DOMAIN containers = 1 .. Len(containers)
         /\ \A k \in 1 .. Len(containers) : containers[k] \in Containers
         /\ Len(monitorList) \in Nat /\ DOMAIN monitorList = 1 .. Len(monitorList)
         /\ \A k \in 1 .. Len(monitorList) : monitorList[k] \in Containers
         /\ i \in Int /\ i >= 1 /\ i <= Size + 1 /\ Size \in Nat /\ healthCount \in Int
<1>1. Size \in Nat /\ Size = Cardinality(Containers)
  BY SizeFacts DEF Size
<1>2. containers \in Seq(Containers) /\ monitorList \in Seq(Containers)
  BY DEF TypeOK
<1>3. i \in 1 .. Size + 1 /\ healthCount \in -Size .. Size
  BY <1>1 DEF TypeOK
<1> QED
  BY <1>1, <1>2, <1>3

(* ListServices keeps it: a list is complete, and a failure to make one is *)
(* a fault (pod.go:1178-1196).                                             *)
LEMMA ListServicesKeeps ==
  ASSUME HealthInv, ListServices
  PROVE  HealthInv'
<1>0. /\ TypeOK /\ pc = "list" /\ verdict = "none" /\ final = "none"
      /\ UNCHANGED <<isService, env, known, i, healthCount, steps, final, wasSick, failedBefore>>
      /\ \A c \in Containers : steps[c] = "none"
      /\ \A c \in Containers : env[c].health = "unhealthy" => wasSick
  BY DEF HealthInv, ListServices, Phases
<1>1. CASE /\ \A c \in Containers : env[c].run # "absent"
           /\ \E s \in [1 .. Cardinality(Containers) -> Containers] :
                /\ \A j, k \in DOMAIN s : s[j] = s[k] => j = k
                /\ containers' = s /\ monitorList' = s
           /\ pc' = "infra"
           /\ UNCHANGED <<verdict, faults>>
  <2>1. /\ containers' \in Seq(Containers) /\ Len(containers') = Size
        /\ \A c \in Containers : ~Off(c, containers')
        /\ monitorList' = containers'
    BY <1>1, ListIsComplete
  <2>2. TypeOK'
    BY <1>0, <1>1, <2>1 DEF TypeOK
  <2>3. Bounds'
    BY <1>1, <2>1, SizeFacts DEF Bounds, Size
  <2>4. Phases'
    BY <1>0, <1>1 DEF Phases
  <2>5. OffTheLists' /\ CountedAreWell'
    BY <1>1, <2>1 DEF OffTheLists, CountedAreWell
  <2>6. VerdictIsSound' /\ FailedHasCause' /\ StepsTellVerdict'
    BY <1>0, <1>1 DEF VerdictIsSound, FailedHasCause, StepsTellVerdict
  <2> QED
    BY <2>2, <2>3, <2>4, <2>5, <2>6 DEF HealthInv
<1>2. CASE /\ faults' \in {faults \cup {"lookup"}, faults \cup {"absent"}}
           /\ Reply("FAILED")
           /\ UNCHANGED <<containers, monitorList>>
  <2>1. verdict' = "FAILED" /\ pc' = "done" /\ faults' # {}
    BY <1>2 DEF Reply
  <2>2. TypeOK'
    BY <1>0, <1>2, <2>1 DEF TypeOK, Replies
  <2>3. Bounds' /\ OffTheLists' /\ CountedAreWell'
    BY <1>0, <1>2, <2>1 DEF HealthInv, Bounds, OffTheLists, CountedAreWell, Size
  <2>4. Phases'
    BY <1>0, <2>1 DEF Phases
  <2>5. VerdictIsSound' /\ FailedHasCause'
    BY <1>0, <2>1 DEF VerdictIsSound, FailedHasCause
  <2>6. StepsTellVerdict'
    BY <1>0, <2>1 DEF StepsTellVerdict, Apps
  <2> QED
    BY <2>2, <2>3, <2>4, <2>5, <2>6 DEF HealthInv
<1> QED
  BY <1>1, <1>2 DEF ListServices

(* A new round keeps it when every container that failed is on the list.   *)
LEMMA StartRoundKeeps ==
  ASSUME HealthInv, StartRound, pc \in {"infra", "round"}, pc' = "round",
         UNCHANGED <<isService, env, containers, monitorList, known, final, verdict, faults, wasSick>>,
         steps' \in [Containers -> {"none", "Starting", "Success", "Error"}],
         \A c \in Containers : Off(c, containers) => steps'[c] = "Error",
         "inspect" \notin faults =>
           \A c \in Containers : Off(c, containers) => env[c].run = "exit0"
  PROVE  HealthInv'
<1>0. /\ TypeOK /\ verdict = "none" /\ final = "none"
      /\ i' = 1 /\ healthCount' = 0 /\ failedBefore' = (Failed # {})
      /\ \A c \in Containers : env[c].run # "absent"
      /\ \A c \in Containers : env[c].health = "unhealthy" => wasSick
  BY DEF HealthInv, StartRound, Phases
<1>1. TypeOK'
  <2>1. i' \in 1 .. Cardinality(Containers) + 1 /\ healthCount' \in -Cardinality(Containers) .. Cardinality(Containers)
    BY <1>0, SizeFacts DEF Size
  <2>2. failedBefore' \in BOOLEAN
    BY <1>0
  <2> QED
    BY <1>0, <2>1, <2>2 DEF TypeOK
<1>2. Bounds'
  <2>1. Len(containers) <= Size /\ Len(monitorList) <= Size
    BY DEF HealthInv, Bounds
  <2> QED
    BY <1>0, <2>1, ListFacts DEF Bounds, Size
<1>3. Phases'
  BY <1>0 DEF Phases
<1>4. OffTheLists'
  BY <1>0 DEF OffTheLists, Off
<1>5. CountedAreWell'
  <2>1. ASSUME failedBefore', "inspect" \notin faults
        PROVE  \E k \in 1 .. Len(containers) : env[containers[k]].run = "exit1"
    <3>1. PICK c \in Containers : env[c].run = "exit1"
      BY <1>0, <2>1 DEF Failed
    <3>2. ~Off(c, containers)
      BY <2>1, <3>1
    <3> QED
      BY <1>0, <3>1, <3>2, ListFacts DEF Off
  <2> QED
    BY <1>0, <2>1 DEF CountedAreWell
<1>6. VerdictIsSound' /\ FailedHasCause' /\ StepsTellVerdict'
  BY <1>0 DEF VerdictIsSound, FailedHasCause, StepsTellVerdict
<1> QED
  BY <1>1, <1>2, <1>3, <1>4, <1>5, <1>6 DEF HealthInv

(* LookUpInfra keeps it: the first round starts with a complete list       *)
(* (pod.go:1198-1218).                                                     *)
LEMMA LookUpInfraKeeps ==
  ASSUME HealthInv, LookUpInfra
  PROVE  HealthInv'
<1>0. /\ TypeOK /\ pc = "infra" /\ verdict = "none" /\ final = "none"
      /\ UNCHANGED <<isService, env, containers, monitorList, known, final, wasSick>>
      /\ \A c \in Containers : steps[c] = "none"
      /\ \A c \in Containers : env[c].health = "unhealthy" => wasSick
      /\ \A c \in Containers : ~Off(c, containers)
  BY DEF HealthInv, LookUpInfra, Phases, OffTheLists
<1>1. CASE /\ pc' = "round" /\ StartRound
           /\ steps' = [c \in Containers |-> "Starting"]
           /\ UNCHANGED <<verdict, faults>>
  <2>1. steps' \in [Containers -> {"none", "Starting", "Success", "Error"}]
    BY <1>1
  <2> QED
    BY <1>0, <1>1, <2>1, StartRoundKeeps
<1>2. CASE /\ faults' = faults \cup {"lookup"}
           /\ Reply("FAILED")
           /\ UNCHANGED <<i, healthCount, steps, failedBefore>>
  <2>1. verdict' = "FAILED" /\ pc' = "done" /\ faults' # {}
    BY <1>2 DEF Reply
  <2>2. TypeOK'
    BY <1>0, <1>2, <2>1 DEF TypeOK, Replies
  <2>3. Bounds' /\ OffTheLists' /\ CountedAreWell'
    BY <1>0, <1>2, <2>1 DEF HealthInv, Bounds, OffTheLists, CountedAreWell, Size
  <2>4. Phases'
    BY <1>0, <2>1 DEF Phases
  <2>5. VerdictIsSound' /\ FailedHasCause'
    BY <1>0, <2>1 DEF VerdictIsSound, FailedHasCause
  <2>6. StepsTellVerdict'
    BY <1>0, <1>2, <2>1 DEF StepsTellVerdict, Apps
  <2> QED
    BY <2>2, <2>3, <2>4, <2>5, <2>6 DEF HealthInv
<1> QED
  BY <1>1, <1>2 DEF LookUpInfra

(* The end of a check keeps it: RUNNING needs a count for every container  *)
(* left on the list, and any other verdict a list without applications     *)
(* (pod.go:1283-1318).                                                     *)
LEMMA ConclusionKeeps ==
  ASSUME HealthInv, pc = "round", Conclusion,
         UNCHANGED <<isService, env, containers, i, healthCount, final, wasSick, failedBefore>>,
         known' \subseteq Checked, faults' \in {faults, faults \cup {"inspect"}},
         VerdictOn(containers) = "RUNNING" => i > Len(containers) /\ AllCounted
  PROVE  HealthInv'
<1> DEFINE v == VerdictOn(containers)
<1>0. /\ TypeOK /\ verdict = "none" /\ final = "none"
      /\ verdict' = v /\ pc' = IF v = "RUNNING" THEN "monitor" ELSE "done"
      /\ monitorList' = containers
      /\ steps' = [c \in Containers |-> IF steps[c] = "Starting" THEN "Error" ELSE steps[c]]
      /\ \A c \in Containers : env[c].run # "absent"
      /\ \A c \in Containers : env[c].health = "unhealthy" => wasSick
      /\ "inspect" \notin faults' => faults' = faults /\ "inspect" \notin faults
  BY DEF HealthInv, Phases, Conclusion, UpdateHealthCheckStatus, Reply
<1>1. /\ v \in {"RUNNING", "FAILED", "FINISHED"}
      /\ v = "FAILED" => isService
      /\ v # "RUNNING" => \A c \in Apps : Off(c, containers)
  BY VerdictFacts
<1>2. \A c \in Containers : Off(c, containers) => steps[c] = "Error"
  BY DEF HealthInv, OffTheLists
<1>3. "inspect" \notin faults' => \A c \in Containers : Off(c, containers) => env[c].run = "exit0"
  BY <1>0 DEF HealthInv, OffTheLists
<1>4. v = "RUNNING" => /\ \A k \in 1 .. Len(containers) : steps[containers[k]] = "Success"
                       /\ ~(failedBefore /\ "inspect" \notin faults)
  <2>1. ASSUME v = "RUNNING" PROVE i = Len(containers) + 1 /\ healthCount = i - 1
    BY <1>0, <2>1, ListFacts DEF HealthInv, Bounds, AllCounted
  <2>2. ASSUME v = "RUNNING"
        PROVE  /\ \A k \in 1 .. i - 1 : steps[containers[k]] = "Success"
               /\ failedBefore /\ "inspect" \notin faults =>
                    \E k \in i .. Len(containers) : env[containers[k]].run = "exit1"
    BY <1>0, <2>1, <2>2, ListFacts DEF HealthInv, CountedAreWell
  <2> QED
    BY <1>0, <2>1, <2>2, ListFacts
<1> HIDE DEF v
<1>5. TypeOK'
  <2>1. steps' \in [Containers -> {"none", "Starting", "Success", "Error"}]
    BY <1>0 DEF TypeOK
  <2> QED
    BY <1>0, <1>1, <2>1 DEF TypeOK, Replies
<1>6. Bounds'
  BY <1>0 DEF HealthInv, Bounds, Size
<1>7. Phases'
  BY <1>0 DEF Phases
<1>8. OffTheLists' /\ CountedAreWell'
  BY <1>0, <1>3 DEF OffTheLists, CountedAreWell, Off
<1>9. VerdictIsSound'
  <2>1. v # "RUNNING" /\ "inspect" \notin faults' => \A c \in Apps : env[c].run = "exit0"
    BY <1>1, <1>3 DEF Apps
  <2> QED
    BY <1>0, <1>4, <2>1 DEF VerdictIsSound, Apps
<1>10. FailedHasCause'
  <2>1. v = "FAILED" /\ faults' = {} => isService /\ \A c \in Apps : env[c].run = "exit0"
    BY <1>1, <1>3 DEF Apps
  <2> QED
    BY <1>0, <2>1 DEF FailedHasCause, Apps
<1>11. StepsTellVerdict'
  <2>1. \A c \in Containers : steps'[c] # "Starting" /\ (steps[c] # "Starting" => steps'[c] = steps[c])
    BY <1>0
  <2>2. v = "RUNNING" => \A k \in DOMAIN containers : steps'[containers[k]] = "Success"
    BY <1>0, <1>4, <2>1, ListFacts
  <2>3. v = "FAILED" /\ Apps # {} => \E c \in Containers : steps'[c] = "Error"
    BY <1>1, <1>2, <2>1 DEF Apps
  <2> QED
    BY <1>0, <2>1, <2>2, <2>3 DEF StepsTellVerdict, Apps
<1> QED
  BY <1>5, <1>6, <1>7, <1>8, <1>9, <1>10, <1>11 DEF HealthInv

(* The end of a round keeps it (pod.go:1283-1295).                         *)
LEMMA EndRoundKeeps ==
  ASSUME HealthInv, EndRound
  PROVE  HealthInv'
<1>0. /\ TypeOK /\ pc = "round" /\ i > Len(containers)
      /\ UNCHANGED <<isService, env, containers, known, final, faults, wasSick>>
  BY DEF HealthInv, EndRound
<1>1. CASE AllCounted
  <2>1. Conclusion /\ UNCHANGED <<i, healthCount, failedBefore>>
    BY <1>1 DEF EndRound
  <2>2. known' \subseteq Checked
    BY <1>0 DEF TypeOK
  <2> QED
    BY <1>0, <1>1, <2>1, <2>2, ConclusionKeeps
<1>2. CASE ~AllCounted
  <2>1. StartRound /\ UNCHANGED <<pc, monitorList, steps, verdict>>
    BY <1>2 DEF EndRound
  <2>2. /\ \A c \in Containers : Off(c, containers) => steps[c] = "Error"
        /\ "inspect" \notin faults =>
             \A c \in Containers : Off(c, containers) => env[c].run = "exit0"
    BY <1>0 DEF HealthInv, OffTheLists
  <2>3. steps' \in [Containers -> {"none", "Starting", "Success", "Error"}]
    BY <1>0, <2>1 DEF TypeOK
  <2> QED
    BY <1>0, <2>1, <2>2, <2>3, StartRoundKeeps
<1> QED
  BY <1>1, <1>2

(* One inspection keeps it (pod.go:1219-1281).                             *)
LEMMA InspectNextKeeps ==
  ASSUME HealthInv, InspectNext
  PROVE  HealthInv'
<1> DEFINE c == containers[i]
<1>0. /\ TypeOK /\ pc = "round" /\ i <= Len(containers) /\ verdict = "none" /\ final = "none"
      /\ UNCHANGED <<isService, env, final, wasSick, failedBefore>>
      /\ \A d \in Containers : env[d].run # "absent"
      /\ \A d \in Containers : env[d].health = "unhealthy" => wasSick
  BY DEF HealthInv, InspectNext, Phases
<1>1. PICK r \in Results :
       /\ Inspect(c, r)
       /\ \/ /\ Unfit(r)
             /\ EndStep(c, r)
             /\ Reply("FAILED")
             /\ UNCHANGED <<containers, monitorList, i, healthCount>>
          \/ /\ ~Unfit(r) /\ r.healthy = "healthy"
             /\ EndStep(c, r)
             /\ i' = i + 1 /\ healthCount' = healthCount + 1
             /\ UNCHANGED <<pc, containers, monitorList, verdict>>
          \/ /\ CleanExit(r) /\ r.healthy # "healthy"
             /\ EndStep(c, r)
             /\ containers' = RemoveAt(containers, i)
             /\ healthCount' = healthCount - 1
             /\ UNCHANGED <<pc, monitorList, i, verdict>>
          \/ /\ Waits(r)
             /\ IF OnlyInfra(containers)
                  THEN Conclusion /\ UNCHANGED <<i, healthCount>>
                  ELSE i' = i + 1 /\ UNCHANGED <<pc, monitorList, healthCount, steps, verdict>>
             /\ UNCHANGED containers
  BY DEF InspectNext
<1>2. /\ c \in Containers /\ i \in 1 .. Len(containers)
      /\ Len(containers) \in Nat /\ DOMAIN containers = 1 .. Len(containers)
      /\ \A k \in 1 .. Len(containers) : containers[k] \in Containers
      /\ Size \in Nat /\ Size = Cardinality(Containers) /\ healthCount \in Int
      /\ Len(monitorList) \in Nat
  BY <1>0, ListFacts DEF Size
<1>3. /\ Len(containers) <= Size /\ Len(monitorList) <= Size
      /\ Len(containers) - Size <= healthCount /\ healthCount <= i - 1
  BY <1>0 DEF HealthInv, Bounds
<1>4. /\ \A d \in Containers : Off(d, containers) => steps[d] = "Error"
      /\ "inspect" \notin faults =>
           \A d \in Containers : Off(d, containers) => env[d].run = "exit0"
      /\ healthCount >= i - 1 =>
           /\ \A k \in 1 .. i - 1 : steps[containers[k]] = "Success"
           /\ failedBefore /\ "inspect" \notin faults =>
                \E k \in i .. Len(containers) : env[containers[k]].run = "exit1"
  BY <1>0 DEF HealthInv, OffTheLists, CountedAreWell
<1> HIDE DEF c
<1>5. /\ known' \subseteq Checked /\ faults' \in {faults, faults \cup {"inspect"}}
      /\ "inspect" \notin faults' =>
           /\ "inspect" \notin faults
           /\ r.healthy = "healthy" => env[c].run # "exit1"
           /\ CleanExit(r) => env[c].run = "exit0"
           /\ Unfit(r) => env[c].run = "exit1" \/ env[c].health = "unhealthy"
      /\ Unfit(r) => r.healthy # "healthy"
  BY <1>0, <1>1, <1>2, InspectFacts
<1>6. faults' \subseteq {"lookup", "absent", "inspect"}
  BY <1>0, <1>5 DEF TypeOK
<1>7. EndStep(c, r) =>
        /\ steps' \in [Containers -> {"none", "Starting", "Success", "Error"}]
        /\ steps'[c] = IF r.healthy = "healthy" THEN "Success" ELSE "Error"
        /\ \A d \in Containers : d # c => steps'[d] = steps[d]
  BY <1>0, <1>2 DEF EndStep, StepStatus, TypeOK
<1>8. CASE /\ Unfit(r)
           /\ EndStep(c, r)
           /\ Reply("FAILED")
           /\ UNCHANGED <<containers, monitorList, i, healthCount>>
  <2>1. verdict' = "FAILED" /\ pc' = "done" /\ steps'[c] = "Error"
    BY <1>5, <1>7, <1>8 DEF Reply
  <2>2. TypeOK'
    BY <1>0, <1>5, <1>6, <1>7, <1>8, <2>1 DEF TypeOK, Replies
  <2>3. Bounds'
    BY <1>3, <1>8, <2>1 DEF Bounds, Size
  <2>4. Phases' /\ OffTheLists' /\ CountedAreWell'
    BY <1>0, <2>1 DEF Phases, OffTheLists, CountedAreWell
  <2>5. VerdictIsSound' /\ StepsTellVerdict'
    BY <1>0, <1>2, <2>1 DEF VerdictIsSound, StepsTellVerdict
  <2>6. faults' = {} => env[c].run = "exit1" \/ env[c].health = "unhealthy"
    BY <1>5, <1>8
  <2>7. FailedHasCause'
    BY <1>0, <1>2, <2>6 DEF FailedHasCause, Failed
  <2> QED
    BY <2>2, <2>3, <2>4, <2>5, <2>7 DEF HealthInv
<1>9. CASE /\ ~Unfit(r) /\ r.healthy = "healthy"
           /\ EndStep(c, r)
           /\ i' = i + 1 /\ healthCount' = healthCount + 1
           /\ UNCHANGED <<pc, containers, monitorList, verdict>>
  <2>1. TypeOK'
    <3>1. i + 1 \in 1 .. Cardinality(Containers) + 1 /\ healthCount + 1 \in -Cardinality(Containers) .. Cardinality(Containers)
      BY <1>2, <1>3
    <3> QED
      BY <1>0, <1>5, <1>6, <1>7, <1>9, <3>1 DEF TypeOK
  <2>2. Bounds'
    BY <1>0, <1>2, <1>3, <1>9 DEF Bounds, Size
  <2>3. Phases'
    BY <1>0, <1>9 DEF Phases
  <2>4. OffTheLists'
    <3>1. ~Off(c, containers)
      BY <1>2 DEF Off, c
    <3> QED
      BY <1>0, <1>4, <1>5, <1>7, <1>9, <3>1 DEF OffTheLists, Off
  <2>5. CountedAreWell'
    <3>1. ASSUME healthCount + 1 >= i, NEW k \in 1 .. i PROVE steps'[containers[k]] = "Success"
      <4>1. CASE containers[k] = c
        BY <1>7, <1>9, <4>1
      <4>2. CASE containers[k] # c
        <5>1. k \in 1 .. i - 1 /\ k \in 1 .. Len(containers)
          BY <1>2, <4>2 DEF c
        <5> QED
          BY <1>2, <1>4, <1>7, <1>9, <3>1, <4>2, <5>1
      <4> QED
        BY <4>1, <4>2
    <3>2. ASSUME healthCount + 1 >= i, failedBefore, "inspect" \notin faults'
          PROVE  \E k \in i + 1 .. Len(containers) : env[containers[k]].run = "exit1"
      <4>1. PICK k \in i .. Len(containers) : env[containers[k]].run = "exit1"
        BY <1>2, <1>4, <1>5, <3>2
      <4>2. k # i
        BY <1>5, <1>9, <3>2, <4>1 DEF c
      <4> QED
        BY <1>2, <4>1, <4>2
    <3> QED
      BY <1>0, <1>2, <1>9, <3>1, <3>2 DEF CountedAreWell
  <2>6. VerdictIsSound' /\ FailedHasCause' /\ StepsTellVerdict'
    BY <1>0, <1>9 DEF VerdictIsSound, FailedHasCause, StepsTellVerdict
  <2> QED
    BY <2>1, <2>2, <2>3, <2>4, <2>5, <2>6 DEF HealthInv
<1>10. CASE /\ CleanExit(r) /\ r.healthy # "healthy"
            /\ EndStep(c, r)
            /\ containers' = RemoveAt(containers, i)
            /\ healthCount' = healthCount - 1
            /\ UNCHANGED <<pc, monitorList, i, verdict>>
  <2>0. containers \in Seq(Containers)
    BY <1>0 DEF TypeOK
  <2>1. containers' \in Seq(Containers) /\ Len(containers') = Len(containers) - 1
    BY <1>2, <1>10, <2>0, RemoveAtFacts
  <2>2. \A d \in Containers : Off(d, containers') => Off(d, containers) \/ d = c
    BY <1>2, <1>10, <2>0, RemoveAtOff DEF c
  <2>3. TypeOK'
    <3>1. healthCount - 1 \in -Cardinality(Containers) .. Cardinality(Containers)
      BY <1>2, <1>3
    <3> QED
      BY <1>0, <1>5, <1>6, <1>7, <1>10, <2>1, <3>1 DEF TypeOK
  <2>4. Bounds'
    BY <1>0, <1>2, <1>3, <1>10, <2>1 DEF Bounds, Size
  <2>5. Phases'
    BY <1>0, <1>10 DEF Phases
  <2>6. OffTheLists'
    <3>1. \A d \in Containers : Off(d, containers') => steps'[d] = "Error"
      BY <1>2, <1>4, <1>7, <1>10, <2>2
    <3>2. "inspect" \notin faults' =>
            \A d \in Containers : Off(d, containers') => env[d].run = "exit0"
      BY <1>4, <1>5, <1>10, <2>2
    <3> QED
      BY <1>0, <1>10, <3>1, <3>2 DEF OffTheLists, Off
  <2>7. CountedAreWell'
    BY <1>2, <1>3, <1>10 DEF CountedAreWell
  <2>8. VerdictIsSound' /\ FailedHasCause' /\ StepsTellVerdict'
    BY <1>0, <1>10 DEF VerdictIsSound, FailedHasCause, StepsTellVerdict
  <2> QED
    BY <2>3, <2>4, <2>5, <2>6, <2>7, <2>8 DEF HealthInv
<1>11. CASE /\ Waits(r)
            /\ IF OnlyInfra(containers)
                 THEN Conclusion /\ UNCHANGED <<i, healthCount>>
                 ELSE i' = i + 1 /\ UNCHANGED <<pc, monitorList, healthCount, steps, verdict>>
            /\ UNCHANGED containers
  <2>1. CASE OnlyInfra(containers)
    <3>1. VerdictOn(containers) # "RUNNING"
      BY <2>1 DEF VerdictOn
    <3> QED
      BY <1>0, <1>5, <1>11, <2>1, <3>1, ConclusionKeeps
  <2>2. CASE ~OnlyInfra(containers)
    <3>1. i' = i + 1 /\ UNCHANGED <<pc, containers, monitorList, healthCount, steps, verdict>>
      BY <1>11, <2>2
    <3>2. TypeOK'
      <4>1. i + 1 \in 1 .. Cardinality(Containers) + 1
        BY <1>2, <1>3
      <4> QED
        BY <1>0, <1>5, <1>6, <3>1, <4>1 DEF TypeOK
    <3>3. Bounds'
      BY <1>0, <1>2, <1>3, <3>1 DEF Bounds, Size
    <3>4. Phases'
      BY <1>0, <3>1 DEF Phases
    <3>5. OffTheLists'
      BY <1>0, <1>4, <1>5, <3>1 DEF OffTheLists, Off
    <3>6. CountedAreWell'
      BY <1>2, <1>3, <3>1 DEF CountedAreWell
    <3>7. VerdictIsSound' /\ FailedHasCause' /\ StepsTellVerdict'
      BY <1>0, <3>1 DEF VerdictIsSound, FailedHasCause, StepsTellVerdict
    <3> QED
      BY <3>2, <3>3, <3>4, <3>5, <3>6, <3>7 DEF HealthInv
  <2> QED
    BY <2>1, <2>2
<1> QED
  BY <1>1, <1>8, <1>9, <1>10, <1>11

(* The monitor's start keeps it (monitor.go:26-34).                        *)
LEMMA MonitorStartKeeps ==
  ASSUME HealthInv, MonitorStart
  PROVE  HealthInv'
<1>0. /\ TypeOK /\ pc = "monitor" /\ verdict = "RUNNING" /\ final = "none"
      /\ UNCHANGED <<isService, env, containers, monitorList, known, healthCount, steps, verdict,
                     wasSick, failedBefore>>
      /\ \A d \in Containers : env[d].run # "absent"
      /\ \A d \in Containers : env[d].health = "unhealthy" => wasSick
  BY DEF HealthInv, MonitorStart, Phases
<1>1. StepsTellVerdict'
  BY <1>0 DEF HealthInv, StepsTellVerdict, Apps
<1>2. CASE pc' = "poll" /\ i' = 1 /\ UNCHANGED <<final, faults>>
  <2>1. TypeOK'
    <3>1. i' \in 1 .. Cardinality(Containers) + 1
      BY <1>2, SizeFacts DEF Size
    <3> QED
      BY <1>0, <1>2, <3>1 DEF TypeOK
  <2>2. Bounds'
    BY <1>0, <1>2, ListFacts DEF HealthInv, Bounds, Size
  <2>3. Phases'
    BY <1>0, <1>2 DEF Phases
  <2>4. OffTheLists' /\ CountedAreWell'
    BY <1>0, <1>2 DEF HealthInv, OffTheLists, Off, CountedAreWell
  <2>5. VerdictIsSound' /\ FailedHasCause'
    BY <1>0, <1>2 DEF HealthInv, VerdictIsSound, FailedHasCause
  <2> QED
    BY <1>1, <2>1, <2>2, <2>3, <2>4, <2>5 DEF HealthInv
<1>3. CASE faults' = faults \cup {"lookup"} /\ Conclude("FAILED") /\ UNCHANGED i
  <2>1. final' = "FAILED" /\ pc' = "done" /\ faults' # {}
    BY <1>3 DEF Conclude
  <2>2. TypeOK'
    BY <1>0, <1>3, <2>1 DEF TypeOK, Replies
  <2>3. Bounds' /\ Phases' /\ OffTheLists' /\ CountedAreWell'
    BY <1>0, <2>1 DEF HealthInv, Bounds, Phases, OffTheLists, CountedAreWell, Size
  <2>4. VerdictIsSound' /\ FailedHasCause'
    BY <1>0, <1>3, <2>1 DEF HealthInv, VerdictIsSound, FailedHasCause
  <2> QED
    BY <1>1, <2>2, <2>3, <2>4 DEF HealthInv
<1> QED
  BY <1>2, <1>3 DEF MonitorStart

(* One poll of a container keeps it (monitor.go:36-76).                    *)
LEMMA MonitorInspectKeeps ==
  ASSUME HealthInv, MonitorInspect
  PROVE  HealthInv'
<1> DEFINE c == monitorList[i]
<1>0. /\ TypeOK /\ pc = "poll" /\ i <= Len(monitorList) /\ verdict = "RUNNING" /\ final = "none"
      /\ UNCHANGED <<isService, env, containers, known, healthCount, steps, verdict, wasSick,
                     failedBefore>>
      /\ \A d \in Containers : env[d].run # "absent"
      /\ \A d \in Containers : env[d].health = "unhealthy" => wasSick
  BY DEF HealthInv, MonitorInspect, Phases
<1>1. PICK answered \in BOOLEAN :
        /\ faults' = IF answered THEN faults ELSE faults \cup {"inspect"}
        /\ LET r == IF answered THEN CheckContainer(c, c \in known) ELSE NoAnswer IN
           \/ MonitorUnfit(r) /\ Conclude("FAILED") /\ UNCHANGED <<monitorList, i>>
           \/ /\ ~MonitorUnfit(r) /\ ~r.running
              /\ monitorList' = RemoveAt(monitorList, i)
              /\ UNCHANGED <<pc, final, i>>
           \/ /\ ~MonitorUnfit(r) /\ r.running
              /\ i' = i + 1
              /\ UNCHANGED <<pc, monitorList, final>>
  BY DEF MonitorInspect
<1>2. /\ c \in Containers /\ i \in 1 .. Len(monitorList) /\ Len(monitorList) \in Nat
      /\ Size \in Nat /\ Size = Cardinality(Containers)
  BY <1>0, ListFacts DEF Size
<1>3. Len(containers) <= Size /\ Len(monitorList) <= Size
  BY DEF HealthInv, Bounds
<1>4. "inspect" \notin faults =>
        \A d \in Containers : Off(d, containers) \/ Off(d, monitorList) => env[d].run = "exit0"
  BY <1>0 DEF HealthInv, OffTheLists
<1> HIDE DEF c
<1> DEFINE r == IF answered THEN CheckContainer(c, c \in known) ELSE NoAnswer
<1>5. /\ ~answered => MonitorUnfit(r)
      /\ answered /\ MonitorUnfit(r) => env[c].run = "exit1" \/ env[c].health = "unhealthy"
      /\ ~MonitorUnfit(r) /\ ~r.running => env[c].run = "exit0"
  BY <1>0, <1>2, MonitorFacts
<1>6. \/ MonitorUnfit(r) /\ Conclude("FAILED") /\ UNCHANGED <<monitorList, i>>
      \/ /\ ~MonitorUnfit(r) /\ ~r.running
         /\ monitorList' = RemoveAt(monitorList, i)
         /\ UNCHANGED <<pc, final, i>>
      \/ /\ ~MonitorUnfit(r) /\ r.running
         /\ i' = i + 1
         /\ UNCHANGED <<pc, monitorList, final>>
  BY <1>1
<1> HIDE DEF r
<1>7. /\ faults' \subseteq {"lookup", "absent", "inspect"}
      /\ "inspect" \notin faults' => "inspect" \notin faults
      /\ faults' = {} => answered
  BY <1>0, <1>1 DEF TypeOK
<1>8. StepsTellVerdict'
  BY <1>0 DEF HealthInv, StepsTellVerdict, Apps
<1>9. CASE MonitorUnfit(r) /\ Conclude("FAILED") /\ UNCHANGED <<monitorList, i>>
  <2>1. final' = "FAILED" /\ pc' = "done"
    BY <1>9 DEF Conclude
  <2>2. TypeOK'
    BY <1>0, <1>7, <1>9, <2>1 DEF TypeOK, Replies
  <2>3. Bounds' /\ Phases' /\ OffTheLists' /\ CountedAreWell'
    BY <1>0, <1>3, <1>9, <2>1 DEF Bounds, Phases, OffTheLists, CountedAreWell, Size
  <2>4. VerdictIsSound'
    BY <1>0, <1>7, <2>1 DEF HealthInv, VerdictIsSound
  <2>5. FailedHasCause'
    BY <1>0, <1>2, <1>5, <1>7, <1>9 DEF FailedHasCause, Failed
  <2> QED
    BY <1>8, <2>2, <2>3, <2>4, <2>5 DEF HealthInv
<1>10. CASE /\ ~MonitorUnfit(r) /\ ~r.running
            /\ monitorList' = RemoveAt(monitorList, i)
            /\ UNCHANGED <<pc, final, i>>
  <2>0. monitorList \in Seq(Containers) /\ env[c].run = "exit0"
    BY <1>0, <1>5, <1>10 DEF TypeOK
  <2>1. monitorList' \in Seq(Containers) /\ Len(monitorList') = Len(monitorList) - 1
    BY <1>2, <1>10, <2>0, RemoveAtFacts
  <2>2. \A d \in Containers : Off(d, monitorList') => Off(d, monitorList) \/ d = c
    BY <1>2, <1>10, <2>0, RemoveAtOff DEF c
  <2>3. TypeOK'
    BY <1>0, <1>7, <1>10, <2>1 DEF TypeOK
  <2>4. Bounds'
    BY <1>0, <1>2, <1>3, <1>10, <2>1 DEF Bounds, Size
  <2>5. Phases' /\ CountedAreWell'
    BY <1>0, <1>10 DEF Phases, CountedAreWell
  <2>6. OffTheLists'
    <3>1. "inspect" \notin faults' =>
            \A d \in Containers : Off(d, containers) \/ Off(d, monitorList') => env[d].run = "exit0"
      BY <1>4, <1>7, <2>0, <2>2
    <3> QED
      BY <1>0, <1>10, <3>1 DEF OffTheLists, Off
  <2>7. VerdictIsSound' /\ FailedHasCause'
    BY <1>0, <1>7, <1>10 DEF HealthInv, VerdictIsSound, FailedHasCause
  <2> QED
    BY <1>8, <2>3, <2>4, <2>5, <2>6, <2>7 DEF HealthInv
<1>11. CASE /\ ~MonitorUnfit(r) /\ r.running
            /\ i' = i + 1
            /\ UNCHANGED <<pc, monitorList, final>>
  <2>1. TypeOK'
    <3>1. i + 1 \in 1 .. Cardinality(Containers) + 1
      BY <1>2, <1>3
    <3> QED
      BY <1>0, <1>7, <1>11, <3>1 DEF TypeOK
  <2>2. Bounds'
    BY <1>0, <1>2, <1>3, <1>11 DEF Bounds, Size
  <2>3. Phases' /\ CountedAreWell'
    BY <1>0, <1>11 DEF Phases, CountedAreWell
  <2>4. OffTheLists'
    BY <1>0, <1>4, <1>7, <1>11 DEF OffTheLists, Off
  <2>5. VerdictIsSound' /\ FailedHasCause'
    BY <1>0, <1>7, <1>11 DEF HealthInv, VerdictIsSound, FailedHasCause
  <2> QED
    BY <1>8, <2>1, <2>2, <2>3, <2>4, <2>5 DEF HealthInv
<1> QED
  BY <1>6, <1>9, <1>10, <1>11

(* The end of a poll keeps it: the monitor concludes only when no          *)
(* application is left on its list (monitor.go:78-95).                     *)
LEMMA MonitorRoundEndsKeeps ==
  ASSUME HealthInv, MonitorRoundEnds
  PROVE  HealthInv'
<1> DEFINE v == VerdictOn(monitorList)
<1>0. /\ TypeOK /\ pc = "poll" /\ verdict = "RUNNING" /\ final = "none"
      /\ UNCHANGED <<isService, env, containers, monitorList, known, healthCount, steps, verdict,
                     faults, wasSick, failedBefore>>
      /\ \A d \in Containers : env[d].run # "absent"
      /\ \A d \in Containers : env[d].health = "unhealthy" => wasSick
      /\ IF v = "RUNNING" THEN i' = 1 /\ UNCHANGED <<pc, final>>
         ELSE Conclude(v) /\ UNCHANGED i
  BY DEF HealthInv, MonitorRoundEnds, Phases
<1>1. /\ v \in {"RUNNING", "FAILED", "FINISHED"}
      /\ v = "FAILED" => isService
      /\ v # "RUNNING" => \A d \in Apps : Off(d, monitorList)
  BY VerdictFacts
<1>2. StepsTellVerdict'
  BY <1>0 DEF HealthInv, StepsTellVerdict, Apps
<1> HIDE DEF v
<1>3. CASE v = "RUNNING"
  <2>0. i' = 1 /\ UNCHANGED <<pc, final>>
    BY <1>0, <1>3
  <2>1. TypeOK'
    <3>1. i' \in 1 .. Cardinality(Containers) + 1
      BY <2>0, SizeFacts DEF Size
    <3> QED
      BY <1>0, <2>0, <3>1 DEF TypeOK
  <2>2. Bounds'
    BY <1>0, <2>0, ListFacts DEF HealthInv, Bounds, Size
  <2>3. Phases'
    BY <1>0, <2>0 DEF Phases
  <2>4. OffTheLists' /\ CountedAreWell'
    BY <1>0, <2>0 DEF HealthInv, OffTheLists, Off, CountedAreWell
  <2>5. VerdictIsSound' /\ FailedHasCause'
    BY <1>0, <2>0 DEF HealthInv, VerdictIsSound, FailedHasCause
  <2> QED
    BY <1>2, <2>1, <2>2, <2>3, <2>4, <2>5 DEF HealthInv
<1>4. CASE v # "RUNNING"
  <2>0. final' = v /\ pc' = "done" /\ i' = i
    BY <1>0, <1>4 DEF Conclude
  <2>1. TypeOK'
    BY <1>0, <1>1, <1>4, <2>0 DEF TypeOK, Replies
  <2>2. Bounds' /\ Phases' /\ OffTheLists' /\ CountedAreWell'
    BY <1>0, <2>0 DEF HealthInv, Bounds, Phases, OffTheLists, CountedAreWell, Size
  <2>3. "inspect" \notin faults => \A d \in Apps : env[d].run = "exit0"
    BY <1>0, <1>1, <1>4 DEF HealthInv, OffTheLists, Apps
  <2>4. VerdictIsSound'
    BY <1>0, <2>0, <2>3 DEF HealthInv, VerdictIsSound, Apps
  <2>5. FailedHasCause'
    BY <1>0, <1>1, <2>0, <2>3 DEF FailedHasCause, Apps
  <2> QED
    BY <1>2, <2>1, <2>2, <2>4, <2>5 DEF HealthInv
<1> QED
  BY <1>3, <1>4

(* Every step keeps it.                                                    *)
LEMMA HealthStep == HealthInv /\ [Next]_vars => HealthInv'
<1> SUFFICES ASSUME HealthInv, [Next]_vars PROVE HealthInv'
  OBVIOUS
<1>1. CASE UNCHANGED vars
  <2>1. /\ TypeOK' = TypeOK /\ Bounds' = Bounds /\ Phases' = Phases /\ OffTheLists' = OffTheLists
        /\ CountedAreWell' = CountedAreWell
    BY <1>1 DEF vars, checker, TypeOK, Bounds, Phases, OffTheLists, Off, CountedAreWell, Size
  <2>2. /\ VerdictIsSound' = VerdictIsSound /\ FailedHasCause' = FailedHasCause
        /\ StepsTellVerdict' = StepsTellVerdict
    BY <1>1 DEF vars, checker, VerdictIsSound, FailedHasCause, Failed, StepsTellVerdict
  <2> QED
    BY <2>1, <2>2 DEF HealthInv
<1>2. CASE HealthCheck
  BY <1>2, ListServicesKeeps, LookUpInfraKeeps, InspectNextKeeps, EndRoundKeeps DEF HealthCheck
<1>3. CASE Monitor
  BY <1>3, MonitorStartKeeps, MonitorInspectKeeps, MonitorRoundEndsKeeps DEF Monitor
<1>4. CASE \E c \in Containers : Docker(c)
  BY <1>4, DockerKeeps
<1> QED
  BY <1>1, <1>2, <1>3, <1>4 DEF Next, Done

-----------------------------------------------------------------------------
(* The theorems                                                            *)

(* The whole invariant holds of every run, so also the promises that       *)
(* follow state theirs from it.                                            *)
THEOREM HealthInvCorrect == Spec => []HealthInv
<1>1. Init => HealthInv
  BY HealthInit
<1>2. HealthInv /\ [Next]_vars => HealthInv'
  BY HealthStep
<1> QED
  BY <1>1, <1>2, PTL DEF Spec

(* The lists, the index and the count stay within the number of            *)
(* containers: no removal or recount indexes past the end                  *)
(* (pod.go:1219-1281, monitor.go:36-76).                                   *)
THEOREM HealthTypeCorrect == Spec => []TypeOK
<1>1. HealthInv => TypeOK
  BY DEF HealthInv
<1> QED
  BY <1>1, HealthInvCorrect, PTL

(* However rounds, removals and failures interleave, a pod is declared     *)
(* running only if no container had failed when the last round began, and  *)
(* finished only if every application exited with 0 (pod.go:1218-1318,     *)
(* monitor.go:82-90).                                                      *)
THEOREM VerdictsAreSound == Spec => []VerdictIsSound
<1>1. HealthInv => VerdictIsSound
  BY DEF HealthInv
<1> QED
  BY <1>1, HealthInvCorrect, PTL

(* A pod is declared failed only for a reason (pod.go:1182-1318,           *)
(* monitor.go:26-95).                                                      *)
THEOREM FailuresHaveCauses == Spec => []FailedHasCause
<1>1. HealthInv => FailedHasCause
  BY DEF HealthInv
<1> QED
  BY <1>1, HealthInvCorrect, PTL

(* What left a list has exited with 0 (pod.go:1260-1269,                   *)
(* monitor.go:57-63).                                                      *)
THEOREM RemovedExited == Spec => []RemovedHasExited
<1>1. HealthInv => RemovedHasExited
  BY DEF HealthInv, OffTheLists, Off, RemovedHasExited
<1> QED
  BY <1>1, HealthInvCorrect, PTL

(* The step metrics agree with the verdict (pod.go:1214-1295,              *)
(* util.go:89-131).                                                        *)
THEOREM StepsAgree == Spec => []StepsTellVerdict
<1>1. HealthInv => StepsTellVerdict
  BY DEF HealthInv
<1> QED
  BY <1>1, HealthInvCorrect, PTL

=============================================================================
