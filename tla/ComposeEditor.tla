---------------------------- MODULE ComposeEditor ----------------------------
(***************************************************************************)
(* What the general plugin makes of the compose files of a pod: LaunchTask-*)
(* PreImagePull and PostLaunchTask (pluginimpl/general/impl.go) and the    *)
(* editing of the services (editor.go) over ServiceDetail, the parsed      *)
(* files every part of the executor shares.                                *)
(*                                                                         *)
(* A file is its number in the list and whether it got its new name; its   *)
(* content maps services to the sections that are decided upon: the        *)
(* network mode ("default" is every mode but host, none and the one set    *)
(* here), the ports, each the sequence of its fields between colons, and   *)
(* extra_hosts.  No service maps stand for a file without services.        *)
(***************************************************************************)
EXTENDS Naturals, Sequences, SequencesExt, FiniteSets

CONSTANTS Services, \* names of services in compose files
          Infra,    \* networkproxy
          Pods,     \* pods: a sequence of file contents each
          Offers    \* the host ports Mesos may offer, a sequence each

(* A port request by its fields, and a service by its sections.            *)
PortRequests == Seq(STRING) \ {<<>>}
Sections == [mode : {"default", "host", "none", "shared"}, ports : Seq(PortRequests), hosts : SUBSET STRING]

ASSUME InfraAssumption == Infra \notin Services
ASSUME PodAssumption ==
  \A p \in Pods : /\ Len(p) \in Nat /\ DOMAIN p = 1..Len(p)
                  /\ \A i \in DOMAIN p : /\ IsFiniteSet(DOMAIN p[i]) /\ DOMAIN p[i] \subseteq Services
                                         /\ \A s \in DOMAIN p[i] : p[i][s] \in Sections
ASSUME OfferAssumption ==
  \A o \in Offers : o \in Seq(STRING) /\ \A i, j \in DOMAIN o : o[i] = o[j] => i = j

VARIABLES pod,        \* the files as written by the user
          offered,    \* the ports of the task, in order
          files,      \* pod.ComposeFiles
          detail,     \* ServiceDetail
          written,    \* what the last WriteChangeToFiles left on disk
          edited,     \* editedFiles
          at,         \* the file being edited
          todo,       \* its services still to come, in the order of a Go map
          taken,      \* how many ports are used up
          extraHosts, \* extra hosts found so far
          config,     \* the configuration: ports, rm_infra_container
          singlePort, \* pod.SinglePort
          pc, error

given == <<pod, offered>>
loop == <<edited, at, todo>>
found == <<taken, extraHosts, config, singlePort>>
vars == <<given, files, detail, written, loop, found, pc, error>>

Errors == {"none", "setup", "ports", "index", "write", "ids"}

TypeOK ==
  /\ pod \in Pods /\ offered \in Offers
  /\ \A n \in Range(files) \cup Range(edited) : n[1] \in 1..Len(pod) + 1
  /\ \A n \in DOMAIN detail : DOMAIN detail[n] \subseteq Services \cup {Infra}
  /\ at \in 1..Len(pod) + 2 /\ todo \subseteq Services \cup {Infra}
  /\ taken \in 0..Len(offered)
  /\ config.rmInfra \in BOOLEAN /\ singlePort \in BOOLEAN
  /\ pc \in {"create", "file", "service", "edited", "launched", "running", "failed"}
  /\ error \in Errors

Name(i, kind) == <<i, kind>>
Given(i) == Name(i, "given")
Generated(n) == Name(n[1], "generated")

Init ==
  /\ pod \in Pods /\ offered \in Offers
  /\ files = [i \in DOMAIN pod |-> Given(i)]
  /\ detail = [n \in Range(files) |-> pod[n[1]]]
  /\ written = detail
  /\ edited = <<>> /\ at = 1 /\ todo = {}
  /\ taken = 0 /\ extraHosts = {} /\ singlePort = FALSE
  /\ config = [ports |-> <<>>, rmInfra |-> FALSE]
  /\ pc = "create" /\ error = "none"

(* The launch fails; a panic is an error too, to PluginPanicHandler.       *)
Fail(cause) == pc' = "failed" /\ error' = cause

InfraFile == Given(Len(pod) + 1)
InfraService == [mode |-> "default", ports |-> <<>>, hosts |-> {}]

(* CreateInfraContainer, which needs the name of a network that exists     *)
(* already and has to write the file.                                      *)
CreateInfraContainer ==
  /\ pc = "create"
  /\ \/ /\ files' = Append(files, InfraFile)
        /\ detail' = [n \in DOMAIN detail \cup {InfraFile} |->
                        IF n = InfraFile THEN [s \in {Infra} |-> InfraService]
                                         ELSE detail[n]]
        /\ pc' = "file"
        /\ UNCHANGED error
     \/ Fail("setup") /\ UNCHANGED <<files, detail>>
  /\ UNCHANGED <<given, written, loop, found>>

-----------------------------------------------------------------------------
(* editComposeFile: every service of the file in any order, then the file  *)
(* gets its new name.                                                      *)

HasServices(n) == DOMAIN detail[n] # {}

SkipFile == /\ pc = "file" /\ at <= Len(files) /\ ~HasServices(files[at])
            /\ at' = at + 1
            /\ UNCHANGED <<given, files, detail, written, edited, todo, found, pc, error>>

OpenFile == /\ pc = "file" /\ at <= Len(files) /\ HasServices(files[at])
            /\ todo' = DOMAIN detail[files[at]]
            /\ pc' = "service"
            /\ UNCHANGED <<given, files, detail, written, edited, at, found, error>>

CloseFile ==
  /\ pc = "service" /\ todo = {}
  /\ LET old == files[at]
         new == Generated(old)
     IN /\ detail' = [n \in (DOMAIN detail \ {old}) \cup {new} |->
                        IF n = new THEN detail[old] ELSE detail[n]]
        /\ edited' = Append(edited, new)
  /\ at' = at + 1 /\ pc' = "file"
  /\ UNCHANGED <<given, files, written, todo, found, error>>

-----------------------------------------------------------------------------
(* updateServiceSessions *)

Unshared_Host == {"host"}                         \* a bug: none is forgotten

Unshared == {"host", "none"}

NeedsPort(request) == Len(request) > 1

Rank_PerService(requests, j) == Cardinality({k \in 1..j : NeedsPort(requests[k])})  \* a bug

(* The number of the offered port that the j-th request gets.              *)
Rank(requests, j) == taken + Cardinality({k \in 1..j : NeedsPort(requests[k])})

(* The first field becomes the offered port, the second stays.             *)
Mapped(requests) ==
  [j \in DOMAIN requests |->
     IF NeedsPort(requests[j]) /\ Rank(requests, j) <= Len(offered)
     THEN <<offered[Rank(requests, j)], requests[j][2]>>
     ELSE requests[j]]

Short_OneLate(requests) == Rank(requests, Len(requests)) > Len(offered) + 1   \* a bug

Short(requests) == Rank(requests, Len(requests)) > Len(offered)

SawSingle_Last(requests) ==                       \* a bug: only the last one counts
  requests # <<>> /\ ~NeedsPort(Last(requests))

SawSingle(requests) ==
  \E j \in DOMAIN requests : ~NeedsPort(requests[j]) /\ Rank(requests, j) <= Len(offered)

ScanForExtraHosts(service) == extraHosts \cup service.hosts

CollectPorts_New(mapped) == mapped                \* a bug: the others are dropped

CollectPorts(mapped) == config.ports \o mapped

Store(s, service) == detail' = [detail EXCEPT ![files[at]][s] = service]

(* A service on the host's network, or on none, keeps its ports.           *)
EditUnshared(s) ==
  LET service == detail[files[at]][s] IN
  /\ s # Infra /\ service.mode \in Unshared
  /\ config' = [config EXCEPT !.rmInfra = TRUE]
  /\ extraHosts' = ScanForExtraHosts(service)
  /\ Store(s, [service EXCEPT !.hosts = {}])
  /\ todo' = todo \ {s}
  /\ UNCHANGED <<taken, singlePort, pc, error>>

(* Every other one joins the infra container, which publishes its ports.   *)
EditShared(s) ==
  LET service == detail[files[at]][s]
      joined == [service EXCEPT !.mode = "shared", !.hosts = {}]
      requests == service.ports
  IN
  /\ s # Infra /\ service.mode \notin Unshared
  /\ extraHosts' = ScanForExtraHosts(service)
  /\ singlePort' = (singlePort \/ SawSingle(requests))
  /\ IF Short(requests)
     THEN /\ Fail("ports")
          /\ taken' = Len(offered)
          /\ Store(s, [joined EXCEPT !.ports = Mapped(requests)])
          /\ UNCHANGED <<todo, config>>
     ELSE /\ taken' = Rank(requests, Len(requests))
          /\ config' = [config EXCEPT !.ports = CollectPorts(Mapped(requests))]
          /\ Store(s, [joined EXCEPT !.ports = <<>>])
          /\ todo' = todo \ {s}
          /\ UNCHANGED <<pc, error>>

(* The infra container comes last, when all ports are known.               *)
EditInfra(s) ==
  /\ s = Infra
  /\ Store(s, [detail[files[at]][s] EXCEPT !.ports = config.ports])
  /\ todo' = todo \ {s}
  /\ UNCHANGED <<found, pc, error>>

UpdateServiceSessions(s) ==
  /\ pc = "service" /\ s \in todo
  /\ EditUnshared(s) \/ EditShared(s) \/ EditInfra(s)
  /\ UNCHANGED <<given, files, written, edited, at>>

-----------------------------------------------------------------------------
(* The end of LaunchTaskPreImagePull *)

AllEdited == pc = "file" /\ at > Len(files)

(* indexInfra is a position in the list of files, and is used in the list  *)
(* of edited files, which is shorter when a file has no services.          *)
IndexInfra == CHOOSE i \in DOMAIN files : files[i] = InfraFile

RemovesInfra_Always == TRUE         \* a bug: the network mode is not looked at

RemovesInfra == config.rmInfra

DropInfra ==
  /\ AllEdited /\ RemovesInfra
  /\ IF IndexInfra \in DOMAIN edited
     THEN /\ files' = RemoveAt(edited, IndexInfra)
          /\ detail' = [n \in DOMAIN detail \ {edited[IndexInfra]} |-> detail[n]]
          /\ pc' = "edited"
          /\ UNCHANGED error
     ELSE Fail("index") /\ UNCHANGED <<files, detail>>
  /\ UNCHANGED <<given, written, loop, found>>

(* addExtraHostsSection *)
KeepInfra ==
  /\ AllEdited /\ ~RemovesInfra
  /\ files' = edited
  /\ detail' = [detail EXCEPT ![Generated(InfraFile)][Infra].hosts = extraHosts]
  /\ pc' = "edited"
  /\ UNCHANGED <<given, written, loop, found, error>>

-----------------------------------------------------------------------------
(* WriteChangeToFiles: LaunchTask goes on after an error.                  *)

Write == /\ pc = "edited"
         /\ pc' = "launched"
         /\ \/ written' = detail /\ UNCHANGED error
            \/ error' = "write" /\ UNCHANGED written
         /\ UNCHANGED <<given, files, detail, loop, found>>

(* A port docker chose itself, or none if docker port fails.               *)
Published(request) ==
  IF NeedsPort(request) THEN {request} ELSE {<<host, request[1]>> : host \in {"dynamic", ""}}

(* postEditComposeFile needs the id of the infra container: docker-compose *)
(* ps may fail or name no container, and the index then panics.            *)
PostEdit(infra) ==
  \/ Fail("ids") /\ UNCHANGED <<detail, written>>
  \/ \E ports \in [DOMAIN detail[infra][Infra].ports ->
                     UNION {Published(r) : r \in Range(detail[infra][Infra].ports)}] :
        /\ \A j \in DOMAIN ports : ports[j] \in Published(detail[infra][Infra].ports[j])
        /\ detail' = [detail EXCEPT ![infra][Infra].ports = ports]
        /\ \/ written' = detail' /\ pc' = "running" /\ UNCHANGED error
           \/ Fail("write") /\ UNCHANGED written

PostLaunchTask ==
  /\ pc = "launched"
  /\ IF singlePort /\ Generated(InfraFile) \in DOMAIN detail
     THEN PostEdit(Generated(InfraFile))
     ELSE pc' = "running" /\ UNCHANGED <<detail, written, error>>
  /\ UNCHANGED <<given, files, loop, found>>

Finished == pc \in {"failed", "running"} /\ UNCHANGED vars

Next == \/ CreateInfraContainer \/ SkipFile \/ OpenFile \/ CloseFile
        \/ \E s \in todo : UpdateServiceSessions(s)
        \/ DropInfra \/ KeepInfra \/ Write \/ PostLaunchTask \/ Finished

Spec == Init /\ [][Next]_vars

-----------------------------------------------------------------------------
(* Properties                                                              *)

Places == {p \in (1..Len(pod)) \X Services : p[2] \in DOMAIN pod[p[1]]}
Asked(p) == pod[p[1]][p[2]]
OnOwnNetwork(p) == Asked(p).mode \in {"host", "none"}
Requests == UNION {{p} \X DOMAIN Asked(p).ports : p \in {q \in Places : ~OnOwnNetwork(q)}}
Request(r) == Asked(r[1]).ports[r[2]]

Done == pc \in {"edited", "launched", "running"}
InfraListed == Generated(InfraFile) \in Range(files)
InfraPorts == detail[Generated(InfraFile)][Infra].ports

(* A pod is refused for want of ports exactly when it asks for more host   *)
(* ports than Mesos offered, whatever the order of files and services      *)
(* (editor.go:200).                                                        *)
PortsSuffice ==
  LET demand == Cardinality({r \in Requests : Len(Request(r)) > 1})
  IN /\ error = "ports" => demand > Len(offered)
     /\ Done => demand <= Len(offered)

(* Two mappings of the pod never share a host port, though they come from  *)
(* services of several files edited one after the other (editor.go:204).   *)
HostPortsDistinct ==
  \A i, j \in DOMAIN config.ports :
     /\ Len(config.ports[i]) > 1 => config.ports[i][1] \in Range(offered)
     /\ i # j /\ Len(config.ports[i]) > 1 /\ Len(config.ports[j]) > 1
        => config.ports[i][1] # config.ports[j][1]

(* The inductive invariant behind HostPortsDistinct: what the loops have   *)
(* still to do is in ServiceDetail, and collected host ports are offered   *)
(* ones up to the number taken.                                            *)
Editing == {"create", "file", "service"}

Unedited ==
  /\ at \in Nat \ {0}
  /\ pc \in Editing =>
       /\ files = [i \in 1..(Len(pod) + (IF pc = "create" THEN 0 ELSE 1)) |-> Given(i)]
       /\ \A i \in at..Len(files) : files[i] \in DOMAIN detail
       /\ \A n \in DOMAIN detail : \A s \in DOMAIN detail[n] : detail[n][s] \in Sections
  /\ pc = "service" => at <= Len(files) /\ todo \subseteq DOMAIN detail[files[at]]

Collected ==
  /\ config \in [ports : Seq(PortRequests), rmInfra : BOOLEAN]
  /\ \A i \in DOMAIN config.ports : NeedsPort(config.ports[i]) =>
       \E k \in 1..taken : config.ports[i][1] = offered[k]
  /\ \A i, j \in DOMAIN config.ports :
       i # j /\ NeedsPort(config.ports[i]) /\ NeedsPort(config.ports[j])
         => config.ports[i][1] # config.ports[j][1]

PInv == pod \in Pods /\ offered \in Offers /\ taken \in 0..Len(offered) /\ Unedited /\ Collected

(* The infra container takes over what the services give up one by one:    *)
(* every extra host, and each port they asked for, once for each that did, *)
(* and no other.  Ports requested with an address are excepted: of three   *)
(* fields the code keeps the host port as container port (editor.go:204,   *)
(* 215, 301).                                                              *)
HostSettingsMoved ==
  Done /\ InfraListed =>
    /\ detail[Generated(InfraFile)][Infra].hosts = UNION {Asked(p).hosts : p \in Places}
    /\ (\A r \in Requests : Len(Request(r)) < 3) =>
         \A port \in {Last(Request(r)) : r \in Requests} \cup {Last(m) : m \in Range(InfraPorts)} :
            Cardinality({r \in Requests : Last(Request(r)) = port})
              = Cardinality({i \in DOMAIN InfraPorts : Last(InfraPorts[i]) = port})

(* A service that joins the network of the infra container has one to join.*)
(* Pods that mix network modes are excepted: there one service on the host *)
(* network has the infra container removed that others joined (impl.go:119)*)
NetworkIsThere ==
  Done /\ Places # {} /\ (\A p, q \in Places : OnOwnNetwork(p) <=> OnOwnNetwork(q)) =>
    (InfraListed <=> \E n \in Range(files) : \E s \in DOMAIN detail[n] : detail[n][s].mode = "shared")

(* Once the pod runs, the generated file in the folder shows a host port   *)
(* for each exposed port (how-to-use.md:102), those docker chose included; *)
(* a docker port that fails is only logged, and leaves an empty one.       *)
ExposedPortsWritten ==
  pc = "running" /\ error = "none" /\ InfraListed =>
    /\ written = detail
    /\ \A m \in Range(InfraPorts) : Len(m) > 1

(* docs/how-to-develop.md:285: with network mode host or none the infra    *)
(* container is not used.  A pod of such services is launched without it.  *)
HostPodIsLaunched ==
  (\A p \in Places : OnOwnNetwork(p)) => error # "index"
=============================================================================
