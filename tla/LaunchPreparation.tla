-------------------------- MODULE LaunchPreparation --------------------------
(***************************************************************************)
(* What LaunchTask does (dce/main.go) before docker-compose up: find the   *)
(* compose files a label of the task lists, copy them into the pod's       *)
(* folder, let other labels override the configuration, have them parsed   *)
(* and edited by the general plugin, write them, validate them and pull    *)
(* the images.                                                             *)
(*                                                                         *)
(* A path is the folders it leads through, the words of its last part (a   *)
(* name may contain blanks, and the code uses the first word) and whether  *)
(* the plugin renamed it.  The content of a file is the listed file it     *)
(* comes from and whether it has services.  How services are edited is the *)
(* subject of ComposeEditor; a pod here keeps its infra container.         *)
(***************************************************************************)
EXTENDS Naturals, Sequences, Functions

CONSTANTS Words,      \* what names of files are made of
          Listings,   \* values of the label fileName: a sequence of paths each
          Present,    \* what the agent has of it: a function from paths each
          MaxRetry    \* bound: launchtask.pullretry

RunFolder == "poddata_run"   \* foldername and the id of the run
BaseFolder == "poddata"      \* foldername
OtherFolder == "sampleapp"   \* a folder of the task's own
Folders == {RunFolder, BaseFolder, OtherFolder}
InfraName == "docker-infra-container.yml"

Paths == [dirs : Seq(Folders), words : Seq(Words \cup {InfraName}), generated : BOOLEAN]

(* The task's own paths lead through no folder of the run, which the       *)
(* launch makes, and its files do not end in -generated.yml (FILE_POSTFIX).*)
TaskPaths == [dirs : Seq({BaseFolder, OtherFolder}), words : Seq(Words \cup {InfraName}), generated : {FALSE}]
TaskDirs == {<<>>, <<OtherFolder>>}   \* the folders the agent has fetched

ASSUME ListingAssumption == \A l \in Listings : l \in Seq(TaskPaths)
ASSUME PresentAssumption ==
  \A p \in Present : \A f \in DOMAIN p :
     f \in TaskPaths /\ f.dirs \in TaskDirs /\ p[f] \in [of : {f}, services : BOOLEAN]
ASSUME RetryAssumption == MaxRetry \in Nat

VARIABLES label,    \* the labels: fileName and the overriding ones
          given,    \* the compose files the agent has fetched
          config,   \* foldername, dontcreatefolder, pullretry, skippull, timeout
          dirs,     \* the folders that exist
          disk,     \* the files that exist
          files,    \* pod.ComposeFiles
          detail,   \* ServiceDetail
          edited,   \* editedFiles of the general plugin
          at,       \* files copied, files edited, or pulls tried
          deadline, \* the launch context: its timer, or that it was cancelled
          timer,    \* the timer of WaitCmd
          stray,    \* docker-compose commands left running
          told,     \* history: TASK_FAILED was sent to the agent
          faults,   \* history: what failed of the file system
          pc

task == <<label, given>>
store == <<dirs, disk, files, detail, edited>>
clock == <<deadline, timer, stray, told>>
vars == <<task, config, store, at, clock, faults, pc>>

NoOverride == "unset"
Empty == [of |-> [dirs |-> <<>>, words |-> <<>>, generated |-> TRUE], services |-> FALSE]
InfraPath == [dirs |-> <<>>, words |-> <<InfraName>>, generated |-> FALSE]
InfraContent == [of |-> [InfraPath EXCEPT !.generated = TRUE], services |-> TRUE]

Steps == {"files", "folder", "copy", "override", "parse", "infra", "edit", "write",
          "validate", "validating", "pull", "pulling", "rewrite", "up", "failed", "crashed"}

TypeOK ==
  /\ label.files \in Listings /\ given \in Present
  /\ config.folder \in Folders /\ config.noFolder \in {NoOverride, "true", "false"}
  /\ config.pullRetry \in 0..MaxRetry
  /\ files \in Seq(Paths) /\ edited \in Seq(Paths)
  /\ \A p \in DOMAIN disk \cup DOMAIN detail : p \in Paths
  /\ \A p \in DOMAIN detail : p \in DOMAIN disk => p.dirs \in dirs
  /\ at \in 0..(IF pc \in {"pull", "pulling"} THEN config.pullRetry
               ELSE MaxRetry + Len(label.files) + 1)
  /\ deadline \in {"off", "armed", "fired", "canceled"} /\ timer \in {"off", "armed", "fired"}
  /\ stray \subseteq {"validating", "pulling"} /\ told \in BOOLEAN
  /\ faults \subseteq {"mkdir", "copy", "create", "partial"}
  /\ pc \in Steps

(* launchtask.timeout may be negative; a label may override each key.      *)
Init ==
  /\ label \in [files : Listings, folder : {NoOverride, BaseFolder, OtherFolder},
                noFolder : {NoOverride, "true", "false"}, pullRetry : {NoOverride, "none"}]
  /\ given \in Present
  /\ config \in [folder : {BaseFolder}, noFolder : {NoOverride, "true", "false"},
                 pullRetry : {MaxRetry}, skipPull : BOOLEAN, timeout : {"positive", "negative"}]
  /\ dirs = TaskDirs
  /\ disk = given
  /\ files = <<>> /\ detail = <<>> /\ edited = <<>> /\ at = 0
  /\ deadline = "off" /\ timer = "off" /\ stray = {} /\ told = FALSE /\ faults = {}
  /\ pc = "files"

-----------------------------------------------------------------------------
(* Paths                                                                   *)

(* strings.Contains(path, foldername): a folder of that name or longer.    *)
InFolder(p) == \E i \in DOMAIN p.dirs :
                 \/ p.dirs[i] = config.folder
                 \/ config.folder = BaseFolder /\ p.dirs[i] = RunFolder

FirstField(p) == [p EXCEPT !.words = <<p.words[1]>>]

FolderPath(p) == IF config.noFolder = "true" \/ InFolder(p) THEN p
                 ELSE [p EXCEPT !.dirs = <<config.folder>> \o @]

WritePath(p) == IF InFolder(p) THEN p ELSE FolderPath(FirstField(p))

Stored(p, content) == [q \in DOMAIN disk \cup {p} |-> IF q = p THEN content ELSE disk[q]]

-----------------------------------------------------------------------------
(* GetFiles and GenerateAppFolder.  Without the label there are no files.  *)

GetFiles ==
  /\ pc = "files"
  /\ files' = label.files /\ pc' = "folder"
  /\ UNCHANGED <<task, config, dirs, disk, detail, edited, at, clock, faults>>

(* LaunchTask goes on without the folder if it cannot be made.             *)
GenerateAppFolder ==
  /\ pc = "folder"
  /\ \/ /\ dirs' = dirs \cup {<<RunFolder>>}
        /\ config' = [config EXCEPT !.folder = RunFolder]
        /\ pc' = "copy"
        /\ UNCHANGED faults
     \/ faults' = faults \cup {"mkdir"} /\ pc' = "override" /\ UNCHANGED <<dirs, config>>
  /\ UNCHANGED <<task, disk, files, detail, edited, at, clock>>

(* os.Create empties the file before it is copied, also onto itself.       *)
Copied(source, dest) ==
  IF source \notin DOMAIN disk THEN disk
  ELSE Stored(dest, IF dest = source THEN Empty ELSE disk[source])

(* Each file is listed under its new path, whether it was copied or not; a *)
(* blank name has no first word, and the panic ends the executor.          *)
CopyNext ==
  /\ pc = "copy" /\ at < Len(files)
  /\ LET source == files[at + 1]
         dest == FolderPath(FirstField(source))
     IN IF source.words = <<>>
        THEN pc' = "crashed" /\ UNCHANGED <<dirs, disk, files, at, faults>>
        ELSE /\ dirs' = dirs \cup {<<RunFolder>> \o source.dirs}
             /\ files' = [files EXCEPT ![at + 1] = dest]
             /\ \/ disk' = Copied(source, dest) /\ UNCHANGED faults
                \/ /\ source \in DOMAIN disk
                   /\ disk' \in {disk, Stored(dest, Empty)}
                   /\ faults' = faults \cup {"copy"}
             /\ at' = at + 1 /\ UNCHANGED pc
  /\ UNCHANGED <<task, config, detail, edited, clock>>

CopyDone == /\ pc = "copy" /\ at = Len(files)
            /\ pc' = "override"
            /\ UNCHANGED <<task, config, store, at, clock, faults>>

(* OverrideConfig replaces what is set already: dontcreatefolder may not   *)
(* be, foldername is.  A number that does not parse reads as 0.  Then the  *)
(* launch context is made.                                                 *)
OverrideConfig ==
  /\ pc = "override"
  /\ config' = [config EXCEPT
        !.folder = IF label.folder = NoOverride THEN @ ELSE label.folder,
        !.noFolder = IF NoOverride \in {@, label.noFolder} THEN @ ELSE label.noFolder,
        !.pullRetry = IF label.pullRetry = NoOverride THEN @ ELSE 0]
  /\ deadline' = IF config.timeout = "negative" THEN "fired" ELSE "armed"
  /\ pc' = "parse"
  /\ UNCHANGED <<task, store, at, timer, stray, told, faults>>

-----------------------------------------------------------------------------
(* How a step of the launch fails: cancel() and SendMesosStatus.  A        *)
(* cancelled context has no deadline any more, one that expired stays so.  *)

ReportFailure_Unsent ==                           \* a bug: cancelled, not sent
  /\ deadline' = IF deadline = "armed" THEN "canceled" ELSE deadline
  /\ UNCHANGED told

ReportFailure ==
  /\ deadline' = IF deadline = "armed" THEN "canceled" ELSE deadline
  /\ told' = TRUE

(* WaitOnPod reports the pod failed when the deadline has expired, unless  *)
(* LaunchTask did; a context that was cancelled ends it without a word.  A *)
(* KillTask, which would silence it as well, is left to PodLifecycle.      *)
WaitOnPod ==
  /\ deadline = "fired" /\ ~told
  /\ told' = TRUE
  /\ UNCHANGED <<task, config, store, at, deadline, timer, stray, faults, pc>>

-----------------------------------------------------------------------------
(* The general plugin                                                      *)

KeyOf_AsListed(p) == FirstField(p)                \* a bug: not keyed by the folder

KeyOf(p) == FolderPath(FirstField(p))

(* ParseYamls: a file that cannot be read parses as an empty one.  Two     *)
(* files of one path are one entry.                                        *)
ParseYamls ==
  /\ pc = "parse" /\ files # <<>> /\ \A i \in DOMAIN files : files[i].words # <<>>
  /\ detail' = [k \in {KeyOf(f) : f \in Range(files)} |->
                  LET last == CHOOSE i \in DOMAIN files :
                                /\ KeyOf(files[i]) = k
                                /\ \A j \in DOMAIN files : KeyOf(files[j]) = k => j <= i
                  IN IF files[last] \in DOMAIN disk THEN disk[files[last]] ELSE Empty]
  /\ pc' = "infra"
  /\ UNCHANGED <<task, config, dirs, disk, files, edited, at, clock, faults>>

(* No files, a name that is blank (recovered here) or a file that is not   *)
(* YAML; also any error of the plugin later on.                            *)
PluginFails ==
  /\ pc \in {"parse", "infra", "edit"}
  /\ pc' = "failed" /\ ReportFailure
  /\ UNCHANGED <<task, config, store, at, timer, stray, faults>>

CreateInfraContainer ==
  /\ pc = "infra"
  /\ LET path == WritePath(InfraPath)
     IN /\ path.dirs \in dirs
        /\ disk' = Stored(path, InfraContent)
        /\ detail' = [k \in DOMAIN detail \cup {path} |->
                        IF k = path THEN InfraContent ELSE detail[k]]
        /\ files' = Append([i \in DOMAIN files |-> FolderPath(files[i])], path)
  /\ at' = 0 /\ pc' = "edit"
  /\ UNCHANGED <<task, config, dirs, edited, clock, faults>>

(* A file without an entry is left out, as one without services and one    *)
(* that is listed twice, whose entry has its generated name already.       *)
HasServices(file) == file \in DOMAIN detail /\ detail[file].services
Generated(p) == [p EXCEPT !.generated = TRUE]

EditFile ==
  /\ pc = "edit" /\ at < Len(files)
  /\ LET file == files[at + 1]
     IN IF HasServices(file)
        THEN /\ detail' = [k \in (DOMAIN detail \ {file}) \cup {Generated(file)} |->
                             detail[IF k = Generated(file) THEN file ELSE k]]
             /\ edited' = Append(edited, Generated(file))
        ELSE UNCHANGED <<detail, edited>>
  /\ at' = at + 1
  /\ UNCHANGED <<task, config, dirs, disk, files, clock, faults, pc>>

EditDone ==
  /\ pc = "edit" /\ at = Len(files)
  /\ files' = edited /\ pc' = "write"
  /\ UNCHANGED <<task, config, dirs, disk, detail, edited, at, clock, faults>>

-----------------------------------------------------------------------------
(* WriteChangeToFiles goes through a Go map up to the first error, which   *)
(* LaunchTask reports, its context cancelled, and survives: a file that    *)
(* cannot be created, or is created and not written.                       *)

Written(keys) == [p \in DOMAIN disk \cup {WritePath(k) : k \in keys} |->
                    IF \E k \in keys : WritePath(k) = p
                      THEN detail[CHOOSE k \in keys : WritePath(k) = p]
                      ELSE disk[p]]

WriteChangeToFiles ==
  /\ pc \in {"write", "rewrite"}
  /\ \E keys \in SUBSET DOMAIN detail :
       /\ \A k \in keys : WritePath(k).dirs \in dirs
       /\ \/ keys = DOMAIN detail /\ disk' = Written(keys) /\ UNCHANGED <<faults, deadline, told>>
          \/ /\ keys # DOMAIN detail /\ ReportFailure
             /\ disk' = Written(keys)
             /\ faults' = faults \cup {"create"}
          \/ \E k \in keys : /\ disk' = [Written(keys) EXCEPT ![WritePath(k)] = Empty]
                             /\ faults' = faults \cup {"partial"} /\ ReportFailure
  /\ pc' = IF pc = "write" THEN "validate" ELSE "up"
  /\ UNCHANGED <<task, config, dirs, files, detail, edited, at, timer, stray>>

-----------------------------------------------------------------------------
(* docker-compose commands under WaitCmd, whose timer has the duration of  *)
(* the launch context's, starts later, and heeds no cancel().              *)

FireDeadline ==
  /\ deadline = "armed" /\ deadline' = "fired"
  /\ UNCHANGED <<task, config, store, at, timer, stray, told, faults, pc>>

TimerMayFire == timer = "armed" /\ deadline # "armed"

FireTimer ==
  /\ TimerMayFire /\ timer' = "fired"
  /\ UNCHANGED <<task, config, store, at, deadline, stray, told, faults, pc>>

(* GenerateCmdParts wants every listed file on the disk.                   *)
FilesExist_Any == files # <<>>                    \* a bug: the files are not looked at

FilesExist == \A i \in DOMAIN files : files[i] \in DOMAIN disk

(* docker-compose starts, or the step fails at once.                       *)
Start(command, failing) ==
  \/ /\ FilesExist
     /\ pc' = command
     /\ timer' = IF config.timeout = "negative" THEN "fired" ELSE "armed"
  \/ pc' = failing /\ timer' = "off"

(* The command ends, or is left running when the timer has fired.          *)
WaitCmd(command, ok, failing) ==
  /\ pc = command /\ timer' = "off"
  /\ \/ config.timeout = "positive" /\ pc' \in {ok, failing} /\ UNCHANGED stray
     \/ timer = "fired" /\ pc' = failing /\ stray' = stray \cup {command}

ValidateCompose ==
  /\ \/ pc = "validate" /\ Start("validating", "failed") /\ UNCHANGED stray
     \/ WaitCmd("validating", "pull", "failed")
  /\ IF pc' = "failed" THEN ReportFailure ELSE UNCHANGED <<deadline, told>>
  /\ at' = 0
  /\ UNCHANGED <<task, config, store, faults>>

SkipPull == /\ pc = "pull" /\ config.skipPull
            /\ pc' = "rewrite"
            /\ UNCHANGED <<task, config, store, at, clock, faults>>

MayPull_Again == at <= config.pullRetry            \* a bug: one attempt too many

MayPull == at < config.pullRetry

(* PollRetry: pullretry attempts, each after the one before has ended.     *)
PullImage ==
  /\ \/ /\ pc = "pull" /\ ~config.skipPull /\ MayPull
        /\ Start("pulling", "pull") /\ at' = at + 1
        /\ UNCHANGED stray
     \/ WaitCmd("pulling", "rewrite", "pull") /\ UNCHANGED at
  /\ UNCHANGED <<task, config, store, deadline, told, faults>>

PullFails == /\ pc = "pull" /\ ~config.skipPull /\ ~MayPull
             /\ pc' = "failed" /\ ReportFailure
             /\ UNCHANGED <<task, config, store, at, timer, stray, faults>>

Ended == pc \in {"up", "failed", "crashed"} /\ UNCHANGED vars

Prepare == \/ GetFiles \/ GenerateAppFolder \/ CopyNext \/ CopyDone \/ OverrideConfig
           \/ ParseYamls \/ PluginFails \/ CreateInfraContainer \/ EditFile
           \/ EditDone \/ WriteChangeToFiles

Next == Prepare \/ ValidateCompose \/ SkipPull \/ PullImage \/ PullFails
        \/ FireDeadline \/ WaitOnPod \/ FireTimer \/ Ended

Spec == Init /\ [][Next]_vars

-----------------------------------------------------------------------------
(* Properties                                                              *)

(* What docker-compose is started with is what the plugins made of the     *)
(* files, although a failed write does not end the launch (main.go:180):   *)
(* one that could not create a file is caught when the files are           *)
(* validated, only one that emptied a file is not.  Every file has an      *)
(* entry with services, as getServices takes for granted (main.go:437).    *)
LaunchedAsEdited ==
  pc = "up" => \A i \in DOMAIN files :
                 /\ files[i] \in DOMAIN detail /\ detail[files[i]].services
                 /\ "partial" \notin faults =>
                      files[i] \in DOMAIN disk /\ disk[files[i]] = detail[files[i]]

Listed == Range(label.files)

(* Two files of one path: their names begin with the same word, or they    *)
(* are told apart only by a folder that one of them gets when it is parsed *)
(* and not when it is copied, because the folder could not be made or      *)
(* dontcreatefolder was set then and is overridden since.                  *)
SamePath(f, g) == \/ FirstField(f) = FirstField(g)
                  \/ "mkdir" \in faults /\ KeyOf(f) = KeyOf(g)
                  \/ label.noFolder = "false" /\ KeyOf(f) = KeyOf(g)

(* Why the pod may be launched without a file of the label: the agent does *)
(* not have it, it has no services, it has the name of the infra           *)
(* container's file or the path of another file, dontcreatefolder made the *)
(* copy empty the file itself, or the copy failed; without a folder a name *)
(* of several words is not found.                                          *)
Lost(f) == \/ f \notin DOMAIN given
           \/ f \in DOMAIN given /\ ~given[f].services
           \/ f.words[1] = InfraName
           \/ \E g \in Listed : g # f /\ SamePath(f, g)
           \/ f \in DOMAIN disk /\ disk[f] = Empty
           \/ "copy" \in faults
           \/ "mkdir" \in faults /\ Len(f.words) > 1

(* Every other file of the label is launched, whatever labels override     *)
(* and however often the paths are prefixed: file.go:522, :564, impl.go:94 *)
NoFileLost ==
  pc = "up" /\ "partial" \notin faults =>
    \A f \in Listed : Lost(f) \/ \E i \in DOMAIN files : disk[files[i]].of = f

(* A docker-compose command that WaitCmd gave up (wait.go:144) runs on     *)
(* behind a launch that failed and is known to have: TASK_FAILED was sent, *)
(* for the step, an earlier one or the deadline, or the deadline has       *)
(* expired and WaitOnPod is on its way to send it (pod.go:1005).  After a  *)
(* failed write the deadline is off, but not the timer, and what is left   *)
(* running then was reported before it was started (main.go:183).          *)
StrayIsReported == stray # {} => told \/ deadline = "fired"
=============================================================================
