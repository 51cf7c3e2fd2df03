----------------------------- MODULE LogFollower -----------------------------
(***************************************************************************)
(* Copying the containers' output to the executor's own: goroutines that   *)
(* run docker-compose logs --follow (dockerLogToPodLogFile,                *)
(* utils/pod/pod.go:383, RetryCmdLogs, utils/wait/wait.go:185) and share   *)
(* the flag LogStatus.  LaunchPod starts one that repeats the command for  *)
(* ever; each report of an outcome may start one more, a final copy that   *)
(* runs the command once.                                                  *)
(***************************************************************************)
EXTENDS ExecutorProcess

CONSTANT Reporters   \* the goroutines that report outcomes

Launch == "launch"
Followers == Reporters \cup {Launch}

VARIABLES logStatus,  \* LogStatus.IsRunning
          follower,   \* where each follower is
          copied      \* a command has followed the logs to their end

logs == <<logStatus, follower, copied>>

LogsTypeOK ==
  /\ logStatus \in BOOLEAN
  /\ follower \in [Followers -> {"idle", "wait", "run", "ended", "done"}]
  /\ follower[Launch] # "done"
  /\ copied \in BOOLEAN

LogsInit == /\ logStatus = FALSE /\ copied = FALSE
            /\ follower = [f \in Followers |-> "idle"]

At(f, label) == follower' = [follower EXCEPT ![f] = label]

StartFollower(f) == At(f, "wait") /\ UNCHANGED <<logStatus, copied>>

RunCommand(f) == /\ follower[f] = "wait"
                 /\ At(f, "run") /\ logStatus' = TRUE
                 /\ UNCHANGED <<copied, faults>>

(* The command ends when no container is up; it has then copied what there *)
(* is; or it fails.                                                        *)
CommandEnds(f) ==
  /\ follower[f] = "run"
  /\ \/ /\ containers # "up"
        /\ copied' = (copied \/ containers = "down")
        /\ UNCHANGED faults
     \/ Fault("logs") /\ UNCHANGED copied
  /\ At(f, "ended") /\ UNCHANGED logStatus

Afterwards_Once(f) == "done"               \* a bug: the launch's is not repeated

Afterwards(f) == IF f = Launch THEN "wait" ELSE "done"

NoteEnd(f) == /\ follower[f] = "ended"
              /\ At(f, Afterwards(f)) /\ logStatus' = FALSE
              /\ UNCHANGED <<copied, faults>>

Follow(f) == /\ Alive
             /\ RunCommand(f) \/ CommandEnds(f) \/ NoteEnd(f)
             /\ UNCHANGED <<process, upPending, containers>>

(* A flag that is left set when containers are created, by a command that  *)
(* ended before there were any, is wrong about them.                       *)
CreateContainers ==
  /\ Create
  /\ IF \E f \in Followers : follower[f] = "ended" THEN Fault("stale") ELSE UNCHANGED faults

(* A command that runs, or a final copy that is about to, gets to the end  *)
(* of the output once the containers are down.                             *)
Copies(f) == follower[f] = "run" \/ (f # Launch /\ follower[f] = "wait")
=============================================================================
