----------------------------- MODULE StatusHooks -----------------------------
(***************************************************************************)
(* Plugins by name (plugin/extpoints.go) and the pod status hooks among    *)
(* them (utils/pod/pod.go:1352-1499): the listener takes one status at a   *)
(* time from taskStatusCh, executes the hooks configured for it, and for   *)
(* an outcome shuts hooks down and stops the driver.                       *)
(*                                                                         *)
(* What a hook does is up to its author: it may return no error, a best-   *)
(* effort error, an error that fails the execution, or panic.              *)
(***************************************************************************)
EXTENDS ExecutorProcess, Naturals, Sequences

CONSTANTS Points,      \* PodStatusHook, ComposePlugin, Monitor
          Extensions,  \* the plugins there are: a set of [point, name, type]
          Builds,      \* which of them an executor may be built with
          HooksFor,    \* podStatusHooks: a status to the names of its hooks
          Order        \* pluginorder: names of compose plugins

ASSUME PointsAssumption == {"PodStatusHook", "ComposePlugin", "Monitor"} \subseteq Points
ASSUME ExtensionsAssumption ==
  \A e \in Extensions : e.point \in Points /\ e.name \in STRING /\ e.type \in STRING
ASSUME BuildsAssumption == Builds \subseteq SUBSET Extensions
ASSUME HooksAssumption == HooksFor \in [{"RUNNING", "FAILED", "FINISHED"} -> Seq(STRING)]
ASSUME OrderAssumption == Order \in Seq(STRING)

VARIABLES pool,       \* the extensions registered, per point and name
          waiting,    \* extensions whose init function has not run
          extpoints,  \* the compose plugins selected by LaunchTask
          taskStatusCh, \* the channel of statuses
          listener,   \* what the listener does: idle, or a phase and its status
          next,       \* the hook it has reached
          executed, shut, \* history: hooks executed and shut down for the status
          cut         \* history: the execution ended early

registry == <<pool, waiting, extpoints>>
hooks == <<taskStatusCh, listener, next, executed, shut, cut>>

Nil == [point |-> "", name |-> "", type |-> ""]
Statuses == {"STARTING", "RUNNING", "FAILED", "FINISHED", "KILLED"}

Idle == [phase |-> "idle", status |-> "STARTING"]

HooksTypeOK ==
  /\ \A p \in Points : \A n \in DOMAIN pool[p] : pool[p][n] \in Extensions
  /\ waiting \subseteq Extensions
  /\ Len(extpoints) \in {0, Len(Order)}
  /\ taskStatusCh \in Seq(Statuses) /\ Len(taskStatusCh) <= 1
  /\ listener.phase \in {"idle", "execute", "shutdown", "stop"}
  /\ listener # Idle => next \in 1 .. Len(HooksFor[listener.status]) + 1
  /\ executed \subseteq Extensions /\ shut \subseteq Extensions /\ cut \in BOOLEAN

HooksInit ==
  /\ pool = [p \in Points |-> <<>>] /\ waiting \in Builds /\ extpoints = <<>>
  /\ taskStatusCh = <<>> /\ listener = Idle /\ next = 1
  /\ executed = {} /\ shut = {} /\ cut = FALSE

-----------------------------------------------------------------------------
(* The registry.  Extensions register in Go's init functions, in an order  *)
(* that depends on the import graph; a blank name stands for the type's.   *)

NameOf(e) == IF e.name = "" THEN e.type ELSE e.name

(* The first extension of a name stays.                                    *)
Registered(p, e) ==
  IF NameOf(e) \in DOMAIN pool[p] THEN pool[p]
  ELSE [n \in DOMAIN pool[p] \cup {NameOf(e)} |-> IF n = NameOf(e) THEN e ELSE pool[p][n]]

Register == /\ \E e \in waiting :
                 /\ waiting' = waiting \ {e}
                 /\ pool' = [pool EXCEPT ![e.point] = Registered(e.point, e)]
            /\ UNCHANGED extpoints

Has(p, name) == name \in DOMAIN pool[p]

Lookup(p, name) == IF Has(p, name) THEN pool[p][name] ELSE Nil

Select(p, names) == [k \in DOMAIN names |-> Lookup(p, names[k])]

-----------------------------------------------------------------------------
(* ListenOnTaskStatus                                                      *)

Hook(k) == Lookup("PodStatusHook", HooksFor[listener.status][k])
MoreHooks_ButOne == next < Len(HooksFor[listener.status])    \* a bug: one off
MoreHooks == next <= Len(HooksFor[listener.status])

Listen(phase, status) == /\ listener' = [phase |-> phase, status |-> status]
                         /\ next' = 1
Rest == /\ listener' = Idle /\ next' = 1
        /\ executed' = {} /\ shut' = {} /\ cut' = FALSE

Receive ==
  /\ listener = Idle /\ taskStatusCh # <<>>
  /\ LET status == Head(taskStatusCh) IN
       \/ status \in {"RUNNING", "FAILED"} /\ Listen("execute", status)
       \/ status = "FINISHED" /\ Listen("shutdown", status)
       \/ status \in {"STARTING", "KILLED"} /\ UNCHANGED <<listener, next>>
  /\ taskStatusCh' = Tail(taskStatusCh)
  /\ UNCHANGED <<executed, shut, cut, process>>

(* A bug: when the first hook fails, the driver stays up.                  *)
StopsAfterHooks_Any == listener.status = "FAILED" /\ executed # {}

StopsAfterHooks == listener.status = "FAILED"

(* execPodStatusHooks: a name without a hook is passed over; an error that *)
(* fails the execution, or a panic, ends it and is logged.                 *)
ExecuteNext ==
  /\ listener.phase = "execute"
  /\ \/ /\ MoreHooks /\ Hook(next) = Nil
        /\ next' = next + 1 /\ UNCHANGED <<listener, executed, cut>>
     \/ /\ MoreHooks /\ Hook(next) # Nil
        /\ executed' = executed \cup {Hook(next)}
        /\ next' = next + 1 /\ UNCHANGED <<listener, cut>>
     \/ /\ MoreHooks => Hook(next) # Nil
        /\ StopsAfterHooks
        /\ cut' = MoreHooks /\ Listen("shutdown", "FAILED")
        /\ UNCHANGED executed
     \/ /\ MoreHooks => Hook(next) # Nil
        /\ ~StopsAfterHooks
        /\ Rest
  /\ shut' = {} /\ UNCHANGED <<taskStatusCh, process>>

(* stopDriver: nothing recovers the panic of a hook that is shut down.     *)
ShutDownNext ==
  /\ listener.phase = "shutdown"
  /\ \/ ~MoreHooks /\ Listen("stop", listener.status) /\ UNCHANGED <<shut, process>>
     \/ MoreHooks /\ Hook(next) = Nil /\ next' = next + 1 /\ UNCHANGED <<listener, shut, process>>
     \/ /\ MoreHooks /\ Hook(next) # Nil
        /\ \/ shut' = shut \cup {Hook(next)} /\ next' = next + 1 /\ UNCHANGED process
           \/ process' = "crashed" /\ UNCHANGED <<shut, next>>
        /\ UNCHANGED listener
  /\ UNCHANGED <<taskStatusCh, executed, cut>>

StopDriver == process' = IF process = "running" THEN "leaving" ELSE process

ListenerStops ==
  /\ listener.phase = "stop"
  /\ StopDriver /\ Rest
  /\ UNCHANGED taskStatusCh

ListenOnTaskStatus == /\ Alive
                      /\ Receive \/ ExecuteNext \/ ShutDownNext \/ ListenerStops
                      /\ UNCHANGED <<upPending, containers, faults>>
=============================================================================
