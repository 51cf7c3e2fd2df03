------------------------------ MODULE PollWait ------------------------------
(***************************************************************************)
(* PollUntil and WaitUntil of utils/wait/wait.go (PollForever is PollUntil *)
(* without a timeout).  The poller selects among its ticker, its timeout   *)
(* and a done channel; at each tick it starts the condition in a goroutine *)
(* and waits for the reply, with a timer of the same duration.             *)
(*                                                                         *)
(* Time is the order in which timers fire.  A goroutine that outlives the  *)
(* call keeps its slot until it has replied.                               *)
(***************************************************************************)
EXTENDS Naturals, FiniteSets

CONSTANT Slots  \* bound: condition goroutines at the same time

ASSUME SlotsAssumption == IsFiniteSet(Slots) /\ Slots # {}

Nobody == "nobody"
ASSUME NobodyAssumption == Nobody \notin Slots

VARIABLES pc,       \* the poller: select, wait (in WaitUntil) or returned
          ticked,   \* the ticker's channel, capacity 1
          after,    \* PollUntil's timer, off if timeout is 0
          inner,    \* WaitUntil's timer
          done,     \* the done channel: empty or sent
          current,  \* the slot of the condition WaitUntil waits for
          cond,     \* each slot: free, running, replying
          reply,    \* what the condition of the slot returned
          replyCH,  \* the reply channels, capacity 1
          result    \* what PollUntil returned

timers == <<ticked, after, inner>>
vars == <<pc, timers, done, current, cond, reply, replyCH, result>>

Timer == {"off", "armed", "fired"}
(* A condition returns a message or "", with an error or not.              *)
Answers == [mesg : {"", "status"}, err : BOOLEAN]
NoReply == [mesg |-> "none", err |-> FALSE]

TypeOK ==
  /\ pc \in {"select", "wait", "returned"}
  /\ ticked \in BOOLEAN /\ after \in Timer /\ inner \in Timer
  /\ done \in {"empty", "sent"}
  /\ current \in Slots \cup {Nobody}
  /\ cond \in [Slots -> {"free", "running", "replying"}]
  /\ reply \in [Slots -> Answers \cup {NoReply}]
  /\ replyCH \in [Slots -> Answers \cup {NoReply}]
  /\ result \in {"none", "status", "done", "timeout"}

(* Any caller: with a timeout or, as PollForever, without.                 *)
Init == /\ pc = "select" /\ ticked = FALSE /\ after \in {"off", "armed"} /\ inner = "off"
        /\ done = "empty" /\ current = Nobody
        /\ cond = [s \in Slots |-> "free"]
        /\ reply = [s \in Slots |-> NoReply] /\ replyCH = [s \in Slots |-> NoReply]
        /\ result = "none"

-----------------------------------------------------------------------------
(* Timers, the ticker and the sender on done.                              *)

Tick == /\ pc # "returned" /\ ~ticked /\ ticked' = TRUE
        /\ UNCHANGED <<pc, after, inner, done, current, cond, reply, replyCH, result>>

(* The inner timer is started later with the same duration.                *)
Fire == /\ \/ after = "armed" /\ after' = "fired" /\ UNCHANGED inner
           \/ inner = "armed" /\ after = "fired" /\ inner' = "fired" /\ UNCHANGED after
        /\ UNCHANGED <<pc, ticked, done, current, cond, reply, replyCH, result>>

SignalDone == /\ done = "empty" /\ done' = "sent"
              /\ UNCHANGED <<pc, timers, current, cond, reply, replyCH, result>>

-----------------------------------------------------------------------------
(* The condition's goroutine.                                              *)

ReturnAnswer(s) ==
  /\ cond[s] = "running"
  /\ cond' = [cond EXCEPT ![s] = "replying"]
  /\ \E a \in Answers : reply' = [reply EXCEPT ![s] = a]
  /\ UNCHANGED <<pc, timers, done, current, replyCH, result>>

ReplyHasRoom_Unbuffered(s) == pc = "wait" /\ current = s  \* a bug: it needs its receiver

ReplyHasRoom(s) == replyCH[s] = NoReply

SendReply(s) ==
  /\ cond[s] = "replying" /\ ReplyHasRoom(s)
  /\ IF pc = "wait" /\ current = s
       THEN replyCH' = [replyCH EXCEPT ![s] = reply[s]]
       ELSE UNCHANGED replyCH                     \* nobody receives it
  /\ cond' = [cond EXCEPT ![s] = "free"]
  /\ reply' = [reply EXCEPT ![s] = NoReply]
  /\ UNCHANGED <<pc, timers, done, current, result>>

-----------------------------------------------------------------------------
(* PollUntil *)

Return(r) == pc' = "returned" /\ result' = r

InnerTimer_None == "off"              \* a bug: WaitUntil is given no timeout

InnerTimer == IF after = "off" THEN "off" ELSE "armed"

(* <-ticker.C: WaitUntil makes its timer and channel and starts the        *)
(* condition.                                                              *)
SelectTick ==
  /\ pc = "select" /\ ticked
  /\ \E s \in Slots :
       /\ cond[s] = "free"
       /\ cond' = [cond EXCEPT ![s] = "running"]
       /\ replyCH' = [replyCH EXCEPT ![s] = NoReply]
       /\ current' = s
  /\ ticked' = FALSE /\ inner' = InnerTimer /\ pc' = "wait"
  /\ UNCHANGED <<after, done, reply, result>>

SelectAfter ==
  /\ pc = "select" /\ after = "fired"
  /\ Return("timeout")
  /\ UNCHANGED <<timers, done, current, cond, reply, replyCH>>

SelectDone ==
  /\ pc = "select" /\ done = "sent"
  /\ Return("done")
  /\ UNCHANGED <<timers, done, current, cond, reply, replyCH>>

Concludes_Any(a) == TRUE              \* a bug: an empty reply is returned

Concludes(a) == a.mesg # ""

(* The reply ends the poll if it has a message; its error is dropped.      *)
Receive ==
  /\ pc = "wait" /\ replyCH[current] # NoReply
  /\ IF Concludes(replyCH[current]) THEN Return(replyCH[current].mesg)
     ELSE pc' = "select" /\ UNCHANGED result
  /\ replyCH' = [replyCH EXCEPT ![current] = NoReply]
  /\ current' = Nobody /\ inner' = "off"
  /\ UNCHANGED <<ticked, after, done, cond, reply>>

OnInnerTimeout_Retry == pc' = "select" /\ UNCHANGED result  \* a bug: polls on

OnInnerTimeout == Return("timeout")

(* WaitUntil gives up, and PollUntil returns its error.                    *)
WaitTimesOut ==
  /\ pc = "wait" /\ inner = "fired"
  /\ OnInnerTimeout
  /\ current' = Nobody /\ inner' = "off"
  /\ UNCHANGED <<ticked, after, done, cond, reply, replyCH>>

Select == SelectTick \/ SelectAfter \/ SelectDone
Wait == Receive \/ WaitTimesOut

Returned == pc = "returned" /\ UNCHANGED vars

Next == \/ Tick \/ Fire \/ SignalDone \/ Select \/ Wait \/ Returned
        \/ \E s \in Slots : ReturnAnswer(s) \/ SendReply(s)

Spec == Init /\ [][Next]_vars

(* Timers fire, the goroutine's send is run, and a select among ready      *)
(* cases picks the timeout now and then.  A condition may hang.            *)
Fairness == /\ WF_vars(Fire) /\ WF_vars(Wait)
            /\ SF_vars(SelectAfter)
            /\ \A s \in Slots : WF_vars(SendReply(s))

FairSpec == Spec /\ Fairness

-----------------------------------------------------------------------------
(* Properties                                                              *)

(* The condition never runs twice at once, although a call that timed out  *)
(* leaves its goroutine behind (wait.go:85-91, 116-121).                   *)
OneConditionAtATime ==
  \A s, t \in Slots : cond[s] = "running" /\ cond[t] = "running" => s = t

(* The strengthening that makes it inductive: a condition that runs is the *)
(* one WaitUntil waits for and has no reply of, until the poll returned.   *)
Awaited ==
  /\ pc = "wait" => current \in Slots
  /\ \A s \in Slots :
       cond[s] = "running" => pc = "returned" \/ (pc = "wait" /\ current = s)
  /\ pc = "wait" /\ replyCH[current] # NoReply => cond[current] # "running"

PInv == TypeOK /\ OneConditionAtATime /\ Awaited

(* A goroutine left behind ends with its condition: the buffered channel   *)
(* takes its reply although nobody waits any more (wait.go:113).           *)
AnswerIsDelivered == \A s \in Slots : cond[s] = "replying" ~> cond[s] = "free"

(* Once its timer fired PollUntil returns, even if the condition hangs and *)
(* ticks keep coming (wait.go:81-99).                                      *)
DeadlineEndsPoll == after = "fired" ~> pc = "returned"
=============================================================================
