--------------------------- MODULE PollWait_proofs ---------------------------
(***************************************************************************)
(* Proofs about PollWait, for any number of condition goroutines.          *)
(***************************************************************************)
EXTENDS PollWait, TLAPS

(* Every step keeps the types; Receive needs the slot it waits for.        *)
LEMMA PollTypeStep == ASSUME PInv, [Next]_vars PROVE TypeOK'
<1> USE DEF PInv, TypeOK, timers
<1>1. CASE Tick \/ Fire \/ SignalDone
  BY <1>1 DEF Tick, Fire, SignalDone, Timer
<1>2. ASSUME NEW s \in Slots, ReturnAnswer(s) PROVE TypeOK'
  BY <1>2 DEF ReturnAnswer
<1>3. ASSUME NEW s \in Slots, SendReply(s) PROVE TypeOK'
  BY <1>3 DEF SendReply
<1>4. CASE SelectTick
  BY <1>4 DEF SelectTick, InnerTimer, Timer
<1>5. CASE SelectAfter \/ SelectDone
  BY <1>5 DEF SelectAfter, SelectDone, Return
<1>6. CASE Receive
  <2>1. current \in Slots /\ replyCH[current] \in Answers
    BY <1>6 DEF Receive, Awaited
  <2>2. replyCH[current].mesg \in {"", "status"}
    BY <2>1 DEF Answers
  <2>3. result' \in {"none", "status", "done", "timeout"} /\ pc' \in {"select", "returned"}
    BY <1>6, <2>2 DEF Receive, Return, Concludes
  <2> QED
    BY <1>6, <2>3 DEF Receive, Timer
<1>7. CASE WaitTimesOut
  BY <1>7 DEF WaitTimesOut, OnInnerTimeout, Return, Timer
<1>8. CASE UNCHANGED vars
  BY <1>8 DEF vars
<1> QED
  BY <1>1, <1>2, <1>3, <1>4, <1>5, <1>6, <1>7, <1>8 DEF Next, Select, Wait, Returned

(* A condition is started only when none runs, and WaitUntil leaves one    *)
(* behind only when PollUntil returns (wait.go:85-94).                     *)
LEMMA PollStep == ASSUME PInv, [Next]_vars PROVE PInv'
<1>0. TypeOK'
  BY PollTypeStep
<1> USE DEF PInv, TypeOK, OneConditionAtATime, Awaited, timers
<1>1. CASE Tick \/ Fire \/ SignalDone
  BY <1>0, <1>1 DEF Tick, Fire, SignalDone
<1>2. ASSUME NEW s \in Slots, ReturnAnswer(s) PROVE PInv'
  BY <1>0, <1>2 DEF ReturnAnswer
<1>3. ASSUME NEW s \in Slots, SendReply(s) PROVE PInv'
  BY <1>0, <1>3 DEF SendReply
<1>4. CASE SelectTick
  BY <1>0, <1>4 DEF SelectTick
<1>5. CASE SelectAfter \/ SelectDone
  BY <1>0, <1>5 DEF SelectAfter, SelectDone, Return
<1>6. CASE Receive
  <2>1. \A s \in Slots : cond[s] # "running"
    BY <1>6 DEF Receive
  <2> QED
    BY <1>0, <1>6, <2>1 DEF Receive, Return, Concludes
<1>7. CASE WaitTimesOut
  BY <1>0, <1>7 DEF WaitTimesOut, OnInnerTimeout, Return
<1>8. CASE UNCHANGED vars
  BY <1>0, <1>8 DEF vars
<1> QED
  BY <1>1, <1>2, <1>3, <1>4, <1>5, <1>6, <1>7, <1>8 DEF Next, Select, Wait, Returned

(* In every poll the condition runs at most once at a time and a running   *)
(* one is awaited until the poll returns.                                  *)
THEOREM PollInvariant == Spec => []PInv
<1>1. Init => PInv
  BY DEF Init, PInv, TypeOK, Timer, OneConditionAtATime, Awaited
<1> QED
  BY <1>1, PollStep, PTL DEF Spec

(* The condition never runs twice at once, however many goroutines may.    *)
THEOREM NeverTwoConditions == Spec => []OneConditionAtATime
  BY PollInvariant, PTL DEF PInv

(* PollUntil's variables keep their types.                                 *)
THEOREM PollTypeCorrect == Spec => []TypeOK
  BY PollInvariant, PTL DEF PInv
=============================================================================
