---------------------------- MODULE LlmPoolProofs ----------------------------
(* Theorems about LlmPool, for all of its constants.                         *)
EXTENDS LlmPool, TLAPS

-----------------------------------------------------------------------------
(* The inductive invariant.                                                *)

(* An open loop has an attempt left, and only an open loop waits. *)
OpenLoops ==
  \A r \in Requests :
    /\ verdict[r] = "open" => tries[r] < MaxRetries
    /\ wait[r] # "no" => verdict[r] = "open"

(* A call that was ever submitted belongs to an attempt that is over, or   *)
(* is the one its request waits for.                                       *)
SubmittedOnce ==
  \A c \in LlmCalls : future[c] # "none" => c[2] <= tries[c[1]] \/ Awaited(c)

(* What stands in the queue was not started. *)
NotStarted ==
  \A i \in 1..Len(queue) : future[queue[i]] \in {"queued", "cancelled"}

PoolInv ==
  PoolTypeOK /\ OpenLoops /\ SubmittedOnce /\ NotStarted /\ NothingQueuedInVain

(* A call is its request and its attempt. *)
LEMMA CallParts ==
  ASSUME NEW c \in LlmCalls
  PROVE  c[1] \in Requests /\ c[2] \in 1..MaxRetries /\ c = <<c[1], c[2]>>
  BY DEF LlmCalls

(* The attempt an open loop makes is within the bound. *)
LEMMA CurrentIsCall ==
  ASSUME PoolTypeOK, OpenLoops, NEW r \in Requests, verdict[r] = "open"
  PROVE  Current(r) \in LlmCalls /\ Current(r)[1] = r /\ Current(r)[2] = tries[r] + 1
  BY PoolAssumption DEF PoolTypeOK, OpenLoops, Current, LlmCalls, Loop!LoopTypeOK

(* At the start nothing is asked, queued or made. *)
LEMMA PoolInitInv == PoolInit => PoolInv
  BY PoolAssumption
  DEF PoolInit, PoolInv, PoolTypeOK, OpenLoops, SubmittedOnce, NotStarted, LlmCalls,
      NothingQueuedInVain, Loop!LoopInit, Loop!LoopTypeOK, Loop!Verdicts

-----------------------------------------------------------------------------
(* The steps of the HTTP thread of a request.                              *)

(* Submit queues a call of an attempt that was never queued before. *)
LEMMA SubmitStep ==
  ASSUME PoolInv, NEW r \in Requests, Submit(r)
  PROVE  PoolInv'
<1> DEFINE c0 == Current(r)
<1>1. c0 \in LlmCalls /\ c0[1] = r /\ c0[2] = tries[r] + 1
  BY CurrentIsCall DEF PoolInv, Submit
<1>2. tries' = tries /\ verdict' = verdict /\ wait[r] = "no" /\ verdict[r] = "open"
  BY DEF Submit
<1>3. future[c0] = "none"
  BY <1>1, <1>2 DEF PoolInv, PoolTypeOK, SubmittedOnce, Awaited, Loop!LoopTypeOK
<1>4. \A i \in 1..Len(queue) : queue[i] # c0
  BY <1>3 DEF PoolInv, NotStarted
<1>5. PoolTypeOK'
  <2>1. queue' \in Seq(LlmCalls)
    BY <1>1 DEF Submit, PoolInv, PoolTypeOK
  <2> QED
    BY <1>1, <1>2, <2>1 DEF Submit, PoolInv, PoolTypeOK, Loop!LoopTypeOK
<1>6. OpenLoops'
  BY <1>2 DEF Submit, PoolInv, PoolTypeOK, OpenLoops
<1>7. \A c \in LlmCalls : Awaited(c)' <=> Awaited(c) \/ c = c0
  <2> SUFFICES ASSUME NEW c \in LlmCalls PROVE Awaited(c)' <=> Awaited(c) \/ c = c0
    OBVIOUS
  <2>1. c[1] \in Requests /\ c = <<c[1], c[2]>>
    BY CallParts
  <2>2. Current(c[1])' = Current(c[1])
    BY <1>2 DEF Current
  <2>3. CASE c[1] = r
    <3>1. wait'[c[1]] # "no" /\ wait[c[1]] = "no"
      BY <2>3, <1>2 DEF Submit, PoolInv, PoolTypeOK
    <3> QED
      BY <2>2, <2>3, <3>1 DEF Awaited
  <2>4. CASE c[1] # r
    <3>1. wait'[c[1]] = wait[c[1]] /\ c # c0
      BY <2>1, <2>4, <1>1 DEF Submit, PoolInv, PoolTypeOK
    <3> QED
      BY <2>2, <3>1 DEF Awaited
  <2> QED
    BY <2>3, <2>4
<1>8. \A c \in LlmCalls : future'[c] = IF c = c0 THEN "queued" ELSE future[c]
  BY DEF Submit, PoolInv, PoolTypeOK
<1>9. SubmittedOnce'
  BY <1>2, <1>7, <1>8 DEF PoolInv, SubmittedOnce
<1>10. /\ Len(queue') = Len(queue) + 1 /\ Len(queue) \in Nat
       /\ \A i \in 1..Len(queue') : queue'[i] = IF i = Len(queue') THEN c0 ELSE queue[i]
       /\ \A i \in 1..Len(queue) : queue[i] \in LlmCalls
  BY <1>1 DEF Submit, PoolInv, PoolTypeOK
<1>11. NotStarted'
  BY <1>1, <1>8, <1>10 DEF PoolInv, NotStarted
<1>12. NothingQueuedInVain'
  <2>1. \A c \in LlmCalls : future'[c] = "queued" => Awaited(c)'
    BY <1>7, <1>8 DEF PoolInv, NothingQueuedInVain
  <2>2. \A i, j \in 1..Len(queue') : queue'[i] = queue'[j] => i = j
    BY <1>4, <1>10 DEF PoolInv, NothingQueuedInVain
  <2> QED
    BY <2>1, <2>2 DEF NothingQueuedInVain
<1> QED
  BY <1>5, <1>6, <1>9, <1>11, <1>12 DEF PoolInv

(* Return and Cancel end an attempt: the request no longer waits, and its  *)
(* call is not left in the queue to be made.                               *)
LEMMA AttemptEnds ==
  ASSUME PoolInv, NEW r \in Requests,
         Loop!CallFails(r) \/ Loop!ProseAnswer(r) \/ Loop!ToolAnswer(r),
         wait' = [wait EXCEPT ![r] = "no"],
         queue' = queue,
         future' = [future EXCEPT ![Current(r)] = IF @ = "queued" THEN "cancelled" ELSE @]
  PROVE  PoolInv'
<1> DEFINE c0 == Current(r)
<1>1. verdict[r] = "open"
  BY DEF Loop!CallFails, Loop!ProseAnswer, Loop!ToolAnswer, Loop!EndAttempt
<1>2. c0 \in LlmCalls /\ c0[1] = r /\ c0[2] = tries[r] + 1
  BY <1>1, CurrentIsCall DEF PoolInv
<1>3. /\ tries' = [tries EXCEPT ![r] = @ + 1]
      /\ verdict'[r] = "open" => tries[r] + 1 # MaxRetries
      /\ \E v \in Loop!Verdicts : verdict' = [verdict EXCEPT ![r] = v]
  BY DEF Loop!CallFails, Loop!ProseAnswer, Loop!ToolAnswer, Loop!EndAttempt,
         Loop!LastAttempt, Loop!Verdicts, PoolInv, PoolTypeOK, Loop!LoopTypeOK
<1>4. tries[r] + 1 \in 0..MaxRetries /\ tries[r] \in Nat
  BY <1>1, PoolAssumption DEF PoolInv, PoolTypeOK, OpenLoops, Loop!LoopTypeOK
<1>5. PoolTypeOK'
  BY <1>2, <1>3, <1>4 DEF PoolInv, PoolTypeOK, Loop!LoopTypeOK
<1>6. OpenLoops'
  BY <1>3, <1>4, PoolAssumption DEF PoolInv, PoolTypeOK, OpenLoops, Loop!LoopTypeOK
<1>7. \A c \in LlmCalls :
        /\ c[1] # r => (Awaited(c)' <=> Awaited(c)) /\ tries'[c[1]] = tries[c[1]]
        /\ Awaited(c) /\ c[1] = r => c = c0
  <2> SUFFICES ASSUME NEW c \in LlmCalls
               PROVE  /\ c[1] # r => (Awaited(c)' <=> Awaited(c)) /\ tries'[c[1]] = tries[c[1]]
                      /\ Awaited(c) /\ c[1] = r => c = c0
    OBVIOUS
  <2>1. c[1] \in Requests
    BY CallParts
  <2>2. c[1] # r => tries'[c[1]] = tries[c[1]] /\ wait'[c[1]] = wait[c[1]]
    BY <2>1, <1>3 DEF PoolInv, PoolTypeOK, Loop!LoopTypeOK
  <2> QED
    BY <2>2 DEF Awaited, Current
<1>8. \A c \in LlmCalls :
        future'[c] = IF c = c0 /\ future[c] = "queued" THEN "cancelled" ELSE future[c]
  BY <1>2 DEF PoolInv, PoolTypeOK
<1>9. SubmittedOnce'
  <2> SUFFICES ASSUME NEW c \in LlmCalls, future'[c] # "none"
               PROVE  c[2] <= tries'[c[1]] \/ Awaited(c)'
    BY DEF SubmittedOnce
  <2>1. future[c] # "none"
    BY <1>8
  <2>2. c[2] <= tries[c[1]] \/ Awaited(c)
    BY <2>1 DEF PoolInv, SubmittedOnce
  <2>3. c[1] \in Requests /\ c[2] \in 1..MaxRetries
    BY CallParts
  <2>4. CASE c[1] = r
    <3>1. tries'[r] = tries[r] + 1
      BY <1>3 DEF PoolInv, PoolTypeOK, Loop!LoopTypeOK
    <3> QED
      BY <2>2, <2>3, <2>4, <3>1, <1>2, <1>4, <1>7
  <2>5. CASE c[1] # r
    BY <2>2, <2>5, <1>7
  <2> QED
    BY <2>4, <2>5
<1>10. \A i \in 1..Len(queue) : queue[i] \in LlmCalls
  BY DEF PoolInv, PoolTypeOK
<1>11. NotStarted'
  BY <1>8, <1>10 DEF PoolInv, NotStarted
<1>12. NothingQueuedInVain'
  <2>1. ASSUME NEW c \in LlmCalls, future'[c] = "queued" PROVE Awaited(c)'
    <3>1. future[c] = "queued" /\ c # c0
      BY <2>1, <1>8
    <3>2. Awaited(c)
      BY <3>1 DEF PoolInv, NothingQueuedInVain
    <3> QED
      BY <3>1, <3>2, <1>7
  <2> QED
    BY <2>1 DEF PoolInv, NothingQueuedInVain
<1> QED
  BY <1>5, <1>6, <1>9, <1>11, <1>12 DEF PoolInv

(* future.result returned or raised: the call is over, so not in the queue. *)
LEMMA ReturnStep ==
  ASSUME PoolInv, NEW r \in Requests, Return(r)
  PROVE  PoolInv'
<1>1. Loop!CallFails(r) \/ Loop!ProseAnswer(r) \/ Loop!ToolAnswer(r)
  BY DEF Return
<1>2. future[Current(r)] # "queued"
  BY DEF Return
<1>3. future' = [future EXCEPT ![Current(r)] = IF @ = "queued" THEN "cancelled" ELSE @]
  BY <1>2 DEF Return, PoolInv, PoolTypeOK
<1> QED
  BY <1>1, <1>3, AttemptEnds DEF Return

(* A cancelled call is no longer in the queue to be made. *)
LEMMA CancelStep ==
  ASSUME PoolInv, NEW r \in Requests, Cancel(r)
  PROVE  PoolInv'
  BY AttemptEnds DEF Cancel

(* A request whose time is over still waits, for its call to be cancelled. *)
LEMMA TimesOutStep ==
  ASSUME PoolInv, NEW r \in Requests, TimesOut(r)
  PROVE  PoolInv'
<1>1. \A c \in LlmCalls : Awaited(c)' <=> Awaited(c)
  <2> SUFFICES ASSUME NEW c \in LlmCalls PROVE Awaited(c)' <=> Awaited(c)
    OBVIOUS
  <2>1. c[1] \in Requests
    BY CallParts
  <2>2. wait'[c[1]] # "no" <=> wait[c[1]] # "no"
    BY <2>1 DEF TimesOut, PoolInv, PoolTypeOK
  <2> QED
    BY <2>2 DEF Awaited, Current, TimesOut
<1>2. PoolTypeOK' /\ OpenLoops'
  BY DEF TimesOut, PoolInv, PoolTypeOK, OpenLoops, Loop!LoopTypeOK
<1>3. SubmittedOnce' /\ NotStarted' /\ NothingQueuedInVain'
  BY <1>1 DEF TimesOut, PoolInv, SubmittedOnce, NotStarted, NothingQueuedInVain
<1> QED
  BY <1>2, <1>3 DEF PoolInv

-----------------------------------------------------------------------------
(* The steps of the workers.                                               *)

(* A worker takes the call at the head of the queue out of it. *)
LEMMA StartStep ==
  ASSUME PoolInv, Start
  PROVE  PoolInv'
<1> DEFINE h == Head(queue)
<1>1. /\ h \in LlmCalls /\ h = queue[1]
      /\ Len(queue) \in Nat \ {0} /\ Len(queue') = Len(queue) - 1
      /\ \A i \in 1..Len(queue') : queue'[i] = queue[i + 1]
      /\ queue' \in Seq(LlmCalls)
      /\ \A i \in 1..Len(queue) : queue[i] \in LlmCalls
  BY DEF Start, PoolInv, PoolTypeOK
<1>2. future[h] \in {"queued", "cancelled"}
  BY <1>1 DEF PoolInv, NotStarted
<1>3. \A c \in LlmCalls :
        future'[c] = IF c = h /\ future[c] = "queued" THEN "running" ELSE future[c]
  BY <1>1 DEF Start, PoolInv, PoolTypeOK
<1>4. \A i \in 1..Len(queue') : i + 1 \in 1..Len(queue) /\ queue'[i] # h
  BY <1>1 DEF PoolInv, NothingQueuedInVain
<1>5. PoolTypeOK' /\ OpenLoops'
  BY <1>1 DEF Start, PoolInv, PoolTypeOK, OpenLoops, Loop!LoopTypeOK
<1>6. \A c \in LlmCalls : Awaited(c)' <=> Awaited(c)
  BY DEF Start, Awaited, Current
<1>7. SubmittedOnce'
  BY <1>2, <1>3, <1>6 DEF Start, PoolInv, SubmittedOnce
<1>8. NotStarted'
  BY <1>1, <1>3, <1>4 DEF PoolInv, NotStarted
<1>9. NothingQueuedInVain'
  <2>1. \A c \in LlmCalls : future'[c] = "queued" => Awaited(c)'
    BY <1>3, <1>6 DEF PoolInv, NothingQueuedInVain
  <2>2. \A i, j \in 1..Len(queue') : queue'[i] = queue'[j] => i = j
    BY <1>1, <1>4 DEF PoolInv, NothingQueuedInVain
  <2> QED
    BY <2>1, <2>2 DEF NothingQueuedInVain
<1> QED
  BY <1>5, <1>7, <1>8, <1>9 DEF PoolInv

(* What Ollama answers does not touch the queue. *)
LEMMA FinishStep ==
  ASSUME PoolInv, NEW c0 \in LlmCalls, Finish(c0)
  PROVE  PoolInv'
<1>1. PoolTypeOK' /\ OpenLoops'
  BY DEF Finish, PoolInv, PoolTypeOK, OpenLoops, Loop!LoopTypeOK
<1>2. \A c \in LlmCalls : /\ c # c0 => future'[c] = future[c]
                          /\ c = c0 => future[c] = "running"
                                       /\ future'[c] \in {"answered", "failed"}
  BY DEF Finish, PoolInv, PoolTypeOK
<1>3. \A c \in LlmCalls : Awaited(c)' <=> Awaited(c)
  BY DEF Finish, Awaited, Current
<1>4. queue' = queue /\ tries' = tries /\ \A i \in 1..Len(queue) : queue[i] \in LlmCalls
  BY DEF Finish, PoolInv, PoolTypeOK
<1>5. SubmittedOnce' /\ NotStarted' /\ NothingQueuedInVain'
  BY <1>2, <1>3, <1>4 DEF PoolInv, SubmittedOnce, NotStarted, NothingQueuedInVain
<1> QED
  BY <1>1, <1>5 DEF PoolInv

-----------------------------------------------------------------------------
(* The theorems.                                                           *)

(* Every step of the pool keeps the invariant. *)
LEMMA PoolInvStep == PoolInv /\ [PoolNext]_poolVars => PoolInv'
<1> SUFFICES ASSUME PoolInv, [PoolNext]_poolVars PROVE PoolInv'
  OBVIOUS
<1>1. ASSUME NEW r \in Requests, HttpThread(r) PROVE PoolInv'
  BY <1>1, SubmitStep, ReturnStep, TimesOutStep, CancelStep DEF HttpThread
<1>2. CASE Start
  BY <1>2, StartStep
<1>3. ASSUME NEW c \in LlmCalls, Finish(c) PROVE PoolInv'
  BY <1>3, FinishStep
<1>4. CASE UNCHANGED poolVars
  BY <1>4
  DEF poolVars, PoolInv, PoolTypeOK, OpenLoops, SubmittedOnce, NotStarted,
      NothingQueuedInVain, Awaited, Current, Loop!LoopTypeOK
<1> QED
  BY <1>1, <1>2, <1>3, <1>4 DEF PoolNext

(* The invariant of the pool holds in every reachable state. *)
THEOREM PoolInvCorrect == PoolSpec => []PoolInv
<1>1. PoolSpec => PoolInit /\ [][PoolNext]_poolVars
  BY PTL DEF PoolSpec
<1> QED
  BY <1>1, PoolInitInv, PoolInvStep, PTL

(* The pool keeps its types; in particular no loop makes more attempts     *)
(* than max_retries.                                                       *)
THEOREM PoolTypeCorrect == PoolSpec => []PoolTypeOK
<1>1. PoolInv => PoolTypeOK
  BY DEF PoolInv
<1> QED
  BY <1>1, PoolInvCorrect, PTL

(* However many requests there are and however few workers, what stands in *)
(* the executor's queue to be made is a call its request waits for, once.  *)
THEOREM QueueHolds == PoolSpec => []NothingQueuedInVain
<1>1. PoolInv => NothingQueuedInVain
  BY DEF PoolInv
<1> QED
  BY <1>1, PoolInvCorrect, PTL

(* No worker starts a call after its request has cancelled it or given up. *)
THEOREM NeverMadeLateHolds == PoolSpec => NeverMadeLate
<1> DEFINE InTime == \A c \in LlmCalls :
                       future[c] # "running" /\ future'[c] = "running" => Awaited(c)
<1>1. PoolInv /\ [PoolNext]_poolVars => [InTime]_poolVars
  <2> SUFFICES ASSUME PoolInv, PoolNext, NEW c \in LlmCalls,
                      future[c] # "running", future'[c] = "running"
               PROVE  Awaited(c)
    OBVIOUS
  <2>1. ASSUME NEW r \in Requests, HttpThread(r) PROVE FALSE
    BY <2>1 DEF HttpThread, Submit, Return, TimesOut, Cancel, PoolInv, PoolTypeOK
  <2>2. CASE Start
    <3>1. future[c] = "queued"
      BY <2>2 DEF Start, PoolInv, PoolTypeOK
    <3> QED
      BY <3>1 DEF PoolInv, NothingQueuedInVain
  <2>3. ASSUME NEW d \in LlmCalls, Finish(d) PROVE FALSE
    BY <2>3 DEF Finish, PoolInv, PoolTypeOK
  <2> QED
    BY <2>1, <2>2, <2>3 DEF PoolNext
<1>2. PoolSpec => [][PoolNext]_poolVars
  BY PTL DEF PoolSpec
<1> QED
  BY <1>1, <1>2, PoolInvCorrect, PTL DEF NeverMadeLate

(* The executor, its queue, the timeouts and the workers that hang do what *)
(* RetryLoop says of a request: every step of the pool is a step of one    *)
(* request's loop, or none that the loop sees.                             *)
THEOREM PoolRefinesLoop ==
  PoolSpec => Loop!LoopInit /\ [][Loop!LoopNext]_(Loop!loopVars)
<1>1. PoolInit => Loop!LoopInit
  BY DEF PoolInit
<1>2. [PoolNext]_poolVars => [Loop!LoopNext]_(Loop!loopVars)
  <2> SUFFICES ASSUME [PoolNext]_poolVars PROVE [Loop!LoopNext]_(Loop!loopVars)
    OBVIOUS
  <2>1. ASSUME NEW r \in Requests, Return(r) \/ Cancel(r) PROVE Loop!LoopNext
    BY <2>1 DEF Return, Cancel, Loop!LoopNext, Loop!LoopStep
  <2>2. ASSUME NEW r \in Requests, Submit(r) \/ TimesOut(r) PROVE UNCHANGED Loop!loopVars
    BY <2>2 DEF Submit, TimesOut, Loop!loopVars
  <2>3. CASE Start \/ (\E c \in LlmCalls : Finish(c)) \/ UNCHANGED poolVars
    BY <2>3 DEF Start, Finish, poolVars, Loop!loopVars
  <2> QED
    BY <2>1, <2>2, <2>3 DEF PoolNext, HttpThread
<1> QED
  BY <1>1, <1>2, PTL DEF PoolSpec

=============================================================================
