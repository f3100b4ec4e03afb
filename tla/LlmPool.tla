------------------------------ MODULE LlmPool -------------------------------
(***************************************************************************)
(* How the attempts of the retry loop are carried out (src/agent.py,       *)
(* _call_ollama): every request of every HTTP thread goes through one      *)
(* ThreadPoolExecutor with MaxWorkers threads and a FIFO queue.  The HTTP  *)
(* thread waits for its future for ollama_timeout seconds and then cancels *)
(* it, which takes back a call that has not started and does nothing to    *)
(* one that has: ollama.chat itself is called without a time limit, and a  *)
(* call it never answers keeps its worker.                                 *)
(*                                                                         *)
(* Time is not modelled: a timeout may fire at any moment while the answer *)
(* is not there.                                                           *)
(***************************************************************************)
EXTENDS Naturals, FiniteSets, Sequences

CONSTANTS Requests,     \* calls of process that got past the guardrail
          MaxRetries,   \* agent.max_retries
          MaxWorkers    \* max_workers of the executor

ASSUME PoolAssumption == MaxRetries \in Nat \ {0} /\ MaxWorkers \in Nat \ {0}

(* A call is named by its request and the attempt it is made for. *)
LlmCalls == Requests \X (1..MaxRetries)

VARIABLES
  tries, verdict,   \* the loop of each request, see RetryLoop
  wait,             \* wait[r]: where r is in _call_ollama
  future,           \* future[c]: the state of the future of call c
  queue             \* the executor's work queue

poolVars == <<tries, verdict, wait, future, queue>>

Loop == INSTANCE RetryLoop

PoolTypeOK ==
  /\ Loop!LoopTypeOK
  /\ wait \in [Requests -> {"no", "result", "timed_out"}]
  /\ future \in [LlmCalls -> {"none", "queued", "running", "answered",
                              "failed", "cancelled"}]
  /\ queue \in Seq(LlmCalls)

PoolInit ==
  /\ Loop!LoopInit
  /\ wait = [r \in Requests |-> "no"]
  /\ future = [c \in LlmCalls |-> "none"]
  /\ queue = <<>>

(* The call of the attempt r is making. *)
Current(r) == <<r, tries[r] + 1>>

Running == {c \in LlmCalls : future[c] = "running"}

-----------------------------------------------------------------------------
(* The HTTP thread of request r.                                           *)

(* self._executor.submit(ollama.chat, ...), then future.result(timeout). *)
Submit(r) ==
  /\ verdict[r] = "open" /\ wait[r] = "no"
  /\ wait' = [wait EXCEPT ![r] = "result"]
  /\ future' = [future EXCEPT ![Current(r)] = "queued"]
  /\ queue' = Append(queue, Current(r))
  /\ UNCHANGED <<tries, verdict>>

(* The future is done before the timeout: an answer goes to the loop, an   *)
(* exception of ollama.chat too (cancel does nothing to a future that is   *)
(* done).                                                                  *)
Return(r) ==
  /\ wait[r] = "result"
  /\ \/ future[Current(r)] = "answered" /\ (Loop!ProseAnswer(r) \/ Loop!ToolAnswer(r))
     \/ future[Current(r)] = "failed" /\ Loop!CallFails(r)
  /\ wait' = [wait EXCEPT ![r] = "no"]
  /\ UNCHANGED <<future, queue>>

(* Mutant: future.result() without a timeout. *)
NeverTimesOut(r) ==
  /\ wait[r] = "result" /\ future[Current(r)] = "failed"
  /\ wait' = [wait EXCEPT ![r] = "timed_out"]
  /\ UNCHANGED <<tries, verdict, future, queue>>

(* future.result raises TimeoutError. *)
TimesOut(r) ==
  /\ wait[r] = "result"
  /\ future[Current(r)] \in {"queued", "running"}
  /\ wait' = [wait EXCEPT ![r] = "timed_out"]
  /\ UNCHANGED <<tries, verdict, future, queue>>

(* Mutant: the future is not cancelled. *)
GiveUpOnly(r) ==
  /\ wait[r] = "timed_out"
  /\ Loop!CallFails(r)
  /\ wait' = [wait EXCEPT ![r] = "no"]
  /\ UNCHANGED <<future, queue>>

(* except Exception: future.cancel(); raise -- by now a worker may have    *)
(* started the call, or even finished it.  A cancelled call stays in the   *)
(* queue until a worker throws it away.                                    *)
Cancel(r) ==
  /\ wait[r] = "timed_out"
  /\ future' = [future EXCEPT ![Current(r)] = IF @ = "queued" THEN "cancelled" ELSE @]
  /\ Loop!CallFails(r)
  /\ wait' = [wait EXCEPT ![r] = "no"]
  /\ UNCHANGED queue

-----------------------------------------------------------------------------
(* The worker threads, and Ollama behind them.                             *)

(* Mutant: the worker does not look whether the call was cancelled. *)
StartAnyway ==
  /\ queue # <<>> /\ Cardinality(Running) < MaxWorkers
  /\ future' = [future EXCEPT ![Head(queue)] = "running"]
  /\ queue' = Tail(queue)
  /\ UNCHANGED <<tries, verdict, wait>>

(* An idle worker takes the head of the queue: set_running_or_notify_cancel*)
Start ==
  /\ queue # <<>> /\ Cardinality(Running) < MaxWorkers
  /\ future' = [future EXCEPT ![Head(queue)] = IF @ = "queued" THEN "running" ELSE @]
  /\ queue' = Tail(queue)
  /\ UNCHANGED <<tries, verdict, wait>>

(* Ollama answers, or the connection breaks.  It may also never do either. *)
Finish(c) ==
  /\ future[c] = "running"
  /\ \E outcome \in {"answered", "failed"} : future' = [future EXCEPT ![c] = outcome]
  /\ UNCHANGED <<tries, verdict, wait, queue>>

HttpThread(r) == Submit(r) \/ Return(r) \/ TimesOut(r) \/ Cancel(r)

PoolNext ==
  \/ \E r \in Requests : HttpThread(r)
  \/ Start
  \/ \E c \in LlmCalls : Finish(c)

(* The HTTP threads run and their timers expire, the idle workers take     *)
(* what is queued; nothing is asked of Ollama.                             *)
PoolSpec ==
  /\ PoolInit /\ [][PoolNext]_poolVars
  /\ WF_poolVars(Start)
  /\ \A r \in Requests : WF_poolVars(HttpThread(r))

-----------------------------------------------------------------------------
(* Properties.                                                             *)

(* Request r still waits for call c. *)
Awaited(c) == Current(c[1]) = c /\ wait[c[1]] # "no"

(* A worker that comes free is not put to work for nobody: what is queued  *)
(* and not cancelled is a call its request waits for, so that at most one  *)
(* call per request stands in line however often it was retried, and the   *)
(* queue never holds a call twice.                                         *)
NothingQueuedInVain ==
  /\ \A c \in LlmCalls : future[c] = "queued" => Awaited(c)
  /\ \A i, j \in 1..Len(queue) : queue[i] = queue[j] => i = j

(* A call that was cancelled is never made, however late the worker comes  *)
(* to it; and one that was given up is never made afterwards.              *)
NeverMadeLate ==
  [][\A c \in LlmCalls :
       future[c] # "running" /\ future'[c] = "running" => Awaited(c)]_poolVars

(* With workers that hang for ever, threads that time out and a queue full *)
(* of other people's calls, every request still gets through its loop in   *)
(* at most MaxRetries attempts and comes to a verdict.                     *)
RetriesEnd ==
  /\ Loop!LoopSpec
  /\ \A r \in Requests : <>(verdict[r] # "open")

(* "Ollama calls run under a timeout" (class docstring of the agent): a    *)
(* call that is being made is one whose time is not over.                  *)
CallsRunUnderTimeout == \A c \in Running : Awaited(c)

=============================================================================
