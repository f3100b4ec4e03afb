------------------------------ MODULE RetryLoop ------------------------------
(***************************************************************************)
(* What GuardedToolAgent.process promises about the decision it asks the   *)
(* LLM for (src/agent.py, the for loop over attempts), with the thread     *)
(* pool that carries the calls left out: every request makes at most       *)
(* MaxRetries attempts, each attempt ends in an exception, in an answer    *)
(* that is no tool call, or in a tool call, and the first attempt that     *)
(* settles the matter is the last one.                                     *)
(*                                                                         *)
(* GuardedAgent takes its steps from here; LlmPool implements this module  *)
(* with the two worker threads, the queue and the timeouts.                *)
(***************************************************************************)
EXTENDS Naturals

CONSTANTS Requests,    \* calls of process that got past the guardrail
          MaxRetries   \* self.max_retries

VARIABLES tries,       \* tries[r]: attempts r has completed
          verdict      \* verdict[r]: what the loop has come to

loopVars == <<tries, verdict>>

Verdicts == {"open", "tool", "text", "failed"}

LoopTypeOK ==
  /\ tries \in [Requests -> 0..MaxRetries]
  /\ verdict \in [Requests -> Verdicts]

LoopInit ==
  /\ tries = [r \in Requests |-> 0]
  /\ verdict = [r \in Requests |-> "open"]

(* The attempt under way is over and the verdict becomes v. *)
EndAttempt(r, v) ==
  /\ verdict[r] = "open"
  /\ tries' = [tries EXCEPT ![r] = @ + 1]
  /\ verdict' = [verdict EXCEPT ![r] = v]

(* Mutant: the loop runs one attempt too many. *)
LastAttemptOffByOne(r) == tries[r] = MaxRetries

LastAttempt(r) == tries[r] + 1 = MaxRetries

(* The call raises (timeout, connection refused, ...): `continue`, and     *)
(* after the last attempt the loop falls through to the error answer.      *)
CallFails(r) ==
  EndAttempt(r, IF LastAttempt(r) THEN "failed" ELSE "open")

(* An answer without a "tool" key: one corrective hint per attempt left,   *)
(* and on the last attempt the text itself is the answer.                  *)
ProseAnswer(r) ==
  EndAttempt(r, IF LastAttempt(r) THEN "text" ELSE "open")

(* An answer with a "tool" key is dispatched at once. *)
ToolAnswer(r) == EndAttempt(r, "tool")

LoopStep(r) == CallFails(r) \/ ProseAnswer(r) \/ ToolAnswer(r)

LoopNext == \E r \in Requests : LoopStep(r)

LoopSpec == LoopInit /\ [][LoopNext]_loopVars
                     /\ \A r \in Requests : WF_loopVars(LoopStep(r))

=============================================================================
