---------------------------- MODULE GuardedAgent ----------------------------
(***************************************************************************)
(* The engine behind the REST API: GuardedToolAgent.process, .approve and  *)
(* .reject (src/agent.py) as the endpoints of src/api.py call them, with   *)
(* the tool registry they dispatch to (src/tools.py).                      *)
(*                                                                         *)
(* The endpoints are plain `def` functions, so every HTTP call runs on a   *)
(* thread of its own against ONE agent object.  What the threads share is  *)
(* the table of staged actions, the audit trail and the host the tools act *)
(* on.  An action below is the code between two accesses to what is        *)
(* shared; a step of one thread may fall between any two of another's.     *)
(*                                                                         *)
(* The engine may also be killed and restarted between any two steps: the  *)
(* table of staged actions and the threads in flight are gone, the audit   *)
(* trail and whatever the tools did to the host stay.                      *)
(***************************************************************************)
EXTENDS Naturals, FiniteSets

CONSTANTS Requests,          \* POST /agent/process calls
          Decisions,         \* POST /agent/approve (or /agent/reject) calls
          ActionIds,         \* uuid.uuid4().hex[:8]
          Tools,             \* names an answer of the LLM may carry under "tool"
          Registered,        \* keys of registry._tools
          Destructive,       \* agent.destructive_tools
          HandlerOutcomes,   \* how a tool handler may end
          MaxRetries,        \* agent.max_retries
          MaxCrashes,        \* bound: restarts of the engine
          MaxAuditFailures,  \* bound: audit appends that raise
          NoId, NoCall       \* absent action id, absent tool call

Threads == Requests \cup Decisions

(* A handler ends by returning a text (the shipped ones also do so when    *)
(* the command failed), or raises a ValueError (execute_tool turns it into *)
(* a failure; output that cannot be decoded is one), a TypeError (execute  *)
(* calls the handler a second time) or something else (an OSError, say,    *)
(* which nobody on the way to the endpoint catches).                       *)
AllOutcomes == {"text", "value_error", "type_error", "other_error"}

(* What validation will say of the arguments: accepted, refused, or -- a   *)
(* key "name" among them -- clashing with a parameter of execute, so that  *)
(* Python raises a TypeError before execute looks at anything.             *)
Args == {"valid", "invalid", "clash"}

Calls == [tool : Tools, args : Args]

ASSUME AgentAssumption ==
  /\ Requests \cap Decisions = {}
  /\ Registered \subseteq Tools /\ Destructive \subseteq Tools
  /\ HandlerOutcomes \subseteq AllOutcomes
  /\ NoId \notin ActionIds /\ NoCall \notin Calls
  /\ MaxRetries \in Nat \ {0}
  /\ MaxCrashes \in Nat /\ MaxAuditFailures \in Nat

VARIABLES
  pc,             \* pc[t]: where thread t is
  dryRun,         \* dryRun[r], wantApproval[r]: the flags of request r
  wantApproval,
  tries,          \* the retry loop of request r, see RetryLoop
  verdict,
  call,           \* call[t]: the tool call t works on
  aid,            \* aid[r]: the id r staged its call under; aid[d]: the id d decides
  choice,         \* choice[d]: "approve" or "reject"
  pending,        \* agent._pending_actions
  ran,            \* ran[t]: times t has run the handler of its call (on the host)
  result,         \* result[t]: what execute_tool came to
  reply,          \* reply[t]: the answer the client got
  trail,          \* audit events appended
  crashes, auditFailures

vars == <<pc, dryRun, wantApproval, tries, verdict, call, aid, choice,
          pending, ran, result, reply, trail, crashes, auditFailures>>

Loop == INSTANCE RetryLoop

Phases == {"new", "inspected", "blocked", "asking", "exhausted", "dry_run",
           "stage", "staged", "execute", "retry", "handled", "executed",
           "rejected", "unknown", "done", "lost"}

Replies == {"none", "error", "blocked", "500", "success", "uncertain",
            "dry_run", "pending_approval", "tool_execution",
            "approved", "rejected", "404"}

(* An audit event, by the thread that appends it.  The id and the tool the *)
(* record carries are aid[by] and call[by], which never change once set.   *)
Events == [by : Threads,
           stage : {"input_guardrail", "agent.process", "tool.execution", "tool.approval"},
           status : {"passed", "blocked", "error", "dry_run", "pending", "unknown",
                     "approved", "failed", "rejected", "success", "validation_failed"}]

TypeOK ==
  /\ pc \in [Threads -> Phases]
  /\ dryRun \in [Requests -> BOOLEAN]
  /\ wantApproval \in [Requests -> BOOLEAN]
  /\ Loop!LoopTypeOK
  /\ call \in [Threads -> Calls \cup {NoCall}]
  /\ aid \in [Threads -> ActionIds \cup {NoId}]
  /\ choice \in [Decisions -> {"approve", "reject", "none"}]
  /\ pending \in [ActionIds -> Calls \cup {NoCall}]
  /\ ran \in [Threads -> 0..2]
  /\ result \in [Threads -> {"none", "ok", "failed"}]
  /\ reply \in [Threads -> Replies]
  /\ trail \subseteq Events
  /\ crashes \in 0..MaxCrashes
  /\ auditFailures \in 0..MaxAuditFailures

Init ==
  /\ pc = [t \in Threads |-> "new"]
  /\ dryRun \in [Requests -> BOOLEAN]
  /\ wantApproval \in [Requests -> BOOLEAN]
  /\ Loop!LoopInit
  /\ call = [t \in Threads |-> NoCall]
  /\ aid = [t \in Threads |-> NoId]
  /\ choice = [d \in Decisions |-> "none"]
  /\ pending = [id \in ActionIds |-> NoCall]
  /\ ran = [t \in Threads |-> 0]
  /\ result = [t \in Threads |-> "none"]
  /\ reply = [t \in Threads |-> "none"]
  /\ trail = {}
  /\ crashes = 0
  /\ auditFailures = 0

-----------------------------------------------------------------------------
(* Helpers.                                                                *)

Goto(t, phase) == pc' = [pc EXCEPT ![t] = phase]

Answer(t, status) ==
  /\ pc' = [pc EXCEPT ![t] = "done"]
  /\ reply' = [reply EXCEPT ![t] = status]

(* _audit, _guardrail_audit_cb, _registry_audit_cb: the append may raise;  *)
(* every caller swallows the exception and goes on.                        *)
Audit(t, stage, status) ==
  \/ /\ trail' = trail \cup {[by |-> t, stage |-> stage, status |-> status]}
     /\ UNCHANGED auditFailures
  \/ /\ auditFailures < MaxAuditFailures
     /\ auditFailures' = auditFailures + 1
     /\ UNCHANGED trail

NoAudit == UNCHANGED <<trail, auditFailures>>

(* The action ids handed out so far, and those a client has seen. *)
Issued == {aid[r] : r \in Requests} \ {NoId}
Announced == {aid[r] : r \in {q \in Requests : reply[q] = "pending_approval"}}

-----------------------------------------------------------------------------
(* POST /agent/process up to the retry loop.                               *)

(* model_override is not on the allow-list: audited and answered. *)
RefuseModel(r) ==
  /\ pc[r] = "new"
  /\ Audit(r, "agent.process", "error")
  /\ Answer(r, "error")
  /\ UNCHANGED <<dryRun, wantApproval, tries, verdict, call, aid, choice,
                 pending, ran, result, crashes>>

(* inspect_input: the guardrail appends its own event either way. *)
Inspect(r) ==
  /\ pc[r] = "new"
  /\ \/ Audit(r, "input_guardrail", "passed") /\ Goto(r, "inspected")
     \/ Audit(r, "input_guardrail", "blocked") /\ Goto(r, "blocked")
  /\ UNCHANGED <<dryRun, wantApproval, tries, verdict, call, aid, choice,
                 pending, ran, result, reply, crashes>>

(* is_blocked: process appends a second event and answers. *)
AnswerBlocked(r) ==
  /\ pc[r] = "blocked"
  /\ Audit(r, "agent.process", "blocked")
  /\ Answer(r, "blocked")
  /\ UNCHANGED <<dryRun, wantApproval, tries, verdict, call, aid, choice,
                 pending, ran, result, crashes>>

(* rag_engine.query, outside any try: a missing or empty log raises, and   *)
(* the endpoint answers 500 without another audit event.                   *)
Retrieve(r) ==
  /\ pc[r] = "inspected"
  /\ \/ Goto(r, "asking") /\ UNCHANGED reply
     \/ Answer(r, "500")
  /\ NoAudit
  /\ UNCHANGED <<dryRun, wantApproval, tries, verdict, call, aid, choice,
                 pending, ran, result, crashes>>

-----------------------------------------------------------------------------
(* The retry loop (RetryLoop) and _dispatch_tool's choice.                 *)

(* Mutant: no answer after the loop. *)
CallFailsForGood(r) ==
  /\ pc[r] = "asking"
  /\ Loop!CallFails(r)
  /\ NoAudit
  /\ UNCHANGED <<pc, dryRun, wantApproval, call, aid, choice,
                 pending, ran, result, reply, crashes>>

CallFails(r) ==
  /\ pc[r] = "asking"
  /\ Loop!CallFails(r)
  /\ Goto(r, IF verdict'[r] = "failed" THEN "exhausted" ELSE "asking")
  /\ NoAudit
  /\ UNCHANGED <<dryRun, wantApproval, call, aid, choice,
                 pending, ran, result, reply, crashes>>

(* The loop fell through: audited and answered. *)
GiveUp(r) ==
  /\ pc[r] = "exhausted"
  /\ Audit(r, "agent.process", "error")
  /\ Answer(r, "error")
  /\ UNCHANGED <<dryRun, wantApproval, tries, verdict, call, aid, choice,
                 pending, ran, result, crashes>>

(* A text answer is redacted and graded against the retrieved context;     *)
(* nothing is audited.                                                     *)
ProseAnswer(r) ==
  /\ pc[r] = "asking"
  /\ Loop!ProseAnswer(r)
  /\ \/ /\ verdict'[r] = "open"
        /\ UNCHANGED <<pc, reply>>
     \/ /\ verdict'[r] = "text"
        /\ \E status \in {"success", "uncertain"} : Answer(r, status)
  /\ NoAudit
  /\ UNCHANGED <<dryRun, wantApproval, call, aid, choice,
                 pending, ran, result, crashes>>

(* Mutant: the approval flag is not looked at. *)
RouteUnapproved(r, c) ==
  IF c.tool \in Destructive /\ dryRun[r] THEN "dry_run" ELSE "execute"

(* _dispatch_tool: what becomes of call c of request r.  The flags gate    *)
(* destructive tools only, and dry-run comes before approval.              *)
Route(r, c) ==
  IF c.tool \in Destructive /\ dryRun[r] THEN "dry_run"
  ELSE IF c.tool \in Destructive /\ wantApproval[r] THEN "stage"
  ELSE "execute"

(* An answer with a "tool" key.  One whose value is no string (or a        *)
(* response without content) raises on the way: the endpoint answers 500.  *)
ToolAnswer(r) ==
  /\ pc[r] = "asking"
  /\ Loop!ToolAnswer(r)
  /\ \/ /\ \E c \in Calls : /\ call' = [call EXCEPT ![r] = c]
                            /\ Goto(r, Route(r, c))
        /\ UNCHANGED reply
     \/ /\ Answer(r, "500")
        /\ UNCHANGED call
  /\ NoAudit
  /\ UNCHANGED <<dryRun, wantApproval, aid, choice, pending, ran, result, crashes>>

AnswerDryRun(r) ==
  /\ pc[r] = "dry_run"
  /\ Audit(r, "tool.execution", "dry_run")
  /\ Answer(r, "dry_run")
  /\ UNCHANGED <<dryRun, wantApproval, tries, verdict, call, aid, choice,
                 pending, ran, result, crashes>>

(* 32 random bits are taken to be fresh: an id names one staged action.    *)
NewId(id) == id \in ActionIds \ Issued

(* _pending_actions[action_id] = {...} *)
Stage(r) ==
  /\ pc[r] = "stage"
  /\ \E id \in ActionIds :
       /\ NewId(id)
       /\ aid' = [aid EXCEPT ![r] = id]
       /\ pending' = [pending EXCEPT ![id] = call[r]]
  /\ Goto(r, "staged")
  /\ NoAudit
  /\ UNCHANGED <<dryRun, wantApproval, tries, verdict, call, choice,
                 ran, result, reply, crashes>>

(* Mutant: the offer is not audited. *)
AnnounceUnaudited(r) ==
  /\ pc[r] = "staged"
  /\ NoAudit
  /\ Answer(r, "pending_approval")
  /\ UNCHANGED <<dryRun, wantApproval, tries, verdict, call, aid, choice,
                 pending, ran, result, crashes>>

(* The pending event, then the answer that tells the client the id. *)
Announce(r) ==
  /\ pc[r] = "staged"
  /\ Audit(r, "tool.approval", "pending")
  /\ Answer(r, "pending_approval")
  /\ UNCHANGED <<dryRun, wantApproval, tries, verdict, call, aid, choice,
                 pending, ran, result, crashes>>

-----------------------------------------------------------------------------
(* ToolRegistry.execute_tool and .execute, on behalf of thread t.          *)

Known(t) == call[t].tool \in Registered

NotFound(t) ==
  /\ pc[t] = "execute" /\ ~Known(t)
  /\ result' = [result EXCEPT ![t] = "failed"]
  /\ Goto(t, "executed")
  /\ NoAudit
  /\ UNCHANGED <<dryRun, wantApproval, tries, verdict, call, aid, choice,
                 pending, ran, reply, crashes>>

(* The keyword clash raises before execute is entered: no audit, and       *)
(* execute_tool only catches ValueError.                                   *)
RaiseOnClash(t) ==
  /\ pc[t] = "execute" /\ Known(t) /\ call[t].args = "clash"
  /\ Answer(t, "500")
  /\ NoAudit
  /\ UNCHANGED <<dryRun, wantApproval, tries, verdict, call, aid, choice,
                 pending, ran, result, crashes>>

(* ValidationError: audited, re-raised as a ValueError, returned. *)
RefuseArgs(t) ==
  /\ pc[t] = "execute" /\ Known(t) /\ call[t].args = "invalid"
  /\ Audit(t, "tool.execution", "validation_failed")
  /\ result' = [result EXCEPT ![t] = "failed"]
  /\ Goto(t, "executed")
  /\ UNCHANGED <<dryRun, wantApproval, tries, verdict, call, aid, choice,
                 pending, ran, reply, crashes>>

(* func called with the validated fields as keywords: the handler acts on  *)
(* the host, then returns or raises.  result stays "none" when the         *)
(* exception will leave execute_tool.                                      *)
RunHandler(t) ==
  /\ pc[t] = "execute" /\ Known(t) /\ call[t].args = "valid"
  /\ ran' = [ran EXCEPT ![t] = @ + 1]
  /\ \E outcome \in HandlerOutcomes :
       /\ result' = [result EXCEPT ![t] =
                       CASE outcome = "text" -> "ok"
                         [] outcome = "value_error" -> "failed"
                         [] OTHER -> "none"]
       /\ Goto(t, IF outcome = "type_error" THEN "retry" ELSE "handled")
  /\ NoAudit
  /\ UNCHANGED <<dryRun, wantApproval, tries, verdict, call, aid, choice,
                 pending, reply, crashes>>

(* Mutant: the handler is called until it returns. *)
RunHandlerUntilText(t) ==
  /\ pc[t] = "retry"
  /\ ran' = [ran EXCEPT ![t] = @ + 1]
  /\ \/ /\ "text" \in HandlerOutcomes
        /\ result' = [result EXCEPT ![t] = "ok"]
        /\ Goto(t, "handled")
     \/ /\ "type_error" \in HandlerOutcomes
        /\ UNCHANGED <<pc, result>>
  /\ NoAudit
  /\ UNCHANGED <<dryRun, wantApproval, tries, verdict, call, aid, choice,
                 pending, reply, crashes>>

(* `except TypeError: result = func(validated_args)` -- the handler runs   *)
(* again, and what this second call raises is not audited.                 *)
RunHandlerAgain(t) ==
  /\ pc[t] = "retry"
  /\ ran' = [ran EXCEPT ![t] = @ + 1]
  /\ \/ /\ "text" \in HandlerOutcomes
        /\ result' = [result EXCEPT ![t] = "ok"]
        /\ Goto(t, "handled")
        /\ UNCHANGED reply
     \/ /\ "value_error" \in HandlerOutcomes
        /\ result' = [result EXCEPT ![t] = "failed"]
        /\ Goto(t, "executed")
        /\ UNCHANGED reply
     \/ /\ HandlerOutcomes \cap {"type_error", "other_error"} # {}
        /\ Answer(t, "500")
        /\ UNCHANGED result
  /\ NoAudit
  /\ UNCHANGED <<dryRun, wantApproval, tries, verdict, call, aid, choice,
                 pending, crashes>>

(* Mutant: `except Exception: raise`, without the event. *)
AuditSuccessOnly(t) ==
  /\ pc[t] = "handled"
  /\ IF result[t] = "ok" THEN Audit(t, "tool.execution", "success") ELSE NoAudit
  /\ IF result[t] = "none"
     THEN Answer(t, "500")
     ELSE Goto(t, "executed") /\ UNCHANGED reply
  /\ UNCHANGED <<dryRun, wantApproval, tries, verdict, call, aid, choice,
                 pending, ran, result, crashes>>

(* The registry's own event about the run; an exception that is no         *)
(* ValueError then goes through to the endpoint.                           *)
AuditRun(t) ==
  /\ pc[t] = "handled"
  /\ Audit(t, "tool.execution", IF result[t] = "ok" THEN "success" ELSE "failed")
  /\ IF result[t] = "none"
     THEN Answer(t, "500")
     ELSE Goto(t, "executed") /\ UNCHANGED reply
  /\ UNCHANGED <<dryRun, wantApproval, tries, verdict, call, aid, choice,
                 pending, ran, result, crashes>>

(* _dispatch_tool's answer to a call that went straight to the registry. *)
AnswerDirect(r) ==
  /\ pc[r] = "executed"
  /\ Answer(r, IF result[r] = "ok" THEN "tool_execution" ELSE "error")
  /\ NoAudit
  /\ UNCHANGED <<dryRun, wantApproval, tries, verdict, call, aid, choice,
                 pending, ran, result, crashes>>

-----------------------------------------------------------------------------
(* POST /agent/approve: approve and reject.  The id is one some client was *)
(* told; it may have been decided already, or lost with an earlier process.*)

(* Mutant: reject does not look at what pop returned. *)
DecideUnknownRejected(d) ==
  /\ pc[d] = "new"
  /\ \E id \in Announced :
       /\ pending[id] = NoCall
       /\ aid' = [aid EXCEPT ![d] = id]
  /\ choice' = [choice EXCEPT ![d] = "reject"]
  /\ Goto(d, "rejected")
  /\ NoAudit
  /\ UNCHANGED <<dryRun, wantApproval, tries, verdict, call,
                 pending, ran, result, reply, crashes>>

(* _pending_actions.pop(action_id, None) finds nothing: reject answers at   *)
(* once (404 without an audit event), approve goes on to audit it.         *)
DecideUnknown(d) ==
  /\ pc[d] = "new"
  /\ \E id \in Announced :
       /\ pending[id] = NoCall
       /\ aid' = [aid EXCEPT ![d] = id]
  /\ \/ /\ choice' = [choice EXCEPT ![d] = "approve"]
        /\ Goto(d, "unknown")
        /\ UNCHANGED reply
     \/ /\ choice' = [choice EXCEPT ![d] = "reject"]
        /\ Answer(d, "404")
  /\ NoAudit
  /\ UNCHANGED <<dryRun, wantApproval, tries, verdict, call,
                 pending, ran, result, crashes>>

AnswerUnknown(d) ==
  /\ pc[d] = "unknown"
  /\ Audit(d, "tool.approval", "unknown")
  /\ Answer(d, "404")
  /\ UNCHANGED <<dryRun, wantApproval, tries, verdict, call, aid, choice,
                 pending, ran, result, crashes>>

(* Mutant: get instead of pop. *)
TakeByGet(d, id) ==
  /\ aid' = [aid EXCEPT ![d] = id]
  /\ call' = [call EXCEPT ![d] = pending[id]]
  /\ UNCHANGED pending

(* The pop takes the action out of the table: from here on it is this      *)
(* thread's.                                                               *)
Take(d, id) ==
  /\ aid' = [aid EXCEPT ![d] = id]
  /\ call' = [call EXCEPT ![d] = pending[id]]
  /\ pending' = [pending EXCEPT ![id] = NoCall]

Claim(d) ==
  /\ pc[d] = "new"
  /\ \E id \in Announced : pending[id] # NoCall /\ Take(d, id)
  /\ \/ /\ choice' = [choice EXCEPT ![d] = "approve"]
        /\ Goto(d, "execute")
     \/ /\ choice' = [choice EXCEPT ![d] = "reject"]
        /\ Goto(d, "rejected")
  /\ NoAudit
  /\ UNCHANGED <<dryRun, wantApproval, tries, verdict,
                 ran, result, reply, crashes>>

AnswerRejected(d) ==
  /\ pc[d] = "rejected"
  /\ Audit(d, "tool.approval", "rejected")
  /\ Answer(d, "rejected")
  /\ UNCHANGED <<dryRun, wantApproval, tries, verdict, call, aid, choice,
                 pending, ran, result, crashes>>

(* Mutant: a failed action is put back for another try. *)
AnswerApprovedRestoring(d) ==
  /\ pc[d] = "executed"
  /\ Audit(d, "tool.approval", IF result[d] = "ok" THEN "approved" ELSE "failed")
  /\ Answer(d, IF result[d] = "ok" THEN "approved" ELSE "404")
  /\ pending' = IF result[d] = "ok" THEN pending
                ELSE [pending EXCEPT ![aid[d]] = call[d]]
  /\ UNCHANGED <<dryRun, wantApproval, tries, verdict, call, aid, choice,
                 ran, result, crashes>>

(* approve's event and answer after execute_tool; the endpoint turns a     *)
(* failed execution into a 404.                                            *)
AnswerApproved(d) ==
  /\ pc[d] = "executed"
  /\ Audit(d, "tool.approval", IF result[d] = "ok" THEN "approved" ELSE "failed")
  /\ Answer(d, IF result[d] = "ok" THEN "approved" ELSE "404")
  /\ UNCHANGED <<dryRun, wantApproval, tries, verdict, call, aid, choice,
                 pending, ran, result, crashes>>

-----------------------------------------------------------------------------
(* The engine is killed and comes back: memory is gone. *)
Crash ==
  /\ crashes < MaxCrashes
  /\ crashes' = crashes + 1
  /\ pending' = [id \in ActionIds |-> NoCall]
  /\ pc' = [t \in Threads |-> IF pc[t] \in {"new", "done"} THEN pc[t] ELSE "lost"]
  /\ NoAudit
  /\ UNCHANGED <<dryRun, wantApproval, tries, verdict, call, aid, choice,
                 ran, result, reply>>

ExecuteTool(t) ==
  \/ NotFound(t) \/ RaiseOnClash(t) \/ RefuseArgs(t)
  \/ RunHandler(t) \/ RunHandlerAgain(t) \/ AuditRun(t)

Process(r) ==
  \/ RefuseModel(r) \/ Inspect(r) \/ AnswerBlocked(r) \/ Retrieve(r)
  \/ CallFails(r) \/ GiveUp(r) \/ ProseAnswer(r) \/ ToolAnswer(r)
  \/ AnswerDryRun(r) \/ Stage(r) \/ Announce(r)
  \/ ExecuteTool(r) \/ AnswerDirect(r)

Decide(d) ==
  \/ DecideUnknown(d) \/ AnswerUnknown(d) \/ Claim(d) \/ AnswerRejected(d)
  \/ ExecuteTool(d) \/ AnswerApproved(d)

Next ==
  \/ \E r \in Requests : Process(r)
  \/ \E d \in Decisions : Decide(d)
  \/ Crash

Spec == Init /\ [][Next]_vars

(* A thread that has begun keeps running: the operating system schedules   *)
(* it, LLM calls time out (LlmPool) and so do commands (_run_command).     *)
(* Nobody is bound to send a call, and no crash is bound to happen.        *)
Begun(t) == pc[t] \notin {"new", "done", "lost"}

FairSpec ==
  /\ Spec
  /\ \A r \in Requests : WF_vars(Begun(r) /\ Process(r))
  /\ \A d \in Decisions : WF_vars(Begun(d) /\ Decide(d))

-----------------------------------------------------------------------------
(* Properties.                                                             *)

(* Decision d took the action out of the table. *)
Claimed(d) == d \in Decisions /\ call[d] # NoCall

(* Request r put call c up for approval and told its client the id. *)
Offered(r, id, c) ==
  /\ aid[r] = id /\ call[r] = c
  /\ reply[r] = "pending_approval"
  /\ wantApproval[r] /\ ~dryRun[r]

(* The gate of _dispatch_tool holds whatever the threads do: the handler   *)
(* of a destructive tool runs for a request that asked neither for a       *)
(* dry-run nor for approval, or for an approve decision on an id under     *)
(* which exactly this call was offered.                                    *)
GateRespected ==
  \A t \in Threads :
    ran[t] > 0 /\ call[t].tool \in Destructive =>
      \/ t \in Requests /\ ~dryRun[t] /\ ~wantApproval[t]
      \/ /\ t \in Decisions /\ choice[t] = "approve"
         /\ \E r \in Requests : Offered(r, aid[t], call[t])

(* pop hands an action to one caller: no two of the approve and reject     *)
(* calls racing for an id both get it, and what one got is no longer on    *)
(* offer to the next.                                                      *)
OneDecision ==
  \A d \in Decisions : Claimed(d) =>
    /\ pending[aid[d]] = NoCall
    /\ \A e \in Decisions : Claimed(e) /\ aid[e] = aid[d] => e = d

Recorded(t, stage, status) == [by |-> t, stage |-> stage, status |-> status] \in trail

(* The trail tells each approval in order: whoever is recorded as deciding *)
(* an action decided an offer of that very call that its client had been   *)
(* told of, "approved" means that it ran and "rejected" that it did not.   *)
(* The offer is recorded ahead of the decision, and the run ahead of the   *)
(* approval; a failed append costs the trail one of these and no more.     *)
DecisionsRecorded ==
  LET decides(d, status) == Recorded(d, "tool.approval", status)
      offered(r, d) == Offered(r, aid[d], call[d])
      offersMissing ==
        {r \in Requests :
           /\ ~Recorded(r, "tool.approval", "pending")
           /\ \E d \in Decisions, status \in {"approved", "failed", "rejected"} :
                decides(d, status) /\ offered(r, d)}
      runsMissing ==
        {d \in Decisions : decides(d, "approved") /\ ~Recorded(d, "tool.execution", "success")}
  IN /\ \A d \in Decisions, status \in {"approved", "failed", "rejected"} :
          decides(d, status) =>
            /\ \E r \in Requests : offered(r, d)
            /\ status = "approved" => ran[d] > 0
            /\ status = "rejected" => ran[d] = 0
     /\ Cardinality(offersMissing \cup runsMissing) <= auditFailures

(* What a handler did to the host is in the trail as what it was once its  *)
(* client has the answer, and nothing is that did not happen; a failed     *)
(* append costs the trail one run and no more.  The run that returned      *)
(* after a TypeError is promised its record like any other.  Only one that *)
(* raised again is not: execute calls the handler a second time outside    *)
(* the try, and none of the shipped handlers raises a TypeError.           *)
RunsRecorded ==
  LET told(t, status) == Recorded(t, "tool.execution", status)
      promised(t) == ran[t] = 1 \/ result[t] = "ok"
  IN /\ \A t \in Threads :
          /\ told(t, "success") => ran[t] > 0 /\ result[t] = "ok"
          /\ told(t, "failed") => ran[t] > 0 /\ result[t] # "ok"
     /\ Cardinality({t \in Threads : /\ pc[t] = "done" /\ promised(t)
                                     /\ ~told(t, "success") /\ ~told(t, "failed")})
          <= auditFailures

(* What a client was told is what happened, to its own call and, for an    *)
(* action put up for approval, to every thread that worked on it: "No      *)
(* action was taken" of a dry-run, "rejected" of an action that never ran  *)
(* for anybody, "approved" and "tool_execution" of a handler that ran.     *)
RepliesTruthful ==
  \A t \in Threads :
    /\ reply[t] \in {"dry_run", "pending_approval", "blocked", "success", "uncertain"}
         => ran[t] = 0
    /\ reply[t] \in {"tool_execution", "approved"} => ran[t] > 0 /\ result[t] = "ok"
    /\ reply[t] = "rejected" =>
         \A u \in Threads : aid[u] = aid[t] => ran[u] = 0

(* Every call that was begun is answered, unless the engine is killed      *)
(* under it.                                                               *)
Answered == \A t \in Threads : Begun(t) ~> pc[t] \in {"done", "lost"}

-----------------------------------------------------------------------------
(* The approval flow as StagedActions sees it.                             *)

DecidedBy(id) == {d \in Decisions : Claimed(d) /\ aid[d] = id}

(* What decision d has made of the action it took. *)
PhaseOf(d) ==
  IF choice[d] = "reject" THEN "rejected"
  ELSE CASE pc[d] = "lost" -> "lost"
         [] pc[d] = "done" -> IF reply[d] = "approved" THEN "executed" ELSE "failed"
         [] OTHER -> "approving"

phaseBar ==
  [id \in ActionIds |->
    CASE id \notin Issued -> "free"
      [] pending[id] # NoCall -> "staged"
      [] DecidedBy(id) # {} -> PhaseOf(CHOOSE d \in DecidedBy(id) : TRUE)
      [] OTHER -> "lost"]

(* The runs of an action, as pairs of the thread and the run of it. *)
runsBar ==
  [id \in ActionIds |->
    Cardinality({u \in Threads \X (1..2) : aid[u[1]] = id /\ u[2] <= ran[u[1]]})]

Staged == INSTANCE StagedActions WITH phase <- phaseBar, runs <- runsBar,
                                      restarts <- crashes

(* The threads, the table and the restarts implement the approval flow. *)
ApprovalFlow == Staged!StagedSpec

=============================================================================
