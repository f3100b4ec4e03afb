------------------------- MODULE GuardedAgentProofs -------------------------
(* Theorems about GuardedAgent, for every value of its constants. *)
EXTENDS GuardedAgent, FiniteSetTheorems, TLAPS

-----------------------------------------------------------------------------
(* Type correctness.  The bounds on tries and ran and the lookup of an     *)
(* announced id need three facts more: an open loop has attempts left,     *)
(* where a thread stands tells how often it has run its handler, and a     *)
(* request that has staged its call has an id.                             *)

AttemptsLeft == \A r \in Requests : verdict[r] = "open" => tries[r] < MaxRetries

NotRunYet == {"new", "inspected", "blocked", "asking", "exhausted", "dry_run",
              "stage", "staged", "execute", "rejected", "unknown"}

RunsByPhase ==
  \A t \in Threads : /\ pc[t] \in NotRunYet => ran[t] = 0
                     /\ pc[t] = "retry" => ran[t] = 1

IdsGiven ==
  \A r \in Requests :
    pc[r] = "staged" \/ reply[r] = "pending_approval" => aid[r] # NoId

TypeInv == TypeOK /\ AttemptsLeft /\ RunsByPhase /\ IdsGiven

USE DEF Threads

(* A fresh engine: no call begun, nothing staged, an empty trail. *)
LEMMA TypeInit == Init => TypeInv
  BY AgentAssumption
  DEF Init, TypeInv, TypeOK, AttemptsLeft, RunsByPhase, IdsGiven, NotRunYet, Phases, Replies,
      Loop!LoopInit, Loop!LoopTypeOK, Loop!Verdicts

(* The loop keeps its own types: an attempt is counted only while the loop *)
(* is open, and it stays open only with an attempt left.                   *)
LEMMA LoopStepTypes ==
  ASSUME NEW r \in Requests, Loop!LoopTypeOK, AttemptsLeft,
         Loop!CallFails(r) \/ Loop!ProseAnswer(r) \/ Loop!ToolAnswer(r)
  PROVE  Loop!LoopTypeOK' /\ AttemptsLeft'
  BY AgentAssumption
  DEF Loop!CallFails, Loop!ProseAnswer, Loop!ToolAnswer, Loop!EndAttempt,
      Loop!LastAttempt, Loop!LoopTypeOK, Loop!Verdicts, AttemptsLeft

(* Every step keeps the types. *)
LEMMA TypeStep == TypeInv /\ [Next]_vars => TypeInv'
<1> SUFFICES ASSUME TypeInv, [Next]_vars PROVE TypeInv'
  OBVIOUS
<1> USE AgentAssumption
    DEF TypeInv, TypeOK, RunsByPhase, IdsGiven, NotRunYet, Phases, Replies, Events,
        Goto, Answer, Audit, NoAudit
<1>1. ASSUME NEW r \in Requests, RefuseModel(r) PROVE TypeInv'
  BY <1>1 DEF RefuseModel, AttemptsLeft, Loop!LoopTypeOK
<1>2. ASSUME NEW r \in Requests, Inspect(r) PROVE TypeInv'
  BY <1>2 DEF Inspect, AttemptsLeft, Loop!LoopTypeOK
<1>3. ASSUME NEW r \in Requests, AnswerBlocked(r) PROVE TypeInv'
  BY <1>3 DEF AnswerBlocked, AttemptsLeft, Loop!LoopTypeOK
<1>4. ASSUME NEW r \in Requests, Retrieve(r) PROVE TypeInv'
  BY <1>4 DEF Retrieve, AttemptsLeft, Loop!LoopTypeOK
<1>5. ASSUME NEW r \in Requests, CallFails(r) PROVE TypeInv'
  BY <1>5, LoopStepTypes DEF CallFails
<1>6. ASSUME NEW r \in Requests, GiveUp(r) PROVE TypeInv'
  BY <1>6 DEF GiveUp, AttemptsLeft, Loop!LoopTypeOK
<1>7. ASSUME NEW r \in Requests, ProseAnswer(r) PROVE TypeInv'
  BY <1>7, LoopStepTypes DEF ProseAnswer
<1>8. ASSUME NEW r \in Requests, ToolAnswer(r) PROVE TypeInv'
  BY <1>8, LoopStepTypes DEF ToolAnswer, Route
<1>9. ASSUME NEW r \in Requests, AnswerDryRun(r) PROVE TypeInv'
  BY <1>9 DEF AnswerDryRun, AttemptsLeft, Loop!LoopTypeOK
<1>10. ASSUME NEW r \in Requests, Stage(r) PROVE TypeInv'
  BY <1>10 DEF Stage, AttemptsLeft, Loop!LoopTypeOK
<1>11. ASSUME NEW r \in Requests, Announce(r) PROVE TypeInv'
  BY <1>11 DEF Announce, AttemptsLeft, Loop!LoopTypeOK
<1>12. ASSUME NEW r \in Requests, AnswerDirect(r) PROVE TypeInv'
  BY <1>12 DEF AnswerDirect, AttemptsLeft, Loop!LoopTypeOK
<1>13. ASSUME NEW t \in Threads, NotFound(t) PROVE TypeInv'
  BY <1>13 DEF NotFound, AttemptsLeft, Loop!LoopTypeOK
<1>14. ASSUME NEW t \in Threads, RaiseOnClash(t) PROVE TypeInv'
  BY <1>14 DEF RaiseOnClash, AttemptsLeft, Loop!LoopTypeOK
<1>15. ASSUME NEW t \in Threads, RefuseArgs(t) PROVE TypeInv'
  BY <1>15 DEF RefuseArgs, AttemptsLeft, Loop!LoopTypeOK
<1>16. ASSUME NEW t \in Threads, RunHandler(t) PROVE TypeInv'
  BY <1>16 DEF RunHandler, AttemptsLeft, Loop!LoopTypeOK
<1>17. ASSUME NEW t \in Threads, RunHandlerAgain(t) PROVE TypeInv'
  BY <1>17 DEF RunHandlerAgain, AttemptsLeft, Loop!LoopTypeOK
<1>18. ASSUME NEW t \in Threads, AuditRun(t) PROVE TypeInv'
  BY <1>18 DEF AuditRun, AttemptsLeft, Loop!LoopTypeOK
<1>19. ASSUME NEW d \in Decisions, DecideUnknown(d) PROVE TypeInv'
  BY <1>19 DEF DecideUnknown, Take, Announced, AttemptsLeft, Loop!LoopTypeOK
<1>20. ASSUME NEW d \in Decisions, AnswerUnknown(d) PROVE TypeInv'
  BY <1>20 DEF AnswerUnknown, Take, Announced, AttemptsLeft, Loop!LoopTypeOK
<1>21. ASSUME NEW d \in Decisions, Claim(d) PROVE TypeInv'
  <2>1. PICK id \in Announced : pending[id] # NoCall /\ Take(d, id)
    BY <1>21 DEF Claim
  <2>2. id \in ActionIds
    BY DEF Announced
  <2>3. pending[id] \in Calls
    BY <2>1, <2>2
  <2>4. /\ aid' \in [Threads -> ActionIds \cup {NoId}]
        /\ call' \in [Threads -> Calls \cup {NoCall}]
        /\ pending' \in [ActionIds -> Calls \cup {NoCall}]
    BY <2>1, <2>2, <2>3 DEF Take
  <2>5. /\ pc' \in [Threads -> Phases] /\ RunsByPhase'
        /\ choice' \in [Decisions -> {"approve", "reject", "none"}]
    BY <1>21 DEF Claim
  <2>6. IdsGiven'
    BY <1>21, <2>1 DEF Claim, Take
  <2> QED
    BY <1>21, <2>4, <2>5, <2>6 DEF Claim, AttemptsLeft, Loop!LoopTypeOK
<1>22. ASSUME NEW d \in Decisions, AnswerRejected(d) PROVE TypeInv'
  BY <1>22 DEF AnswerRejected, Take, Announced, AttemptsLeft, Loop!LoopTypeOK
<1>23. ASSUME NEW d \in Decisions, AnswerApproved(d) PROVE TypeInv'
  BY <1>23 DEF AnswerApproved, Take, Announced, AttemptsLeft, Loop!LoopTypeOK
<1>24. ASSUME Crash PROVE TypeInv'
  BY <1>24 DEF Crash, AttemptsLeft, Loop!LoopTypeOK
<1>25. ASSUME UNCHANGED vars PROVE TypeInv'
  BY <1>25 DEF vars, AttemptsLeft, Loop!LoopTypeOK
<1> QED
  BY <1>1, <1>2, <1>3, <1>4, <1>5, <1>6, <1>7, <1>8, <1>9, <1>10, <1>11, <1>12, <1>13, <1>14, <1>15, <1>16, <1>17, <1>18, <1>19, <1>20, <1>21, <1>22, <1>23, <1>24, <1>25
  DEF Next, Process, Decide, ExecuteTool

(* Type correctness: every reachable state has its types. *)
THEOREM TypeCorrect == Spec => []TypeOK
<1>1. TypeInv => TypeOK
  BY DEF TypeInv
<1> QED
  BY TypeInit, TypeStep, <1>1, PTL DEF Spec

-----------------------------------------------------------------------------
(* Safety.  What is true of a request, of a decision and of the table of   *)
(* staged actions wherever the threads stand.                              *)

Executing == {"execute", "retry", "handled", "executed"}

(* Once a request has its call it keeps it; the flags have sent it where   *)
(* it is; and one that has an id put its call up for approval under it.    *)
RequestInv ==
  \A r \in Requests :
    /\ pc[r] \in {"dry_run", "stage", "staged"} \cup Executing => call[r] \in Calls
    /\ pc[r] = "stage" => wantApproval[r] /\ ~dryRun[r]
    /\ pc[r] \in Executing \/ ran[r] > 0 =>
         /\ call[r] \in Calls /\ aid[r] = NoId
         /\ call[r].tool \in Destructive => ~dryRun[r] /\ ~wantApproval[r]
    /\ reply[r] # "rejected"
    /\ aid[r] # NoId => /\ call[r] \in Calls /\ wantApproval[r] /\ ~dryRun[r]
                        /\ pc[r] \in {"staged", "done", "lost"}

(* An id has one owner, and the table holds nothing but owners' calls. *)
IdInv ==
  /\ \A q, r \in Requests : aid[q] = aid[r] /\ aid[r] # NoId => q = r
  /\ \A id \in ActionIds : pending[id] # NoCall =>
       \E r \in Requests : aid[r] = id /\ call[r] = pending[id]

(* A decision works on a call it took out of the table, on which it is the *)
(* only one to decide, and runs it only if it is an approval.              *)
DecisionInv ==
  \A d \in Decisions :
    /\ pc[d] = "new" => ~Claimed(d)
    /\ pc[d] \in Executing \/ ran[d] > 0 => Claimed(d) /\ choice[d] = "approve"
    /\ pc[d] = "rejected" \/ reply[d] = "rejected" => Claimed(d) /\ choice[d] = "reject"
    /\ Claimed(d) => \E r \in Requests : Offered(r, aid[d], call[d])

(* What a thread's result and answer say of its handler. *)
AnswerInv ==
  \A t \in Threads :
    /\ reply[t] # "none" => pc[t] = "done"
    /\ result[t] = "ok" => ran[t] > 0
    /\ reply[t] \in {"dry_run", "pending_approval", "blocked", "success",
                     "uncertain", "rejected"} => ran[t] = 0
    /\ reply[t] \in {"tool_execution", "approved"} => result[t] = "ok"

SafeInv == TypeInv /\ RequestInv /\ IdInv /\ DecisionInv /\ OneDecision /\ AnswerInv

(* Nothing has happened yet. *)
LEMMA SafeInit == Init => SafeInv
  BY TypeInit, AgentAssumption
  DEF Init, SafeInv, RequestInv, IdInv, DecisionInv, OneDecision, AnswerInv,
      Claimed, Executing

(* Every step keeps what is known of the requests. *)
LEMMA RequestStep == SafeInv /\ [Next]_vars => RequestInv'
<1> SUFFICES ASSUME SafeInv, [Next]_vars PROVE RequestInv'
  OBVIOUS
<1> USE AgentAssumption
    DEF SafeInv, TypeInv, TypeOK, IdsGiven, Goto, Answer, Audit, NoAudit, RunsByPhase, NotRunYet,
        RequestInv, AnswerInv, Executing
<1>1. ASSUME NEW r \in Requests, RefuseModel(r) PROVE RequestInv'
  BY <1>1 DEF RefuseModel
<1>2. ASSUME NEW r \in Requests, Inspect(r) PROVE RequestInv'
  BY <1>2 DEF Inspect
<1>3. ASSUME NEW r \in Requests, AnswerBlocked(r) PROVE RequestInv'
  BY <1>3 DEF AnswerBlocked
<1>4. ASSUME NEW r \in Requests, Retrieve(r) PROVE RequestInv'
  BY <1>4 DEF Retrieve
<1>5. ASSUME NEW r \in Requests, CallFails(r) PROVE RequestInv'
  BY <1>5 DEF CallFails, Loop!CallFails, Loop!EndAttempt
<1>6. ASSUME NEW r \in Requests, GiveUp(r) PROVE RequestInv'
  BY <1>6 DEF GiveUp
<1>7. ASSUME NEW r \in Requests, ProseAnswer(r) PROVE RequestInv'
  BY <1>7 DEF ProseAnswer, Loop!ProseAnswer, Loop!EndAttempt
<1>8. ASSUME NEW r \in Requests, ToolAnswer(r) PROVE RequestInv'
  BY <1>8 DEF ToolAnswer, Loop!ToolAnswer, Loop!EndAttempt, Route
<1>9. ASSUME NEW r \in Requests, AnswerDryRun(r) PROVE RequestInv'
  BY <1>9 DEF AnswerDryRun
<1>10. ASSUME NEW r \in Requests, Stage(r) PROVE RequestInv'
  BY <1>10 DEF Stage, NewId, Issued
<1>11. ASSUME NEW r \in Requests, Announce(r) PROVE RequestInv'
  BY <1>11 DEF Announce
<1>12. ASSUME NEW r \in Requests, AnswerDirect(r) PROVE RequestInv'
  BY <1>12 DEF AnswerDirect
<1>13. ASSUME NEW t \in Threads, NotFound(t) PROVE RequestInv'
  BY <1>13 DEF NotFound
<1>14. ASSUME NEW t \in Threads, RaiseOnClash(t) PROVE RequestInv'
  BY <1>14 DEF RaiseOnClash
<1>15. ASSUME NEW t \in Threads, RefuseArgs(t) PROVE RequestInv'
  BY <1>15 DEF RefuseArgs, Known
<1>16. ASSUME NEW t \in Threads, RunHandler(t) PROVE RequestInv'
  BY <1>16 DEF RunHandler, Known
<1>17. ASSUME NEW t \in Threads, RunHandlerAgain(t) PROVE RequestInv'
  BY <1>17 DEF RunHandlerAgain
<1>18. ASSUME NEW t \in Threads, AuditRun(t) PROVE RequestInv'
  BY <1>18 DEF AuditRun
<1>19. ASSUME NEW d \in Decisions, DecideUnknown(d) PROVE RequestInv'
  BY <1>19 DEF DecideUnknown, Announced
<1>20. ASSUME NEW d \in Decisions, AnswerUnknown(d) PROVE RequestInv'
  BY <1>20 DEF AnswerUnknown
<1>21. ASSUME NEW d \in Decisions, Claim(d) PROVE RequestInv'
  BY <1>21 DEF Claim, Announced, Take
<1>22. ASSUME NEW d \in Decisions, AnswerRejected(d) PROVE RequestInv'
  BY <1>22 DEF AnswerRejected
<1>23. ASSUME NEW d \in Decisions, AnswerApproved(d) PROVE RequestInv'
  BY <1>23 DEF AnswerApproved
<1>24. ASSUME Crash PROVE RequestInv'
  BY <1>24 DEF Crash
<1>25. ASSUME UNCHANGED vars PROVE RequestInv'
  BY <1>25 DEF vars
<1> QED
  BY <1>1, <1>2, <1>3, <1>4, <1>5, <1>6, <1>7, <1>8, <1>9, <1>10, <1>11, <1>12, <1>13, <1>14, <1>15, <1>16, <1>17, <1>18, <1>19, <1>20, <1>21, <1>22, <1>23, <1>24, <1>25
  DEF Next, Process, Decide, ExecuteTool

(* Every step keeps what is known of the answers. *)
LEMMA AnswerStep == SafeInv /\ [Next]_vars => AnswerInv'
<1> SUFFICES ASSUME SafeInv, [Next]_vars PROVE AnswerInv'
  OBVIOUS
<1> USE AgentAssumption
    DEF SafeInv, TypeInv, TypeOK, IdsGiven, Goto, Answer, Audit, NoAudit, RunsByPhase, NotRunYet,
        DecisionInv, AnswerInv, Executing
<1>1. ASSUME NEW r \in Requests, RefuseModel(r) PROVE AnswerInv'
  BY <1>1 DEF RefuseModel
<1>2. ASSUME NEW r \in Requests, Inspect(r) PROVE AnswerInv'
  BY <1>2 DEF Inspect
<1>3. ASSUME NEW r \in Requests, AnswerBlocked(r) PROVE AnswerInv'
  BY <1>3 DEF AnswerBlocked
<1>4. ASSUME NEW r \in Requests, Retrieve(r) PROVE AnswerInv'
  BY <1>4 DEF Retrieve
<1>5. ASSUME NEW r \in Requests, CallFails(r) PROVE AnswerInv'
  BY <1>5 DEF CallFails, Loop!CallFails, Loop!EndAttempt
<1>6. ASSUME NEW r \in Requests, GiveUp(r) PROVE AnswerInv'
  BY <1>6 DEF GiveUp
<1>7. ASSUME NEW r \in Requests, ProseAnswer(r) PROVE AnswerInv'
  BY <1>7 DEF ProseAnswer, Loop!ProseAnswer, Loop!EndAttempt
<1>8. ASSUME NEW r \in Requests, ToolAnswer(r) PROVE AnswerInv'
  BY <1>8 DEF ToolAnswer, Loop!ToolAnswer, Loop!EndAttempt, Route
<1>9. ASSUME NEW r \in Requests, AnswerDryRun(r) PROVE AnswerInv'
  BY <1>9 DEF AnswerDryRun
<1>10. ASSUME NEW r \in Requests, Stage(r) PROVE AnswerInv'
  BY <1>10 DEF Stage, NewId, Issued
<1>11. ASSUME NEW r \in Requests, Announce(r) PROVE AnswerInv'
  BY <1>11 DEF Announce
<1>12. ASSUME NEW r \in Requests, AnswerDirect(r) PROVE AnswerInv'
  BY <1>12 DEF AnswerDirect
<1>13. ASSUME NEW t \in Threads, NotFound(t) PROVE AnswerInv'
  BY <1>13 DEF NotFound
<1>14. ASSUME NEW t \in Threads, RaiseOnClash(t) PROVE AnswerInv'
  BY <1>14 DEF RaiseOnClash
<1>15. ASSUME NEW t \in Threads, RefuseArgs(t) PROVE AnswerInv'
  BY <1>15 DEF RefuseArgs, Known
<1>16. ASSUME NEW t \in Threads, RunHandler(t) PROVE AnswerInv'
  BY <1>16 DEF RunHandler, Known
<1>17. ASSUME NEW t \in Threads, RunHandlerAgain(t) PROVE AnswerInv'
  BY <1>17 DEF RunHandlerAgain
<1>18. ASSUME NEW t \in Threads, AuditRun(t) PROVE AnswerInv'
  BY <1>18 DEF AuditRun
<1>19. ASSUME NEW d \in Decisions, DecideUnknown(d) PROVE AnswerInv'
  BY <1>19 DEF DecideUnknown, Announced
<1>20. ASSUME NEW d \in Decisions, AnswerUnknown(d) PROVE AnswerInv'
  BY <1>20 DEF AnswerUnknown
<1>21. ASSUME NEW d \in Decisions, Claim(d) PROVE AnswerInv'
  BY <1>21 DEF Claim, Announced, Take
<1>22. ASSUME NEW d \in Decisions, AnswerRejected(d) PROVE AnswerInv'
  BY <1>22 DEF AnswerRejected
<1>23. ASSUME NEW d \in Decisions, AnswerApproved(d) PROVE AnswerInv'
  BY <1>23 DEF AnswerApproved
<1>24. ASSUME Crash PROVE AnswerInv'
  BY <1>24 DEF Crash
<1>25. ASSUME UNCHANGED vars PROVE AnswerInv'
  BY <1>25 DEF vars
<1> QED
  BY <1>1, <1>2, <1>3, <1>4, <1>5, <1>6, <1>7, <1>8, <1>9, <1>10, <1>11, <1>12, <1>13, <1>14, <1>15, <1>16, <1>17, <1>18, <1>19, <1>20, <1>21, <1>22, <1>23, <1>24, <1>25
  DEF Next, Process, Decide, ExecuteTool

(* Every step keeps the ids apart and the table owned. *)
LEMMA IdStep == SafeInv /\ [Next]_vars => IdInv'
<1> SUFFICES ASSUME SafeInv, [Next]_vars PROVE IdInv'
  OBVIOUS
<1> USE AgentAssumption
    DEF SafeInv, TypeInv, TypeOK, IdsGiven, Goto, Answer, Audit, NoAudit,
        RequestInv, DecisionInv, IdInv, Executing, Claimed, Offered
<1>1. ASSUME NEW r \in Requests, RefuseModel(r) PROVE IdInv'
  BY <1>1 DEF RefuseModel
<1>2. ASSUME NEW r \in Requests, Inspect(r) PROVE IdInv'
  BY <1>2 DEF Inspect
<1>3. ASSUME NEW r \in Requests, AnswerBlocked(r) PROVE IdInv'
  BY <1>3 DEF AnswerBlocked
<1>4. ASSUME NEW r \in Requests, Retrieve(r) PROVE IdInv'
  BY <1>4 DEF Retrieve
<1>5. ASSUME NEW r \in Requests, CallFails(r) PROVE IdInv'
  BY <1>5 DEF CallFails, Loop!CallFails, Loop!EndAttempt
<1>6. ASSUME NEW r \in Requests, GiveUp(r) PROVE IdInv'
  BY <1>6 DEF GiveUp
<1>7. ASSUME NEW r \in Requests, ProseAnswer(r) PROVE IdInv'
  BY <1>7 DEF ProseAnswer, Loop!ProseAnswer, Loop!EndAttempt
<1>8. ASSUME NEW r \in Requests, ToolAnswer(r) PROVE IdInv'
  BY <1>8 DEF ToolAnswer, Loop!ToolAnswer, Loop!EndAttempt, Route
<1>9. ASSUME NEW r \in Requests, AnswerDryRun(r) PROVE IdInv'
  BY <1>9 DEF AnswerDryRun
<1>10. ASSUME NEW r \in Requests, Stage(r) PROVE IdInv'
  BY <1>10 DEF Stage, NewId, Issued
<1>11. ASSUME NEW r \in Requests, Announce(r) PROVE IdInv'
  BY <1>11 DEF Announce
<1>12. ASSUME NEW r \in Requests, AnswerDirect(r) PROVE IdInv'
  BY <1>12 DEF AnswerDirect
<1>13. ASSUME NEW t \in Threads, NotFound(t) PROVE IdInv'
  BY <1>13 DEF NotFound
<1>14. ASSUME NEW t \in Threads, RaiseOnClash(t) PROVE IdInv'
  BY <1>14 DEF RaiseOnClash
<1>15. ASSUME NEW t \in Threads, RefuseArgs(t) PROVE IdInv'
  BY <1>15 DEF RefuseArgs, Known
<1>16. ASSUME NEW t \in Threads, RunHandler(t) PROVE IdInv'
  BY <1>16 DEF RunHandler, Known
<1>17. ASSUME NEW t \in Threads, RunHandlerAgain(t) PROVE IdInv'
  BY <1>17 DEF RunHandlerAgain
<1>18. ASSUME NEW t \in Threads, AuditRun(t) PROVE IdInv'
  BY <1>18 DEF AuditRun
<1>19. ASSUME NEW d \in Decisions, DecideUnknown(d) PROVE IdInv'
  BY <1>19 DEF DecideUnknown, Announced
<1>20. ASSUME NEW d \in Decisions, AnswerUnknown(d) PROVE IdInv'
  BY <1>20 DEF AnswerUnknown
<1>21. ASSUME NEW d \in Decisions, Claim(d) PROVE IdInv'
  BY <1>21 DEF Claim, Announced, Take
<1>22. ASSUME NEW d \in Decisions, AnswerRejected(d) PROVE IdInv'
  BY <1>22 DEF AnswerRejected
<1>23. ASSUME NEW d \in Decisions, AnswerApproved(d) PROVE IdInv'
  BY <1>23 DEF AnswerApproved
<1>24. ASSUME Crash PROVE IdInv'
  BY <1>24 DEF Crash
<1>25. ASSUME UNCHANGED vars PROVE IdInv'
  BY <1>25 DEF vars
<1> QED
  BY <1>1, <1>2, <1>3, <1>4, <1>5, <1>6, <1>7, <1>8, <1>9, <1>10, <1>11, <1>12, <1>13, <1>14, <1>15, <1>16, <1>17, <1>18, <1>19, <1>20, <1>21, <1>22, <1>23, <1>24, <1>25
  DEF Next, Process, Decide, ExecuteTool

(* Every step keeps what is known of the decisions. *)
LEMMA DecisionStep == SafeInv /\ [Next]_vars => DecisionInv'
<1> SUFFICES ASSUME SafeInv, [Next]_vars PROVE DecisionInv'
  OBVIOUS
<1> USE AgentAssumption
    DEF SafeInv, TypeInv, TypeOK, IdsGiven, Goto, Answer, Audit, NoAudit, RunsByPhase, NotRunYet,
        RequestInv, DecisionInv, IdInv, AnswerInv, Executing, Claimed, Offered
<1>1. ASSUME NEW r \in Requests, RefuseModel(r) PROVE DecisionInv'
  BY <1>1 DEF RefuseModel
<1>2. ASSUME NEW r \in Requests, Inspect(r) PROVE DecisionInv'
  BY <1>2 DEF Inspect
<1>3. ASSUME NEW r \in Requests, AnswerBlocked(r) PROVE DecisionInv'
  BY <1>3 DEF AnswerBlocked
<1>4. ASSUME NEW r \in Requests, Retrieve(r) PROVE DecisionInv'
  BY <1>4 DEF Retrieve
<1>5. ASSUME NEW r \in Requests, CallFails(r) PROVE DecisionInv'
  BY <1>5 DEF CallFails, Loop!CallFails, Loop!EndAttempt
<1>6. ASSUME NEW r \in Requests, GiveUp(r) PROVE DecisionInv'
  BY <1>6 DEF GiveUp
<1>7. ASSUME NEW r \in Requests, ProseAnswer(r) PROVE DecisionInv'
  BY <1>7 DEF ProseAnswer, Loop!ProseAnswer, Loop!EndAttempt
<1>8. ASSUME NEW r \in Requests, ToolAnswer(r) PROVE DecisionInv'
  <2>1. /\ \A d \in Decisions : pc'[d] = pc[d] /\ call'[d] = call[d] /\ reply'[d] = reply[d]
        /\ UNCHANGED <<aid, choice, ran, pending, wantApproval, dryRun>>
    BY <1>8 DEF ToolAnswer
  <2>2. \A q \in Requests :
          aid[q] # NoId => call'[q] = call[q] /\ (reply[q] = "pending_approval" => reply'[q] = reply[q])
    BY <1>8 DEF ToolAnswer
  <2> QED
    BY <2>1, <2>2
<1>9. ASSUME NEW r \in Requests, AnswerDryRun(r) PROVE DecisionInv'
  BY <1>9 DEF AnswerDryRun
<1>10. ASSUME NEW r \in Requests, Stage(r) PROVE DecisionInv'
  BY <1>10 DEF Stage, NewId, Issued
<1>11. ASSUME NEW r \in Requests, Announce(r) PROVE DecisionInv'
  BY <1>11 DEF Announce
<1>12. ASSUME NEW r \in Requests, AnswerDirect(r) PROVE DecisionInv'
  BY <1>12 DEF AnswerDirect
<1>13. ASSUME NEW t \in Threads, NotFound(t) PROVE DecisionInv'
  BY <1>13 DEF NotFound
<1>14. ASSUME NEW t \in Threads, RaiseOnClash(t) PROVE DecisionInv'
  BY <1>14 DEF RaiseOnClash
<1>15. ASSUME NEW t \in Threads, RefuseArgs(t) PROVE DecisionInv'
  BY <1>15 DEF RefuseArgs, Known
<1>16. ASSUME NEW t \in Threads, RunHandler(t) PROVE DecisionInv'
  BY <1>16 DEF RunHandler, Known
<1>17. ASSUME NEW t \in Threads, RunHandlerAgain(t) PROVE DecisionInv'
  BY <1>17 DEF RunHandlerAgain
<1>18. ASSUME NEW t \in Threads, AuditRun(t) PROVE DecisionInv'
  BY <1>18 DEF AuditRun
<1>19. ASSUME NEW d \in Decisions, DecideUnknown(d) PROVE DecisionInv'
  BY <1>19 DEF DecideUnknown, Announced
<1>20. ASSUME NEW d \in Decisions, AnswerUnknown(d) PROVE DecisionInv'
  BY <1>20 DEF AnswerUnknown
<1>21. ASSUME NEW d \in Decisions, Claim(d) PROVE DecisionInv'
  <2>1. PICK id \in Announced : pending[id] # NoCall /\ Take(d, id)
    BY <1>21 DEF Claim
  <2>2. PICK r \in Requests : aid[r] = id /\ reply[r] = "pending_approval"
    BY DEF Announced
  <2>3. id \in ActionIds
    BY <2>2
  <2>4. Offered(r, id, pending[id])
    BY <2>1, <2>2, <2>3
  <2>5. /\ aid' = [aid EXCEPT ![d] = id] /\ call' = [call EXCEPT ![d] = pending[id]]
        /\ UNCHANGED <<reply, ran, wantApproval, dryRun>>
    BY <1>21, <2>1 DEF Claim, Take
  <2>6. /\ \A e \in Decisions \ {d} : choice'[e] = choice[e] /\ pc'[e] = pc[e]
        /\ \/ choice'[d] = "approve" /\ pc'[d] = "execute"
           \/ choice'[d] = "reject" /\ pc'[d] = "rejected"
        /\ ran[d] = 0 /\ reply[d] = "none"
    BY <1>21 DEF Claim
  <2>7. ASSUME NEW q \in Requests, NEW i, NEW c, Offered(q, i, c)
        PROVE  Offered(q, i, c)'
    BY <2>5, <2>7
  <2>8. aid'[d] = id /\ call'[d] = pending[id]
    BY <2>5
  <2>9. Offered(r, aid[d], call[d])'
    BY <2>4, <2>7, <2>8
  <2>10. ASSUME NEW e \in Decisions, e # d
         PROVE  aid'[e] = aid[e] /\ call'[e] = call[e]
    BY <2>5, <2>10
  <2>11. ASSUME NEW e \in Decisions
         PROVE  /\ pc'[e] = "new" => ~Claimed(e)'
                /\ pc'[e] \in Executing \/ ran'[e] > 0 => Claimed(e)' /\ choice'[e] = "approve"
                /\ pc'[e] = "rejected" \/ reply'[e] = "rejected" =>
                     Claimed(e)' /\ choice'[e] = "reject"
                /\ Claimed(e)' => \E q \in Requests : Offered(q, aid[e], call[e])'
    <3>1. CASE e = d
      BY <2>1, <2>5, <2>6, <2>8, <2>9, <3>1
    <3>2. CASE e # d
      <4>1. Claimed(e)' = Claimed(e)
        BY <2>10, <3>2
      <4>2. Claimed(e)' => \E q \in Requests : Offered(q, aid[e], call[e])'
        BY <2>7, <2>10, <3>2, <4>1 DEF DecisionInv
      <4> QED
        BY <2>5, <2>6, <3>2, <4>1, <4>2
    <3> QED
      BY <3>1, <3>2
  <2> QED
    BY <2>11
<1>22. ASSUME NEW d \in Decisions, AnswerRejected(d) PROVE DecisionInv'
  BY <1>22 DEF AnswerRejected
<1>23. ASSUME NEW d \in Decisions, AnswerApproved(d) PROVE DecisionInv'
  BY <1>23 DEF AnswerApproved
<1>24. ASSUME Crash PROVE DecisionInv'
  BY <1>24 DEF Crash
<1>25. ASSUME UNCHANGED vars PROVE DecisionInv'
  BY <1>25 DEF vars
<1> QED
  BY <1>1, <1>2, <1>3, <1>4, <1>5, <1>6, <1>7, <1>8, <1>9, <1>10, <1>11, <1>12, <1>13, <1>14, <1>15, <1>16, <1>17, <1>18, <1>19, <1>20, <1>21, <1>22, <1>23, <1>24, <1>25
  DEF Next, Process, Decide, ExecuteTool

(* Every step leaves at most one decision to an id. *)
LEMMA OneDecisionStep == SafeInv /\ [Next]_vars => OneDecision'
<1> SUFFICES ASSUME SafeInv, [Next]_vars PROVE OneDecision'
  OBVIOUS
<1> USE AgentAssumption
    DEF SafeInv, TypeInv, TypeOK, IdsGiven, Goto, Answer, Audit, NoAudit,
        RequestInv, DecisionInv, IdInv, OneDecision, Executing, Claimed, Offered
<1>1. ASSUME NEW r \in Requests, RefuseModel(r) PROVE OneDecision'
  BY <1>1 DEF RefuseModel
<1>2. ASSUME NEW r \in Requests, Inspect(r) PROVE OneDecision'
  BY <1>2 DEF Inspect
<1>3. ASSUME NEW r \in Requests, AnswerBlocked(r) PROVE OneDecision'
  BY <1>3 DEF AnswerBlocked
<1>4. ASSUME NEW r \in Requests, Retrieve(r) PROVE OneDecision'
  BY <1>4 DEF Retrieve
<1>5. ASSUME NEW r \in Requests, CallFails(r) PROVE OneDecision'
  BY <1>5 DEF CallFails, Loop!CallFails, Loop!EndAttempt
<1>6. ASSUME NEW r \in Requests, GiveUp(r) PROVE OneDecision'
  BY <1>6 DEF GiveUp
<1>7. ASSUME NEW r \in Requests, ProseAnswer(r) PROVE OneDecision'
  BY <1>7 DEF ProseAnswer, Loop!ProseAnswer, Loop!EndAttempt
<1>8. ASSUME NEW r \in Requests, ToolAnswer(r) PROVE OneDecision'
  BY <1>8 DEF ToolAnswer, Loop!ToolAnswer, Loop!EndAttempt, Route
<1>9. ASSUME NEW r \in Requests, AnswerDryRun(r) PROVE OneDecision'
  BY <1>9 DEF AnswerDryRun
<1>10. ASSUME NEW r \in Requests, Stage(r) PROVE OneDecision'
  BY <1>10 DEF Stage, NewId, Issued
<1>11. ASSUME NEW r \in Requests, Announce(r) PROVE OneDecision'
  BY <1>11 DEF Announce
<1>12. ASSUME NEW r \in Requests, AnswerDirect(r) PROVE OneDecision'
  BY <1>12 DEF AnswerDirect
<1>13. ASSUME NEW t \in Threads, NotFound(t) PROVE OneDecision'
  BY <1>13 DEF NotFound
<1>14. ASSUME NEW t \in Threads, RaiseOnClash(t) PROVE OneDecision'
  BY <1>14 DEF RaiseOnClash
<1>15. ASSUME NEW t \in Threads, RefuseArgs(t) PROVE OneDecision'
  BY <1>15 DEF RefuseArgs, Known
<1>16. ASSUME NEW t \in Threads, RunHandler(t) PROVE OneDecision'
  BY <1>16 DEF RunHandler, Known
<1>17. ASSUME NEW t \in Threads, RunHandlerAgain(t) PROVE OneDecision'
  BY <1>17 DEF RunHandlerAgain
<1>18. ASSUME NEW t \in Threads, AuditRun(t) PROVE OneDecision'
  BY <1>18 DEF AuditRun
<1>19. ASSUME NEW d \in Decisions, DecideUnknown(d) PROVE OneDecision'
  BY <1>19 DEF DecideUnknown, Announced
<1>20. ASSUME NEW d \in Decisions, AnswerUnknown(d) PROVE OneDecision'
  BY <1>20 DEF AnswerUnknown
<1>21. ASSUME NEW d \in Decisions, Claim(d) PROVE OneDecision'
  BY <1>21 DEF Claim, Announced, Take
<1>22. ASSUME NEW d \in Decisions, AnswerRejected(d) PROVE OneDecision'
  BY <1>22 DEF AnswerRejected
<1>23. ASSUME NEW d \in Decisions, AnswerApproved(d) PROVE OneDecision'
  BY <1>23 DEF AnswerApproved
<1>24. ASSUME Crash PROVE OneDecision'
  BY <1>24 DEF Crash
<1>25. ASSUME UNCHANGED vars PROVE OneDecision'
  BY <1>25 DEF vars
<1> QED
  BY <1>1, <1>2, <1>3, <1>4, <1>5, <1>6, <1>7, <1>8, <1>9, <1>10, <1>11, <1>12, <1>13, <1>14, <1>15, <1>16, <1>17, <1>18, <1>19, <1>20, <1>21, <1>22, <1>23, <1>24, <1>25
  DEF Next, Process, Decide, ExecuteTool

(* Every step keeps the invariant. *)
LEMMA SafeStep == SafeInv /\ [Next]_vars => SafeInv'
<1> SUFFICES ASSUME SafeInv, [Next]_vars PROVE SafeInv'
  OBVIOUS
<1>1. TypeInv'
  BY TypeStep DEF SafeInv
<1> QED
  BY <1>1, RequestStep, IdStep, DecisionStep, OneDecisionStep, AnswerStep DEF SafeInv

(* The invariant holds in every reachable state. *)
THEOREM SafeCorrect == Spec => []SafeInv
  BY SafeInit, SafeStep, PTL DEF Spec

(* However many requests, decisions, tools and ids there are, approve and  *)
(* reject calls racing for a staged action never both get it.              *)
THEOREM OneDecisionHolds == Spec => []OneDecision
<1>1. SafeInv => OneDecision
  BY DEF SafeInv
<1> QED
  BY SafeCorrect, <1>1, PTL

(* A destructive tool runs only past the gate of _dispatch_tool, or by an  *)
(* approve decision on the very call that was offered under the id.        *)
THEOREM GateHolds == Spec => []GateRespected
<1>1. SafeInv => GateRespected
  <2> SUFFICES ASSUME SafeInv, NEW t \in Threads,
                      ran[t] > 0, call[t].tool \in Destructive
               PROVE  \/ t \in Requests /\ ~dryRun[t] /\ ~wantApproval[t]
                      \/ /\ t \in Decisions /\ choice[t] = "approve"
                         /\ \E r \in Requests : Offered(r, aid[t], call[t])
    BY DEF GateRespected
  <2>1. CASE t \in Requests
    BY <2>1 DEF SafeInv, RequestInv
  <2>2. CASE t \in Decisions
    BY <2>2 DEF SafeInv, DecisionInv
  <2> QED
    BY <2>1, <2>2
<1> QED
  BY SafeCorrect, <1>1, PTL

(* What a client was told is what happened: in particular nobody ever ran  *)
(* an action that some client was told is rejected.                        *)
THEOREM RepliesHold == Spec => []RepliesTruthful
<1>1. SafeInv => RepliesTruthful
  <2> SUFFICES ASSUME SafeInv, NEW t \in Threads
               PROVE  /\ reply[t] \in {"dry_run", "pending_approval", "blocked",
                                       "success", "uncertain"} => ran[t] = 0
                      /\ reply[t] \in {"tool_execution", "approved"} =>
                           ran[t] > 0 /\ result[t] = "ok"
                      /\ reply[t] = "rejected" =>
                           \A u \in Threads : aid[u] = aid[t] => ran[u] = 0
    BY DEF RepliesTruthful
  <2>1. ASSUME reply[t] = "rejected", NEW u \in Threads, aid[u] = aid[t]
        PROVE  ran[u] = 0
    <3>1. t \in Decisions /\ Claimed(t) /\ choice[t] = "reject"
      BY <2>1 DEF SafeInv, RequestInv, DecisionInv
    <3>2. aid[t] # NoId
      BY <3>1 DEF SafeInv, DecisionInv, Offered, TypeInv, IdsGiven
    <3>3. CASE u \in Requests
      BY <2>1, <3>2, <3>3 DEF SafeInv, RequestInv, TypeInv, TypeOK
    <3>4. CASE u \in Decisions
      BY <2>1, <3>1, <3>4 DEF SafeInv, DecisionInv, OneDecision, TypeInv, TypeOK
    <3> QED
      BY <3>3, <3>4
  <2> QED
    BY <2>1 DEF SafeInv, AnswerInv
<1> QED
  BY SafeCorrect, <1>1, PTL

-----------------------------------------------------------------------------
(* The approval flow.  Without TypeErrors no handler is called twice; then *)
(* the threads, the table of staged actions and the restarts take only     *)
(* steps of StagedActions.                                                 *)

(* No handler has run more than once. *)
RunsOnce == \A t \in Threads : pc[t] # "retry" /\ ran[t] \in 0..1

(* Decision d has the action of id. *)
Has(d, id) == Claimed(d) /\ aid[d] = id

(* What StagedActions sees of an action. *)
PhaseRead ==
  /\ phaseBar = [id \in ActionIds |-> phaseBar[id]]
  /\ \A id \in ActionIds :
       /\ id \notin Issued => phaseBar[id] = "free"
       /\ pending[id] # NoCall => phaseBar[id] = "staged"
       /\ \A d \in Decisions : Has(d, id) => phaseBar[id] = PhaseOf(d)
       /\ id \in Issued /\ pending[id] = NoCall /\ (\A d \in Decisions : ~Has(d, id)) =>
            phaseBar[id] = "lost"

RunsRead ==
  /\ runsBar = [id \in ActionIds |-> runsBar[id]]
  /\ \A id \in ActionIds :
       runsBar[id] = IF \E d \in Decisions : aid[d] = id /\ ran[d] > 0 THEN 1 ELSE 0

(* An action that is staged or taken has an id of a request, and one that  *)
(* is taken is not staged.                                                 *)
LEMMA IssuedIds ==
  ASSUME SafeInv, NEW id \in ActionIds
  PROVE  /\ pending[id] # NoCall => id \in Issued
         /\ \A d \in Decisions : Has(d, id) => id \in Issued /\ pending[id] = NoCall
         /\ \A d, e \in Decisions : Has(d, id) /\ Has(e, id) => d = e
<1>1. id # NoId
  BY AgentAssumption DEF AgentAssumption
<1>2. pending[id] # NoCall => id \in Issued
  BY <1>1 DEF SafeInv, IdInv, Issued
<1>3. \A d \in Decisions : Has(d, id) => id \in Issued /\ pending[id] = NoCall
  BY <1>1 DEF SafeInv, DecisionInv, OneDecision, Offered, Issued, Has
<1>4. \A d, e \in Decisions : Has(d, id) /\ Has(e, id) => d = e
  BY DEF SafeInv, OneDecision, Has
<1> QED
  BY <1>2, <1>3, <1>4

(* The phase of an action. *)
LEMMA ReadPhase == SafeInv => PhaseRead
<1> SUFFICES ASSUME SafeInv, NEW id \in ActionIds
             PROVE  /\ id \notin Issued => phaseBar[id] = "free"
                    /\ pending[id] # NoCall => phaseBar[id] = "staged"
                    /\ \A d \in Decisions : Has(d, id) => phaseBar[id] = PhaseOf(d)
                    /\ id \in Issued /\ pending[id] = NoCall /\ (\A d \in Decisions : ~Has(d, id)) =>
                         phaseBar[id] = "lost"
  BY DEF PhaseRead, phaseBar
<1>1. phaseBar[id] = CASE id \notin Issued -> "free"
                       [] pending[id] # NoCall -> "staged"
                       [] DecidedBy(id) # {} -> PhaseOf(CHOOSE d \in DecidedBy(id) : TRUE)
                       [] OTHER -> "lost"
  BY DEF phaseBar
<1>2. /\ pending[id] # NoCall => id \in Issued
      /\ \A d \in Decisions : Has(d, id) => id \in Issued /\ pending[id] = NoCall
      /\ \A d, e \in Decisions : Has(d, id) /\ Has(e, id) => d = e
  BY IssuedIds
<1>3. DecidedBy(id) = {d \in Decisions : Has(d, id)}
  BY DEF DecidedBy, Has
<1>4. id \notin Issued => phaseBar[id] = "free"
  BY <1>1, <1>2, <1>3
<1>5. pending[id] # NoCall => phaseBar[id] = "staged"
  BY <1>1, <1>2, <1>3
<1>6. ASSUME NEW d \in Decisions, Has(d, id) PROVE phaseBar[id] = PhaseOf(d)
  <2>1. DecidedBy(id) = {d}
    BY <1>2, <1>3, <1>6
  <2>2. (CHOOSE e \in DecidedBy(id) : TRUE) = d
    BY <2>1
  <2> QED
    BY <1>1, <1>2, <1>6, <2>1, <2>2
<1>7. id \in Issued /\ pending[id] = NoCall /\ (\A d \in Decisions : ~Has(d, id)) =>
        phaseBar[id] = "lost"
  BY <1>1, <1>3
<1> QED
  BY <1>4, <1>5, <1>6, <1>7

(* The runs of an action are those of the decision that has taken it. *)
LEMMA ReadRuns == SafeInv /\ RunsOnce => RunsRead
<1> SUFFICES ASSUME SafeInv, RunsOnce, NEW id \in ActionIds
             PROVE  runsBar[id] = IF \E d \in Decisions : aid[d] = id /\ ran[d] > 0 THEN 1 ELSE 0
  BY DEF RunsRead, runsBar
<1> DEFINE pairs == {u \in Threads \X (1..2) : aid[u[1]] = id /\ u[2] <= ran[u[1]]}
<1>0. runsBar[id] = Cardinality(pairs) /\ id # NoId
  BY AgentAssumption DEF runsBar, AgentAssumption
<1>1. ASSUME NEW t \in Threads, aid[t] = id, ran[t] > 0 PROVE t \in Decisions /\ Has(t, id)
  BY <1>0, <1>1 DEF SafeInv, RequestInv, DecisionInv, Has
<1>2. CASE \E d \in Decisions : aid[d] = id /\ ran[d] > 0
  <2>1. PICK d \in Decisions : aid[d] = id /\ ran[d] > 0
    BY <1>2
  <2>2. ran[d] = 1 /\ Has(d, id)
    BY <1>1, <2>1 DEF RunsOnce
  <2>3. <<d, 1>> \in pairs
    BY <2>1, <2>2
  <2>4. ASSUME NEW t \in Threads, NEW k \in 1..2, <<t, k>> \in pairs PROVE <<t, k>> = <<d, 1>>
    <3>1. aid[t] = id /\ k <= ran[t] /\ ran[t] \in 0..1
      BY <2>4 DEF RunsOnce
    <3>2. ran[t] > 0 /\ k = 1
      BY <3>1
    <3>3. t = d
      BY <1>1, <2>2, <3>1, <3>2, IssuedIds
    <3> QED
      BY <3>2, <3>3
  <2>5. pairs = {<<d, 1>>}
    <3>1. ASSUME NEW u \in pairs PROVE u = <<d, 1>>
      <4>1. u[1] \in Threads /\ u[2] \in 1..2 /\ u = <<u[1], u[2]>>
        OBVIOUS
      <4> HIDE DEF pairs
      <4> QED
        BY <2>4, <4>1
    <3> HIDE DEF pairs
    <3> QED
      BY <2>3, <3>1
  <2>6. Cardinality(pairs) = 1
    BY <2>5, FS_Singleton
  <2> QED
    BY <1>0, <1>2, <2>6
<1>3. CASE ~\E d \in Decisions : aid[d] = id /\ ran[d] > 0
  <2>1. pairs = {}
    <3>1. ASSUME NEW t \in Threads, NEW k \in 1..2, aid[t] = id, k <= ran[t] PROVE FALSE
      <4>1. ran[t] > 0
        BY <3>1 DEF RunsOnce
      <4> QED
        BY <1>1, <1>3, <3>1, <4>1
    <3> QED
      BY <3>1
  <2>2. Cardinality(pairs) = 0
    BY <2>1, FS_EmptySet
  <2> QED
    BY <1>0, <1>3, <2>2
<1> QED
  BY <1>2, <1>3

(* A handler that raises no TypeError is not called again. *)
LEMMA RunsOnceStep ==
  ASSUME "type_error" \notin HandlerOutcomes
  PROVE  SafeInv /\ RunsOnce /\ [Next]_vars => RunsOnce'
<1> SUFFICES ASSUME SafeInv, RunsOnce, [Next]_vars PROVE RunsOnce'
  OBVIOUS
<1>0. /\ pc \in [Threads -> Phases] /\ ran \in [Threads -> 0..2]
      /\ \A t \in Threads : pc[t] # "retry" /\ ran[t] \in 0..1 /\ (pc[t] = "execute" => ran[t] = 0)
  BY DEF SafeInv, TypeInv, TypeOK, RunsByPhase, NotRunYet, RunsOnce
<1>1. ASSUME NEW t \in Threads, RunHandler(t) PROVE RunsOnce'
  BY <1>0, <1>1 DEF RunHandler, Goto, RunsOnce
<1>2. ASSUME NEW t \in Threads, RunHandlerAgain(t) PROVE RunsOnce'
  BY <1>0, <1>2 DEF RunHandlerAgain
<1>3. ASSUME UNCHANGED ran, \A t \in Threads : pc'[t] # "retry" PROVE RunsOnce'
  BY <1>0, <1>3 DEF RunsOnce
<1>4. ASSUME NEW r \in Requests, Process(r) PROVE RunsOnce'
  <2>1. CASE RunHandler(r) \/ RunHandlerAgain(r)
    BY <1>1, <1>2, <2>1
  <2>2. CASE ~(RunHandler(r) \/ RunHandlerAgain(r))
    <3>1. UNCHANGED ran /\ \E x \in Phases \ {"retry"} : pc' = [pc EXCEPT ![r] = x] \/ pc' = pc
      BY <1>4, <2>2 DEF Process, ExecuteTool, RefuseModel, Inspect, AnswerBlocked, Retrieve, CallFails,
         GiveUp, ProseAnswer, ToolAnswer, Route, AnswerDryRun, Stage, Announce, AnswerDirect, NotFound,
         RaiseOnClash, RefuseArgs, AuditRun, Goto, Answer, Phases
    <3> QED
      BY <1>0, <1>3, <3>1
  <2> QED
    BY <2>1, <2>2
<1>5. ASSUME NEW d \in Decisions, Decide(d) PROVE RunsOnce'
  <2>1. CASE RunHandler(d) \/ RunHandlerAgain(d)
    BY <1>1, <1>2, <2>1
  <2>2. CASE ~(RunHandler(d) \/ RunHandlerAgain(d))
    <3>1. UNCHANGED ran /\ \E x \in Phases \ {"retry"} : pc' = [pc EXCEPT ![d] = x]
      BY <1>5, <2>2 DEF Decide, ExecuteTool, DecideUnknown, AnswerUnknown, Claim, AnswerRejected,
         AnswerApproved, NotFound, RaiseOnClash, RefuseArgs, AuditRun, Goto, Answer, Phases
    <3> QED
      BY <1>0, <1>3, <3>1
  <2> QED
    BY <2>1, <2>2
<1>6. CASE Crash
  BY <1>0, <1>3, <1>6 DEF Crash
<1>7. CASE UNCHANGED vars
  BY <1>0, <1>3, <1>7 DEF vars
<1> QED
  BY <1>4, <1>5, <1>6, <1>7 DEF Next

(* What the steps below know of the actions before and after. *)
FlowRead == SafeInv /\ RunsOnce /\ PhaseRead /\ RunsRead

(* An invariant state can be read through these operators. *)
LEMMA ReadFlow == SafeInv /\ RunsOnce => FlowRead
BY ReadPhase, ReadRuns DEF FlowRead

(* An action stays what it is if nothing that matters to it changes. *)
LEMMA PhaseStays ==
  ASSUME FlowRead, FlowRead', NEW id \in ActionIds,
         id \in Issued' <=> id \in Issued, pending'[id] = pending[id],
         \A d \in Decisions : Has(d, id)' <=> Has(d, id),
         \A d \in Decisions : Has(d, id) => PhaseOf(d)' = PhaseOf(d)
  PROVE  phaseBar'[id] = phaseBar[id]
<1>1. CASE id \notin Issued
  BY <1>1 DEF FlowRead, PhaseRead
<1>2. CASE pending[id] # NoCall
  BY <1>2 DEF FlowRead, PhaseRead
<1>3. CASE \E d \in Decisions : Has(d, id)
  BY <1>3 DEF FlowRead, PhaseRead
<1>4. CASE id \in Issued /\ pending[id] = NoCall /\ (\A d \in Decisions : ~Has(d, id))
  BY <1>4 DEF FlowRead, PhaseRead
<1> QED
  BY <1>1, <1>2, <1>3, <1>4

(* Nothing the flow shows has changed. *)
LEMMA Unseen ==
  ASSUME FlowRead, FlowRead', UNCHANGED <<pending, ran, crashes>>, Issued' = Issued,
         \A d \in Decisions : ran[d] > 0 => aid'[d] = aid[d],
         \A d \in Decisions : Claimed(d)' <=> Claimed(d),
         \A d \in Decisions : Claimed(d) => aid'[d] = aid[d] /\ PhaseOf(d)' = PhaseOf(d)
  PROVE  UNCHANGED Staged!stagedVars
<1>1. ASSUME NEW id \in ActionIds PROVE phaseBar'[id] = phaseBar[id]
  <2>1. \A d \in Decisions : Has(d, id)' <=> Has(d, id)
    BY DEF Has
  <2>2. \A d \in Decisions : Has(d, id) => PhaseOf(d)' = PhaseOf(d)
    BY DEF Has
  <2> QED
    BY <2>1, <2>2, PhaseStays
<1>2. phaseBar' = phaseBar
  BY <1>1 DEF FlowRead, PhaseRead
<1>3. ASSUME NEW id \in ActionIds PROVE runsBar'[id] = runsBar[id]
  <2>1. \A d \in Decisions : (aid'[d] = id /\ ran'[d] > 0) <=> (aid[d] = id /\ ran[d] > 0)
    OBVIOUS
  <2> QED
    BY <2>1 DEF FlowRead, RunsRead
<1>4. runsBar' = runsBar
  BY <1>3 DEF FlowRead, RunsRead
<1> QED
  BY <1>2, <1>4 DEF Staged!stagedVars

(* A step of a request that gives it no id. *)
LEMMA RequestUnseen ==
  ASSUME FlowRead, FlowRead', NEW r \in Requests,
         UNCHANGED <<aid, choice, pending, ran, crashes>>,
         \A t \in Threads : t # r => pc'[t] = pc[t] /\ reply'[t] = reply[t] /\ call'[t] = call[t]
  PROVE  UNCHANGED Staged!stagedVars
<1>1. \A d \in Decisions : pc'[d] = pc[d] /\ reply'[d] = reply[d] /\ call'[d] = call[d]
  BY AgentAssumption DEF AgentAssumption
<1>2. \A d \in Decisions : (Claimed(d)' <=> Claimed(d)) /\ PhaseOf(d)' = PhaseOf(d)
  BY <1>1 DEF Claimed, PhaseOf
<1>3. Issued' = Issued
  BY DEF Issued
<1> QED
  BY <1>2, <1>3, Unseen

(* A step of a decision: it goes on, or it ends and settles its action if  *)
(* that was approved.                                                      *)
LEMMA DecisionShows ==
  ASSUME FlowRead, FlowRead', NEW d \in Decisions, pc[d] \notin {"done", "lost"},
         NEW x \in Phases, x # "lost", pc' = [pc EXCEPT ![d] = x],
         UNCHANGED <<aid, choice, call, pending, ran, crashes>>,
         \A t \in Threads : t # d => reply'[t] = reply[t],
         x = "done" \/ reply' = reply, reply'[d] = "approved" => ran[d] > 0
  PROVE  [Staged!StagedNext]_(Staged!stagedVars)
<1>0. Issued' = Issued /\ \A e \in Decisions : Claimed(e)' <=> Claimed(e)
  BY DEF Issued, Claimed
<1>1. pc'[d] = x /\ \A e \in Decisions : e # d => pc'[e] = pc[e] /\ reply'[e] = reply[e]
  BY DEF FlowRead, SafeInv, TypeInv, TypeOK
<1>2. \A e \in Decisions : e # d => PhaseOf(e)' = PhaseOf(e)
  BY <1>1 DEF PhaseOf
<1>3. CASE ~Claimed(d) \/ choice[d] = "reject" \/ x # "done"
  <2>1. Claimed(d) => PhaseOf(d)' = PhaseOf(d)
    BY <1>1, <1>3 DEF PhaseOf
  <2> QED
    BY <1>0, <1>2, <2>1, Unseen
<1>4. CASE Claimed(d) /\ choice[d] # "reject" /\ x = "done"
  <2> DEFINE id == aid[d]
  <2>1. id \in ActionIds /\ Has(d, id) /\ Has(d, id)'
    BY <1>0, <1>4 DEF Has, FlowRead, SafeInv, DecisionInv, Offered, TypeInv, IdsGiven, TypeOK
  <2>2. PhaseOf(d) = "approving" /\ PhaseOf(d)' = IF reply'[d] = "approved" THEN "executed" ELSE "failed"
    BY <1>1, <1>4 DEF PhaseOf
  <2>3. phaseBar[id] = "approving" /\ phaseBar'[id] = IF reply'[d] = "approved" THEN "executed" ELSE "failed"
    BY <2>1, <2>2 DEF FlowRead, PhaseRead
  <2>4. ASSUME NEW i \in ActionIds, i # id PROVE phaseBar'[i] = phaseBar[i]
    <3>1. \A e \in Decisions : Has(e, i)' <=> Has(e, i)
      BY <1>0 DEF Has
    <3>2. \A e \in Decisions : Has(e, i) => PhaseOf(e)' = PhaseOf(e)
      BY <1>2, <2>4 DEF Has
    <3> QED
      BY <1>0, <3>1, <3>2, PhaseStays
  <2>5. phaseBar' = [phaseBar EXCEPT ![id] = IF reply'[d] = "approved" THEN "executed" ELSE "failed"]
    BY <2>1, <2>3, <2>4 DEF FlowRead, PhaseRead
  <2>6. runsBar' = runsBar
    BY DEF FlowRead, RunsRead
  <2>7. reply'[d] = "approved" => runsBar[id] = 1
    BY <2>1 DEF FlowRead, RunsRead
  <2>8. Staged!Settle(id)
    BY <2>3, <2>5, <2>6, <2>7 DEF Staged!Settle, Staged!Move
  <2> QED
    BY <2>1, <2>8 DEF Staged!StagedNext
<1> QED
  BY <1>3, <1>4

(* The staging of a call. *)
LEMMA StageShows ==
  ASSUME FlowRead, FlowRead', NEW r \in Requests, Stage(r)
  PROVE  Staged!StagedNext
<1>0. UNCHANGED <<choice, ran, call, reply, crashes>> /\ \A d \in Decisions : pc'[d] = pc[d] /\ aid'[d] = aid[d]
  BY AgentAssumption DEF Stage, Goto, AgentAssumption, FlowRead, SafeInv, TypeInv, TypeOK
<1>1. PICK id \in ActionIds : NewId(id) /\ aid' = [aid EXCEPT ![r] = id] /\ pending' = [pending EXCEPT ![id] = call[r]]
  BY DEF Stage
<1>2. aid[r] = NoId /\ call[r] \in Calls
  BY DEF Stage, FlowRead, SafeInv, RequestInv
<1>3. aid'[r] = id /\ pending'[id] # NoCall /\ id \notin Issued /\ id # NoId
  BY <1>1, <1>2, AgentAssumption DEF NewId, AgentAssumption, FlowRead, SafeInv, TypeInv, TypeOK
<1>4. ASSUME NEW i \in ActionIds, i # id PROVE phaseBar'[i] = phaseBar[i]
  <2>1. pending'[i] = pending[i]
    BY <1>1, <1>4 DEF FlowRead, SafeInv, TypeInv, TypeOK
  <2>2. i \in Issued' <=> i \in Issued
    <3>1. \A q \in Requests : aid'[q] = i <=> aid[q] = i
      BY <1>1, <1>2, <1>3, <1>4, AgentAssumption DEF AgentAssumption, FlowRead, SafeInv, TypeInv, TypeOK
    <3>2. i # NoId
      BY AgentAssumption DEF AgentAssumption
    <3> QED
      BY <3>1, <3>2 DEF Issued
  <2>3. \A d \in Decisions : (Has(d, i)' <=> Has(d, i)) /\ PhaseOf(d)' = PhaseOf(d)
    BY <1>0 DEF Has, Claimed, PhaseOf
  <2> QED
    BY <2>1, <2>2, <2>3, PhaseStays
<1>5. phaseBar[id] = "free" /\ phaseBar'[id] = "staged"
  BY <1>3 DEF FlowRead, PhaseRead
<1>6. phaseBar' = [phaseBar EXCEPT ![id] = "staged"]
  BY <1>4, <1>5 DEF FlowRead, PhaseRead
<1>7. runsBar' = runsBar
  BY <1>0 DEF FlowRead, RunsRead
<1>8. Staged!StageAction(id)
  BY <1>0, <1>5, <1>6, <1>7 DEF Staged!StageAction, Staged!Move
<1> QED
  BY <1>8 DEF Staged!StagedNext

(* A decision that gets the action approves or rejects it. *)
LEMMA ClaimShows ==
  ASSUME FlowRead, FlowRead', NEW d \in Decisions, Claim(d)
  PROVE  Staged!StagedNext
<1>1. PICK id \in Announced : pending[id] # NoCall /\ Take(d, id)
  BY DEF Claim
<1>2. id \in ActionIds
  BY DEF Announced, FlowRead, SafeInv, TypeInv, IdsGiven, TypeOK
<1>3. /\ aid' = [aid EXCEPT ![d] = id] /\ call' = [call EXCEPT ![d] = pending[id]]
      /\ pending' = [pending EXCEPT ![id] = NoCall] /\ UNCHANGED <<ran, reply, crashes>>
      /\ \A r \in Requests : aid'[r] = aid[r]
      /\ \A e \in Decisions : e # d => aid'[e] = aid[e] /\ call'[e] = call[e] /\ pc'[e] = pc[e] /\ choice'[e] = choice[e]
      /\ \/ choice'[d] = "approve" /\ pc'[d] = "execute"
         \/ choice'[d] = "reject" /\ pc'[d] = "rejected"
  BY <1>1, AgentAssumption DEF Claim, Take, Goto, AgentAssumption, FlowRead, SafeInv, TypeInv, TypeOK
<1>4. Has(d, id)' /\ ~Claimed(d) /\ ran[d] = 0
  <2>1. aid'[d] = id /\ call'[d] # NoCall
    BY <1>1, <1>3 DEF FlowRead, SafeInv, TypeInv, TypeOK
  <2>2. pc[d] = "new" /\ ~Claimed(d) /\ ran[d] = 0
    BY DEF Claim, FlowRead, SafeInv, DecisionInv, TypeInv, RunsByPhase, NotRunYet
  <2> QED
    BY <2>1, <2>2 DEF Has, Claimed
<1>5. ASSUME NEW i \in ActionIds, i # id PROVE phaseBar'[i] = phaseBar[i]
  <2>1. pending'[i] = pending[i] /\ Issued' = Issued
    BY <1>2, <1>3, <1>5 DEF FlowRead, SafeInv, TypeInv, TypeOK, Issued
  <2>2. ASSUME NEW e \in Decisions PROVE (Has(e, i)' <=> Has(e, i)) /\ (Has(e, i) => PhaseOf(e)' = PhaseOf(e))
    <3>1. CASE e = d
      BY <1>4, <1>5, <3>1 DEF Has
    <3>2. CASE e # d
      BY <1>3, <3>2 DEF Has, Claimed, PhaseOf
    <3> QED
      BY <3>1, <3>2
  <2> QED
    BY <2>1, <2>2, PhaseStays
<1>6. phaseBar[id] = "staged" /\ phaseBar'[id] = PhaseOf(d)'
  BY <1>1, <1>2, <1>4 DEF FlowRead, PhaseRead
<1>7. phaseBar' = [phaseBar EXCEPT ![id] = PhaseOf(d)']
  BY <1>2, <1>5, <1>6 DEF FlowRead, PhaseRead
<1>8. runsBar' = runsBar
  <2>1. \A i \in ActionIds : (\E e \in Decisions : aid'[e] = i /\ ran'[e] > 0) <=> (\E e \in Decisions : aid[e] = i /\ ran[e] > 0)
    BY <1>3, <1>4
  <2> QED
    BY <2>1 DEF FlowRead, RunsRead
<1>9. PhaseOf(d)' \in {"approving", "rejected"}
  BY <1>3 DEF PhaseOf
<1>10. Staged!Approve(id) \/ Staged!Reject(id)
  BY <1>3, <1>6, <1>7, <1>8, <1>9 DEF Staged!Approve, Staged!Reject, Staged!Move
<1> QED
  BY <1>2, <1>10 DEF Staged!StagedNext

(* The handler runs for a decision that has taken its action, and for the  *)
(* first time; that of a request that was not gated is not in the flow.    *)
LEMMA RunShows ==
  ASSUME FlowRead, FlowRead', NEW t \in Threads, RunHandler(t)
  PROVE  [Staged!StagedNext]_(Staged!stagedVars)
<1>0. /\ UNCHANGED <<aid, choice, call, pending, reply, crashes>> /\ Issued' = Issued
      /\ pc[t] = "execute" /\ pc'[t] \notin {"lost", "done"} /\ ran'[t] > 0
      /\ \A u \in Threads : u # t => pc'[u] = pc[u] /\ ran'[u] = ran[u]
      /\ ran[t] = 0
  BY DEF RunHandler, Goto, FlowRead, SafeInv, TypeInv, TypeOK, RunsByPhase, NotRunYet, Issued
<1>1. \A d \in Decisions : (Claimed(d)' <=> Claimed(d)) /\ PhaseOf(d)' = PhaseOf(d)
  BY <1>0 DEF Claimed, PhaseOf
<1>2. \A id \in ActionIds : phaseBar'[id] = phaseBar[id]
  <2> TAKE id \in ActionIds
  <2>1. \A d \in Decisions : Has(d, id)' <=> Has(d, id)
    BY <1>0, <1>1 DEF Has
  <2> QED
    BY <1>0, <1>1, <2>1, PhaseStays
<1>3. phaseBar' = phaseBar
  BY <1>2 DEF FlowRead, PhaseRead
<1>4. CASE t \in Requests
  <2>1. \A d \in Decisions : d # t
    BY <1>4, AgentAssumption DEF AgentAssumption
  <2>2. \A id \in ActionIds : runsBar'[id] = runsBar[id]
    BY <1>0, <2>1 DEF FlowRead, RunsRead
  <2>3. runsBar' = runsBar
    BY <2>2 DEF FlowRead, RunsRead
  <2> QED
    BY <1>0, <1>3, <2>3 DEF Staged!stagedVars
<1>5. CASE t \in Decisions
  <2> DEFINE id == aid[t]
  <2>1. Claimed(t) /\ choice[t] = "approve" /\ id \in ActionIds
    BY <1>0, <1>5 DEF FlowRead, SafeInv, DecisionInv, Executing, Offered, TypeInv, IdsGiven, TypeOK
  <2>2. Has(t, id) /\ PhaseOf(t) = "approving"
    BY <1>0, <2>1 DEF Has, PhaseOf
  <2>3. phaseBar[id] = "approving"
    BY <1>5, <2>1, <2>2 DEF FlowRead, PhaseRead
  <2>4. ASSUME NEW d \in Decisions, aid[d] = id, ran[d] > 0 PROVE FALSE
    <3>1. Has(d, id)
      BY <2>4 DEF FlowRead, SafeInv, DecisionInv, Has
    <3>2. d = t
      BY <1>5, <2>1, <2>2, <3>1, IssuedIds DEF FlowRead
    <3> QED
      BY <1>0, <2>4, <3>2
  <2>5. runsBar[id] = 0 /\ runsBar'[id] = 1
    <3>1. runsBar[id] = 0
      BY <2>1, <2>4 DEF FlowRead, RunsRead
    <3>2. aid'[t] = id /\ ran'[t] > 0
      BY <1>0
    <3> QED
      BY <1>5, <2>1, <3>1, <3>2 DEF FlowRead, RunsRead
  <2>6. ASSUME NEW i \in ActionIds, i # id PROVE runsBar'[i] = runsBar[i]
    <3>1. \A d \in Decisions : (aid'[d] = i /\ ran'[d] > 0) <=> (aid[d] = i /\ ran[d] > 0)
      BY <1>0, <2>6
    <3> QED
      BY <3>1 DEF FlowRead, RunsRead
  <2>7. runsBar' = [runsBar EXCEPT ![id] = 1]
    BY <2>1, <2>5, <2>6 DEF FlowRead, RunsRead
  <2>8. Staged!Run(id)
    BY <1>0, <1>3, <2>3, <2>5, <2>7 DEF Staged!Run
  <2> QED
    BY <2>1, <2>8 DEF Staged!StagedNext
<1> QED
  BY <1>4, <1>5

(* A restart forgets what is staged and cuts short what was being approved.*)
LEMMA CrashShows ==
  ASSUME FlowRead, FlowRead', Crash
  PROVE  Staged!StagedNext
<1>0. /\ UNCHANGED <<aid, choice, call, ran, reply>> /\ Issued' = Issued /\ crashes' = crashes + 1
      /\ \A id \in ActionIds : pending'[id] = NoCall
      /\ \A t \in Threads : pc'[t] = IF pc[t] \in {"new", "done"} THEN pc[t] ELSE "lost"
  BY DEF Crash, Issued
<1>1. \A d \in Decisions : Claimed(d)' <=> Claimed(d)
  BY <1>0 DEF Claimed
<1>2. ASSUME NEW id \in ActionIds
      PROVE  phaseBar'[id] = IF phaseBar[id] \in {"staged", "approving"} THEN "lost" ELSE phaseBar[id]
  <2>0. \A d \in Decisions : Has(d, id)' <=> Has(d, id)
    BY <1>0, <1>1 DEF Has
  <2>1. CASE id \notin Issued
    BY <1>0, <2>1 DEF FlowRead, PhaseRead
  <2>2. CASE pending[id] # NoCall
    <3>1. id \in Issued /\ \A d \in Decisions : ~Has(d, id)
      BY <2>2, IssuedIds DEF FlowRead
    <3>2. phaseBar'[id] = "lost"
      BY <1>0, <2>0, <3>1 DEF FlowRead, PhaseRead
    <3> QED
      BY <2>2, <3>2 DEF FlowRead, PhaseRead
  <2>3. ASSUME NEW d \in Decisions, Has(d, id)
        PROVE  phaseBar'[id] = IF phaseBar[id] \in {"staged", "approving"} THEN "lost" ELSE phaseBar[id]
    <3>1. phaseBar[id] = PhaseOf(d) /\ phaseBar'[id] = PhaseOf(d)'
      BY <2>0, <2>3 DEF FlowRead, PhaseRead
    <3>2. pc[d] # "new"
      BY <2>3 DEF FlowRead, SafeInv, DecisionInv, Has
    <3>3. PhaseOf(d)' = IF PhaseOf(d) \in {"staged", "approving"} THEN "lost" ELSE PhaseOf(d)
      BY <1>0, <3>2 DEF PhaseOf
    <3> QED
      BY <3>1, <3>3
  <2>4. CASE id \in Issued /\ pending[id] = NoCall /\ (\A d \in Decisions : ~Has(d, id))
    BY <1>0, <2>0, <2>4 DEF FlowRead, PhaseRead
  <2> QED
    BY <2>1, <2>2, <2>3, <2>4
<1>3. phaseBar' = [id \in ActionIds |->
                     IF phaseBar[id] \in {"staged", "approving"} THEN "lost" ELSE phaseBar[id]]
  BY <1>2 DEF FlowRead, PhaseRead
<1>4. \A id \in ActionIds : runsBar'[id] = runsBar[id]
  BY <1>0 DEF FlowRead, RunsRead
<1>5. runsBar' = runsBar
  BY <1>4 DEF FlowRead, RunsRead
<1>6. Staged!Restart
  BY <1>0, <1>3, <1>5 DEF Staged!Restart
<1> QED
  BY <1>6 DEF Staged!StagedNext

(* Every step of the threads is a step of the approval flow, or not seen. *)
LEMMA FlowStep ==
  ASSUME FlowRead, FlowRead', [Next]_vars
  PROVE  [Staged!StagedNext]_(Staged!stagedVars)
<1>0. /\ pc \in [Threads -> Phases] /\ reply \in [Threads -> Replies]
      /\ call \in [Threads -> Calls \cup {NoCall}] /\ \A t \in Threads : pc[t] # "retry"
      /\ Requests \cap Decisions = {}
  BY AgentAssumption DEF FlowRead, SafeInv, TypeInv, TypeOK, RunsOnce, AgentAssumption
<1>1. ASSUME NEW r \in Requests, Process(r) PROVE [Staged!StagedNext]_(Staged!stagedVars)
  <2>1. CASE Stage(r)
    BY <2>1, StageShows
  <2>2. CASE RunHandler(r)
    BY <2>2, RunShows
  <2>3. CASE ~Stage(r) /\ ~RunHandler(r)
    <3>1. /\ UNCHANGED <<aid, choice, pending, ran, crashes>>
          /\ \A t \in Threads : t # r => pc'[t] = pc[t] /\ reply'[t] = reply[t] /\ call'[t] = call[t]
      BY <1>0, <1>1, <2>3 DEF Process, ExecuteTool, RefuseModel, Inspect, AnswerBlocked, Retrieve, CallFails,
         GiveUp, ProseAnswer, ToolAnswer, AnswerDryRun, Announce, AnswerDirect, NotFound,
         RaiseOnClash, RefuseArgs, RunHandlerAgain, AuditRun, Goto, Answer
    <3> QED
      BY <3>1, RequestUnseen
  <2> QED
    BY <2>1, <2>2, <2>3
<1>2. ASSUME NEW d \in Decisions, Decide(d) PROVE [Staged!StagedNext]_(Staged!stagedVars)
  <2>1. CASE Claim(d)
    BY <2>1, ClaimShows
  <2>2. CASE RunHandler(d)
    BY <2>2, RunShows
  <2>3. CASE DecideUnknown(d)
    <3>1. /\ UNCHANGED <<call, pending, ran, crashes>> /\ pc[d] = "new"
          /\ \A t \in Threads : t # d => aid'[t] = aid[t] /\ pc'[t] = pc[t] /\ reply'[t] = reply[t]
          /\ \A e \in Decisions : e # d => choice'[e] = choice[e]
      BY <1>0, <2>3 DEF DecideUnknown, Goto, Answer, FlowRead, SafeInv, TypeInv, TypeOK
    <3>2. ~Claimed(d) /\ ran[d] = 0
      BY <3>1 DEF FlowRead, SafeInv, DecisionInv, TypeInv, RunsByPhase, NotRunYet
    <3>3. Issued' = Issued
      BY <1>0, <3>1 DEF Issued
    <3>4. \A e \in Decisions : /\ Claimed(e)' <=> Claimed(e)
                               /\ Claimed(e) => aid'[e] = aid[e] /\ PhaseOf(e)' = PhaseOf(e)
      BY <3>1, <3>2 DEF Claimed, PhaseOf
    <3>5. \A e \in Decisions : ran[e] > 0 => aid'[e] = aid[e]
      BY <3>1, <3>2
    <3> QED
      BY <3>1, <3>3, <3>4, <3>5, Unseen
  <2>4. ASSUME ~Claim(d), ~RunHandler(d), ~DecideUnknown(d)
        PROVE  [Staged!StagedNext]_(Staged!stagedVars)
    <3>1. /\ UNCHANGED <<aid, choice, call, pending, ran, crashes>>
          /\ pc[d] \notin {"done", "lost"}
          /\ \E x \in Phases \ {"lost"} : pc' = [pc EXCEPT ![d] = x] /\ (x = "done" \/ reply' = reply)
          /\ \A t \in Threads : t # d => reply'[t] = reply[t]
          /\ reply'[d] # "approved" \/ result[d] = "ok" \/ reply' = reply
      BY <1>0, <1>2, <2>4 DEF Decide, ExecuteTool, AnswerUnknown, AnswerRejected, AnswerApproved, NotFound,
         RaiseOnClash, RefuseArgs, RunHandlerAgain, AuditRun, Goto, Answer, Phases
    <3>2. reply'[d] = "approved" => ran[d] > 0
      BY <3>1 DEF FlowRead, SafeInv, AnswerInv
    <3> QED
      BY <3>1, <3>2, DecisionShows
  <2> QED
    BY <2>1, <2>2, <2>3, <2>4
<1>3. CASE Crash
  BY <1>3, CrashShows
<1>4. CASE UNCHANGED vars
  <2>1. UNCHANGED <<pc, aid, choice, call, pending, ran, crashes, reply>> /\ Issued' = Issued
    BY <1>4 DEF vars, Issued
  <2>2. \A e \in Decisions : (Claimed(e)' <=> Claimed(e)) /\ PhaseOf(e)' = PhaseOf(e)
    BY <2>1 DEF Claimed, PhaseOf
  <2> QED
    BY <2>1, <2>2, Unseen
<1> QED
  BY <1>1, <1>2, <1>3, <1>4 DEF Next

(* As long as handlers raise no TypeError, however many requests,          *)
(* decisions, ids and restarts there are: a destructive action is staged   *)
(* once, decided once, run at most once and only when approved, and lost   *)
(* by a restart only.                                                      *)
THEOREM AgentRefinesFlow ==
  ASSUME "type_error" \notin HandlerOutcomes
  PROVE  Spec => Staged!StagedInit /\ [][Staged!StagedNext]_(Staged!stagedVars)
<1>1. Init => RunsOnce
  BY DEF Init, RunsOnce
<1>2. SafeInv /\ RunsOnce /\ [Next]_vars => RunsOnce'
  BY RunsOnceStep
<1>3. Init => Staged!StagedInit
  <2> SUFFICES ASSUME Init PROVE Staged!StagedInit
    OBVIOUS
  <2>1. PhaseRead /\ RunsRead
    BY <1>1, SafeInit, ReadPhase, ReadRuns
  <2>2. Issued = {} /\ \A d \in Decisions : ran[d] = 0
    BY DEF Init, Issued
  <2>3. phaseBar = [id \in ActionIds |-> "free"] /\ runsBar = [id \in ActionIds |-> 0]
    BY <2>1, <2>2 DEF PhaseRead, RunsRead
  <2> QED
    BY <2>3 DEF Init, Staged!StagedInit
<1>4. FlowRead /\ FlowRead' /\ [Next]_vars => [Staged!StagedNext]_(Staged!stagedVars)
  BY FlowStep
<1> QED
  BY SafeCorrect, ReadFlow, <1>1, <1>2, <1>3, <1>4, PTL DEF Spec

=============================================================================
