---------------------------- MODULE AuditTrailProofs ----------------------------
(* What the audit trail tells of the runs and decisions of GuardedAgent,   *)
(* for every value of its constants.                                       *)
EXTENDS GuardedAgentProofs

RunRecorded(t) == \/ Recorded(t, "tool.execution", "success")
                  \/ Recorded(t, "tool.execution", "failed")

Decided(d) == \E status \in {"approved", "failed", "rejected"} :
                Recorded(d, "tool.approval", status)

(* What is in the trail did happen, and its thread is past changing it.    *)
NothingInvented ==
  /\ \A t \in Threads :
       /\ pc[t] = "handled" => ran[t] > 0
       /\ pc[t] = "retry" => result[t] # "ok"
       /\ RunRecorded(t) => pc[t] \in {"executed", "done", "lost"} /\ ran[t] > 0
       /\ Recorded(t, "tool.execution", "success") => result[t] = "ok"
       /\ Recorded(t, "tool.execution", "failed") => result[t] # "ok"
  /\ \A d \in Decisions :
       /\ Decided(d) => Claimed(d) /\ pc[d] = "done"
       /\ Recorded(d, "tool.approval", "approved") => result[d] = "ok"
       /\ Recorded(d, "tool.approval", "rejected") => ran[d] = 0

(* What the code has gone past without an event of it in the trail: a run  *)
(* when its thread is back from the registry, an offer when its client     *)
(* knows the id.                                                           *)
RunOwed(t) == /\ pc[t] \in {"executed", "done"}
              /\ ran[t] = 1 \/ result[t] = "ok"
              /\ ~RunRecorded(t)

OfferOwed(t) == /\ t \in Requests /\ reply[t] = "pending_approval"
                /\ ~Recorded(t, "tool.approval", "pending")

Owed(t) == RunOwed(t) \/ OfferOwed(t)

Gaps == {t \in Threads : Owed(t)}

(* Each gap has a failed append of its own. *)
GapsCounted == IsFiniteSet(Gaps) /\ Cardinality(Gaps) <= auditFailures

TrailInv == SafeInv /\ NothingInvented /\ GapsCounted

(* A step opens a gap only where an append fails, and then one. *)
OneGapAFailure ==
  \/ /\ auditFailures' = auditFailures
     /\ \A t \in Threads : Owed(t)' => Owed(t)
  \/ /\ auditFailures' = auditFailures + 1
     /\ \E u \in Threads : \A t \in Threads : Owed(t)' => Owed(t) \/ t = u

USE DEF Threads

(* A fresh engine has nothing to tell and has told nothing. *)
LEMMA TrailInit == Init => TrailInv
<1> SUFFICES ASSUME Init PROVE TrailInv
  OBVIOUS
<1>1. SafeInv /\ NothingInvented
  BY SafeInit, AgentAssumption
  DEF Init, NothingInvented, RunRecorded, Decided, Recorded, Claimed
<1>2. Gaps = {} /\ auditFailures = 0
  BY AgentAssumption DEF Init, Gaps, Owed, RunOwed, OfferOwed
<1> QED
  BY <1>1, <1>2, FS_EmptySet DEF TrailInv, GapsCounted

(* No step records a run or a decision that has not happened. *)
LEMMA NothingInventedStep == TrailInv /\ [Next]_vars => NothingInvented'
<1> SUFFICES ASSUME SafeInv, NothingInvented, [Next]_vars PROVE NothingInvented'
  BY DEF TrailInv
<1> USE AgentAssumption
    DEF SafeInv, TypeInv, TypeOK, RunsByPhase, NotRunYet, Goto, Answer, Audit, NoAudit,
        NothingInvented, DecisionInv, AnswerInv, RunRecorded, Decided, Recorded, Claimed, Executing
<1>1. ASSUME NEW r \in Requests, RefuseModel(r) PROVE NothingInvented'
  BY <1>1 DEF RefuseModel
<1>2. ASSUME NEW r \in Requests, Inspect(r) PROVE NothingInvented'
  BY <1>2 DEF Inspect
<1>3. ASSUME NEW r \in Requests, AnswerBlocked(r) PROVE NothingInvented'
  BY <1>3 DEF AnswerBlocked
<1>4. ASSUME NEW r \in Requests, Retrieve(r) PROVE NothingInvented'
  BY <1>4 DEF Retrieve
<1>5. ASSUME NEW r \in Requests, CallFails(r) PROVE NothingInvented'
  BY <1>5 DEF CallFails, Loop!CallFails, Loop!EndAttempt
<1>6. ASSUME NEW r \in Requests, GiveUp(r) PROVE NothingInvented'
  BY <1>6 DEF GiveUp
<1>7. ASSUME NEW r \in Requests, ProseAnswer(r) PROVE NothingInvented'
  BY <1>7 DEF ProseAnswer, Loop!ProseAnswer, Loop!EndAttempt
<1>8. ASSUME NEW r \in Requests, ToolAnswer(r) PROVE NothingInvented'
  BY <1>8 DEF ToolAnswer, Loop!ToolAnswer, Loop!EndAttempt, Route
<1>9. ASSUME NEW r \in Requests, AnswerDryRun(r) PROVE NothingInvented'
  BY <1>9 DEF AnswerDryRun
<1>10. ASSUME NEW r \in Requests, Stage(r) PROVE NothingInvented'
  BY <1>10 DEF Stage
<1>11. ASSUME NEW r \in Requests, Announce(r) PROVE NothingInvented'
  BY <1>11 DEF Announce
<1>12. ASSUME NEW r \in Requests, AnswerDirect(r) PROVE NothingInvented'
  BY <1>12 DEF AnswerDirect
<1>13. ASSUME NEW t \in Threads, NotFound(t) PROVE NothingInvented'
  BY <1>13 DEF NotFound
<1>14. ASSUME NEW t \in Threads, RaiseOnClash(t) PROVE NothingInvented'
  BY <1>14 DEF RaiseOnClash
<1>15. ASSUME NEW t \in Threads, RefuseArgs(t) PROVE NothingInvented'
  BY <1>15 DEF RefuseArgs
<1>16. ASSUME NEW t \in Threads, RunHandler(t) PROVE NothingInvented'
  BY <1>16 DEF RunHandler
<1>17. ASSUME NEW t \in Threads, RunHandlerAgain(t) PROVE NothingInvented'
  BY <1>17 DEF RunHandlerAgain
<1>18. ASSUME NEW t \in Threads, AuditRun(t) PROVE NothingInvented'
  <2> DEFINE event == [by |-> t, stage |-> "tool.execution",
                       status |-> IF result[t] = "ok" THEN "success" ELSE "failed"]
  <2>1. /\ pc[t] = "handled" /\ ran[t] > 0
        /\ UNCHANGED <<ran, result, call>>
    BY <1>18 DEF AuditRun
  <2>2. /\ \A u \in Threads \ {t} : pc'[u] = pc[u] /\ reply'[u] = reply[u]
        /\ pc'[t] \in {"executed", "done"}
        /\ reply'[t] \in {reply[t], "500"}
    BY <1>18 DEF AuditRun
  <2>3. ~RunRecorded(t) /\ reply[t] = "none"
    BY <2>1
  <2> HIDE DEF SafeInv
  <2>4. trail' \subseteq trail \cup {event}
    BY <1>18 DEF AuditRun
  <2>5. \A u \in Threads :
          /\ pc'[u] = "handled" => ran'[u] > 0
          /\ pc'[u] = "retry" => result'[u] # "ok"
    BY <2>1, <2>2
  <2>6. \A u \in Threads :
          /\ RunRecorded(u)' => pc'[u] \in {"executed", "done", "lost"} /\ ran'[u] > 0
          /\ Recorded(u, "tool.execution", "success")' => result'[u] = "ok"
          /\ Recorded(u, "tool.execution", "failed")' => result'[u] # "ok"
    BY <2>1, <2>2, <2>3, <2>4
  <2>7. \A d \in Decisions, status \in {"approved", "failed", "rejected"} :
          Recorded(d, "tool.approval", status)' => Recorded(d, "tool.approval", status)
    BY <2>4
  <2>8. \A d \in Decisions : Decided(d) => d # t
    BY <2>1
  <2> QED
    BY <2>1, <2>2, <2>5, <2>6, <2>7, <2>8
<1>19. ASSUME NEW d \in Decisions, DecideUnknown(d) PROVE NothingInvented'
  BY <1>19 DEF DecideUnknown
<1>20. ASSUME NEW d \in Decisions, AnswerUnknown(d) PROVE NothingInvented'
  BY <1>20 DEF AnswerUnknown
<1>21. ASSUME NEW d \in Decisions, Claim(d) PROVE NothingInvented'
  BY <1>21 DEF Claim, Take
<1>22. ASSUME NEW d \in Decisions, AnswerRejected(d) PROVE NothingInvented'
  BY <1>22 DEF AnswerRejected
<1>23. ASSUME NEW d \in Decisions, AnswerApproved(d) PROVE NothingInvented'
  BY <1>23 DEF AnswerApproved
<1>24. ASSUME Crash PROVE NothingInvented'
  BY <1>24 DEF Crash
<1>25. ASSUME UNCHANGED vars PROVE NothingInvented'
  BY <1>25 DEF vars
<1> QED
  BY <1>1, <1>2, <1>3, <1>4, <1>5, <1>6, <1>7, <1>8, <1>9, <1>10, <1>11, <1>12, <1>13, <1>14, <1>15, <1>16, <1>17, <1>18, <1>19, <1>20, <1>21, <1>22, <1>23, <1>24, <1>25
  DEF Next, Process, Decide, ExecuteTool

(* Every path through the code has its event before the point at which     *)
(* the event is owed.                                                      *)
LEMMA GapStep == TrailInv /\ [Next]_vars => OneGapAFailure
<1> SUFFICES ASSUME SafeInv, NothingInvented, [Next]_vars PROVE OneGapAFailure
  BY DEF TrailInv
<1> USE AgentAssumption
    DEF SafeInv, TypeInv, TypeOK, RunsByPhase, NotRunYet, Goto, Answer, Audit, NoAudit,
        NothingInvented, DecisionInv, AnswerInv, OneGapAFailure, Owed, RunOwed, OfferOwed,
        RunRecorded, Recorded, Executing
<1>1. ASSUME NEW r \in Requests, RefuseModel(r) PROVE OneGapAFailure
  BY <1>1 DEF RefuseModel
<1>2. ASSUME NEW r \in Requests, Inspect(r) PROVE OneGapAFailure
  BY <1>2 DEF Inspect
<1>3. ASSUME NEW r \in Requests, AnswerBlocked(r) PROVE OneGapAFailure
  BY <1>3 DEF AnswerBlocked
<1>4. ASSUME NEW r \in Requests, Retrieve(r) PROVE OneGapAFailure
  BY <1>4 DEF Retrieve
<1>5. ASSUME NEW r \in Requests, CallFails(r) PROVE OneGapAFailure
  BY <1>5 DEF CallFails, Loop!CallFails, Loop!EndAttempt
<1>6. ASSUME NEW r \in Requests, GiveUp(r) PROVE OneGapAFailure
  BY <1>6 DEF GiveUp
<1>7. ASSUME NEW r \in Requests, ProseAnswer(r) PROVE OneGapAFailure
  BY <1>7 DEF ProseAnswer, Loop!ProseAnswer, Loop!EndAttempt
<1>8. ASSUME NEW r \in Requests, ToolAnswer(r) PROVE OneGapAFailure
  BY <1>8 DEF ToolAnswer, Loop!ToolAnswer, Loop!EndAttempt, Route
<1>9. ASSUME NEW r \in Requests, AnswerDryRun(r) PROVE OneGapAFailure
  BY <1>9 DEF AnswerDryRun
<1>10. ASSUME NEW r \in Requests, Stage(r) PROVE OneGapAFailure
  BY <1>10 DEF Stage
<1>11. ASSUME NEW r \in Requests, Announce(r) PROVE OneGapAFailure
  BY <1>11 DEF Announce
<1>12. ASSUME NEW r \in Requests, AnswerDirect(r) PROVE OneGapAFailure
  BY <1>12 DEF AnswerDirect
<1>13. ASSUME NEW t \in Threads, NotFound(t) PROVE OneGapAFailure
  BY <1>13 DEF NotFound
<1>14. ASSUME NEW t \in Threads, RaiseOnClash(t) PROVE OneGapAFailure
  BY <1>14 DEF RaiseOnClash
<1>15. ASSUME NEW t \in Threads, RefuseArgs(t) PROVE OneGapAFailure
  BY <1>15 DEF RefuseArgs
<1>16. ASSUME NEW t \in Threads, RunHandler(t) PROVE OneGapAFailure
  BY <1>16 DEF RunHandler
<1>17. ASSUME NEW t \in Threads, RunHandlerAgain(t) PROVE OneGapAFailure
  BY <1>17 DEF RunHandlerAgain
<1>18. ASSUME NEW t \in Threads, AuditRun(t) PROVE OneGapAFailure
  <2> DEFINE event == [by |-> t, stage |-> "tool.execution",
                       status |-> IF result[t] = "ok" THEN "success" ELSE "failed"]
  <2>1. /\ pc[t] = "handled" /\ ran[t] > 0
        /\ UNCHANGED <<ran, result, call>>
    BY <1>18 DEF AuditRun
  <2>2. /\ \A u \in Threads \ {t} : pc'[u] = pc[u] /\ reply'[u] = reply[u]
        /\ pc'[t] \in {"executed", "done"}
        /\ reply'[t] \in {reply[t], "500"}
    BY <1>18 DEF AuditRun
  <2>3. ~RunRecorded(t) /\ reply[t] = "none"
    BY <2>1
  <2> HIDE DEF SafeInv
  <2>4. CASE trail' = trail \cup {event} /\ auditFailures' = auditFailures
    <3>1. RunRecorded(t)' /\ reply'[t] # "pending_approval"
      BY <2>2, <2>3, <2>4
    <3>2. \A u \in Threads \ {t} : Owed(u)' => Owed(u)
      BY <2>1, <2>2, <2>4
    <3>3. ~Owed(t)'
      BY <3>1
    <3> QED
      BY <2>4, <3>2, <3>3
  <2>5. CASE trail' = trail /\ auditFailures' = auditFailures + 1
    <3>1. \A u \in Threads : Owed(u)' => Owed(u) \/ u = t
      BY <2>1, <2>2, <2>5
    <3> HIDE DEF Owed
    <3> QED
      BY <2>5, <3>1
  <2> QED
    BY <1>18, <2>4, <2>5 DEF AuditRun
<1>19. ASSUME NEW d \in Decisions, DecideUnknown(d) PROVE OneGapAFailure
  BY <1>19 DEF DecideUnknown
<1>20. ASSUME NEW d \in Decisions, AnswerUnknown(d) PROVE OneGapAFailure
  BY <1>20 DEF AnswerUnknown
<1>21. ASSUME NEW d \in Decisions, Claim(d) PROVE OneGapAFailure
  BY <1>21 DEF Claim, Take
<1>22. ASSUME NEW d \in Decisions, AnswerRejected(d) PROVE OneGapAFailure
  BY <1>22 DEF AnswerRejected
<1>23. ASSUME NEW d \in Decisions, AnswerApproved(d) PROVE OneGapAFailure
  BY <1>23 DEF AnswerApproved
<1>24. ASSUME Crash PROVE OneGapAFailure
  BY <1>24 DEF Crash
<1>25. ASSUME UNCHANGED vars PROVE OneGapAFailure
  BY <1>25 DEF vars
<1> QED
  BY <1>1, <1>2, <1>3, <1>4, <1>5, <1>6, <1>7, <1>8, <1>9, <1>10, <1>11, <1>12, <1>13, <1>14, <1>15, <1>16, <1>17, <1>18, <1>19, <1>20, <1>21, <1>22, <1>23, <1>24, <1>25
  DEF Next, Process, Decide, ExecuteTool

(* So the gaps never outnumber the failed appends. *)
LEMMA GapsCountedStep == TrailInv /\ [Next]_vars => GapsCounted'
<1> SUFFICES ASSUME TrailInv, [Next]_vars PROVE GapsCounted'
  OBVIOUS
<1>1. /\ IsFiniteSet(Gaps) /\ Cardinality(Gaps) \in Nat
      /\ Cardinality(Gaps) <= auditFailures /\ auditFailures \in Nat
  <2>1. IsFiniteSet(Gaps) /\ Cardinality(Gaps) <= auditFailures
    BY DEF TrailInv, GapsCounted
  <2>2. auditFailures \in Nat
    BY AgentAssumption DEF TrailInv, SafeInv, TypeInv, TypeOK
  <2> QED
    BY <2>1, <2>2, FS_CardinalityType
<1>2. OneGapAFailure
  BY GapStep
<1>3. CASE auditFailures' = auditFailures /\ \A t \in Threads : Owed(t)' => Owed(t)
  <2>1. Gaps' \in SUBSET Gaps
    BY <1>3 DEF Gaps
  <2>2. IsFiniteSet(Gaps') /\ Cardinality(Gaps') <= Cardinality(Gaps)
    BY <1>1, <2>1, FS_Subset
  <2>3. Cardinality(Gaps') \in Nat
    BY <2>2, FS_CardinalityType
  <2> QED
    BY <1>1, <1>3, <2>2, <2>3 DEF GapsCounted
<1>4. CASE /\ auditFailures' = auditFailures + 1
           /\ \E u \in Threads : \A t \in Threads : Owed(t)' => Owed(t) \/ t = u
  <2>1. PICK u \in Threads : \A t \in Threads : Owed(t)' => Owed(t) \/ t = u
    BY <1>4
  <2> DEFINE Wider == Gaps \cup {u}
  <2>2. Gaps' \in SUBSET Wider
    BY <2>1 DEF Gaps
  <2>3. /\ IsFiniteSet(Wider)
        /\ Cardinality(Wider) = IF u \in Gaps THEN Cardinality(Gaps) ELSE Cardinality(Gaps) + 1
    BY <1>1, FS_AddElement
  <2>4. IsFiniteSet(Gaps') /\ Cardinality(Gaps') <= Cardinality(Wider)
    BY <2>2, <2>3, FS_Subset
  <2>5. Cardinality(Gaps') \in Nat /\ Cardinality(Wider) <= Cardinality(Gaps) + 1
    <3>1. Cardinality(Gaps') \in Nat
      BY <2>4, FS_CardinalityType
    <3> QED
      BY <1>1, <2>3, <3>1
  <2>6. Cardinality(Wider) \in Nat
    BY <2>3, FS_CardinalityType
  <2>7. Cardinality(Gaps') <= auditFailures'
    BY <1>1, <1>4, <2>4, <2>5, <2>6
  <2> QED
    BY <2>4, <2>7 DEF GapsCounted
<1> QED
  BY <1>2, <1>3, <1>4 DEF OneGapAFailure

(* The trail and the engine agree in every reachable state. *)
THEOREM TrailCorrect == Spec => []TrailInv
<1>1. TrailInv /\ [Next]_vars => SafeInv'
  BY SafeStep DEF TrailInv
<1>2. TrailInv /\ [Next]_vars => TrailInv'
  BY <1>1, NothingInventedStep, GapsCountedStep DEF TrailInv
<1> QED
  BY TrailInit, <1>2, PTL DEF Spec

(* Whatever is left out of the trail by threads that owe it is within the  *)
(* number of failed appends.                                               *)
LEMMA FewMissing ==
  ASSUME TrailInv, NEW M \in SUBSET Gaps
  PROVE  Cardinality(M) <= auditFailures
<1>1. IsFiniteSet(Gaps) /\ Cardinality(Gaps) <= auditFailures
  BY DEF TrailInv, GapsCounted
<1>2. IsFiniteSet(M) /\ Cardinality(M) <= Cardinality(Gaps)
  BY <1>1, FS_Subset
<1>3. Cardinality(M) \in Nat /\ Cardinality(Gaps) \in Nat /\ auditFailures \in Nat
  BY <1>1, <1>2, FS_CardinalityType, AgentAssumption DEF TrailInv, SafeInv, TypeInv, TypeOK
<1> QED
  BY <1>1, <1>2, <1>3

(* Every run of a handler whose client has its answer is recorded as what  *)
(* it came to, but for one run a failed append, and no run is recorded     *)
(* that did not take place.                                                *)
THEOREM RunsRecordedHold == Spec => []RunsRecorded
<1>1. TrailInv => RunsRecorded
  <2> SUFFICES ASSUME TrailInv PROVE RunsRecorded
    OBVIOUS
  <2> DEFINE M == {t \in Threads : /\ pc[t] = "done" /\ (ran[t] = 1 \/ result[t] = "ok")
                                   /\ ~Recorded(t, "tool.execution", "success")
                                   /\ ~Recorded(t, "tool.execution", "failed")}
  <2>1. M \in SUBSET Gaps
    BY DEF Gaps, Owed, RunOwed, RunRecorded
  <2>2. Cardinality(M) <= auditFailures
    BY <2>1, FewMissing
  <2>3. \A t \in Threads :
          /\ Recorded(t, "tool.execution", "success") => ran[t] > 0 /\ result[t] = "ok"
          /\ Recorded(t, "tool.execution", "failed") => ran[t] > 0 /\ result[t] # "ok"
    BY DEF TrailInv, NothingInvented, RunRecorded
  <2> QED
    BY <2>2, <2>3 DEF RunsRecorded
<1> QED
  BY TrailCorrect, <1>1, PTL

(* A recorded decision decided an offer of that very call which its client *)
(* had been told of; "approved" means that it ran, "rejected" that it did  *)
(* not; and the records of the offers and of the runs behind recorded      *)
(* decisions are there but for one a failed append.                        *)
THEOREM DecisionsRecordedHold == Spec => []DecisionsRecorded
<1>1. TrailInv => DecisionsRecorded
  <2> SUFFICES ASSUME TrailInv PROVE DecisionsRecorded
    OBVIOUS
  <2> DEFINE decides(d, status) == Recorded(d, "tool.approval", status)
             offered(r, d) == Offered(r, aid[d], call[d])
             offersMissing ==
               {r \in Requests :
                  /\ ~Recorded(r, "tool.approval", "pending")
                  /\ \E d \in Decisions, status \in {"approved", "failed", "rejected"} :
                       decides(d, status) /\ offered(r, d)}
             runsMissing ==
               {d \in Decisions : decides(d, "approved") /\ ~Recorded(d, "tool.execution", "success")}
  <2>1. ASSUME NEW d \in Decisions, NEW status \in {"approved", "failed", "rejected"},
               decides(d, status)
        PROVE  /\ \E r \in Requests : offered(r, d)
               /\ status = "approved" => ran[d] > 0
               /\ status = "rejected" => ran[d] = 0
    <3>1. Decided(d) /\ Claimed(d)
      BY <2>1 DEF TrailInv, NothingInvented, Decided
    <3> QED
      BY <2>1, <3>1 DEF TrailInv, NothingInvented, SafeInv, DecisionInv, AnswerInv
  <2>2. offersMissing \in SUBSET Gaps
    BY DEF Gaps, Owed, OfferOwed, Offered
  <2>3. ASSUME NEW d \in runsMissing PROVE Owed(d)
    <3>1. Decided(d) /\ pc[d] = "done" /\ result[d] = "ok"
      BY DEF TrailInv, NothingInvented, Decided
    <3>2. ~RunRecorded(d)
      BY <3>1 DEF TrailInv, NothingInvented, RunRecorded
    <3> QED
      BY <3>1, <3>2 DEF Owed, RunOwed
  <2>4. runsMissing \in SUBSET Gaps
    BY <2>3 DEF Gaps
  <2>5. Cardinality(offersMissing \cup runsMissing) <= auditFailures
    <3>1. offersMissing \cup runsMissing \in SUBSET Gaps
      BY <2>2, <2>4
    <3> QED
      BY <3>1, FewMissing
  <2> HIDE DEF decides, offered, offersMissing, runsMissing
  <2>6. /\ \A d \in Decisions, status \in {"approved", "failed", "rejected"} :
             decides(d, status) =>
               /\ \E r \in Requests : offered(r, d)
               /\ status = "approved" => ran[d] > 0
               /\ status = "rejected" => ran[d] = 0
        /\ Cardinality(offersMissing \cup runsMissing) <= auditFailures
    BY <2>1, <2>5
  <2> QED
    BY <2>6 DEF DecisionsRecorded, decides, offered, offersMissing, runsMissing
<1> QED
  BY TrailCorrect, <1>1, PTL

=============================================================================
