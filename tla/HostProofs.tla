------------------------------ MODULE HostProofs ------------------------------
(***************************************************************************)
(* Theorems about Host, for any calls, addresses, services, changes of the *)
(* installed programs and restarts of the engine.                          *)
(***************************************************************************)
EXTENDS Host, FiniteSetTheorems, TLAPS

(* The types the proofs need; the bound on the number of rules is not      *)
(* among them.                                                             *)
HostTypes ==
  /\ unit \in [Services -> {"up", "stopping", "down"}]
  /\ pc \in [Calls -> {"idle", "run", "start", "done"}]
  /\ job \in [Calls -> Jobs \cup {NoJob}]
  /\ via \in [Calls -> Backends \cup Managers \cup {NoProgram}]
  /\ said \in [Calls -> SUBSET Results]
  /\ dead \subseteq Calls
  /\ downBy \in [Services -> Calls \cup {NoCall}]

(* A call that runs a service manager is to restart a service. *)
OnServices ==
  \A c \in Calls : pc[c] \in {"run", "start"} /\ via[c] \in Managers => job[c].on \in Services

(* A call that took a service down is past its first command, and the      *)
(* service is the one it was to restart.                                   *)
TakenDown ==
  \A s \in Services, c \in Calls : downBy[s] = c =>
    pc[c] \in {"start", "done"} /\ job[c].on = s

(* Only sc is asked for twice. *)
StartsWithSc == \A c \in Calls : pc[c] = "start" => via[c] = "sc"

DownInv == HostTypes /\ OnServices /\ TakenDown /\ StartsWithSc /\ DownIsTold

(* Nothing has begun. *)
LEMMA HostInit == Init => DownInv
<1> SUFFICES ASSUME Init PROVE DownInv
  OBVIOUS
<1>1. HostTypes
  BY DEF Init, HostTypes
<1>2. OnServices /\ TakenDown /\ StartsWithSc
  BY HostAssumption DEF Init, OnServices, TakenDown, StartsWithSc
<1>3. DownIsTold
  BY DEF Init, DownIsTold
<1> QED
  BY <1>1, <1>2, <1>3 DEF DownInv

(* A handler begins: it runs a service manager only to restart a service.  *)
LEMMA BeginStep ==
  ASSUME DownInv, NEW c \in Calls, pc[c] = "idle",
         NEW j \in Jobs, NEW p \in Backends \cup Managers \cup {NoProgram},
         p \in Managers => j.on \in Services,
         Begin(c, j, p), UNCHANGED <<unit, said, downBy, dead>>
  PROVE  DownInv'
<1>1. HostTypes'
  BY DEF DownInv, HostTypes, Begin
<1>2. OnServices'
  BY DEF DownInv, HostTypes, OnServices, Begin
<1>3. TakenDown'
  BY DEF DownInv, HostTypes, TakenDown, Begin
<1>4. StartsWithSc'
  BY DEF DownInv, HostTypes, StartsWithSc, Begin
<1>5. DownIsTold'
  BY DEF DownInv, HostTypes, TakenDown, DownIsTold, Begin
<1> QED
  BY <1>1, <1>2, <1>3, <1>4, <1>5 DEF DownInv

(* Whatever is chosen, a handler begins. *)
LEMMA ChooseStep ==
  ASSUME DownInv, NEW c \in Calls, Choose(c)
  PROVE  DownInv'
<1>1. pc[c] = "idle" /\ UNCHANGED <<unit, said, downBy, dead>>
  BY DEF Choose, worldVars
<1>2. ASSUME NEW a \in Addresses, NEW op \in {"block", "rollback"},
             NEW p \in Backends \cup {NoProgram},
             Begin(c, [op |-> op, on |-> a], p)
      PROVE  DownInv'
  <2>1. [op |-> op, on |-> a] \in Jobs
    BY DEF Jobs
  <2>2. p \notin Managers
    BY DEF Backends, NoProgram, Managers
  <2> QED
    BY <1>1, <1>2, <2>1, <2>2, BeginStep
<1>3. ASSUME NEW s \in Services, Begin(c, [op |-> "restart", on |-> s], RestartVia)
      PROVE  DownInv'
  <2>1. [op |-> "restart", on |-> s] \in Jobs
    BY DEF Jobs
  <2>2. RestartVia \in Managers \cup {NoProgram}
    BY DEF RestartVia, Prefer, Managers, NoProgram
  <2> QED
    BY <1>1, <1>3, <2>1, <2>2, BeginStep
<1>4. BlockVia \in Backends \cup {NoProgram} /\ RollbackVia \in Backends \cup {NoProgram}
  BY DEF BlockVia, RollbackVia, Prefer, Backends, NoProgram
<1> QED
  BY <1>2, <1>3, <1>4 DEF Choose

-----------------------------------------------------------------------------
(* Commands.                                                               *)

(* A command adds its result to the text of its call and to no other; one  *)
(* that has not worked is no plain success.                                *)
LEMMA CommandSays ==
  ASSUME HostTypes, NEW c \in Calls, Works(c) \/ Fails(c)
  PROVE  /\ said' \in [Calls -> SUBSET Results]
         /\ \A d \in Calls : d # c => said'[d] = said[d]
         /\ Fails(c) => said'[c] # {"ok"}
  BY DEF HostTypes, Works, Fails, Says, Results

(* A call at its first command has not taken any service down, so that     *)
(* what it does to its text and its place disturbs nothing.                *)
LEMMA RunningTookNone ==
  ASSUME DownInv, NEW c \in Calls, pc[c] = "run", NEW s \in Services
  PROVE  downBy[s] # c
  BY DEF DownInv, TakenDown

(* A call of the firewall leaves services alone. *)
LEMMA FirewallStep ==
  ASSUME DownInv, NEW c \in Calls, pc[c] = "run", Works(c) \/ Fails(c), Answer(c),
         UNCHANGED <<unit, job, via, downBy, dead>>
  PROVE  DownInv'
<1>1. /\ said' \in [Calls -> SUBSET Results]
      /\ \A d \in Calls : d # c => said'[d] = said[d]
  BY CommandSays DEF DownInv
<1>2. \A s \in Services : downBy[s] # c
  BY RunningTookNone
<1>3. HostTypes'
  BY <1>1 DEF DownInv, HostTypes, Answer
<1>4. OnServices' /\ StartsWithSc'
  BY DEF DownInv, HostTypes, OnServices, StartsWithSc, Answer
<1>5. TakenDown'
  BY <1>2 DEF DownInv, HostTypes, TakenDown, Answer
<1>6. DownIsTold'
  BY <1>1, <1>2 DEF DownInv, HostTypes, DownIsTold, Answer
<1> QED
  BY <1>3, <1>4, <1>5, <1>6 DEF DownInv

(* systemctl restart brings the service up, or its text tells that it has  *)
(* not.                                                                    *)
LEMMA RestartStep ==
  ASSUME DownInv, NEW c \in Calls, Restart(c)
  PROVE  DownInv'
<1> DEFINE s0 == job[c].on
<1>1. /\ pc[c] = "run" /\ Answer(c) /\ s0 \in Services
      /\ UNCHANGED <<job, via, dead>> /\ (Works(c) \/ Fails(c))
  BY DEF DownInv, OnServices, Restart, worldVars, Managers
<1>2. /\ said' \in [Calls -> SUBSET Results]
      /\ \A d \in Calls : d # c => said'[d] = said[d]
      /\ Fails(c) => said'[c] # {"ok"}
  BY <1>1, CommandSays DEF DownInv
<1>3. \A s \in Services : downBy[s] # c
  BY <1>1, RunningTookNone
<1>4. CASE UNCHANGED <<unit, downBy>>
  BY <1>1, <1>4, FirewallStep
<1>5. CASE SetUnit(c, s0, "up")
  <2>1. HostTypes'
    BY <1>1, <1>2, <1>5 DEF DownInv, HostTypes, Answer, SetUnit
  <2>2. OnServices' /\ StartsWithSc'
    BY <1>1 DEF DownInv, HostTypes, OnServices, StartsWithSc, Answer
  <2>3. TakenDown'
    BY <1>1, <1>3, <1>5 DEF DownInv, HostTypes, TakenDown, Answer, SetUnit
  <2>4. DownIsTold'
    BY <1>1, <1>2, <1>3, <1>5 DEF DownInv, HostTypes, DownIsTold, Answer, SetUnit
  <2> QED
    BY <2>1, <2>2, <2>3, <2>4 DEF DownInv
<1>6. CASE Fails(c) /\ SetUnit(c, s0, "down")
  <2>1. HostTypes'
    BY <1>1, <1>2, <1>6 DEF DownInv, HostTypes, Answer, SetUnit
  <2>2. OnServices' /\ StartsWithSc'
    BY <1>1 DEF DownInv, HostTypes, OnServices, StartsWithSc, Answer
  <2>3. TakenDown'
    BY <1>1, <1>3, <1>6 DEF DownInv, HostTypes, TakenDown, Answer, SetUnit
  <2>4. DownIsTold'
    BY <1>1, <1>2, <1>3, <1>6 DEF DownInv, HostTypes, DownIsTold, Answer, SetUnit
  <2> QED
    BY <2>1, <2>2, <2>3, <2>4 DEF DownInv
<1> QED
  BY <1>4, <1>5, <1>6 DEF Restart

(* sc stop: the call that took the service down goes on to start it, or    *)
(* the engine was killed in it.                                            *)
LEMMA StopStep ==
  ASSUME DownInv, NEW c \in Calls, Stop(c)
  PROVE  DownInv'
<1> DEFINE s0 == job[c].on
<1>1. /\ pc[c] = "run" /\ via[c] = "sc" /\ s0 \in Services
      /\ pc' = [pc EXCEPT ![c] = IF c \in dead \/ "raised" \in said'[c] THEN "done" ELSE "start"]
      /\ UNCHANGED <<job, via, dead>> /\ (Works(c) \/ Fails(c))
      /\ SetUnit(c, s0, "stopping") \/ UNCHANGED <<unit, downBy>>
  BY DEF DownInv, OnServices, Stop, worldVars, Managers
<1>2. /\ said' \in [Calls -> SUBSET Results]
      /\ \A d \in Calls : d # c => said'[d] = said[d]
  BY <1>1, CommandSays DEF DownInv
<1>3. \A s \in Services : downBy[s] # c
  BY <1>1, RunningTookNone
<1>4. HostTypes'
  BY <1>1, <1>2 DEF DownInv, HostTypes, SetUnit
<1>5. OnServices' /\ StartsWithSc'
  BY <1>1 DEF DownInv, HostTypes, OnServices, StartsWithSc
<1>6. TakenDown'
  BY <1>1, <1>3 DEF DownInv, HostTypes, TakenDown, SetUnit
<1>7. DownIsTold'
  BY <1>1, <1>2, <1>3 DEF DownInv, HostTypes, DownIsTold, SetUnit
<1> QED
  BY <1>4, <1>5, <1>6, <1>7 DEF DownInv

(* sc start: the service is up, or the text tells that it is not. *)
LEMMA StartStep ==
  ASSUME DownInv, NEW c \in Calls, Start(c)
  PROVE  DownInv'
<1> DEFINE s0 == job[c].on
<1>1. /\ pc[c] = "start" /\ Answer(c) /\ s0 \in Services
      /\ UNCHANGED <<job, via, dead>> /\ (Works(c) \/ Fails(c))
      /\ \/ SetUnit(c, s0, "up")
         \/ Fails(c) /\ UNCHANGED <<unit, downBy>>
  BY DEF DownInv, OnServices, StartsWithSc, Start, worldVars, Managers
<1>2. /\ said' \in [Calls -> SUBSET Results]
      /\ \A d \in Calls : d # c => said'[d] = said[d]
      /\ Fails(c) => said'[c] # {"ok"}
  BY <1>1, CommandSays DEF DownInv
<1>3. \A s \in Services : downBy[s] = c => s = s0
  BY DEF DownInv, TakenDown
<1>4. HostTypes'
  BY <1>1, <1>2 DEF DownInv, HostTypes, Answer, SetUnit
<1>5. OnServices' /\ StartsWithSc'
  BY <1>1 DEF DownInv, HostTypes, OnServices, StartsWithSc, Answer
<1>6. TakenDown'
  BY <1>1 DEF DownInv, HostTypes, TakenDown, Answer, SetUnit
<1>7. DownIsTold'
  BY <1>1, <1>2, <1>3 DEF DownInv, HostTypes, DownIsTold, Answer, SetUnit
<1> QED
  BY <1>4, <1>5, <1>6, <1>7 DEF DownInv

-----------------------------------------------------------------------------
(* The theorems.                                                           *)

(* Every step of the host and of the engine keeps the invariant. *)
LEMMA DownStep == DownInv /\ [Next]_vars => DownInv'
<1> SUFFICES ASSUME DownInv, [Next]_vars PROVE DownInv'
  OBVIOUS
<1>1. ASSUME NEW c \in Calls, Block(c) \/ Rollback(c) PROVE DownInv'
  BY <1>1, FirewallStep DEF Block, Rollback, worldVars
<1>2. ASSUME NEW c \in Calls, Handler(c) PROVE DownInv'
  BY <1>1, <1>2, ChooseStep, RestartStep, StopStep, StartStep DEF Handler
<1>3. ASSUME NEW s \in Services, StopEnds(s) PROVE DownInv'
  <2>1. /\ unit[s] = "stopping" /\ unit' = [unit EXCEPT ![s] = "down"]
        /\ UNCHANGED <<pc, job, via, said, dead, downBy>>
    BY <1>3 DEF StopEnds, worldVars
  <2>2. HostTypes' /\ OnServices' /\ TakenDown' /\ StartsWithSc'
    BY <2>1 DEF DownInv, HostTypes, OnServices, TakenDown, StartsWithSc
  <2>3. DownIsTold'
    BY <2>1 DEF DownInv, HostTypes, DownIsTold
  <2> QED
    BY <2>2, <2>3 DEF DownInv
<1>4. CASE ChangePrograms \/ Crash \/ UNCHANGED vars
  <2>1. UNCHANGED <<unit, pc, job, via, said, downBy>> /\ dead \subseteq dead' /\ dead' \subseteq dead \cup Calls
    BY <1>4 DEF ChangePrograms, Crash, vars
  <2>2. HostTypes' /\ OnServices' /\ TakenDown' /\ StartsWithSc'
    BY <2>1 DEF DownInv, HostTypes, OnServices, TakenDown, StartsWithSc
  <2>3. DownIsTold'
    BY <2>1 DEF DownInv, DownIsTold
  <2> QED
    BY <2>2, <2>3 DEF DownInv
<1> QED
  BY <1>2, <1>3, <1>4 DEF Next

(* However many restarts of however many services interleave, with         *)
(* commands that end in any way and an engine killed anywhere: no service  *)
(* is down unless the call that took it down is busy, tells, ended in an   *)
(* error or was killed.                                                    *)
THEOREM DownIsToldHolds == Spec => []DownIsTold
<1>1. DownInv => DownIsTold
  BY DEF DownInv
<1> QED
  BY HostInit, DownStep, <1>1, PTL DEF Spec

(* While no program has come or gone, every firewall call that has chosen  *)
(* has chosen the program it would choose now.                             *)
ViaInv ==
  /\ changes \in Nat
  /\ job \in [Calls -> Jobs \cup {NoJob}]
  /\ via \in [Calls -> Backends \cup Managers \cup {NoProgram}]
  /\ changes = 0 =>
       \A c \in Calls : /\ job[c].op = "block" => via[c] = BlockVia
                        /\ job[c].op = "rollback" => via[c] = RollbackVia

(* As long as no program is installed or removed, blocks and rollbacks of  *)
(* any number of threads go to the same firewall.                          *)
THEOREM RollbackFollows == Spec => []RollbackFollowsBlock
<1>1. Init => ViaInv
  BY DEF Init, ViaInv, NoJob, NoProgram
<1>2. ViaInv /\ [Next]_vars => ViaInv'
  <2> SUFFICES ASSUME ViaInv, [Next]_vars PROVE ViaInv'
    OBVIOUS
  <2>1. ASSUME NEW c \in Calls, NEW j \in Jobs, NEW p \in Backends \cup Managers \cup {NoProgram},
               Begin(c, j, p), UNCHANGED <<changes, installed>>,
               j.op = "block" => p = BlockVia, j.op = "rollback" => p = RollbackVia
        PROVE  ViaInv'
    BY <2>1 DEF ViaInv, Begin, BlockVia, RollbackVia, Prefer
  <2>2. ASSUME NEW c \in Calls, Choose(c) PROVE ViaInv'
    <3>1. /\ BlockVia \in Backends \cup {NoProgram} /\ RollbackVia \in Backends \cup {NoProgram}
          /\ RestartVia \in Managers \cup {NoProgram}
      BY DEF BlockVia, RollbackVia, RestartVia, Prefer, Backends, Managers, NoProgram
    <3>2. UNCHANGED <<changes, installed>>
      BY <2>2 DEF Choose, worldVars
    <3>3. ASSUME NEW a \in Addresses, Begin(c, [op |-> "block", on |-> a], BlockVia) PROVE ViaInv'
      <4>1. [op |-> "block", on |-> a] \in Jobs
        BY DEF Jobs
      <4> QED
        BY <2>1, <3>1, <3>2, <3>3, <4>1
    <3>4. ASSUME NEW a \in Addresses, Begin(c, [op |-> "rollback", on |-> a], RollbackVia) PROVE ViaInv'
      <4>1. [op |-> "rollback", on |-> a] \in Jobs
        BY DEF Jobs
      <4> QED
        BY <2>1, <3>1, <3>2, <3>4, <4>1
    <3>5. ASSUME NEW s \in Services, Begin(c, [op |-> "restart", on |-> s], RestartVia) PROVE ViaInv'
      <4>1. [op |-> "restart", on |-> s] \in Jobs
        BY DEF Jobs
      <4> QED
        BY <2>1, <3>1, <3>2, <3>5, <4>1
    <3> QED
      BY <2>2, <3>3, <3>4, <3>5 DEF Choose
  <2>3. CASE ChangePrograms
    BY <2>3 DEF ViaInv, ChangePrograms
  <2>4. CASE UNCHANGED <<changes, installed, job, via>>
    BY <2>4 DEF ViaInv, BlockVia, RollbackVia, Prefer
  <2>5. ASSUME NEW c \in Calls, Handler(c) PROVE ViaInv'
    BY <2>2, <2>4, <2>5 DEF Handler, Block, Rollback, Restart, Stop, Start, worldVars
  <2> QED
    BY <2>3, <2>4, <2>5 DEF Next, StopEnds, Crash, vars, worldVars
<1>3. ViaInv => RollbackFollowsBlock
  BY DEF ViaInv, RollbackFollowsBlock, BlockVia, RollbackVia
<1> QED
  BY <1>1, <1>2, <1>3, PTL DEF Spec

-----------------------------------------------------------------------------
(* What the texts tell of the firewall.                                    *)

(* The calls that went through a program are counted. *)
LEMMA CallsCounted ==
  ASSUME NEW p, NEW j
  PROVE  /\ IsFiniteSet(Told(p, j)) /\ Cardinality(Told(p, j)) \in 0..Cardinality(Calls)
         /\ IsFiniteSet(MayHave(p, j)) /\ Cardinality(MayHave(p, j)) \in 0..Cardinality(Calls)
<1>1. IsFiniteSet(Calls) /\ Cardinality(Calls) \in Nat
  BY HostAssumption, FS_CardinalityType DEF HostAssumption
<1>2. Told(p, j) \in SUBSET Calls /\ MayHave(p, j) \in SUBSET Calls
  BY DEF Told, MayHave, Through
<1>3. /\ IsFiniteSet(Told(p, j)) /\ Cardinality(Told(p, j)) <= Cardinality(Calls)
      /\ IsFiniteSet(MayHave(p, j)) /\ Cardinality(MayHave(p, j)) <= Cardinality(Calls)
  BY <1>1, <1>2, FS_Subset
<1>4. Cardinality(Told(p, j)) \in Nat /\ Cardinality(MayHave(p, j)) \in Nat
  BY <1>3, FS_CardinalityType
<1> QED
  BY <1>1, <1>3, <1>4

(* As long as no call through a firewall answers, the texts stay. *)
LEMMA TextsStay ==
  ASSUME NEW b, NEW j,
         \A c \in Calls : (pc'[c] = "done" /\ via'[c] = b) <=> (pc[c] = "done" /\ via[c] = b),
         \A c \in Calls : pc[c] = "done" /\ via[c] = b =>
           job'[c] = job[c] /\ said'[c] = said[c] /\ (c \in dead' <=> c \in dead)
  PROVE  Told(b, j)' = Told(b, j) /\ MayHave(b, j)' = MayHave(b, j)
<1>1. Through(b, j)' = Through(b, j) /\ Through(b, j) \subseteq Calls
  BY DEF Through
<1>2. \A c \in Through(b, j) : said'[c] = said[c] /\ (c \in dead' <=> c \in dead)
  BY DEF Through
<1> QED
  BY <1>1, <1>2 DEF Told, MayHave

(* A call that answers joins those of its program and its job and no       *)
(* other: as one that may have done it if it has, and not as one that      *)
(* tells success if it has not.                                            *)
LEMMA OneText ==
  ASSUME HostTypes, NEW b, NEW j, NEW c \in Calls, pc[c] = "run", Answer(c),
         Works(c) \/ Fails(c), UNCHANGED <<job, via, dead>>
  PROVE  LET mine == via[c] = b /\ job[c] = j
             told == Cardinality(Told(b, j))
             may == Cardinality(MayHave(b, j))
         IN  /\ ~mine => Cardinality(Told(b, j)') = told /\ Cardinality(MayHave(b, j)') = may
             /\ Cardinality(Told(b, j)') \in {told, told + 1}
             /\ Cardinality(MayHave(b, j)') \in {may, may + 1}
             /\ mine /\ Works(c) => Cardinality(MayHave(b, j)') = may + 1
             /\ Fails(c) => Cardinality(Told(b, j)') = told
<1>1. /\ \A d \in Calls : d # c => said'[d] = said[d]
      /\ Works(c) => said'[c] \cap {"ok", "timed_out", "raised"} # {}
      /\ Fails(c) => said'[c] # {"ok"}
  BY DEF HostTypes, Works, Fails, Says
<1>2. pc'[c] = "done" /\ \A d \in Calls : d # c => pc'[d] = pc[d]
  BY DEF HostTypes, Answer
<1>3. c \notin Told(b, j) /\ c \notin MayHave(b, j)
  BY DEF Told, MayHave, Through
<1>4. ASSUME NEW d \in Calls, d # c
      PROVE  /\ d \in Told(b, j)' <=> d \in Told(b, j)
             /\ d \in MayHave(b, j)' <=> d \in MayHave(b, j)
  BY <1>1, <1>2, <1>4 DEF Told, MayHave, Through
<1>5. Told(b, j)' \in {Told(b, j), Told(b, j) \cup {c}} /\ MayHave(b, j)' \in {MayHave(b, j), MayHave(b, j) \cup {c}}
  <2>1. Told(b, j) \subseteq Calls /\ Told(b, j)' \subseteq Calls
        /\ MayHave(b, j) \subseteq Calls /\ MayHave(b, j)' \subseteq Calls
    BY DEF Told, MayHave, Through
  <2> QED
    BY <1>3, <1>4, <2>1
<1>6. ~(via[c] = b /\ job[c] = j) => Told(b, j)' = Told(b, j) /\ MayHave(b, j)' = MayHave(b, j)
  <2>1. ~(via[c] = b /\ job[c] = j) => c \notin Told(b, j)' /\ c \notin MayHave(b, j)'
    BY DEF Told, MayHave, Through
  <2> QED
    BY <1>5, <2>1
<1>7. (via[c] = b /\ job[c] = j) /\ Works(c) => MayHave(b, j)' = MayHave(b, j) \cup {c}
  <2>1. (via[c] = b /\ job[c] = j) /\ Works(c) => c \in MayHave(b, j)'
    BY <1>1, <1>2 DEF MayHave, Through
  <2> QED
    BY <1>5, <2>1
<1>8. Fails(c) => Told(b, j)' = Told(b, j)
  <2>1. Fails(c) => c \notin Told(b, j)'
    BY <1>1 DEF Told
  <2> QED
    BY <1>5, <2>1
<1>9. /\ Cardinality(Told(b, j) \cup {c}) = Cardinality(Told(b, j)) + 1
      /\ Cardinality(MayHave(b, j) \cup {c}) = Cardinality(MayHave(b, j)) + 1
  BY <1>3, CallsCounted, FS_AddElement
<1> QED
  BY <1>5, <1>6, <1>7, <1>8, <1>9

(* The rules are counted, and the texts account for them. *)
RulesInv ==
  /\ rules \in [Backends -> [Addresses -> Nat]]
  /\ TextsAccountForRules

(* The account of one firewall and one address. *)
Account(b, a) ==
  LET block == [op |-> "block", on |-> a]
      rollback == [op |-> "rollback", on |-> a]
      undone == Cardinality(MayHave(b, rollback))
      n == rules[b][a]
  IN /\ b # "netsh" \/ undone = 0 => Cardinality(Told(b, block)) <= n + undone
     /\ n + Cardinality(Told(b, rollback)) <= Cardinality(MayHave(b, block))

(* A call of the firewall changes the rules as its text accounts for. *)
LEMMA AccountStep ==
  ASSUME HostTypes, RulesInv, NEW c \in Calls, Block(c) \/ Rollback(c)
  PROVE  RulesInv'
<1> DEFINE p == via[c]
           x == job[c].on
           Blk(a) == [op |-> "block", on |-> a]
           Rbk(a) == [op |-> "rollback", on |-> a]
<1>1. /\ pc[c] = "run" /\ Answer(c) /\ (Works(c) \/ Fails(c)) /\ UNCHANGED <<job, via, dead>>
      /\ job[c].op \in {"block", "rollback"}
  BY DEF Block, Rollback, worldVars
<1>2. x \in Addresses /\ job[c] = [op |-> job[c].op, on |-> x]
  BY <1>1 DEF HostTypes, Jobs, NoJob
<1>3. rules \in [Backends -> [Addresses -> Nat]]
  BY DEF RulesInv
<1>4. \/ job[c].op = "block" /\ Works(c) /\ SetRules(c, rules[p][x] + 1)
      \/ job[c].op = "rollback" /\ rules[p][x] > 0 /\ p # "nft" /\ Works(c) /\ SetRules(c, RulesLeft(p, rules[p][x]))
      \/ Fails(c) /\ UNCHANGED rules
  BY DEF Block, Rollback
<1>5. /\ \A b \in Backends, a \in Addresses : ~(b = p /\ a = x) => rules'[b][a] = rules[b][a]
      /\ p \in Backends => rules'[p][x] \in Nat
      /\ rules' \in [Backends -> [Addresses -> Nat]]
  BY <1>2, <1>3, <1>4 DEF SetRules, RulesLeft
<1>6. ASSUME NEW b \in Backends, NEW a \in Addresses PROVE Account(b, a)'
  <2>1. Account(b, a)
    BY DEF RulesInv, TextsAccountForRules, Account
  <2> DEFINE tb == Cardinality(Told(b, Blk(a)))
             tr == Cardinality(Told(b, Rbk(a)))
             mb == Cardinality(MayHave(b, Blk(a)))
             mr == Cardinality(MayHave(b, Rbk(a)))
             tb2 == Cardinality(Told(b, Blk(a))')
             tr2 == Cardinality(Told(b, Rbk(a))')
             mb2 == Cardinality(MayHave(b, Blk(a))')
             mr2 == Cardinality(MayHave(b, Rbk(a))')
             n == rules[b][a]
             n2 == rules'[b][a]
  <2>2. tb \in Nat /\ tr \in Nat /\ mb \in Nat /\ mr \in Nat /\ n \in Nat /\ n2 \in Nat
    <3>1. Cardinality(Calls) \in Nat
      BY HostAssumption, FS_CardinalityType DEF HostAssumption
    <3> QED
      BY <1>3, <1>5, <3>1, CallsCounted
  <2>3. /\ b # "netsh" \/ mr = 0 => tb <= n + mr
        /\ n + tr <= mb
    BY <2>1 DEF Account
  <2>4. /\ ~(p = b /\ job[c] = Blk(a)) => tb2 = tb /\ mb2 = mb
        /\ tb2 \in {tb, tb + 1} /\ mb2 \in {mb, mb + 1}
        /\ (p = b /\ job[c] = Blk(a)) /\ Works(c) => mb2 = mb + 1
        /\ Fails(c) => tb2 = tb
    BY <1>1, OneText
  <2>5. /\ ~(p = b /\ job[c] = Rbk(a)) => tr2 = tr /\ mr2 = mr
        /\ tr2 \in {tr, tr + 1} /\ mr2 \in {mr, mr + 1}
        /\ (p = b /\ job[c] = Rbk(a)) /\ Works(c) => mr2 = mr + 1
        /\ Fails(c) => tr2 = tr
    BY <1>1, OneText
  <2>6. /\ job[c] = Blk(a) <=> job[c].op = "block" /\ x = a
        /\ job[c] = Rbk(a) <=> job[c].op = "rollback" /\ x = a
    BY <1>1, <1>2
  <2>7. p = b /\ x = a =>
          \/ job[c].op = "block" /\ Works(c) /\ n2 = n + 1
          \/ /\ job[c].op = "rollback" /\ Works(c) /\ n > 0 /\ b # "nft"
             /\ n2 = IF b = "iptables" THEN n - 1 ELSE 0
          \/ Fails(c) /\ n2 = n
    BY <1>2, <1>3, <1>4 DEF SetRules, RulesLeft
  <2>8. ~(p = b /\ x = a) => n2 = n
    BY <1>5
  <2>9. /\ b # "netsh" \/ mr2 = 0 => tb2 <= n2 + mr2
        /\ n2 + tr2 <= mb2
    <3> HIDE DEF tb, tr, mb, mr, tb2, tr2, mb2, mr2, n, n2, Blk, Rbk, p, x
    <3>1. CASE ~(p = b /\ x = a)
      BY <2>2, <2>3, <2>4, <2>5, <2>6, <2>8, <3>1
    <3>2. CASE p = b /\ x = a /\ job[c].op = "block" /\ Works(c) /\ n2 = n + 1
      <4>1. tr2 = tr /\ mr2 = mr /\ mb2 = mb + 1
        BY <2>4, <2>5, <2>6, <3>2
      <4> QED
        BY <2>2, <2>3, <2>4, <3>2, <4>1
    <3>3. CASE /\ p = b /\ x = a /\ job[c].op = "rollback" /\ Works(c) /\ n > 0 /\ b # "nft"
               /\ n2 = IF b = "iptables" THEN n - 1 ELSE 0
      <4>1. tb2 = tb /\ mb2 = mb /\ mr2 = mr + 1
        BY <2>4, <2>5, <2>6, <3>3
      <4>2. b \in {"iptables", "netsh"}
        BY <3>3 DEF Backends
      <4> QED
        BY <2>2, <2>3, <2>5, <3>3, <4>1, <4>2
    <3>4. CASE p = b /\ x = a /\ Fails(c) /\ n2 = n
      BY <2>2, <2>3, <2>4, <2>5, <3>4
    <3> QED
      BY <2>7, <3>1, <3>2, <3>3, <3>4
  <2> QED
    BY <2>9 DEF Account
<1> QED
  BY <1>5, <1>6 DEF RulesInv, TextsAccountForRules, Account

(* Nothing else changes the rules, or a text about them. *)
LEMMA RulesStep == DownInv /\ RulesInv /\ [Next]_vars => RulesInv'
<1> SUFFICES ASSUME DownInv, RulesInv, [Next]_vars PROVE RulesInv'
  OBVIOUS
<1>a. ASSUME UNCHANGED rules,
             \A b \in Backends : \A c \in Calls :
               /\ (pc'[c] = "done" /\ via'[c] = b) <=> (pc[c] = "done" /\ via[c] = b)
               /\ pc[c] = "done" /\ via[c] = b =>
                    job'[c] = job[c] /\ said'[c] = said[c] /\ (c \in dead' <=> c \in dead)
      PROVE  RulesInv'
  <2>1. \A b \in Backends : \A j : Told(b, j)' = Told(b, j) /\ MayHave(b, j)' = MayHave(b, j)
    BY <1>a, TextsStay
  <2>2. ASSUME NEW b \in Backends, NEW a \in Addresses PROVE Account(b, a)'
    <3>1. Account(b, a)
      BY DEF RulesInv, TextsAccountForRules, Account
    <3>2. /\ Told(b, [op |-> "block", on |-> a])' = Told(b, [op |-> "block", on |-> a])
          /\ MayHave(b, [op |-> "block", on |-> a])' = MayHave(b, [op |-> "block", on |-> a])
          /\ Told(b, [op |-> "rollback", on |-> a])' = Told(b, [op |-> "rollback", on |-> a])
          /\ MayHave(b, [op |-> "rollback", on |-> a])' = MayHave(b, [op |-> "rollback", on |-> a])
      BY <2>1
    <3> QED
      BY <1>a, <3>1, <3>2 DEF Account
  <2> QED
    BY <1>a, <2>2 DEF RulesInv, TextsAccountForRules, Account
<1>1. ASSUME NEW c \in Calls, Block(c) \/ Rollback(c) PROVE RulesInv'
  BY <1>1, AccountStep DEF DownInv
<1>2. ASSUME NEW c \in Calls, Choose(c) PROVE RulesInv'
  <2>1. /\ UNCHANGED <<rules, said, dead>> /\ pc[c] = "idle"
        /\ \E p, j : Begin(c, j, p)
    BY <1>2 DEF Choose, worldVars
  <2>2. PICK p, j : Begin(c, j, p)
    BY <2>1
  <2>3. \A d \in Calls : d # c => pc'[d] = pc[d] /\ via'[d] = via[d] /\ job'[d] = job[d]
    BY <2>2 DEF Begin, DownInv, HostTypes
  <2>4. pc'[c] = "done" => via'[c] \notin Backends
    BY <2>2 DEF Begin, DownInv, HostTypes, NoProgram, Backends
  <2> QED
    BY <1>a, <2>1, <2>3, <2>4
<1>3. ASSUME NEW c \in Calls, Restart(c) \/ Stop(c) \/ Start(c) PROVE RulesInv'
  <2>1. /\ UNCHANGED <<rules, job, via, dead>> /\ via[c] \notin Backends /\ (Works(c) \/ Fails(c))
        /\ \A d \in Calls : d # c => pc'[d] = pc[d]
    BY <1>3 DEF Restart, Stop, Start, worldVars, Backends, DownInv, HostTypes, StartsWithSc, Answer
  <2>2. \A d \in Calls : d # c => said'[d] = said[d]
    BY <2>1, CommandSays DEF DownInv
  <2> QED
    BY <1>a, <2>1, <2>2
<1>4. CASE (\E s \in Services : StopEnds(s)) \/ ChangePrograms \/ UNCHANGED vars
  <2>1. UNCHANGED <<rules, pc, job, via, said, dead>>
    BY <1>4 DEF StopEnds, ChangePrograms, worldVars, vars
  <2> QED
    BY <1>a, <2>1
<1>5. CASE Crash
  <2>1. /\ UNCHANGED <<rules, pc, job, via, said>>
        /\ \A c \in Calls : pc[c] = "done" => (c \in dead' <=> c \in dead)
    BY <1>5 DEF Crash
  <2> QED
    BY <1>a, <2>1
<1> QED
  BY <1>1, <1>2, <1>3, <1>4, <1>5 DEF Next, Handler

(* Before the first call there are no rules and no texts. *)
LEMMA RulesInit == Init => RulesInv
<1> SUFFICES ASSUME Init PROVE RulesInv
  OBVIOUS
<1>1. \A b, j : Told(b, j) = {} /\ MayHave(b, j) = {}
  BY DEF Init, Told, MayHave, Through
<1>2. \A b, j : Cardinality(Told(b, j)) = 0 /\ Cardinality(MayHave(b, j)) = 0
  BY <1>1, FS_EmptySet
<1>3. rules = [b \in Backends |-> [a \in Addresses |-> 0]]
  BY DEF Init
<1> QED
  BY <1>2, <1>3 DEF RulesInv, TextsAccountForRules

(* However blocks and rollbacks of one address interleave, with commands   *)
(* that end in any way: its rules are as many as the texts account for.    *)
THEOREM TextsAccountHolds == Spec => []TextsAccountForRules
<1>1. RulesInv => TextsAccountForRules
  BY DEF RulesInv
<1> QED
  BY HostInit, DownStep, RulesInit, RulesStep, <1>1, PTL DEF Spec

(* A call runs a program the host has, whatever has come or gone since. *)
HostInv ==
  /\ platform \in Platforms /\ installed \subseteq platform
  /\ changes \in 0..MaxChanges /\ crashes \in 0..MaxCrashes
  /\ \A c \in Calls : pc[c] \in {"run", "start"} => via[c] \in platform

(* It is one of those that were there when it was chosen. *)
LEMMA ProgramStep == DownInv /\ HostInv /\ [Next]_vars => HostInv'
<1> SUFFICES ASSUME DownInv, HostInv, [Next]_vars PROVE HostInv'
  OBVIOUS
<1>0. MaxChanges \in Nat /\ MaxCrashes \in Nat
  BY HostAssumption DEF HostAssumption
<1>1. ASSUME NEW c \in Calls, Choose(c) PROVE HostInv'
  <2>1. UNCHANGED <<platform, installed, changes, crashes>>
    BY <1>1 DEF Choose, worldVars
  <2>2. BlockVia \in platform \cup {NoProgram} /\ RollbackVia \in platform \cup {NoProgram}
        /\ RestartVia \in platform \cup {NoProgram}
    BY DEF BlockVia, RollbackVia, RestartVia, Prefer, HostInv
  <2>3. PICK p \in platform \cup {NoProgram} : \E j : Begin(c, j, p)
    BY <1>1, <2>2 DEF Choose
  <2>4. /\ \A d \in Calls : d # c => pc'[d] = pc[d] /\ via'[d] = via[d]
        /\ pc'[c] \in {"run", "start"} => via'[c] \in platform
    BY <2>3 DEF Begin, DownInv, HostTypes
  <2> QED
    BY <2>1, <2>4 DEF HostInv
<1>2. ASSUME NEW c \in Calls, Block(c) \/ Rollback(c) \/ Restart(c) \/ Stop(c) \/ Start(c) PROVE HostInv'
  <2>1. UNCHANGED <<platform, installed, changes, crashes, via>>
    BY <1>2 DEF Block, Rollback, Restart, Stop, Start, worldVars
  <2>2. \A d \in Calls : pc'[d] \in {"run", "start"} => pc[d] \in {"run", "start"}
    BY <1>2 DEF Block, Rollback, Restart, Stop, Start, Answer, DownInv, HostTypes
  <2> QED
    BY <2>1, <2>2 DEF HostInv
<1>3. CASE ChangePrograms
  BY <1>0, <1>3 DEF ChangePrograms, HostInv
<1>4. CASE Crash
  BY <1>0, <1>4 DEF Crash, HostInv
<1>5. CASE (\E s \in Services : StopEnds(s)) \/ UNCHANGED vars
  BY <1>5 DEF StopEnds, worldVars, vars, HostInv
<1> QED
  BY <1>1, <1>2, <1>3, <1>4, <1>5 DEF Next, Handler

(* The variables of the host have their types.  No address ever has more   *)
(* rules than there are calls, and no count goes below zero.               *)
THEOREM HostTypeCorrect == Spec => []HostTypeOK
<1>1. Init => HostInv
  BY HostAssumption DEF Init, HostInv, HostAssumption
<1>2. Init => RulesInv
  BY RulesInit
<1>3. DownInv /\ RulesInv /\ HostInv => HostTypeOK
  <2> SUFFICES ASSUME DownInv, RulesInv, HostInv PROVE HostTypeOK
    OBVIOUS
  <2>1. ASSUME NEW b \in Backends, NEW a \in Addresses
        PROVE  rules[b][a] \in 0..Cardinality(Calls)
    <3> DEFINE block == [op |-> "block", on |-> a]
               rollback == [op |-> "rollback", on |-> a]
    <3>1. rules[b][a] + Cardinality(Told(b, rollback)) <= Cardinality(MayHave(b, block))
      BY DEF RulesInv, TextsAccountForRules
    <3>2. rules[b][a] \in Nat
      BY DEF RulesInv
    <3>3. /\ Cardinality(Told(b, rollback)) \in 0..Cardinality(Calls)
          /\ Cardinality(MayHave(b, block)) \in 0..Cardinality(Calls)
      BY CallsCounted
    <3>4. Cardinality(Calls) \in Nat
      BY HostAssumption, FS_CardinalityType DEF HostAssumption
    <3> QED
      BY <3>1, <3>2, <3>3, <3>4
  <2>2. rules \in [Backends -> [Addresses -> 0..Cardinality(Calls)]]
    BY <2>1 DEF RulesInv
  <2> QED
    BY <2>2 DEF DownInv, HostTypes, HostInv, HostTypeOK
<1> QED
  BY HostInit, DownStep, RulesStep, ProgramStep, <1>1, <1>2, <1>3, PTL DEF Spec

=============================================================================
