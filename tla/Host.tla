-------------------------------- MODULE Host --------------------------------
(***************************************************************************)
(* The tool handlers and rollbacks of src/tools.py against the host they   *)
(* change: firewall rules and services.  GuardedAgent decides whether a    *)
(* handler runs and knows of it only whether it returned a text or raised; *)
(* here is what that is worth.  Handlers run on the HTTP threads,          *)
(* unordered: each looks for a program with shutil.which and runs it a     *)
(* moment later.                                                           *)
(*                                                                         *)
(* What the programs do is external:                                       *)
(*   - iptables -I adds a rule even if there is one, -D removes one;       *)
(*   - nft deletes rules by handle only, so that a deletion by             *)
(*     specification fails;                                                *)
(*   - netsh adds rules under a name and deletes all rules of a name;      *)
(*   - systemctl restart waits for the result;                             *)
(*   - sc stop returns while the service is stopping, and sc start fails   *)
(*     until it has stopped.                                               *)
(* A command that fails changes no rule; one killed after 20 seconds may   *)
(* have done its work.  So may one after which subprocess.run raises,      *)
(* since it cannot decode the output; it also raises when the program      *)
(* cannot be started at all.  Dry runs never get here: the schemas have no *)
(* such argument.                                                          *)
(***************************************************************************)
EXTENDS Naturals, FiniteSets

CONSTANTS Calls,        \* calls of handlers and rollbacks
          Addresses,    \* what BlockIPSchema lets through
          Services,     \* ALLOWED_SERVICES
          NoCall,
          MaxChanges,   \* bound: programs installed or removed
          MaxCrashes    \* bound: restarts of the engine

ASSUME HostAssumption ==
  /\ IsFiniteSet(Calls) /\ NoCall \notin Calls
  /\ MaxChanges \in Nat /\ MaxCrashes \in Nat

Backends == {"iptables", "nft", "netsh"}
Managers == {"systemctl", "sc"}
NoProgram == "none"
Platforms == {{"iptables", "nft", "systemctl"}, {"netsh", "sc"}}

Jobs == [op : {"block", "rollback"}, on : Addresses] \cup [op : {"restart"}, on : Services]
NoJob == [op |-> "none"]

Results == {"ok", "failed", "missing", "timed_out", "raised"}

VARIABLES
  platform,   \* the programs there are for this host
  installed,  \* those that shutil.which finds
  changes,    \* times that has changed
  rules,      \* rules[b][a]: rules of backend b that drop packets from a
  unit,       \* unit[s]: the state of service s
  pc,         \* pc[c]: where call c is
  job, via,   \* what it is to do, and the program it has found
  said,       \* said[c]: what its commands came to, as its text or its error tells
  dead,       \* calls the engine was killed in: nobody gets their text
  downBy,     \* auxiliary: downBy[s] is the call that took service s down
  crashes

vars == <<platform, installed, changes, rules, unit, pc, job, via, said, dead,
          downBy, crashes>>

worldVars == <<platform, installed, changes, dead, crashes>>

HostTypeOK ==
  /\ platform \in Platforms /\ installed \subseteq platform
  /\ changes \in 0..MaxChanges /\ crashes \in 0..MaxCrashes
  /\ rules \in [Backends -> [Addresses -> 0..Cardinality(Calls)]]
  /\ unit \in [Services -> {"up", "stopping", "down"}]
  /\ pc \in [Calls -> {"idle", "run", "start", "done"}]
  /\ job \in [Calls -> Jobs \cup {NoJob}]
  /\ via \in [Calls -> Backends \cup Managers \cup {NoProgram}]
  /\ said \in [Calls -> SUBSET Results]
  /\ dead \subseteq Calls
  /\ downBy \in [Services -> Calls \cup {NoCall}]
  /\ \A c \in Calls : pc[c] \in {"run", "start"} => via[c] \in platform

Init ==
  /\ platform \in Platforms /\ installed \in SUBSET platform
  /\ changes = 0 /\ crashes = 0
  /\ rules = [b \in Backends |-> [a \in Addresses |-> 0]]
  /\ unit = [s \in Services |-> "up"]
  /\ pc = [c \in Calls |-> "idle"]
  /\ job = [c \in Calls |-> NoJob]
  /\ via = [c \in Calls |-> NoProgram]
  /\ said = [c \in Calls |-> {}]
  /\ dead = {} /\ downBy = [s \in Services |-> NoCall]

-----------------------------------------------------------------------------
(* shutil.which: each handler asks for the programs in its own order.      *)

Prefer(p, q) == IF p \in installed THEN p ELSE q

BlockVia == Prefer("iptables", Prefer("nft", Prefer("netsh", NoProgram)))

(* Mutant: the rollback prefers the newer firewall. *)
RollbackViaNftFirst == Prefer("nft", Prefer("iptables", Prefer("netsh", NoProgram)))

RollbackVia == Prefer("iptables", Prefer("nft", Prefer("netsh", NoProgram)))

RestartVia == Prefer("systemctl", Prefer("sc", NoProgram))

(* Mutant: the last `return` is missing, and the command is run anyhow. *)
BeginAnyway(c, j, program) ==
  /\ job' = [job EXCEPT ![c] = j]
  /\ via' = [via EXCEPT ![c] = program]
  /\ pc' = [pc EXCEPT ![c] = "run"]

(* Without a program the handler answers that nothing was done. *)
Begin(c, j, program) ==
  /\ job' = [job EXCEPT ![c] = j]
  /\ via' = [via EXCEPT ![c] = program]
  /\ pc' = [pc EXCEPT ![c] = IF program = NoProgram THEN "done" ELSE "run"]

(* A handler or a rollback is entered and chooses its program. *)
Choose(c) ==
  /\ pc[c] = "idle"
  /\ \/ \E a \in Addresses :
          \/ Begin(c, [op |-> "block", on |-> a], BlockVia)
          \/ Begin(c, [op |-> "rollback", on |-> a], RollbackVia)
     \/ \E s \in Services : Begin(c, [op |-> "restart", on |-> s], RestartVia)
  /\ UNCHANGED <<worldVars, rules, unit, said, downBy>>

-----------------------------------------------------------------------------
(* _run_command.  Its outcome is part of the text the handler returns,     *)
(* unless it is an exception that is not caught there ("raised": any       *)
(* OSError but FileNotFoundError, a UnicodeDecodeError): then there is no  *)
(* text, and the client is told of an error.                               *)

(* Mutant: the return code is not looked at. *)
SaysOutput(c, result) ==
  said' = [said EXCEPT ![c] = @ \cup {IF result = "failed" THEN "ok" ELSE result}]

Says(c, result) == said' = [said EXCEPT ![c] = @ \cup {result}]

(* The command has done its work and says so, or is killed by the timeout, *)
(* or what it says cannot be decoded.                                      *)
Works(c) ==
  /\ via[c] \in installed
  /\ \E result \in {"ok", "timed_out", "raised"} : Says(c, result)

(* It has not: it exits with an error, is killed too early, cannot be      *)
(* started, or the program has gone since which found it.                  *)
Fails(c) ==
  \E result \in {"raised"} \cup (IF via[c] \in installed THEN {"failed", "timed_out"}
                                                     ELSE {"missing"}) :
    Says(c, result)

-----------------------------------------------------------------------------
(* The firewall.                                                           *)

Answer(c) == pc' = [pc EXCEPT ![c] = "done"]

SetRules(c, n) == rules' = [rules EXCEPT ![via[c]][job[c].on] = n]

Block(c) ==
  /\ pc[c] = "run" /\ job[c].op = "block"
  /\ \/ Works(c) /\ SetRules(c, rules[via[c]][job[c].on] + 1)
     \/ Fails(c) /\ UNCHANGED rules
  /\ Answer(c)
  /\ UNCHANGED <<worldVars, unit, job, via, downBy>>

(* What is left of n rules after the reverse command of program p. *)
RulesLeft(p, n) == IF p = "iptables" THEN n - 1 ELSE 0

Rollback(c) ==
  /\ pc[c] = "run" /\ job[c].op = "rollback"
  /\ LET n == rules[via[c]][job[c].on]
     IN \/ /\ n > 0 /\ via[c] # "nft"
           /\ Works(c) /\ SetRules(c, RulesLeft(via[c], n))
        \/ Fails(c) /\ UNCHANGED rules
  /\ Answer(c)
  /\ UNCHANGED <<worldVars, unit, job, via, downBy>>

-----------------------------------------------------------------------------
(* Services.                                                               *)

(* Service s gets into state u, through call c if that is not "up". *)
SetUnit(c, s, u) ==
  /\ unit' = [unit EXCEPT ![s] = u]
  /\ downBy' = [downBy EXCEPT ![s] = IF u = "up" THEN @ ELSE c]

(* systemctl restart; a service that does not come up again is a failure.  *)
Restart(c) ==
  /\ pc[c] = "run" /\ via[c] = "systemctl"
  /\ \/ Works(c) /\ SetUnit(c, job[c].on, "up")
     \/ Fails(c) /\ UNCHANGED <<unit, downBy>>
     \/ /\ via[c] \in installed /\ Fails(c)
        /\ SetUnit(c, job[c].on, "down")
  /\ Answer(c)
  /\ UNCHANGED <<worldVars, rules, job, via>>

(* sc stop, and then sc start whatever it came to, unless _run_command has *)
(* raised or the engine has been killed meanwhile.                         *)
Stop(c) ==
  /\ pc[c] = "run" /\ via[c] = "sc"
  /\ \/ unit[job[c].on] = "up" /\ Works(c) /\ SetUnit(c, job[c].on, "stopping")
     \/ Fails(c) /\ UNCHANGED <<unit, downBy>>
  /\ pc' = [pc EXCEPT ![c] = IF c \in dead \/ "raised" \in said'[c] THEN "done" ELSE "start"]
  /\ UNCHANGED <<worldVars, rules, job, via>>

(* Mutant: the text has the result of the first command only. *)
StartQuietly(c) ==
  /\ pc[c] = "start"
  /\ \/ unit[job[c].on] = "down" /\ via[c] \in installed /\ SetUnit(c, job[c].on, "up")
     \/ UNCHANGED <<unit, downBy>>
  /\ Answer(c)
  /\ UNCHANGED <<worldVars, rules, job, via, said>>

Start(c) ==
  /\ pc[c] = "start"
  /\ \/ unit[job[c].on] = "down" /\ Works(c) /\ SetUnit(c, job[c].on, "up")
     \/ Fails(c) /\ UNCHANGED <<unit, downBy>>
  /\ Answer(c)
  /\ UNCHANGED <<worldVars, rules, job, via>>

-----------------------------------------------------------------------------
(* The host and the engine's life.                                         *)

StopEnds(s) ==
  /\ unit[s] = "stopping"
  /\ unit' = [unit EXCEPT ![s] = "down"]
  /\ UNCHANGED <<worldVars, rules, pc, job, via, said, downBy>>

ChangePrograms ==
  /\ changes < MaxChanges
  /\ changes' = changes + 1
  /\ installed' \in (SUBSET platform) \ {installed}
  /\ UNCHANGED <<platform, rules, unit, pc, job, via, said, dead, downBy, crashes>>

(* The engine is killed.  A command that is running goes on. *)
Crash ==
  /\ crashes < MaxCrashes
  /\ crashes' = crashes + 1
  /\ dead' = dead \cup {c \in Calls : pc[c] \in {"run", "start"}}
  /\ UNCHANGED <<platform, installed, changes, rules, unit, pc, job, via, said, downBy>>

Handler(c) == Choose(c) \/ Block(c) \/ Rollback(c) \/ Restart(c) \/ Stop(c) \/ Start(c)

Next ==
  \/ \E c \in Calls : Handler(c)
  \/ \E s \in Services : StopEnds(s)
  \/ ChangePrograms \/ Crash

Spec == Init /\ [][Next]_vars

-----------------------------------------------------------------------------
(* Properties.                                                             *)

(* Calls that went through program p to do j, those of them whose text     *)
(* reports plain success, and those that may have done it as far as anyone *)
(* can tell: from a text, or from there being none.                        *)
Through(p, j) == {c \in Calls : via[c] = p /\ job[c] = j /\ pc[c] = "done"}

Told(p, j) == {c \in Through(p, j) : c \notin dead /\ said[c] = {"ok"}}

MayHave(p, j) ==
  {c \in Through(p, j) : c \in dead \/ said[c] \cap {"ok", "timed_out", "raised"} # {}}

(* The answers account for the rules, however blocks and rollbacks are     *)
(* interleaved: an address is blocked as often as texts report blocks that *)
(* no rollback may have undone, and not more often than calls may have     *)
(* blocked it, less the rollbacks that report success.  So a block that    *)
(* was reported stands until a rollback, two need two rollbacks with       *)
(* iptables, a reported rollback undid something, and no rule is there     *)
(* after answers that all report a failed command.                         *)
TextsAccountForRules ==
  \A b \in Backends, a \in Addresses :
    LET block == [op |-> "block", on |-> a]
        rollback == [op |-> "rollback", on |-> a]
        undone == Cardinality(MayHave(b, rollback))
        n == rules[b][a]
    IN /\ b # "netsh" \/ undone = 0 => Cardinality(Told(b, block)) <= n + undone
       /\ n + Cardinality(Told(b, rollback)) <= Cardinality(MayHave(b, block))

(* While no program is installed or removed, a rollback goes to the        *)
(* firewall the blocks went to, and to no other ("the rollback attempts    *)
(* the exact reverse command for the available backend").                  *)
RollbackFollowsBlock ==
  changes = 0 =>
    \A c, d \in Calls :
      job[c].op = "block" /\ job[d].op = "rollback" => via[c] = via[d]

(* No restart leaves a service down unnoticed, whoever else restarts it at *)
(* the same time: the call that took it down is still busy, or its text    *)
(* reports a command that did not succeed, or it raised and its client got *)
(* an error, or the engine was killed in it.                               *)
DownIsTold ==
  \A s \in Services : unit[s] # "up" =>
    \E c \in Calls :
      /\ downBy[s] = c
      /\ pc[c] = "start" \/ c \in dead \/ said[c] # {"ok"}

=============================================================================
