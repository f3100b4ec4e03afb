---------------------------- MODULE StagedActions ----------------------------
(***************************************************************************)
(* What the approval flow of src/agent.py promises about one destructive   *)
(* action, whatever the threads, the audit trail and the LLM do: an action *)
(* is staged once under an id of its own; it is then either rejected, and  *)
(* never runs, or approved, and runs at most once; a restart of the engine *)
(* forgets what is staged and may cut an approval short, and nothing else  *)
(* makes an action disappear.  GuardedAgent implements this module.        *)
(***************************************************************************)
EXTENDS Naturals

CONSTANT ActionIds

VARIABLES phase,      \* phase[id]: what has become of the action
          runs,       \* runs[id]: times its handler has run on the host
          restarts    \* restarts of the engine

stagedVars == <<phase, runs, restarts>>

StagedTypeOK ==
  /\ phase \in [ActionIds -> {"free", "staged", "approving", "executed",
                              "failed", "rejected", "lost"}]
  /\ runs \in [ActionIds -> 0..1]
  /\ restarts \in Nat

StagedInit ==
  /\ phase = [id \in ActionIds |-> "free"]
  /\ runs = [id \in ActionIds |-> 0]
  /\ restarts = 0

Move(id, from, to) ==
  /\ phase[id] = from
  /\ phase' = [phase EXCEPT ![id] = to]
  /\ UNCHANGED restarts

StageAction(id) == Move(id, "free", "staged") /\ UNCHANGED runs

Approve(id) == Move(id, "staged", "approving") /\ UNCHANGED runs

Reject(id) == Move(id, "staged", "rejected") /\ UNCHANGED runs

(* The handler of an action runs only between its approval and the answer. *)
Run(id) ==
  /\ phase[id] = "approving" /\ runs[id] = 0
  /\ runs' = [runs EXCEPT ![id] = 1]
  /\ UNCHANGED <<phase, restarts>>

(* The approver is told "approved" only of an action that did run; it may  *)
(* be told of a failure either way.                                        *)
Settle(id) ==
  /\ \/ runs[id] = 1 /\ Move(id, "approving", "executed")
     \/ Move(id, "approving", "failed")
  /\ UNCHANGED runs

Restart ==
  /\ restarts' = restarts + 1
  /\ phase' = [id \in ActionIds |->
                 IF phase[id] \in {"staged", "approving"} THEN "lost" ELSE phase[id]]
  /\ UNCHANGED runs

StagedNext ==
  \/ Restart
  \/ \E id \in ActionIds :
       StageAction(id) \/ Approve(id) \/ Reject(id) \/ Run(id) \/ Settle(id)

(* An approval under way comes to an end. *)
StagedSpec ==
  /\ StagedInit /\ [][StagedNext]_stagedVars
  /\ \A id \in ActionIds : WF_stagedVars(Run(id) \/ Settle(id))

=============================================================================
