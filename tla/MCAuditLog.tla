----------------------------- MODULE MCAuditLog -----------------------------
(* Instances of AuditLog for TLC. *)
EXTENDS AuditLog, TLC

CONSTANTS engine, cli

(* The processes on one file do not differ. *)
Processes == Permutations({engine, cli})

=============================================================================
