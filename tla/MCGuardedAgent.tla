--------------------------- MODULE MCGuardedAgent ---------------------------
(* Instances of GuardedAgent for TLC. *)
EXTENDS GuardedAgent, TLC

CONSTANTS r1, r2, d1, d2, a1, a2

(* Threads and ids are interchangeable; the tools are not. *)
Symmetry ==
  Permutations({r1, r2}) \cup Permutations({d1, d2}) \cup Permutations({a1, a2})

=============================================================================
