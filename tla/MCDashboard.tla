----------------------------- MODULE MCDashboard ----------------------------
(* Instances of Dashboard for TLC. *)
EXTENDS Dashboard, TLC

CONSTANTS s1, s2, p1, p2

Symmetry == Permutations({s1, s2}) \cup Permutations({p1, p2})

=============================================================================
