------------------------------- MODULE MCHost -------------------------------
(* Instances of Host for TLC. *)
EXTENDS Host, TLC

CONSTANTS c1, c2, c3, c4

(* Calls do not differ before they have chosen what to do. *)
AnyOrder == Permutations(Calls)

=============================================================================
