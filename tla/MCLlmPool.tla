----------------------------- MODULE MCLlmPool ------------------------------
(* Instances of LlmPool for TLC. *)
EXTENDS LlmPool

CONSTANTS r1, r2

=============================================================================
