----------------------------- MODULE MCRagIndex -----------------------------
(* Instances of RagIndex for TLC. *)
EXTENDS RagIndex, TLC

CONSTANTS t1, t2

(* The threads of the engine do not differ. *)
AnyThread == Permutations(Threads)

=============================================================================
