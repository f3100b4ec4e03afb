------------------------------ MODULE MCAnswers -----------------------------
(* Instances of Answers for TLC. *)
EXTENDS Answers, TLC

CONSTANTS w1, w2, w3

(* No word differs from another but by being in the records or not. *)
AnyWords == Permutations(Words)

=============================================================================
