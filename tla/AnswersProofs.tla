---------------------------- MODULE AnswersProofs ----------------------------
(***************************************************************************)
(* Theorems about Answers, for texts of any number of pieces, any finite   *)
(* set of words, any threshold and any number of attempts.                 *)
(***************************************************************************)
EXTENDS Answers, FiniteSetTheorems, SequenceTheorems, TLAPS

-----------------------------------------------------------------------------
(* Sets of numbers and sequences.                                          *)

(* A set of natural numbers has a least one: what Min chooses. *)
LEMMA SmallestExists ==
  ASSUME NEW S, S \subseteq Nat, S # {}
  PROVE  Min(S) \in S /\ \A y \in S : Min(S) <= y
<1>1. \E x \in S : \A y \in S : ~(<<y, x>> \in OpToRel(<, Nat))
  BY NatLessThanWellFounded, WFMin
<1>2. ASSUME NEW x \in S, NEW y \in S, ~(<<y, x>> \in OpToRel(<, Nat))
      PROVE  x <= y
  BY <1>2 DEF OpToRel
<1>3. \E x \in S : \A y \in S : x <= y
  BY <1>1, <1>2
<1> QED
  BY <1>3, Zenon DEF Min

(* A set of positions has a last one: what Max chooses. *)
LEMMA LargestExists ==
  ASSUME NEW n \in Nat, NEW S, S \subseteq 1..n, S # {}
  PROVE  Max(S) \in S /\ \A y \in S : y <= Max(S)
<1> DEFINE D == {n - x : x \in S}
<1>1. D \subseteq Nat /\ D # {}
  <2>1. \A x \in S : n - x \in Nat
    OBVIOUS
  <2> QED
    BY <2>1, Zenon
<1> HIDE DEF D
<1>2. PICK d \in D : \A e \in D : d <= e
  BY <1>1, SmallestExists
<1> USE DEF D
<1>3. PICK x \in S : d = n - x
  BY <1>2
<1>4. \A y \in S : y <= x
  <2> TAKE y \in S
  <2>1. n - x <= n - y
    BY <1>2, <1>3
  <2>2. n \in Nat /\ x \in Nat /\ y \in Nat
    OBVIOUS
  <2> HIDE DEF D
  <2> QED
    BY <2>1, <2>2
<1> QED
  BY <1>4, Zenon DEF Max

(* A sequence without its last element. *)
LEMMA FrontOf ==
  ASSUME NEW P, NEW q \in Seq(P), q # <<>>
  PROVE  /\ Front(q) \in Seq(P) /\ Len(Front(q)) = Len(q) - 1
         /\ \A j \in 1..Len(q) - 1 : Front(q)[j] = q[j]
<1> DEFINE m == Len(q) - 1
<1>1. m \in Nat /\ \A i \in 1..m : q[i] \in P
  OBVIOUS
<1> HIDE DEF m
<1>2. SubSeq(q, 1, m) \in Seq(P)
  BY <1>1, SubSeqProperties
<1>3. Len(SubSeq(q, 1, m)) = IF 1 <= m THEN m - 1 + 1 ELSE 0
  BY <1>1, SubSeqProperties
<1>4. \A i \in 1..m - 1 + 1 : SubSeq(q, 1, m)[i] = q[1 + i - 1]
  BY <1>1, SubSeqProperties
<1>5. Len(SubSeq(q, 1, m)) = m /\ \A i \in 1..m : SubSeq(q, 1, m)[i] = q[i]
  BY <1>1, <1>3, <1>4
<1> QED
  BY <1>2, <1>5 DEF Front, m

-----------------------------------------------------------------------------
(* What _extract_json_object finds.                                        *)

(* Without its fences a text is what it was, moved by at most one place. *)
LEMMA UnfencedShift ==
  ASSUME NEW text \in Seq(Pieces)
  PROVE  /\ Unfenced(text) \in Seq(Pieces)
         /\ \E d \in {0, 1} :
              /\ \A j \in 1..Len(Unfenced(text)) :
                   j + d \in 1..Len(text) /\ Unfenced(text)[j] = text[j + d]
              /\ \A k \in 1..Len(text) : text[k].is # "fence" => k - d \in 1..Len(Unfenced(text))
<1>1. CASE ~(text # <<>> /\ Head(text).is = "fence")
  <2>1. Unfenced(text) = text /\ Len(text) \in Nat
    BY <1>1 DEF Unfenced
  <2>2. \A j \in 1..Len(text) : j + 0 = j /\ j - 0 = j
    OBVIOUS
  <2>3. \A j \in 1..Len(text) : j + 0 \in 1..Len(text) /\ text[j] = text[j + 0] /\ j - 0 \in 1..Len(text)
    BY <2>2
  <2> QED
    BY <2>1, <2>3
<1>2. CASE text # <<>> /\ Head(text).is = "fence"
  <2> DEFINE inner == Tail(text)
  <2>1. /\ inner \in Seq(Pieces) /\ Len(inner) = Len(text) - 1
        /\ \A j \in 1..Len(inner) : j + 1 \in 1..Len(text) /\ inner[j] = text[j + 1]
        /\ Len(text) \in Nat /\ text[1].is = "fence"
    BY <1>2
  <2> HIDE DEF inner
  <2>2. CASE ~(inner # <<>> /\ Last(inner).is = "fence")
    <3>1. Unfenced(text) = inner
      BY <1>2, <2>2 DEF Unfenced, inner
    <3>2. \A k \in 1..Len(text) : text[k].is # "fence" => k - 1 \in 1..Len(inner)
      BY <2>1
    <3> QED
      BY <2>1, <3>1, <3>2
  <2>3. CASE inner # <<>> /\ Last(inner).is = "fence"
    <3>1. Unfenced(text) = Front(inner)
      BY <1>2, <2>3 DEF Unfenced, inner
    <3> DEFINE front == Front(inner)
    <3>2. Len(inner) \in Nat /\ Len(inner) > 0
      BY <2>1, <2>3
    <3>3. inner[Len(inner)].is = "fence"
      BY <2>3 DEF Last
    <3>4. /\ front \in Seq(Pieces) /\ Len(front) = Len(inner) - 1
          /\ \A j \in 1..Len(front) : front[j] = inner[j]
      BY <2>1, <2>3, FrontOf
    <3> HIDE DEF front
    <3>5. \A j \in 1..Len(front) : j + 1 \in 1..Len(text) /\ front[j] = text[j + 1]
      BY <2>1, <3>2, <3>4
    <3>6. ASSUME NEW k \in 1..Len(text), text[k].is # "fence"
          PROVE  k - 1 \in 1..Len(front)
      <4>1. k # 1
        BY <2>1, <3>6
      <4>2. k # Len(text)
        BY <2>1, <3>2, <3>3, <3>6
      <4> QED
        BY <2>1, <3>2, <3>4, <4>1, <4>2
    <3> QED
      BY <3>1, <3>4, <3>5, <3>6 DEF front
  <2> QED
    BY <2>2, <2>3
<1> QED
  BY <1>1, <1>2

(* Every piece brings words. *)
LEMMA PieceWords ==
  ASSUME NEW p \in Pieces
  PROVE  p.words \in SUBSET Words
BY DEF Pieces, Mark

(* A text in which an object is found has no other object. *)
LEMMA FoundAlone ==
  ASSUME NEW text \in Seq(Pieces), Extract(text).is \in Objects
  PROVE  \E k \in 1..Len(text) : ObjectsIn(text) = {k}
<1> DEFINE t == Unfenced(text)
           opening == Braces(t, Objects \cup {"open"})
           closing == Braces(t, Objects \cup {"close"})
<1>1. t \in Seq(Pieces)
  BY UnfencedShift
<1>2. PICK d \in {0, 1} :
        /\ \A j \in 1..Len(t) : j + d \in 1..Len(text) /\ t[j] = text[j + d]
        /\ \A k \in 1..Len(text) : text[k].is # "fence" => k - d \in 1..Len(t)
  BY UnfencedShift
<1>3. opening # {} /\ closing # {} /\ Min(opening) = Max(closing) /\ Extract(text) = t[Min(opening)]
  BY DEF Extract, Malformed, Mark, Objects
<1> HIDE DEF t
<1>4. Len(t) \in Nat /\ opening \subseteq 1..Len(t) /\ closing \subseteq 1..Len(t)
  BY <1>1 DEF Braces
<1>5. Min(opening) \in opening /\ \A y \in opening : Min(opening) <= y
  <2> HIDE DEF opening
  <2>1. opening \subseteq Nat
    BY <1>4
  <2> QED
    BY <1>3, <2>1, SmallestExists
<1>6. \A y \in closing : y <= Max(closing)
  BY <1>3, <1>4, LargestExists
<1> DEFINE m == Min(opening)
<1>7. m \in 1..Len(t) /\ t[m].is \in Objects
  BY <1>3, <1>4, <1>5
<1>8. \A j \in 1..Len(t) : t[j].is \in Objects => j \in opening /\ j \in closing
  BY DEF Braces
<1>9. \A j \in 1..Len(t) : t[j].is \in Objects => j = m
  <2> SUFFICES ASSUME NEW j \in 1..Len(t), t[j].is \in Objects PROVE j = m
    OBVIOUS
  <2>1. m <= j /\ j <= m
    BY <1>3, <1>5, <1>6, <1>8
  <2> HIDE DEF m
  <2> QED
    BY <1>4, <1>7, <2>1
<1> HIDE DEF m
<1>10. m + d \in ObjectsIn(text)
  BY <1>2, <1>7 DEF ObjectsIn
<1>11. ASSUME NEW k \in ObjectsIn(text) PROVE k = m + d
  <2>1. k \in 1..Len(text) /\ text[k].is # "fence"
    BY <1>11 DEF ObjectsIn, Objects
  <2>2. k - d \in 1..Len(t) /\ t[k - d] = text[k - d + d] /\ k - d + d = k
    BY <1>2, <2>1
  <2>3. k - d = m
    BY <1>9, <1>11, <2>2 DEF ObjectsIn
  <2> QED
    BY <2>2, <2>3
<1> QED
  BY <1>2, <1>7, <1>10, <1>11

(* An object with nothing but prose and fences around it is found. *)
LEMMA LoneFound ==
  ASSUME NEW text \in Seq(Pieces), NEW k, Lone(text, k)
  PROVE  Extract(text) = text[k]
<1> DEFINE t == Unfenced(text)
           opening == Braces(t, Objects \cup {"open"})
           closing == Braces(t, Objects \cup {"close"})
<1>1. PICK d \in {0, 1} :
        /\ \A j \in 1..Len(t) : j + d \in 1..Len(text) /\ t[j] = text[j + d]
        /\ \A i \in 1..Len(text) : text[i].is # "fence" => i - d \in 1..Len(t)
  BY UnfencedShift
<1>2. t \in Seq(Pieces)
  BY UnfencedShift
<1> HIDE DEF t
<1>3. k \in 1..Len(text) /\ text[k].is \in Objects /\ text[k].is # "fence"
  BY DEF Lone, ObjectsIn, Objects
<1>4. k - d \in 1..Len(t) /\ t[k - d] = text[k]
  BY <1>1, <1>3
<1>5. \A j \in 1..Len(t) : j # k - d => t[j].is \in {"fence", "prose"}
  BY <1>1, <1>3 DEF Lone
<1>6. opening = {k - d} /\ closing = {k - d}
  BY <1>3, <1>4, <1>5 DEF Braces, Objects
<1>7. Min(opening) = k - d /\ Max(closing) = k - d
  <2>1. Len(t) \in Nat
    BY <1>2
  <2>2. opening \subseteq Nat /\ opening # {} /\ closing \subseteq 1..Len(t) /\ closing # {}
    <3>1. k - d \in Nat
      BY <1>4, <2>1
    <3> HIDE DEF opening, closing
    <3> QED
      BY <1>4, <1>6, <2>1, <3>1
  <2> HIDE DEF opening, closing
  <2>3. Min(opening) \in opening /\ Max(closing) \in closing
    BY <2>1, <2>2, SmallestExists, LargestExists
  <2> QED
    BY <1>6, <2>3
<1>8. Extract(text) = t[Min(opening)]
  BY <1>6, <1>7 DEF Extract, t
<1> QED
  BY <1>4, <1>7, <1>8

-----------------------------------------------------------------------------
(* The inductive invariant.                                                *)

(* What a request has come to follows from the text it heard last. *)
Concluded ==
  /\ outcome = "dispatched" => Extract(heard).is = "tool"
  /\ outcome = "answered" =>
       /\ reply.words = Spoken(heard)
       /\ reply.status = IF Grounded(Spoken(heard)) THEN "success" ELSE "uncertain"

(* The conversation: two messages to begin with, and two for every attempt *)
(* that is hinted at.                                                      *)
InTurns ==
  /\ Len(messages) >= 2 /\ Len(messages) % 2 = 0
  /\ messages[1] = "system" /\ messages[2] = "user"
  /\ \A k \in 3..Len(messages) : messages[k] = IF k % 2 = 1 THEN "assistant" ELSE "hint"
  /\ outcome \in {"asking", "hearing"} => Len(messages) <= 2 * tries + 2

AnswersInv == AnswersTypeOK /\ Concluded /\ InTurns

(* What process asks first. *)
LEMMA AnswersInitInv == Init => AnswersInv
<1> SUFFICES ASSUME Init PROVE AnswersInv
  OBVIOUS
<1>0. MaxRetries \in Nat \ {0} /\ MaxPieces \in Nat
  BY AnswersAssumption DEF AnswersAssumption
<1>1. AnswersTypeOK
  <2>1. NoReply \in [status : {"none", "success", "uncertain"}, words : SUBSET Words]
    BY DEF NoReply
  <2>2. messages \in Seq({"system", "user", "assistant", "hint"})
    BY DEF Init
  <2> QED
    BY <1>0, <2>1, <2>2 DEF AnswersTypeOK, Init
<1>2. Concluded /\ InTurns
  <2>1. Len(messages) = 2 /\ messages[1] = "system" /\ messages[2] = "user"
    BY DEF Init
  <2> QED
    BY <2>1 DEF Concluded, InTurns, Init
<1> QED
  BY <1>1, <1>2 DEF AnswersInv

(* A text is a sequence of pieces. *)
LEMMA TextIsSeq ==
  ASSUME NEW text \in Texts
  PROVE  text \in Seq(Pieces) /\ Len(text) <= MaxPieces
<1>1. PICK n \in 0..MaxPieces : text \in [1..n -> Pieces]
  BY DEF Texts
<1>2. MaxPieces \in Nat /\ n \in Nat /\ n <= MaxPieces
  BY <1>1, AnswersAssumption DEF AnswersAssumption
<1>3. text \in Seq(Pieces)
  BY <1>1, <1>2
<1>4. Len(text) = n
  BY <1>1, <1>2, <1>3
<1> QED
  BY <1>2, <1>3, <1>4

(* The words of an answer are words. *)
LEMMA SpokenWords ==
  ASSUME NEW text \in Seq(Pieces)
  PROVE  Spoken(text) \subseteq Words
<1>1. CASE Extract(text).is = "answer_object"
  <2>1. PICK k \in 1..Len(Unfenced(text)) : Extract(text) = Unfenced(text)[k]
    <3> DEFINE t == Unfenced(text)
               opening == Braces(t, Objects \cup {"open"})
               closing == Braces(t, Objects \cup {"close"})
    <3>1. opening # {} /\ Extract(text) = t[Min(opening)]
      BY <1>1 DEF Extract, Malformed, Mark
    <3>2. t \in Seq(Pieces)
      BY UnfencedShift
    <3> HIDE DEF t
    <3>3. Len(t) \in Nat /\ opening \subseteq 1..Len(t)
      BY <3>2 DEF Braces
    <3> HIDE DEF opening
    <3>4. opening \subseteq Nat
      BY <3>3
    <3>5. Min(opening) \in opening
      BY <3>1, <3>4, SmallestExists
    <3> QED
      BY <3>1, <3>3, <3>5 DEF t
  <2>2. Unfenced(text)[k] \in Pieces
    BY UnfencedShift, ElementOfSeq
  <2> QED
    BY <1>1, <2>1, <2>2, PieceWords DEF Spoken
<1>2. CASE Extract(text).is # "answer_object"
  <2>1. \A k \in 1..Len(text) : text[k].words \subseteq Words
    BY ElementOfSeq, PieceWords
  <2>2. Spoken(text) = UNION {text[k].words : k \in 1..Len(text)}
    BY <1>2 DEF Spoken
  <2> QED
    BY <2>1, <2>2, Zenon
<1> QED
  BY <1>1, <1>2

-----------------------------------------------------------------------------
(* Every step keeps each part of it.                                       *)

(* A text and its hint, at the end of the conversation. *)
LEMMA Hinted ==
  ASSUME AnswersTypeOK, Hint
  PROVE  /\ messages' \in Seq({"system", "user", "assistant", "hint"})
         /\ Len(messages') = Len(messages) + 2
         /\ \A k \in 1..Len(messages) : messages'[k] = messages[k]
         /\ messages'[Len(messages) + 1] = "assistant" /\ messages'[Len(messages) + 2] = "hint"
<1> DEFINE Roles == {"system", "user", "assistant", "hint"}
           new == <<"assistant", "hint">>
<1>1. messages \in Seq(Roles) /\ new \in Seq(Roles) /\ messages' = messages \o new
  BY DEF AnswersTypeOK, Hint
<1>2. Len(new) = 2 /\ new[1] = "assistant" /\ new[2] = "hint"
  OBVIOUS
<1> HIDE DEF Roles, new
<1>3. /\ messages' \in Seq(Roles) /\ Len(messages') = Len(messages) + Len(new)
      /\ \A k \in 1..Len(messages) + Len(new) :
           messages'[k] = IF k <= Len(messages) THEN messages[k] ELSE new[k - Len(messages)]
  BY <1>1, ConcatProperties
<1>4. Len(messages) \in Nat
  BY <1>1
<1> QED
  BY <1>2, <1>3, <1>4 DEF Roles

(* Types: attempts do not exceed self.max_retries. *)
LEMMA TypeStep ==
  ASSUME AnswersTypeOK, [Next]_vars
  PROVE  AnswersTypeOK'
<1>0. MaxRetries \in Nat \ {0} /\ MaxPieces \in Nat
  BY AnswersAssumption DEF AnswersAssumption
<1> USE <1>0 DEF AnswersTypeOK, EndAttempt, LastAttempt
<1>1. CASE CallRaises
  BY <1>1 DEF CallRaises
<1>2. CASE Malfunction
  BY <1>2 DEF Malfunction
<1>3. CASE CallReturns
  <2>1. heard' \in Seq(Pieces) /\ Len(heard') <= MaxPieces
    BY <1>3, TextIsSeq DEF CallReturns
  <2> QED
    BY <1>3, <2>1 DEF CallReturns
<1>4. CASE Dispatch
  BY <1>4 DEF Dispatch
<1>5. CASE Hint
  <2>1. messages' \in Seq({"system", "user", "assistant", "hint"})
    BY <1>5, Hinted
  <2>2. heard' \in Seq(Pieces) /\ Len(heard') <= MaxPieces
    BY <1>5 DEF Hint
  <2> QED
    BY <1>5, <2>1, <2>2 DEF Hint
<1>6. CASE Answer
  <2>1. reply' \in [status : {"none", "success", "uncertain"}, words : SUBSET Words]
    BY <1>6, SpokenWords DEF Answer
  <2> QED
    BY <1>6, <2>1 DEF Answer
<1>7. CASE UNCHANGED vars
  BY <1>7 DEF vars
<1> QED
  BY <1>1, <1>2, <1>3, <1>4, <1>5, <1>6, <1>7 DEF Next

(* The loop ends with the text it dispatched or answered. *)
LEMMA ConcludedStep ==
  ASSUME Concluded, [Next]_vars
  PROVE  Concluded'
<1> USE DEF Concluded, EndAttempt
<1>1. CASE CallRaises
  BY <1>1 DEF CallRaises
<1>2. CASE Malfunction \/ CallReturns
  BY <1>2 DEF Malfunction, CallReturns
<1>3. CASE Dispatch
  BY <1>3 DEF Dispatch
<1>4. CASE Hint
  BY <1>4 DEF Hint
<1>5. CASE Answer
  <2>1. context' = context /\ heard' = heard /\ outcome' = "answered"
    BY <1>5 DEF Answer
  <2>2. reply' = [status |-> IF Grounded(Spoken(heard)) THEN "success" ELSE "uncertain",
                  words |-> Spoken(heard)]
    BY <1>5 DEF Answer
  <2>3. Grounded(Spoken(heard))' <=> Grounded(Spoken(heard))
    BY <2>1 DEF Grounded
  <2> QED
    BY <2>1, <2>2, <2>3
<1>6. CASE UNCHANGED vars
  <2>1. Grounded(Spoken(heard))' <=> Grounded(Spoken(heard))
    BY <1>6 DEF vars, Grounded
  <2> QED
    BY <1>6, <2>1 DEF vars
<1> QED
  BY <1>1, <1>2, <1>3, <1>4, <1>5, <1>6 DEF Next

(* The text the LLM gave and the hint go in together. *)
LEMMA InTurnsStep ==
  ASSUME AnswersTypeOK, InTurns, [Next]_vars
  PROVE  InTurns'
<1>0. tries \in Nat /\ MaxRetries \in Nat
  BY AnswersAssumption DEF AnswersAssumption, AnswersTypeOK
<1>1. ASSUME messages' = messages, outcome' \in {"asking", "hearing"} => outcome \in {"asking", "hearing"},
             tries' = tries \/ tries' = tries + 1
      PROVE  InTurns'
  <2>1. Len(messages) \in Nat
    BY DEF AnswersTypeOK
  <2>2. 2 * tries + 2 <= 2 * tries' + 2 /\ 2 * tries' + 2 \in Nat /\ 2 * tries + 2 \in Nat
    <3>1. tries' = tries \/ tries' = tries + 1
      BY <1>1
    <3> QED
      BY <1>0, <3>1
  <2>3. outcome' \in {"asking", "hearing"} => Len(messages') <= 2 * tries' + 2
    BY <1>1, <2>1, <2>2 DEF InTurns
  <2> QED
    BY <1>1, <2>3 DEF InTurns
<1>2. CASE CallRaises
  BY <1>1, <1>2 DEF CallRaises, EndAttempt
<1>3. CASE Malfunction \/ CallReturns
  BY <1>1, <1>3 DEF Malfunction, CallReturns
<1>4. CASE Dispatch \/ Answer
  BY <1>1, <1>4 DEF Dispatch, Answer, EndAttempt
<1>5. CASE Hint
  <2> DEFINE n == Len(messages)
  <2>1. /\ Len(messages') = n + 2 /\ \A k \in 1..n : messages'[k] = messages[k]
        /\ messages'[n + 1] = "assistant" /\ messages'[n + 2] = "hint"
    BY <1>5, Hinted
  <2>2. n \in Nat /\ n >= 2 /\ n % 2 = 0
    BY DEF AnswersTypeOK, InTurns
  <2>3. n <= 2 * tries + 2 /\ tries' = tries + 1
    BY <1>5 DEF InTurns, Hint, EndAttempt
  <2> HIDE DEF n
  <2>4. (n + 1) % 2 = 1 /\ (n + 2) % 2 = 0
    BY <2>2
  <2>5. messages'[1] = "system" /\ messages'[2] = "user"
    BY <2>1, <2>2 DEF InTurns
  <2>6. ASSUME NEW k \in 3..n + 2
        PROVE  messages'[k] = IF k % 2 = 1 THEN "assistant" ELSE "hint"
    <3>1. CASE k <= n
      BY <2>1, <2>2, <3>1 DEF InTurns, n
    <3>2. CASE k = n + 1 \/ k = n + 2
      BY <2>1, <2>4, <3>2
    <3> QED
      BY <2>2, <3>1, <3>2
  <2> QED
    BY <1>0, <2>1, <2>2, <2>3, <2>4, <2>5, <2>6 DEF InTurns
<1>6. CASE UNCHANGED vars
  BY <1>1, <1>6 DEF vars
<1> QED
  BY <1>2, <1>3, <1>4, <1>5, <1>6 DEF Next

(* What every reachable state has. *)
LEMMA AnswersInvariance == Spec => []AnswersInv
<1>1. AnswersInv /\ [Next]_vars => AnswersInv'
  BY TypeStep, ConcludedStep, InTurnsStep DEF AnswersInv
<1> QED
  BY <1>1, AnswersInitInv, PTL DEF Spec

-----------------------------------------------------------------------------
(* Theorems.                                                               *)

(* A request holds texts, messages and words, makes at most                *)
(* self.max_retries attempts, and has an answer only when it is over.      *)
THEOREM AnswersTypeCorrect == Spec => []AnswersTypeOK
<1>1. AnswersInv => AnswersTypeOK
  BY DEF AnswersInv
<1> QED
  BY <1>1, AnswersInvariance, PTL

(* What was dispatched is the one object of its text, however many pieces  *)
(* the text has and whatever they are.                                     *)
THEOREM DispatchedAloneHolds == Spec => []DispatchedAlone
<1>1. ASSUME AnswersInv, outcome = "dispatched" PROVE Cardinality(ObjectsIn(heard)) = 1
  <2>1. heard \in Seq(Pieces) /\ Extract(heard).is \in Objects
    BY <1>1 DEF AnswersInv, AnswersTypeOK, Concluded, Objects
  <2>2. PICK k \in 1..Len(heard) : ObjectsIn(heard) = {k}
    BY <2>1, FoundAlone
  <2> QED
    BY <2>2, FS_Singleton
<1>2. AnswersInv => DispatchedAlone
  BY <1>1 DEF DispatchedAlone
<1> QED
  BY <1>2, AnswersInvariance, PTL

(* Of n words k are in the records: fewer than h percent are, if and only  *)
(* if more than the other 100 - h percent are not.                         *)
LEMMA Percent ==
  ASSUME NEW n \in Nat, NEW k \in Nat, NEW h \in 0..100
  PROVE  ~(100 * k >= h * n) <=> 100 * (n - k) > (100 - h) * n
<1>1. /\ 100 * (n - k) = 100 * n - 100 * k
      /\ (100 - h) * n = 100 * n - h * n
      /\ h * n \in Nat
  OBVIOUS
<1> QED
  BY <1>1

(* An answer is graded by the words the client gets: it is uncertain just  *)
(* when more of them are missing from the records than the threshold       *)
(* leaves room for, and the answer in a lone object is that object's.      *)
THEOREM GradeIsEarnedHolds == Spec => []GradeIsEarned
<1>1. ASSUME AnswersInv, outcome = "answered" PROVE GradeIsEarned
  <2> DEFINE words == Spoken(heard)
  <2>1. /\ reply.words = words /\ context \subseteq Words
        /\ reply.status = IF Grounded(words) THEN "success" ELSE "uncertain"
    BY <1>1 DEF AnswersInv, AnswersTypeOK, Concluded
  <2>2. heard \in Seq(Pieces) /\ words \subseteq Words
    BY <1>1, SpokenWords DEF AnswersInv, AnswersTypeOK
  <2>3. Threshold \in 0..100 /\ IsFiniteSet(words)
    BY <2>2, AnswersAssumption, FS_Subset DEF AnswersAssumption
  <2>4. Cardinality(words) \in Nat /\ Cardinality(words \cap context) \in Nat
    <3>1. IsFiniteSet(words \cap context)
      BY <2>3, FS_Subset
    <3> QED
      BY <2>3, <3>1, FS_CardinalityType
  <2>5. ASSUME NEW k \in 1..Len(heard), Lone(heard, k), heard[k].is = "answer_object"
        PROVE  words = heard[k].words
    BY <2>2, <2>5, LoneFound DEF Spoken
  <2> HIDE DEF words
  <2>6. Cardinality(words \ context) = Cardinality(words) - Cardinality(words \cap context)
    BY <2>3, FS_Difference
  <2>7. ~Grounded(words) <=>
          /\ context # {}
          /\ 100 * Cardinality(words \ context) > (100 - Threshold) * Cardinality(words)
    <3>1. CASE words = {}
      <4>1. Cardinality(words) = 0 /\ Cardinality(words \ context) = 0
        BY <3>1, FS_EmptySet
      <4>2. ~(100 * 0 > (100 - Threshold) * 0)
        BY <2>3
      <4> QED
        BY <3>1, <4>1, <4>2 DEF Grounded
    <3>2. CASE words # {}
      <4> DEFINE n == Cardinality(words)
                 k == Cardinality(words \cap context)
      <4>1. ~(100 * k >= Threshold * n) <=> 100 * (n - k) > (100 - Threshold) * n
        <5> HIDE DEF n, k
        <5> QED
          BY <2>3, <2>4, Percent DEF n, k
      <4> QED
        BY <2>6, <3>2, <4>1 DEF Grounded
    <3> QED
      BY <3>1, <3>2
  <2>8. reply.status = "uncertain" <=> ~Grounded(words)
    BY <2>1
  <2> QED
    BY <2>1, <2>5, <2>7, <2>8 DEF GradeIsEarned
<1>2. AnswersInv => GradeIsEarned
  BY <1>1 DEF GradeIsEarned
<1> QED
  BY <1>2, AnswersInvariance, PTL

(* Whenever the LLM is asked, the conversation is the prompt, the request, *)
(* and its own texts in turns with the hints.                              *)
THEOREM ConversationAlternatesHolds == Spec => []ConversationAlternates
<1>1. ASSUME AnswersInv PROVE ConversationAlternates
  <2>1. messages \in Seq({"system", "user", "assistant", "hint"}) /\ Len(messages) \in Nat
    BY <1>1 DEF AnswersInv, AnswersTypeOK
  <2>2. /\ Len(messages) >= 2 /\ Len(messages) % 2 = 0
        /\ messages[1] = "system" /\ messages[2] = "user"
        /\ \A k \in 3..Len(messages) : messages[k] = IF k % 2 = 1 THEN "assistant" ELSE "hint"
    BY <1>1 DEF AnswersInv, InTurns
  <2>3. SubSeq(messages, 1, 2) = <<"system", "user">>
    <3> DEFINE Roles == {"system", "user", "assistant", "hint"}
               first == SubSeq(messages, 1, 2)
    <3>1. \A k \in 1..2 : messages[k] \in Roles
      BY <2>2
    <3> HIDE DEF Roles
    <3>2. first \in Seq(Roles) /\ Len(first) = 2 /\ \A k \in 1..2 : first[k] = messages[k]
      BY <3>1, SubSeqProperties
    <3> HIDE DEF first
    <3>3. first = <<"system", "user">>
      BY <2>2, <3>2
    <3> QED
      BY <3>3 DEF first
  <2>4. messages[Len(messages)] \in {"user", "hint"}
    BY <2>1, <2>2
  <2>5. outcome = "asking" => Len(messages) <= 2 * tries + 2
    BY <1>1 DEF AnswersInv, InTurns
  <2> QED
    BY <2>2, <2>3, <2>4, <2>5 DEF ConversationAlternates, Last
<1> QED
  BY <1>1, AnswersInvariance, PTL

(* A text that is a tool call, between fences or prose or not, is          *)
(* dispatched: it is neither hinted at nor given out as an answer.         *)
THEOREM CallIsHeardHolds == Spec => CallIsHeard
<1>1. ASSUME AnswersInv, [Next]_vars, outcome = "hearing",
             NEW k \in 1..Len(heard), Lone(heard, k), heard[k].is = "tool"
      PROVE  outcome' = "dispatched" \/ UNCHANGED vars
  <2>1. Extract(heard).is = "tool"
    BY <1>1, LoneFound DEF AnswersInv, AnswersTypeOK
  <2> QED
    BY <1>1, <2>1 DEF Next, CallRaises, Malfunction, CallReturns, Dispatch, Hint, Answer, EndAttempt
<1>2. AnswersInv /\ [Next]_vars =>
        [outcome = "hearing" /\ (\E k \in 1..Len(heard) : Lone(heard, k) /\ heard[k].is = "tool")
           => outcome' = "dispatched"]_vars
  BY <1>1
<1> QED
  BY <1>2, AnswersInvariance, PTL DEF Spec, CallIsHeard

(* A text that came at the last attempt is dispatched or answered. *)
THEOREM LastTextCountsHolds == Spec => LastTextCounts
<1>1. [Next]_vars =>
        [outcome = "hearing" /\ LastAttempt => outcome' \in {"dispatched", "answered"}]_vars
  BY DEF Next, CallRaises, Malfunction, CallReturns, Dispatch, Hint, Answer, EndAttempt
<1> QED
  BY <1>1, PTL DEF Spec, LastTextCounts

(* What process makes of the texts is the loop of RetryLoop: each attempt  *)
(* ends in an exception, a hint, a call or an answer, as there.            *)
THEOREM AnswersRefineLoop == Spec => KeepsToLoop
<1>1. Init => Loop!LoopInit
  BY DEF Init, Loop!LoopInit
<1>2. [Next]_vars => [Loop!LoopNext]_(Loop!loopVars)
  <2> SUFFICES ASSUME [Next]_vars PROVE [Loop!LoopNext]_(Loop!loopVars)
    OBVIOUS
  <2> USE DEF Loop!LoopNext, Loop!LoopStep, Loop!EndAttempt, Loop!LastAttempt, LastAttempt, EndAttempt
  <2>1. CASE CallRaises
    BY <2>1 DEF CallRaises, Loop!CallFails
  <2>2. CASE Malfunction \/ CallReturns \/ UNCHANGED vars
    <3>1. CASE tries' = tries /\ outcome' = outcome
      BY <3>1 DEF Loop!loopVars
    <3>2. CASE /\ tries' = tries
               /\ outcome \in {"asking", "hearing", "raised"} /\ outcome' \in {"asking", "hearing", "raised"}
      BY <3>2 DEF Loop!loopVars
    <3> QED
      BY <2>2, <3>1, <3>2 DEF Malfunction, CallReturns, vars
  <2>3. CASE Dispatch
    BY <2>3 DEF Dispatch, Loop!ToolAnswer
  <2>4. CASE Hint \/ Answer
    BY <2>4 DEF Hint, Answer, Loop!ProseAnswer
  <2> QED
    BY <2>1, <2>2, <2>3, <2>4 DEF Next
<1> QED
  BY <1>1, <1>2, PTL DEF Spec, KeepsToLoop

=============================================================================
