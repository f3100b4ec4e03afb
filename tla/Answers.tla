------------------------------ MODULE Answers -------------------------------
(***************************************************************************)
(* What process makes of the texts the LLM returns for one request         *)
(* (src/agent.py): the conversation with its corrective hints, the tool    *)
(* call found in a text, and the grade of an answer in prose.  The request *)
(* keeps all of it to itself; GuardedAgent has the three outcomes, this    *)
(* module tells which text leads to which.                                 *)
(*                                                                         *)
(* A text is a sequence of pieces: JSON objects, braces that belong to     *)
(* none, fences (```), and prose.  A piece brings the significant words    *)
(* (_significant_tokens) of its own; an object is told by the key that     *)
(* matters: "tool", one of the text keys ("answer", "response", "message", *)
(* "content"), or neither.                                                 *)
(***************************************************************************)
EXTENDS Naturals, Sequences, FiniteSetsExt, SequencesExt

CONSTANTS Words,        \* significant words
          MaxRetries,   \* self.max_retries
          Threshold,    \* self.grounding_threshold, in percent
          MaxPieces     \* bound: pieces in a text

ASSUME AnswersAssumption ==
  MaxRetries \in Nat \ {0} /\ Threshold \in 0..100 /\ MaxPieces \in Nat
    /\ IsFiniteSet(Words)

Mark(what) == [is |-> what, words |-> {}]

Objects == {"tool", "other_object", "answer_object"}

Pieces ==
  [is : Objects, words : SUBSET Words]
    \cup [is : {"prose"}, words : {{}} \cup {{w} : w \in Words}]
    \cup {Mark(what) : what \in {"open", "close", "fence"}}

Texts == UNION {[1..n -> Pieces] : n \in 0..MaxPieces}

VARIABLES
  context,    \* significant words of the records retrieved, or of the
              \* sentence that says there are none
  messages,   \* the roles in the conversation; "hint" is a user message too
  tries,      \* attempts completed
  outcome,    \* what the loop has come to
  heard,      \* raw_output: the text under consideration
  reply       \* status and words of the answer in prose

vars == <<context, messages, tries, outcome, heard, reply>>

NoReply == [status |-> "none", words |-> {}]

AnswersTypeOK ==
  /\ context \subseteq Words
  /\ messages \in Seq({"system", "user", "assistant", "hint"})
  /\ tries \in 0..MaxRetries
  /\ outcome \in {"asking", "hearing", "dispatched", "answered", "failed", "raised"}
  /\ heard \in Seq(Pieces) /\ Len(heard) <= MaxPieces
  /\ reply \in [status : {"none", "success", "uncertain"}, words : SUBSET Words]
  /\ reply # NoReply => outcome = "answered"
  /\ outcome \in {"asking", "hearing"} => tries < MaxRetries

Init ==
  /\ context \in SUBSET Words
  /\ messages = <<"system", "user">>
  /\ tries = 0 /\ outcome = "asking" /\ heard = <<>> /\ reply = NoReply

-----------------------------------------------------------------------------
(* _extract_json_object.                                                   *)

(* A fence at the front goes, and then one at the end. *)
Unfenced(text) ==
  IF text # <<>> /\ Head(text).is = "fence"
  THEN LET inner == Tail(text)
       IN IF inner # <<>> /\ Last(inner).is = "fence" THEN Front(inner) ELSE inner
  ELSE text

Braces(text, kinds) == {k \in 1..Len(text) : text[k].is \in kinds}

Malformed == Mark("none")

(* Mutant: the candidate ends with the first closing brace. *)
ExtractFirst(text) ==
  LET t == Unfenced(text)
      opening == Braces(t, Objects \cup {"open"})
      closing == Braces(t, Objects \cup {"close"})
  IN IF opening # {} /\ closing # {} /\ Min(opening) = Min(closing)
     THEN t[Min(opening)] ELSE Malformed

(* Mutant: only a text that is JSON as a whole is looked at. *)
ExtractWhole(text) ==
  IF Len(Unfenced(text)) = 1 /\ Unfenced(text)[1].is \in Objects
  THEN Unfenced(text)[1] ELSE Malformed

(* What is between the first opening and the last closing brace, if it is  *)
(* one object.  (If not, the whole text may still be JSON, a list or a     *)
(* string, and has no keys either.)                                        *)
Extract(text) ==
  LET t == Unfenced(text)
      opening == Braces(t, Objects \cup {"open"})
      closing == Braces(t, Objects \cup {"close"})
  IN IF opening # {} /\ closing # {} /\ Min(opening) = Max(closing)
     THEN t[Min(opening)] ELSE Malformed

-----------------------------------------------------------------------------
(* _answer_free_text.                                                      *)

(* Mutant: the words of all the text count. *)
SpokenRaw(text) == UNION {text[k].words : k \in 1..Len(text)}

(* _clean_free_text: the text of the object found, or else all of it. *)
Spoken(text) ==
  IF Extract(text).is = "answer_object" THEN Extract(text).words
  ELSE UNION {text[k].words : k \in 1..Len(text)}

(* Mutant: a share at the threshold does not pass. *)
GroundedAbove(words) ==
  \/ words = {} \/ context = {}
  \/ 100 * Cardinality(words \cap context) > Threshold * Cardinality(words)

(* _grounded *)
Grounded(words) ==
  \/ words = {} \/ context = {}
  \/ 100 * Cardinality(words \cap context) >= Threshold * Cardinality(words)

-----------------------------------------------------------------------------
(* The loop of process.                                                    *)

(* Mutant: the range of attempts is one too long. *)
LastAttemptOffByOne == tries = MaxRetries

LastAttempt == tries + 1 = MaxRetries

EndAttempt(what) ==
  /\ tries' = tries + 1
  /\ outcome' = what
  /\ UNCHANGED context

(* Mutant: the first call that raises ends the loop. *)
CallRaisesForGood ==
  /\ outcome = "asking"
  /\ EndAttempt("failed")
  /\ UNCHANGED <<messages, heard, reply>>

(* Mutant: a call that raised leaves the hint in the conversation. *)
CallRaisesHinting ==
  /\ outcome = "asking"
  /\ EndAttempt(IF LastAttempt THEN "failed" ELSE "asking")
  /\ messages' = Append(messages, "hint")
  /\ UNCHANGED <<heard, reply>>

CallRaises ==
  /\ outcome = "asking"
  /\ EndAttempt(IF LastAttempt THEN "failed" ELSE "asking")
  /\ UNCHANGED <<messages, heard, reply>>

(* The response has no text: that is outside the try, and ends the call of *)
(* process with an exception (the client gets a 500).                      *)
Malfunction ==
  /\ outcome = "asking" /\ outcome' = "raised"
  /\ UNCHANGED <<context, messages, tries, heard, reply>>

CallReturns ==
  /\ outcome = "asking" /\ outcome' = "hearing"
  /\ heard' \in Texts
  /\ UNCHANGED <<context, messages, tries, reply>>

Dispatch ==
  /\ outcome = "hearing" /\ Extract(heard).is = "tool"
  /\ EndAttempt("dispatched")
  /\ UNCHANGED <<messages, heard, reply>>

(* Mutant: the last attempt is hinted at like the others. *)
HintAlways ==
  /\ outcome = "hearing" /\ Extract(heard).is # "tool"
  /\ EndAttempt(IF LastAttempt THEN "failed" ELSE "asking")
  /\ messages' = messages \o <<"assistant", "hint">>
  /\ heard' = <<>>
  /\ UNCHANGED reply

(* Neither a call nor the last attempt: the text goes into the             *)
(* conversation, with the hint how to do better.                           *)
Hint ==
  /\ outcome = "hearing" /\ Extract(heard).is # "tool" /\ ~LastAttempt
  /\ EndAttempt("asking")
  /\ messages' = messages \o <<"assistant", "hint">>
  /\ heard' = <<>>
  /\ UNCHANGED reply

(* A text without words is answered with a fixed sentence, a "success". *)
Answer ==
  /\ outcome = "hearing" /\ Extract(heard).is # "tool" /\ LastAttempt
  /\ LET words == Spoken(heard)
     IN reply' = [status |-> IF Grounded(words) THEN "success" ELSE "uncertain",
                  words |-> words]
  /\ EndAttempt("answered")
  /\ UNCHANGED <<messages, heard>>

Next == CallRaises \/ Malfunction \/ CallReturns \/ Dispatch \/ Hint \/ Answer

Spec == Init /\ [][Next]_vars

-----------------------------------------------------------------------------
(* Properties.                                                             *)

ObjectsIn(text) == {k \in 1..Len(text) : text[k].is \in Objects}

(* A text with two objects is not a call of either: what was dispatched is *)
(* the one object of its text.                                             *)
DispatchedAlone == outcome = "dispatched" => Cardinality(ObjectsIn(heard)) = 1

(* Piece k is the one object of a text, with fences and prose around it.   *)
Lone(text, k) ==
  /\ k \in ObjectsIn(text)
  /\ \A j \in 1..Len(text) : j # k => text[j].is \in {"fence", "prose"}

(* A tool call is heard at the first attempt that makes it: never is a     *)
(* text that is a call, even between fences or prose, hinted at or given   *)
(* to the client as an answer (the prompt asks for raw JSON).              *)
CallIsHeard ==
  [][outcome = "hearing" /\ (\E k \in 1..Len(heard) : Lone(heard, k) /\ heard[k].is = "tool")
       => outcome' = "dispatched"]_vars

(* A text that came at the last attempt is dispatched or answered, and no  *)
(* error: an answer can only get lost when a later call raises.            *)
LastTextCounts ==
  [][outcome = "hearing" /\ LastAttempt => outcome' \in {"dispatched", "answered"}]_vars

(* The grade of an answer is that of the words the client gets (before     *)
(* redaction): it is called uncertain just when there are records and more *)
(* of its words are missing from them than the threshold leaves room for;  *)
(* a share at the threshold passes, and so does an answer without words.   *)
(* The answer in a lone object is the one graded, whatever stands around   *)
(* it.                                                                     *)
GradeIsEarned ==
  outcome = "answered" =>
    /\ reply.status = "uncertain" <=>
         /\ context # {}
         /\ 100 * Cardinality(reply.words \ context) > (100 - Threshold) * Cardinality(reply.words)
    /\ \A k \in 1..Len(heard) :
         Lone(heard, k) /\ heard[k].is = "answer_object" => reply.words = heard[k].words

(* Whenever the LLM is asked, the conversation is one it can follow: the   *)
(* prompt, the request, and for every text it gave the text and a hint, in *)
(* turns; a call that raised leaves nothing behind.                        *)
ConversationAlternates ==
  /\ SubSeq(messages, 1, 2) = <<"system", "user">>
  /\ \A k \in 3..Len(messages) : messages[k] = IF k % 2 = 1 THEN "assistant" ELSE "hint"
  /\ outcome = "asking" => Last(messages) \in {"user", "hint"} /\ Len(messages) <= 2 * tries + 2

(* The loop of the code makes the steps of RetryLoop, with the one that    *)
(* raises out of process as a step it never takes.                         *)
Loop == INSTANCE RetryLoop WITH
  Requests <- {"request"},
  tries <- [r \in {"request"} |-> tries],
  verdict <- [r \in {"request"} |->
                CASE outcome \in {"asking", "hearing", "raised"} -> "open"
                  [] outcome = "dispatched" -> "tool"
                  [] outcome = "answered" -> "text"
                  [] outcome = "failed" -> "failed"]

KeepsToLoop == Loop!LoopInit /\ [][Loop!LoopNext]_(Loop!loopVars)

=============================================================================
