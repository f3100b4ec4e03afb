------------------------------ MODULE Dashboard ------------------------------
(***************************************************************************)
(* The Streamlit dashboard (src/app.py) in front of the engine.            *)
(*                                                                         *)
(* Streamlit runs the script from top to bottom for every interaction.     *)
(* In the run that an interaction starts, and in no other, chat_input      *)
(* returns the text that was entered and button returns True for the       *)
(* button that was pressed.  What a run does not draw is gone from the     *)
(* page when it ends.  An interaction during a run stops it at its next    *)
(* call of Streamlit and starts another.  Session state is kept per        *)
(* browser session, cache_resource once for all of them.                   *)
(*                                                                         *)
(* Of two interactions that wait for a run to begin, Streamlit may make    *)
(* one: the run they start has the prompt of the one and the clicks of     *)
(* both.  Whether it does, or drops what is left of the older one, is not  *)
(* in the repository; here it does either.                                 *)
(*                                                                         *)
(* The engine is what it does with a prompt; GuardedAgent has the rest.    *)
(***************************************************************************)
EXTENDS Naturals, Sequences

CONSTANTS Sessions,   \* browser sessions
          Prompts,    \* texts entered, each once
          NoPrompt,
          MaxOutages  \* bound: times the engine goes down

ASSUME DashboardAssumption == NoPrompt \notin Prompts /\ MaxOutages \in Nat

(* What the engine makes of a prompt sent with require_approval. *)
Outcomes == {"blocked", "pending_approval", "tool_execution", "text", "error"}

Buttons == {"approve", "reject", "other"}

(* What starts a run: a prompt, a click, or several made into one. *)
Inputs == [prompt : Prompts \cup {NoPrompt}, clicks : SUBSET Buttons]
NoInput == [prompt |-> NoPrompt, clicks |-> {}]

VARIABLES
  up,         \* the engine is reachable
  outages,
  engine,     \* engine[p]: what the engine has made of prompt p
  sent,       \* sent[p]: times p was posted to it
  decided,    \* decisions posted to /agent/approve, with the prompt they are about
  health,     \* what init_agent_health has cached
  used,       \* prompts entered
  pc,         \* pc[s]: where the script run of session s is
  input,      \* input[s]: the interaction that started it
  waiting,    \* waiting[s]: an interaction that came during it
  response,   \* response[s]: status of the answer of api_process
  history,    \* st.session_state.chat_history after the greeting
  buttons     \* buttons[s]: whose Approve and Reject buttons the page shows

engineVars == <<up, outages, engine>>
vars == <<up, outages, engine, sent, decided, health, used, pc, input, waiting,
          response, history, buttons>>

Says == {"prompt", "offline", "blocked", "awaiting", "decided", "executed", "message"}

DashboardTypeOK ==
  /\ up \in BOOLEAN /\ outages \in 0..MaxOutages
  /\ engine \in [Prompts -> {"none", "working", "lost"} \cup Outcomes]
  /\ sent \in [Prompts -> Nat]
  /\ decided \subseteq Prompts \X {"approve", "reject"}
  /\ health \in {"unasked", "ok", "unreachable"}
  /\ used \subseteq Prompts
  /\ pc \in [Sessions -> {"idle", "top", "asking", "posted", "answered"}]
  /\ input \in [Sessions -> Inputs] /\ waiting \in [Sessions -> Inputs]
  /\ response \in [Sessions -> {"none"} \cup Outcomes]
  /\ history \in [Sessions -> Seq([of : Prompts, says : Says])]
  /\ buttons \in [Sessions -> Prompts \cup {NoPrompt}]

Init ==
  /\ up \in BOOLEAN /\ outages = 0
  /\ engine = [p \in Prompts |-> "none"]
  /\ sent = [p \in Prompts |-> 0]
  /\ decided = {}
  /\ health = "unasked" /\ used = {}
  /\ pc = [s \in Sessions |-> "top"]          \* the page is opened
  /\ input = [s \in Sessions |-> NoInput]
  /\ waiting = [s \in Sessions |-> NoInput]
  /\ response = [s \in Sessions |-> "none"]
  /\ history = [s \in Sessions |-> <<>>]
  /\ buttons = [s \in Sessions |-> NoPrompt]

-----------------------------------------------------------------------------
(* The analyst.                                                            *)

(* What may become of interaction i when an older one waits as well. *)
Merged(old, i) ==
  [prompt : IF i.prompt = NoPrompt THEN {old.prompt, NoPrompt}
            ELSE {old.prompt, i.prompt} \ {NoPrompt},
   clicks : {i.clicks, old.clicks \cup i.clicks}]

Interact(s, i) ==
  /\ \/ /\ pc[s] = "idle"
        /\ input' = [input EXCEPT ![s] = i]
        /\ pc' = [pc EXCEPT ![s] = "top"]
        /\ UNCHANGED waiting
     \/ /\ pc[s] = "top" /\ waiting[s] = NoInput      \* the run has yet to begin
        /\ \E m \in Merged(input[s], i) : input' = [input EXCEPT ![s] = m]
        /\ UNCHANGED <<waiting, pc>>
     \/ /\ pc[s] # "idle"
        /\ \E m \in Merged(waiting[s], i) : waiting' = [waiting EXCEPT ![s] = m]
        /\ UNCHANGED <<input, pc>>
  /\ UNCHANGED <<engineVars, sent, decided, health, response, history, buttons>>

Enter(s) ==
  \E p \in Prompts \ used :
    /\ Interact(s, [prompt |-> p, clicks |-> {}])
    /\ used' = used \cup {p}

(* Approve and Reject while the page shows them; the others (simulated     *)
(* attack, manual block, unban) change session state only and rerun.       *)
Click(s) ==
  \E c \in Buttons :
    /\ c \in {"approve", "reject"} => buttons[s] # NoPrompt
    /\ Interact(s, [prompt |-> NoPrompt, clicks |-> {c}])
    /\ UNCHANGED used

-----------------------------------------------------------------------------
(* A run of the script.                                                    *)

(* Mutant: the prompt is a text_input, which keeps its value. *)
InterruptKeepingPrompt(s) ==
  /\ waiting[s] # NoInput
  /\ pc[s] \in {"top", "asking", "answered"}
  /\ input' = [input EXCEPT ![s] = IF waiting[s].prompt # NoPrompt THEN waiting[s]
                                   ELSE [waiting[s] EXCEPT !.prompt = input[s].prompt]]
  /\ waiting' = [waiting EXCEPT ![s] = NoInput]
  /\ pc' = [pc EXCEPT ![s] = "top"]
  /\ UNCHANGED <<engineVars, sent, decided, health, used, response, history, buttons>>

(* The run stops where it is; requests.post is no place to stop at. *)
Interrupt(s) ==
  /\ waiting[s] # NoInput
  /\ pc[s] \in {"top", "asking", "answered"}
  /\ input' = [input EXCEPT ![s] = waiting[s]]
  /\ waiting' = [waiting EXCEPT ![s] = NoInput]
  /\ pc' = [pc EXCEPT ![s] = "top"]
  /\ UNCHANGED <<engineVars, sent, decided, health, used, response, history, buttons>>

(* Mutant: a page without a prompt leaves the buttons where they are. *)
DrawKeepingButtons(s) ==
  /\ pc[s] = "top" /\ waiting[s] = NoInput
  /\ health' = IF health # "unasked" THEN health ELSE IF up THEN "ok" ELSE "unreachable"
  /\ IF input[s].prompt = NoPrompt
     THEN /\ pc' = [pc EXCEPT ![s] = "idle"]
          /\ UNCHANGED history
     ELSE /\ pc' = [pc EXCEPT ![s] = "asking"]
          /\ history' = [history EXCEPT ![s] = Append(@, [of |-> input[s].prompt, says |-> "prompt"])]
  /\ UNCHANGED <<engineVars, sent, decided, used, input, waiting, response, buttons>>

(* Mutant: the branch is entered whether there is a prompt or not. *)
DrawUnconditionally(s) ==
  /\ pc[s] = "top" /\ waiting[s] = NoInput
  /\ health' = IF health # "unasked" THEN health ELSE IF up THEN "ok" ELSE "unreachable"
  /\ pc' = [pc EXCEPT ![s] = "asking"]
  /\ history' = [history EXCEPT ![s] = Append(@, [of |-> input[s].prompt, says |-> "prompt"])]
  /\ UNCHANGED <<engineVars, sent, decided, used, input, waiting, response, buttons>>

(* The page down to chat_input; without a prompt nothing else is drawn.    *)
(* The button of the simulated attack stands above chat_input, and its     *)
(* st.rerun() starts a run without prompt or click.                        *)
Draw(s) ==
  /\ pc[s] = "top" /\ waiting[s] = NoInput
  /\ health' = IF health # "unasked" THEN health ELSE IF up THEN "ok" ELSE "unreachable"
  /\ \/ /\ input[s].prompt = NoPrompt \/ "other" \in input[s].clicks
        /\ pc' = [pc EXCEPT ![s] = "idle"]
        /\ buttons' = [buttons EXCEPT ![s] = NoPrompt]
        /\ UNCHANGED history
     \/ /\ input[s].prompt # NoPrompt
        /\ pc' = [pc EXCEPT ![s] = "asking"]
        /\ history' = [history EXCEPT ![s] = Append(@, [of |-> input[s].prompt, says |-> "prompt"])]
        /\ UNCHANGED buttons
  /\ UNCHANGED <<engineVars, sent, decided, used, input, waiting, response>>

(* api_process, whatever engine_online says. *)
Post(s) ==
  /\ pc[s] = "asking"
  /\ LET p == input[s].prompt
     IN \/ /\ up
           /\ engine' = [engine EXCEPT ![p] = "working"]
           /\ sent' = [sent EXCEPT ![p] = @ + 1]
           /\ pc' = [pc EXCEPT ![s] = "posted"]
           /\ UNCHANGED response
        \/ /\ ~up
           /\ response' = [response EXCEPT ![s] = "error"]
           /\ pc' = [pc EXCEPT ![s] = "answered"]
           /\ UNCHANGED <<engine, sent>>
  /\ UNCHANGED <<up, outages, decided, health, used, input, waiting, history, buttons>>

(* Mutant: the client's timeout is taken for a request that waits for approval. *)
ReceiveGuessing(s) ==
  /\ pc[s] = "posted"
  /\ response' = [response EXCEPT ![s] = IF engine[input[s].prompt] \in Outcomes
                                         THEN engine[input[s].prompt]
                                         ELSE "pending_approval"]
  /\ pc' = [pc EXCEPT ![s] = "answered"]
  /\ UNCHANGED <<engineVars, sent, decided, health, used, input, waiting, history, buttons>>

(* The answer; or the connection breaks, or 60 seconds are over while the  *)
(* engine goes on.                                                         *)
Receive(s) ==
  /\ pc[s] = "posted"
  /\ \/ /\ engine[input[s].prompt] \in Outcomes
        /\ response' = [response EXCEPT ![s] = engine[input[s].prompt]]
     \/ response' = [response EXCEPT ![s] = "error"]
  /\ pc' = [pc EXCEPT ![s] = "answered"]
  /\ UNCHANGED <<engineVars, sent, decided, health, used, input, waiting, history, buttons>>

(* What the run says of its prompt: the if and elif of the script. *)
Verdict(s) ==
  CASE health # "ok" -> "offline"
    [] health = "ok" /\ response[s] = "blocked" -> "blocked"
    [] health = "ok" /\ response[s] = "pending_approval" ->
         IF input[s].clicks \cap {"approve", "reject"} # {} THEN "decided" ELSE "awaiting"
    [] health = "ok" /\ response[s] = "tool_execution" -> "executed"
    [] OTHER -> "message"

(* The first button of the if and elif that is pressed. *)
Pressed(s) == IF "approve" \in input[s].clicks THEN "approve" ELSE "reject"

(* The answer is shown and remembered; buttons and api_approve come in the *)
(* branch for pending_approval.  Unban and manual block stand below it,    *)
(* and their st.rerun() starts a run that draws no buttons.                *)
Render(s) ==
  /\ pc[s] = "answered" /\ waiting[s] = NoInput
  /\ LET p == input[s].prompt
     IN /\ history' = [history EXCEPT ![s] = Append(@, [of |-> p, says |-> Verdict(s)])]
        /\ buttons' = [buttons EXCEPT ![s] =
                         IF Verdict(s) \in {"awaiting", "decided"} /\ "other" \notin input[s].clicks
                         THEN p ELSE NoPrompt]
        /\ decided' = IF Verdict(s) = "decided" THEN decided \cup {<<p, Pressed(s)>>}
                      ELSE decided
  /\ pc' = [pc EXCEPT ![s] = "idle"]
  /\ UNCHANGED <<engineVars, sent, health, used, input, waiting, response>>

-----------------------------------------------------------------------------
(* The engine.                                                             *)

Process(p) ==
  /\ engine[p] = "working"
  /\ \E outcome \in Outcomes : engine' = [engine EXCEPT ![p] = outcome]
  /\ UNCHANGED <<up, outages, sent, decided, health, used, pc, input, waiting,
                 response, history, buttons>>

GoDown ==
  /\ up /\ outages < MaxOutages
  /\ up' = FALSE /\ outages' = outages + 1
  /\ engine' = [p \in Prompts |-> IF engine[p] = "working" THEN "lost" ELSE engine[p]]
  /\ UNCHANGED <<sent, decided, health, used, pc, input, waiting, response, history, buttons>>

ComeUp ==
  /\ ~up
  /\ up' = TRUE
  /\ UNCHANGED <<outages, engine, sent, decided, health, used, pc, input, waiting,
                 response, history, buttons>>

Next ==
  \/ \E s \in Sessions :
       \/ Enter(s) \/ Click(s) \/ Interrupt(s) \/ Draw(s)
       \/ Post(s) \/ Receive(s) \/ Render(s)
  \/ \E p \in Prompts : Process(p)
  \/ GoDown \/ ComeUp

Spec == Init /\ [][Next]_vars

-----------------------------------------------------------------------------
(* Properties.                                                             *)

(* A prompt reaches the engine at most once, however often the script is   *)
(* run again and wherever its runs are stopped: neither a click nor the    *)
(* loss of an answer makes a tool run for a second time.                   *)
SentOnce == \A p \in Prompts : sent[p] <= 1

(* Where the chat says "executed", "blocked" or "awaiting approval" of a   *)
(* prompt, that is what the engine made of it, and not of one whose answer *)
(* timed out, went down with the engine or was cut off.  (It may say that  *)
(* the engine is offline of a prompt the engine did carry out.)            *)
ChatIsTrue ==
  \A s \in Sessions : \A i \in 1..Len(history[s]) :
    LET h == history[s][i]
    IN /\ h.says = "executed" => engine[h.of] = "tool_execution"
       /\ h.says = "blocked" => engine[h.of] = "blocked"
       /\ h.says \in {"awaiting", "decided"} => engine[h.of] = "pending_approval"

(* The buttons on a page that is at rest belong to the last message of the *)
(* chat, which is about their action, so that nobody decides an older one. *)
ButtonsAreCurrent ==
  \A s \in Sessions : pc[s] = "idle" /\ buttons[s] # NoPrompt =>
    /\ history[s] # <<>>
    /\ history[s][Len(history[s])].of = buttons[s]
    /\ history[s][Len(history[s])].says \in {"awaiting", "decided"}

(* "Approve or reject a pending destructive tool action via /agent/approve"*)
(* (docstring of api_approve): a run that a click on Approve or Reject     *)
(* started does not come to its end without having posted that decision.   *)
ClickDecides ==
  [][\A s \in Sessions, c \in {"approve", "reject"} :
       c \in input[s].clicks /\ pc[s] # "idle" /\ pc'[s] = "idle"
         => <<buttons[s], c>> \in decided']_vars

=============================================================================
