--------------------------- MODULE DashboardProofs ---------------------------
(***************************************************************************)
(* Theorems about Dashboard, for any number of browser sessions, prompts   *)
(* and outages of the engine.                                              *)
(***************************************************************************)
EXTENDS Dashboard, TLAPS

-----------------------------------------------------------------------------
(* The inductive invariant.                                                *)

(* A prompt that was entered starts one run of one session, or waits to.   *)
OnePlace ==
  /\ \A s \in Sessions : input[s].prompt \in used \cup {NoPrompt}
  /\ \A s \in Sessions : waiting[s].prompt \in used \cup {NoPrompt}
  /\ \A s, u \in Sessions : input[s].prompt = waiting[u].prompt => waiting[u].prompt = NoPrompt
  /\ \A s, u \in Sessions : input[s].prompt = input[u].prompt => s = u \/ input[u].prompt = NoPrompt
  /\ \A s, u \in Sessions : waiting[s].prompt = waiting[u].prompt => s = u \/ waiting[u].prompt = NoPrompt

(* Until its run has posted it, the engine does not know a prompt. *)
Sending ==
  /\ \A p \in Prompts : sent[p] = 0 => engine[p] = "none"
  /\ \A p \in Prompts \ used : sent[p] = 0
  /\ \A s \in Sessions : waiting[s].prompt # NoPrompt => sent[waiting[s].prompt] = 0
  /\ \A s \in Sessions : input[s].prompt # NoPrompt /\ pc[s] \in {"top", "asking"}
                           => sent[input[s].prompt] = 0

(* A run past chat_input is about a prompt. *)
AboutPrompt ==
  \A s \in Sessions : pc[s] \in {"asking", "posted", "answered"} => input[s].prompt # NoPrompt

(* An answer that is no error is what the engine made of the prompt. *)
Answered ==
  \A s \in Sessions : pc[s] = "answered" =>
    /\ response[s] \in Outcomes
    /\ response[s] # "error" => response[s] = engine[input[s].prompt]

(* No run is about prompt p any more, and none will be. *)
Over(p) ==
  \A s \in Sessions : /\ input[s].prompt = p => pc[s] = "idle"
                      /\ waiting[s].prompt # p

(* So it is with a prompt the chat has answered or a decision was about. *)
Closed ==
  /\ \A s \in Sessions : \A n \in 1..Len(history[s]) :
       /\ history[s][n].of \in used
       /\ history[s][n].says # "prompt" => Over(history[s][n].of)
  /\ \A d \in decided : d[1] \in used /\ Over(d[1])

(* No chat ever offered an action that was then decided. *)
DecidedUnseen ==
  \A d \in decided : \A s \in Sessions : \A n \in 1..Len(history[s]) :
    history[s][n].of = d[1] => history[s][n].says # "awaiting"

DashInv ==
  /\ DashboardTypeOK /\ OnePlace /\ Sending /\ AboutPrompt /\ Answered
  /\ SentOnce /\ ChatIsTrue /\ ButtonsAreCurrent /\ Closed /\ DecidedUnseen

(* The first run of every session draws a page about nothing. *)
LEMMA DashInitInv == Init => DashInv
<1> SUFFICES ASSUME Init PROVE DashInv
  OBVIOUS
<1> USE DashboardAssumption DEF DashboardAssumption, Init, Inputs, NoInput
<1>1. DashboardTypeOK
  BY DEF DashboardTypeOK
<1>2. OnePlace /\ Sending /\ AboutPrompt /\ Answered
  BY DEF OnePlace, Sending, AboutPrompt, Answered
<1>3. SentOnce /\ ChatIsTrue /\ ButtonsAreCurrent /\ Closed /\ DecidedUnseen
  BY DEF SentOnce, ChatIsTrue, ButtonsAreCurrent, Closed, DecidedUnseen
<1> QED
  BY <1>1, <1>2, <1>3 DEF DashInv

-----------------------------------------------------------------------------
(* What an interaction adds: a prompt not entered before, or none. *)
Entered(p) == \/ p \in Prompts \ used /\ used' = used \cup {p}
              \/ p = NoPrompt /\ UNCHANGED used

(* What it leaves alone, and the three places it may go to: a run of its   *)
(* own, one that has yet to begin, the queue.                              *)
NothingElse ==
  UNCHANGED <<up, outages, engine, sent, decided, health, response, history, buttons>>
Begins(s, m) ==
  /\ pc[s] = "idle" /\ pc' = [pc EXCEPT ![s] = "top"]
  /\ input' = [input EXCEPT ![s] = m] /\ UNCHANGED waiting
Joins(s, m) ==
  /\ pc[s] = "top" /\ UNCHANGED pc
  /\ input' = [input EXCEPT ![s] = m] /\ UNCHANGED waiting
Waits(s, m) ==
  /\ pc[s] # "idle" /\ UNCHANGED pc
  /\ waiting' = [waiting EXCEPT ![s] = m] /\ UNCHANGED input

(* m is what became of an interaction with prompt p. *)
Placed(s, p, m) ==
  \/ Begins(s, m) /\ m.prompt = p
  \/ Joins(s, m) /\ m.prompt \in {input[s].prompt, p}
  \/ Waits(s, m) /\ m.prompt \in {waiting[s].prompt, p}

(* Two interactions made into one have the prompt of either. *)
LEMMA MergedPrompt ==
  ASSUME NEW old \in Inputs, NEW i \in Inputs, NEW m \in Merged(old, i)
  PROVE  m \in Inputs /\ m.prompt \in {old.prompt, i.prompt}
BY DEF Merged, Inputs

(* Whatever the analyst does goes to one of the three places. *)
LEMMA AnInteraction ==
  ASSUME NEW s \in Sessions, DashboardTypeOK, Enter(s) \/ Click(s)
  PROVE  \E p \in Prompts \cup {NoPrompt}, m \in Inputs :
           NothingElse /\ Entered(p) /\ Placed(s, p, m)
<1>1. PICK i \in Inputs : Interact(s, i) /\ Entered(i.prompt)
  <2>1. CASE Enter(s)
    <3>1. PICK p \in Prompts \ used :
            Interact(s, [prompt |-> p, clicks |-> {}]) /\ used' = used \cup {p}
      BY <2>1 DEF Enter
    <3> DEFINE i == [prompt |-> p, clicks |-> {}]
    <3>2. i \in Inputs /\ i.prompt = p
      BY DEF Inputs
    <3> HIDE DEF i
    <3> QED
      BY <3>1, <3>2 DEF Entered, i
  <2>2. CASE Click(s)
    <3>1. PICK c \in Buttons :
            Interact(s, [prompt |-> NoPrompt, clicks |-> {c}]) /\ UNCHANGED used
      BY <2>2 DEF Click
    <3> DEFINE i == [prompt |-> NoPrompt, clicks |-> {c}]
    <3>2. i \in Inputs /\ i.prompt = NoPrompt
      BY DEF Inputs
    <3> HIDE DEF i
    <3> QED
      BY <3>1, <3>2 DEF Entered, i
  <2> QED
    BY <2>1, <2>2
<1>2. i.prompt \in Prompts \cup {NoPrompt} /\ input[s] \in Inputs /\ waiting[s] \in Inputs
  BY DEF Inputs, DashboardTypeOK
<1>3. \E m \in Inputs : Placed(s, i.prompt, m)
  <2>1. CASE pc[s] = "idle"
    BY <1>1, <2>1 DEF Interact, Begins, Placed
  <2>2. CASE /\ pc[s] = "top" /\ UNCHANGED <<waiting, pc>>
             /\ \E m \in Merged(input[s], i) : input' = [input EXCEPT ![s] = m]
    BY <1>2, <2>2, MergedPrompt DEF Joins, Placed
  <2>3. CASE /\ pc[s] # "idle" /\ UNCHANGED <<input, pc>>
             /\ \E m \in Merged(waiting[s], i) : waiting' = [waiting EXCEPT ![s] = m]
    BY <1>2, <2>3, MergedPrompt DEF Waits, Placed
  <2> QED
    BY <1>1, <2>1, <2>2, <2>3 DEF Interact
<1> QED
  BY <1>1, <1>2, <1>3 DEF Interact, NothingElse, engineVars

(* The two ways api_process goes: the engine has the prompt, or it is down. *)
AskedFor(s, p) ==
  /\ pc[s] = "asking" /\ input[s].prompt = p
  /\ UNCHANGED <<up, outages, decided, health, used, input, waiting, history, buttons>>
Posted(s, p) ==
  /\ engine' = [engine EXCEPT ![p] = "working"] /\ sent' = [sent EXCEPT ![p] = @ + 1]
  /\ pc' = [pc EXCEPT ![s] = "posted"] /\ UNCHANGED response
Refused(s) ==
  /\ response' = [response EXCEPT ![s] = "error"] /\ pc' = [pc EXCEPT ![s] = "answered"]
  /\ UNCHANGED <<engine, sent>>

(* api_process goes one of them. *)
LEMMA PostCases ==
  ASSUME NEW s \in Sessions, DashboardTypeOK, AboutPrompt, Post(s)
  PROVE  \E p \in Prompts : AskedFor(s, p) /\ (Posted(s, p) \/ Refused(s))
<1>1. input[s].prompt \in Prompts
  BY DEF DashboardTypeOK, AboutPrompt, Inputs, Post
<1>2. AskedFor(s, input[s].prompt) /\ (Posted(s, input[s].prompt) \/ Refused(s))
  BY Zenon DEF Post, AskedFor, Posted, Refused
<1> QED
  BY <1>1, <1>2

(* What a chat says later is what it said before, or the new message. *)
LEMMA HistoryGrows ==
  ASSUME DashboardTypeOK, NEW s \in Sessions, NEW h \in [of : Prompts, says : Says],
         history' = [history EXCEPT ![s] = Append(@, h)]
  PROVE  /\ history' \in [Sessions -> Seq([of : Prompts, says : Says])]
         /\ \A u \in Sessions : \A n \in 1..Len(history'[u]) :
              history'[u][n] = h \/ (n \in 1..Len(history[u]) /\ history'[u][n] = history[u][n])
<1> DEFINE Messages == [of : Prompts, says : Says]
<1>1. history \in [Sessions -> Seq(Messages)] /\ h \in Messages
  BY DEF DashboardTypeOK
<1> HIDE DEF Messages
<1>2. Append(history[s], h) \in Seq(Messages)
  BY <1>1
<1>3. history' \in [Sessions -> Seq(Messages)]
  BY <1>1, <1>2
<1>4. ASSUME NEW u \in Sessions, NEW n \in 1..Len(history'[u])
      PROVE  history'[u][n] = h \/ (n \in 1..Len(history[u]) /\ history'[u][n] = history[u][n])
  <2>1. CASE u = s
    <3>1. history[s] \in Seq(Messages) /\ history'[s] = Append(history[s], h)
      BY <1>1
    <3>2. /\ Len(history'[s]) = Len(history[s]) + 1 /\ history'[s][Len(history[s]) + 1] = h
          /\ \A k \in 1..Len(history[s]) : history'[s][k] = history[s][k]
      BY <1>1, <3>1
    <3>3. Len(history[s]) \in Nat
      BY <3>1
    <3> QED
      BY <2>1, <3>2, <3>3
  <2>2. CASE u # s
    BY <1>1, <2>2
  <2> QED
    BY <2>1, <2>2
<1> QED
  BY <1>3, <1>4 DEF Messages

(* A message is about a prompt. *)
LEMMA MessageOf ==
  ASSUME DashboardTypeOK, NEW s \in Sessions, NEW n \in 1..Len(history[s])
  PROVE  history[s][n].of \in Prompts
<1> DEFINE Messages == [of : Prompts, says : Says]
<1>1. history[s] \in Seq(Messages)
  BY DEF DashboardTypeOK
<1>2. \A h \in Messages : h.of \in Prompts
  OBVIOUS
<1> HIDE DEF Messages
<1>3. history[s][n] \in Messages
  BY <1>1
<1> QED
  BY <1>2, <1>3

(* Every step keeps each part of it.                                       *)

(* Types: what is rendered is an answer, and is about a prompt. *)
LEMMA TypeStep ==
  ASSUME DashboardTypeOK, AboutPrompt, Answered, [Next]_vars
  PROVE  DashboardTypeOK'
<1>0. NoPrompt \notin Prompts /\ MaxOutages \in Nat
  BY DashboardAssumption DEF DashboardAssumption
<1> USE <1>0 DEF DashboardTypeOK, engineVars, AboutPrompt, Answered, Says, Outcomes
<1>1. ASSUME NEW s \in Sessions,
             Enter(s) \/ Click(s) \/ Interrupt(s) \/ Draw(s) \/ Post(s) \/ Receive(s) \/ Render(s)
      PROVE  DashboardTypeOK'
  <2>1. CASE Enter(s) \/ Click(s)
    <3>1. PICK p \in Prompts \cup {NoPrompt}, m \in Inputs :
            NothingElse /\ Entered(p) /\ Placed(s, p, m)
      BY <2>1, AnInteraction
    <3>2. CASE Begins(s, m) /\ m.prompt = p
      BY <3>1, <3>2 DEF NothingElse, Entered, Begins
    <3>3. CASE Joins(s, m) /\ m.prompt \in {input[s].prompt, p}
      BY <3>1, <3>3 DEF NothingElse, Entered, Joins
    <3>4. CASE Waits(s, m) /\ m.prompt \in {waiting[s].prompt, p}
      BY <3>1, <3>4 DEF NothingElse, Entered, Waits
    <3> QED
      BY <3>1, <3>2, <3>3, <3>4 DEF Placed
  <2>2. CASE Interrupt(s)
    <3>1. NoInput \in Inputs
      BY DEF Inputs, NoInput
    <3> QED
      BY <2>2, <3>1 DEF Interrupt
  <2>3. CASE Draw(s)
    <3>1. CASE pc'[s] = "idle"
      BY <2>3, <3>1 DEF Draw
    <3>2. CASE pc'[s] # "idle"
      <4> DEFINE h == [of |-> input[s].prompt, says |-> "prompt"]
      <4>1. h \in [of : Prompts, says : Says]
        BY <2>3, <3>2 DEF Inputs, Draw
      <4> HIDE DEF h
      <4>2. history' = [history EXCEPT ![s] = Append(@, h)] /\ pc' = [pc EXCEPT ![s] = "asking"]
        BY <2>3, <3>2 DEF Draw, h
      <4>3. history' \in [Sessions -> Seq([of : Prompts, says : Says])]
        BY <4>1, <4>2, HistoryGrows
      <4> QED
        BY <2>3, <4>2, <4>3 DEF Draw
    <3> QED
      BY <3>1, <3>2
  <2>4. CASE Post(s)
    <3>1. PICK p \in Prompts : AskedFor(s, p) /\ (Posted(s, p) \/ Refused(s))
      BY <2>4, PostCases
    <3>2. CASE Posted(s, p)
      BY <3>1, <3>2 DEF AskedFor, Posted
    <3>3. CASE Refused(s)
      BY <3>1, <3>3 DEF AskedFor, Refused
    <3> QED
      BY <3>1, <3>2, <3>3
  <2>5. CASE Receive(s)
    BY <2>5 DEF Receive
  <2>6. CASE Render(s)
    <3> DEFINE h == [of |-> input[s].prompt, says |-> Verdict(s)]
    <3>1. input[s].prompt \in Prompts
      BY <2>6 DEF Inputs, Render
    <3>2. h \in [of : Prompts, says : Says]
      BY <3>1 DEF Verdict
    <3> HIDE DEF h
    <3>3. history' = [history EXCEPT ![s] = Append(@, h)]
      BY <2>6 DEF Render, h
    <3>4. history' \in [Sessions -> Seq([of : Prompts, says : Says])]
      BY <3>2, <3>3, HistoryGrows
    <3>5. buttons' \in [Sessions -> Prompts \cup {NoPrompt}]
      BY <2>6, <3>1 DEF Render
    <3>6. decided' \subseteq Prompts \X {"approve", "reject"}
      BY <2>6, <3>1 DEF Render, Pressed
    <3> QED
      BY <2>6, <3>4, <3>5, <3>6 DEF Render
  <2> QED
    BY <1>1, <2>1, <2>2, <2>3, <2>4, <2>5, <2>6
<1>2. ASSUME NEW p \in Prompts, Process(p) PROVE DashboardTypeOK'
  BY <1>2 DEF Process
<1>3. CASE GoDown
  <2>1. engine' \in [Prompts -> {"none", "working", "lost"} \cup Outcomes]
    BY <1>3 DEF GoDown
  <2>2. outages' \in 0..MaxOutages
    BY <1>3 DEF GoDown
  <2>3. up' \in BOOLEAN
    BY <1>3, Zenon DEF GoDown
  <2> QED
    BY <1>3, <2>1, <2>2, <2>3 DEF GoDown
<1>4. CASE ComeUp
  BY <1>4 DEF ComeUp
<1>5. CASE UNCHANGED vars
  BY <1>5 DEF vars
<1> QED
  BY <1>1, <1>2, <1>3, <1>4, <1>5 DEF Next

(* An interaction leaves the queue when its run begins. *)
LEMMA OnePlaceStep ==
  ASSUME DashboardTypeOK, AboutPrompt, OnePlace, [Next]_vars
  PROVE  OnePlace'
<1>0. NoPrompt \notin Prompts /\ MaxOutages \in Nat
  BY DashboardAssumption DEF DashboardAssumption
<1> USE <1>0 DEF engineVars, OnePlace
<1>1. ASSUME NEW s \in Sessions,
             Enter(s) \/ Click(s) \/ Interrupt(s) \/ Draw(s) \/ Post(s) \/ Receive(s) \/ Render(s)
      PROVE  OnePlace'
  <2>1. CASE Enter(s) \/ Click(s)
    <3>1. PICK p \in Prompts \cup {NoPrompt}, m \in Inputs :
            NothingElse /\ Entered(p) /\ Placed(s, p, m)
      BY <2>1, AnInteraction
    <3>2. CASE Begins(s, m) /\ m.prompt = p
      BY <3>1, <3>2 DEF NothingElse, Entered, Begins
    <3>3. CASE Joins(s, m) /\ m.prompt \in {input[s].prompt, p}
      BY <3>1, <3>3 DEF NothingElse, Entered, Joins
    <3>4. CASE Waits(s, m) /\ m.prompt \in {waiting[s].prompt, p}
      BY <3>1, <3>4 DEF NothingElse, Entered, Waits
    <3> QED
      BY <3>1, <3>2, <3>3, <3>4 DEF Placed
  <2>2. CASE Interrupt(s)
    BY <2>2 DEF Interrupt, DashboardTypeOK, NoInput
  <2>3. CASE Draw(s)
    BY <2>3 DEF Draw, DashboardTypeOK, NoInput
  <2>4. CASE Post(s)
    <3>1. PICK p \in Prompts : AskedFor(s, p) /\ (Posted(s, p) \/ Refused(s))
      BY <2>4, PostCases
    <3>2. CASE Posted(s, p)
      BY <3>1, <3>2 DEF AskedFor, Posted
    <3>3. CASE Refused(s)
      BY <3>1, <3>3 DEF AskedFor, Refused
    <3> QED
      BY <3>1, <3>2, <3>3
  <2>5. CASE Receive(s)
    BY <2>5 DEF Receive, DashboardTypeOK, NoInput
  <2>6. CASE Render(s)
    BY <2>6 DEF Render, DashboardTypeOK, NoInput
  <2> QED
    BY <1>1, <2>1, <2>2, <2>3, <2>4, <2>5, <2>6
<1>2. ASSUME NEW p \in Prompts, Process(p) PROVE OnePlace'
  BY <1>2 DEF Process, DashboardTypeOK, NoInput
<1>3. CASE GoDown
  BY <1>3 DEF GoDown, DashboardTypeOK, NoInput
<1>4. CASE ComeUp
  BY <1>4 DEF ComeUp, DashboardTypeOK, NoInput
<1>5. CASE UNCHANGED vars
  BY <1>5 DEF vars, DashboardTypeOK, NoInput
<1> QED
  BY <1>1, <1>2, <1>3, <1>4, <1>5 DEF Next

(* Only the run that has the prompt posts it. *)
LEMMA SendingStep ==
  ASSUME DashboardTypeOK, OnePlace, AboutPrompt, Sending, [Next]_vars
  PROVE  Sending'
<1>0. NoPrompt \notin Prompts /\ MaxOutages \in Nat
  BY DashboardAssumption DEF DashboardAssumption
<1> USE <1>0 DEF DashboardTypeOK, Inputs, NoInput, engineVars, OnePlace, AboutPrompt, Sending
<1>1. ASSUME NEW s \in Sessions,
             Enter(s) \/ Click(s) \/ Interrupt(s) \/ Draw(s) \/ Post(s) \/ Receive(s) \/ Render(s)
      PROVE  Sending'
  <2>1. CASE Enter(s) \/ Click(s)
    <3>1. PICK p \in Prompts \cup {NoPrompt}, m \in Inputs :
            NothingElse /\ Entered(p) /\ Placed(s, p, m)
      BY <2>1, AnInteraction
    <3>2. CASE Begins(s, m) /\ m.prompt = p
      BY <3>1, <3>2 DEF NothingElse, Entered, Begins
    <3>3. CASE Joins(s, m) /\ m.prompt \in {input[s].prompt, p}
      BY <3>1, <3>3 DEF NothingElse, Entered, Joins
    <3>4. CASE Waits(s, m) /\ m.prompt \in {waiting[s].prompt, p}
      BY <3>1, <3>4 DEF NothingElse, Entered, Waits
    <3> QED
      BY <3>1, <3>2, <3>3, <3>4 DEF Placed
  <2>2. CASE Interrupt(s)
    BY <2>2 DEF Interrupt
  <2>3. CASE Draw(s)
    BY <2>3 DEF Draw
  <2>4. CASE Post(s)
    <3>1. PICK p \in Prompts : AskedFor(s, p) /\ (Posted(s, p) \/ Refused(s))
      BY <2>4, PostCases
    <3>2. CASE Posted(s, p)
      BY <3>1, <3>2 DEF AskedFor, Posted
    <3>3. CASE Refused(s)
      BY <3>1, <3>3 DEF AskedFor, Refused
    <3> QED
      BY <3>1, <3>2, <3>3
  <2>5. CASE Receive(s)
    BY <2>5 DEF Receive
  <2>6. CASE Render(s)
    BY <2>6 DEF Render
  <2> QED
    BY <1>1, <2>1, <2>2, <2>3, <2>4, <2>5, <2>6
<1>2. ASSUME NEW p \in Prompts, Process(p) PROVE Sending'
  BY <1>2 DEF Process
<1>3. CASE GoDown
  BY <1>3 DEF GoDown
<1>4. CASE ComeUp
  BY <1>4 DEF ComeUp
<1>5. CASE UNCHANGED vars
  BY <1>5 DEF vars
<1> QED
  BY <1>1, <1>2, <1>3, <1>4, <1>5 DEF Next

(* chat_input returns the text in the run it starts. *)
LEMMA AboutPromptStep ==
  ASSUME DashboardTypeOK, AboutPrompt, [Next]_vars
  PROVE  AboutPrompt'
<1>0. NoPrompt \notin Prompts /\ MaxOutages \in Nat
  BY DashboardAssumption DEF DashboardAssumption
<1> USE <1>0 DEF DashboardTypeOK, Inputs, NoInput, engineVars, AboutPrompt
<1>1. ASSUME NEW s \in Sessions,
             Enter(s) \/ Click(s) \/ Interrupt(s) \/ Draw(s) \/ Post(s) \/ Receive(s) \/ Render(s)
      PROVE  AboutPrompt'
  <2>1. CASE Enter(s) \/ Click(s)
    <3>1. PICK p \in Prompts \cup {NoPrompt}, m \in Inputs :
            NothingElse /\ Entered(p) /\ Placed(s, p, m)
      BY <2>1, AnInteraction
    <3>2. CASE Begins(s, m) /\ m.prompt = p
      BY <3>1, <3>2 DEF NothingElse, Entered, Begins
    <3>3. CASE Joins(s, m) /\ m.prompt \in {input[s].prompt, p}
      BY <3>1, <3>3 DEF NothingElse, Entered, Joins
    <3>4. CASE Waits(s, m) /\ m.prompt \in {waiting[s].prompt, p}
      BY <3>1, <3>4 DEF NothingElse, Entered, Waits
    <3> QED
      BY <3>1, <3>2, <3>3, <3>4 DEF Placed
  <2>2. CASE Interrupt(s)
    BY <2>2 DEF Interrupt
  <2>3. CASE Draw(s)
    BY <2>3 DEF Draw
  <2>4. CASE Post(s)
    <3>1. PICK p \in Prompts : AskedFor(s, p) /\ (Posted(s, p) \/ Refused(s))
      BY <2>4, PostCases
    <3>2. CASE Posted(s, p)
      BY <3>1, <3>2 DEF AskedFor, Posted
    <3>3. CASE Refused(s)
      BY <3>1, <3>3 DEF AskedFor, Refused
    <3> QED
      BY <3>1, <3>2, <3>3
  <2>5. CASE Receive(s)
    BY <2>5 DEF Receive
  <2>6. CASE Render(s)
    BY <2>6 DEF Render
  <2> QED
    BY <1>1, <2>1, <2>2, <2>3, <2>4, <2>5, <2>6
<1>2. ASSUME NEW p \in Prompts, Process(p) PROVE AboutPrompt'
  BY <1>2 DEF Process
<1>3. CASE GoDown
  BY <1>3 DEF GoDown
<1>4. CASE ComeUp
  BY <1>4 DEF ComeUp
<1>5. CASE UNCHANGED vars
  BY <1>5 DEF vars
<1> QED
  BY <1>1, <1>2, <1>3, <1>4, <1>5 DEF Next

(* The engine does not take back what it has made of a prompt. *)
LEMMA AnsweredStep ==
  ASSUME DashboardTypeOK, OnePlace, Sending, AboutPrompt, Answered, [Next]_vars
  PROVE  Answered'
<1>0. NoPrompt \notin Prompts /\ MaxOutages \in Nat
  BY DashboardAssumption DEF DashboardAssumption
<1> USE <1>0 DEF DashboardTypeOK, Inputs, NoInput, engineVars, OnePlace, Sending, AboutPrompt, Answered, Outcomes
<1>1. ASSUME NEW s \in Sessions,
             Enter(s) \/ Click(s) \/ Interrupt(s) \/ Draw(s) \/ Post(s) \/ Receive(s) \/ Render(s)
      PROVE  Answered'
  <2>1. CASE Enter(s) \/ Click(s)
    <3>1. PICK p \in Prompts \cup {NoPrompt}, m \in Inputs :
            NothingElse /\ Entered(p) /\ Placed(s, p, m)
      BY <2>1, AnInteraction
    <3>2. CASE Begins(s, m) /\ m.prompt = p
      BY <3>1, <3>2 DEF NothingElse, Entered, Begins
    <3>3. CASE Joins(s, m) /\ m.prompt \in {input[s].prompt, p}
      BY <3>1, <3>3 DEF NothingElse, Entered, Joins
    <3>4. CASE Waits(s, m) /\ m.prompt \in {waiting[s].prompt, p}
      BY <3>1, <3>4 DEF NothingElse, Entered, Waits
    <3> QED
      BY <3>1, <3>2, <3>3, <3>4 DEF Placed
  <2>2. CASE Interrupt(s)
    BY <2>2 DEF Interrupt
  <2>3. CASE Draw(s)
    BY <2>3 DEF Draw
  <2>4. CASE Post(s)
    <3>1. PICK p \in Prompts : AskedFor(s, p) /\ (Posted(s, p) \/ Refused(s))
      BY <2>4, PostCases
    <3>2. CASE Posted(s, p)
      BY <3>1, <3>2 DEF AskedFor, Posted
    <3>3. CASE Refused(s)
      BY <3>1, <3>3 DEF AskedFor, Refused
    <3> QED
      BY <3>1, <3>2, <3>3
  <2>5. CASE Receive(s)
    BY <2>5 DEF Receive
  <2>6. CASE Render(s)
    BY <2>6 DEF Render
  <2> QED
    BY <1>1, <2>1, <2>2, <2>3, <2>4, <2>5, <2>6
<1>2. ASSUME NEW p \in Prompts, Process(p) PROVE Answered'
  BY <1>2 DEF Process
<1>3. CASE GoDown
  BY <1>3 DEF GoDown
<1>4. CASE ComeUp
  BY <1>4 DEF ComeUp
<1>5. CASE UNCHANGED vars
  BY <1>5 DEF vars
<1> QED
  BY <1>1, <1>2, <1>3, <1>4, <1>5 DEF Next

(* A prompt that was posted is not posted again. *)
LEMMA SentOnceStep ==
  ASSUME DashboardTypeOK, Sending, AboutPrompt, SentOnce, [Next]_vars
  PROVE  SentOnce'
<1>0. NoPrompt \notin Prompts /\ MaxOutages \in Nat
  BY DashboardAssumption DEF DashboardAssumption
<1> USE <1>0 DEF DashboardTypeOK, Inputs, NoInput, engineVars, Sending, AboutPrompt, SentOnce
<1>1. ASSUME NEW s \in Sessions,
             Enter(s) \/ Click(s) \/ Interrupt(s) \/ Draw(s) \/ Post(s) \/ Receive(s) \/ Render(s)
      PROVE  SentOnce'
  <2>1. CASE Enter(s) \/ Click(s)
    <3>1. PICK p \in Prompts \cup {NoPrompt}, m \in Inputs :
            NothingElse /\ Entered(p) /\ Placed(s, p, m)
      BY <2>1, AnInteraction
    <3>2. CASE Begins(s, m) /\ m.prompt = p
      BY <3>1, <3>2 DEF NothingElse, Entered, Begins
    <3>3. CASE Joins(s, m) /\ m.prompt \in {input[s].prompt, p}
      BY <3>1, <3>3 DEF NothingElse, Entered, Joins
    <3>4. CASE Waits(s, m) /\ m.prompt \in {waiting[s].prompt, p}
      BY <3>1, <3>4 DEF NothingElse, Entered, Waits
    <3> QED
      BY <3>1, <3>2, <3>3, <3>4 DEF Placed
  <2>2. CASE Interrupt(s)
    BY <2>2 DEF Interrupt
  <2>3. CASE Draw(s)
    BY <2>3 DEF Draw
  <2>4. CASE Post(s)
    <3>1. PICK p \in Prompts : AskedFor(s, p) /\ (Posted(s, p) \/ Refused(s))
      BY <2>4, PostCases
    <3>2. CASE Posted(s, p)
      BY <3>1, <3>2 DEF AskedFor, Posted
    <3>3. CASE Refused(s)
      BY <3>1, <3>3 DEF AskedFor, Refused
    <3> QED
      BY <3>1, <3>2, <3>3
  <2>5. CASE Receive(s)
    BY <2>5 DEF Receive
  <2>6. CASE Render(s)
    BY <2>6 DEF Render
  <2> QED
    BY <1>1, <2>1, <2>2, <2>3, <2>4, <2>5, <2>6
<1>2. ASSUME NEW p \in Prompts, Process(p) PROVE SentOnce'
  BY <1>2 DEF Process
<1>3. CASE GoDown
  BY <1>3 DEF GoDown
<1>4. CASE ComeUp
  BY <1>4 DEF ComeUp
<1>5. CASE UNCHANGED vars
  BY <1>5 DEF vars
<1> QED
  BY <1>1, <1>2, <1>3, <1>4, <1>5 DEF Next

(* What the chat says stays true: the engine is done with that prompt. *)
LEMMA ChatStep ==
  ASSUME DashboardTypeOK, Sending, AboutPrompt, Answered, ChatIsTrue, [Next]_vars
  PROVE  ChatIsTrue'
<1>0. NoPrompt \notin Prompts /\ MaxOutages \in Nat
  BY DashboardAssumption DEF DashboardAssumption
<1> USE <1>0 DEF DashboardTypeOK, Inputs, NoInput, engineVars, Sending, AboutPrompt, Answered, ChatIsTrue, Outcomes, Verdict
<1>1. ASSUME NEW s \in Sessions,
             Enter(s) \/ Click(s) \/ Interrupt(s) \/ Draw(s) \/ Post(s) \/ Receive(s) \/ Render(s)
      PROVE  ChatIsTrue'
  <2>1. CASE Enter(s) \/ Click(s)
    <3>1. PICK p \in Prompts \cup {NoPrompt}, m \in Inputs :
            NothingElse /\ Entered(p) /\ Placed(s, p, m)
      BY <2>1, AnInteraction
    <3>2. CASE Begins(s, m) /\ m.prompt = p
      BY <3>1, <3>2 DEF NothingElse, Entered, Begins
    <3>3. CASE Joins(s, m) /\ m.prompt \in {input[s].prompt, p}
      BY <3>1, <3>3 DEF NothingElse, Entered, Joins
    <3>4. CASE Waits(s, m) /\ m.prompt \in {waiting[s].prompt, p}
      BY <3>1, <3>4 DEF NothingElse, Entered, Waits
    <3> QED
      BY <3>1, <3>2, <3>3, <3>4 DEF Placed
  <2>2. CASE Interrupt(s)
    BY <2>2 DEF Interrupt
  <2>3. CASE Draw(s)
    <3>1. CASE pc'[s] = "idle"
      BY <2>3, <3>1 DEF Draw
    <3>2. CASE pc'[s] # "idle"
      <4> DEFINE h == [of |-> input[s].prompt, says |-> "prompt"]
      <4>1. h \in [of : Prompts, says : Says] /\ h.says = "prompt"
        BY <2>3, <3>2 DEF Says, Draw
      <4> HIDE DEF h
      <4>2. history' = [history EXCEPT ![s] = Append(@, h)] /\ UNCHANGED engine
        BY <2>3, <3>2 DEF Draw, h
      <4>3. \A u \in Sessions : \A n \in 1..Len(history'[u]) :
              history'[u][n] = h \/ (n \in 1..Len(history[u]) /\ history'[u][n] = history[u][n])
        BY <4>1, <4>2, HistoryGrows
      <4>4. ASSUME NEW u \in Sessions, NEW n \in 1..Len(history'[u])
            PROVE  \/ history'[u][n].says = "prompt"
                   \/ n \in 1..Len(history[u]) /\ history'[u][n] = history[u][n]
        BY <4>1, <4>3
      <4> QED
        BY <4>2, <4>4
    <3> QED
      BY <3>1, <3>2
  <2>4. CASE Post(s)
    <3>1. PICK p \in Prompts : AskedFor(s, p) /\ (Posted(s, p) \/ Refused(s))
      BY <2>4, PostCases
    <3>2. CASE Posted(s, p)
      BY <3>1, <3>2 DEF AskedFor, Posted
    <3>3. CASE Refused(s)
      BY <3>1, <3>3 DEF AskedFor, Refused
    <3> QED
      BY <3>1, <3>2, <3>3
  <2>5. CASE Receive(s)
    BY <2>5 DEF Receive
  <2>6. CASE Render(s)
    BY <2>6 DEF Render
  <2> QED
    BY <1>1, <2>1, <2>2, <2>3, <2>4, <2>5, <2>6
<1>2. ASSUME NEW p \in Prompts, Process(p) PROVE ChatIsTrue'
  BY <1>2 DEF Process
<1>3. CASE GoDown
  <2>1. \A p \in Prompts : engine[p] \in Outcomes => engine'[p] = engine[p]
    BY <1>3 DEF GoDown
  <2>2. UNCHANGED history
    BY <1>3 DEF GoDown
  <2>3. ASSUME NEW s \in Sessions, NEW n \in 1..Len(history[s]) PROVE history[s][n].of \in Prompts
    BY MessageOf
  <2> QED
    BY <2>1, <2>2, <2>3
<1>4. CASE ComeUp
  <2>1. UNCHANGED <<engine, history>>
    BY <1>4 DEF ComeUp
  <2> QED
    BY <2>1
<1>5. CASE UNCHANGED vars
  <2>1. UNCHANGED <<engine, history>>
    BY <1>5 DEF vars
  <2> QED
    BY <2>1
<1> QED
  BY <1>1, <1>2, <1>3, <1>4, <1>5 DEF Next

(* A run that rests has drawn the buttons it shows, or none. *)
LEMMA ButtonsStep ==
  ASSUME DashboardTypeOK, AboutPrompt, ButtonsAreCurrent, [Next]_vars
  PROVE  ButtonsAreCurrent'
<1>0. NoPrompt \notin Prompts /\ MaxOutages \in Nat
  BY DashboardAssumption DEF DashboardAssumption
<1> USE <1>0 DEF DashboardTypeOK, Inputs, NoInput, engineVars, AboutPrompt, ButtonsAreCurrent, Verdict
<1>1. ASSUME NEW s \in Sessions,
             Enter(s) \/ Click(s) \/ Interrupt(s) \/ Draw(s) \/ Post(s) \/ Receive(s) \/ Render(s)
      PROVE  ButtonsAreCurrent'
  <2>1. CASE Enter(s) \/ Click(s)
    <3>1. PICK p \in Prompts \cup {NoPrompt}, m \in Inputs :
            NothingElse /\ Entered(p) /\ Placed(s, p, m)
      BY <2>1, AnInteraction
    <3>2. CASE Begins(s, m) /\ m.prompt = p
      BY <3>1, <3>2 DEF NothingElse, Entered, Begins
    <3>3. CASE Joins(s, m) /\ m.prompt \in {input[s].prompt, p}
      BY <3>1, <3>3 DEF NothingElse, Entered, Joins
    <3>4. CASE Waits(s, m) /\ m.prompt \in {waiting[s].prompt, p}
      BY <3>1, <3>4 DEF NothingElse, Entered, Waits
    <3> QED
      BY <3>1, <3>2, <3>3, <3>4 DEF Placed
  <2>2. CASE Interrupt(s)
    BY <2>2 DEF Interrupt
  <2>3. CASE Draw(s)
    <3>1. CASE pc'[s] = "idle"
      BY <2>3, <3>1 DEF Draw
    <3>2. CASE pc'[s] # "idle"
      BY <2>3, <3>2 DEF Draw
    <3> QED
      BY <3>1, <3>2
  <2>4. CASE Post(s)
    <3>1. PICK p \in Prompts : AskedFor(s, p) /\ (Posted(s, p) \/ Refused(s))
      BY <2>4, PostCases
    <3>2. CASE Posted(s, p)
      BY <3>1, <3>2 DEF AskedFor, Posted
    <3>3. CASE Refused(s)
      BY <3>1, <3>3 DEF AskedFor, Refused
    <3> QED
      BY <3>1, <3>2, <3>3
  <2>5. CASE Receive(s)
    BY <2>5 DEF Receive
  <2>6. CASE Render(s)
    <3> DEFINE h == [of |-> input[s].prompt, says |-> Verdict(s)]
    <3>1. input[s].prompt \in Prompts
      BY <2>6 DEF Render
    <3>2. h \in [of : Prompts, says : Says] /\ h.of = input[s].prompt /\ h.says = Verdict(s)
      BY <3>1 DEF Says
    <3>3. buttons'[s] # NoPrompt => buttons'[s] = h.of /\ h.says \in {"awaiting", "decided"}
      BY <2>6, <3>2 DEF Render
    <3> HIDE DEF h
    <3>4. /\ history' = [history EXCEPT ![s] = Append(@, h)]
          /\ \A u \in Sessions \ {s} : pc'[u] = pc[u] /\ buttons'[u] = buttons[u]
      BY <2>6 DEF Render, h
    <3>5. history'[s] = Append(history[s], h) /\ history[s] \in Seq([of : Prompts, says : Says])
      BY <3>4
    <3>6. history'[s] # <<>> /\ history'[s][Len(history'[s])] = h
      BY <3>2, <3>5
    <3> QED
      BY <3>3, <3>4, <3>6
  <2> QED
    BY <1>1, <2>1, <2>2, <2>3, <2>4, <2>5, <2>6
<1>2. ASSUME NEW p \in Prompts, Process(p) PROVE ButtonsAreCurrent'
  BY <1>2 DEF Process
<1>3. CASE GoDown
  <2>1. UNCHANGED <<pc, history, buttons>>
    BY <1>3 DEF GoDown
  <2> QED
    BY <2>1
<1>4. CASE ComeUp
  BY <1>4 DEF ComeUp
<1>5. CASE UNCHANGED vars
  BY <1>5 DEF vars
<1> QED
  BY <1>1, <1>2, <1>3, <1>4, <1>5 DEF Next

(* A prompt that is over stays over. *)
LEMMA OverStays ==
  ASSUME DashboardTypeOK, AboutPrompt, OnePlace, NEW q \in Prompts \cap used, Over(q), [Next]_vars
  PROVE  Over(q)' /\ q \in used'
<1>0. NoPrompt \notin Prompts /\ MaxOutages \in Nat
  BY DashboardAssumption DEF DashboardAssumption
<1> USE <1>0 DEF DashboardTypeOK, NoInput, engineVars, AboutPrompt, Over
<1> HIDE DEF Inputs
<1> DEFINE Kept == Over(q)' /\ q \in used'
<1>1. ASSUME NEW s \in Sessions,
             Enter(s) \/ Click(s) \/ Interrupt(s) \/ Draw(s) \/ Post(s) \/ Receive(s) \/ Render(s)
      PROVE  Kept
  <2>1. CASE Enter(s) \/ Click(s)
    <3>1. PICK p \in Prompts \cup {NoPrompt}, m \in Inputs :
            NothingElse /\ Entered(p) /\ Placed(s, p, m)
      BY <2>1, AnInteraction
    <3>2. CASE Begins(s, m) /\ m.prompt = p
      BY <3>1, <3>2 DEF Entered, Begins
    <3>3. CASE Joins(s, m) /\ m.prompt \in {input[s].prompt, p}
      BY <3>1, <3>3 DEF Entered, Joins
    <3>4. CASE Waits(s, m) /\ m.prompt \in {waiting[s].prompt, p}
      BY <3>1, <3>4 DEF Entered, Waits
    <3> QED
      BY <3>1, <3>2, <3>3, <3>4 DEF Placed
  <2>2. CASE Interrupt(s)
    BY <2>2 DEF Interrupt
  <2>3. CASE Draw(s)
    BY <2>3 DEF Draw
  <2>4. CASE Post(s)
    BY <2>4 DEF Post
  <2>5. CASE Receive(s)
    BY <2>5 DEF Receive
  <2>6. CASE Render(s)
    BY <2>6 DEF Render
  <2> QED
    BY <1>1, <2>1, <2>2, <2>3, <2>4, <2>5, <2>6
<1>2. ASSUME NEW p \in Prompts, Process(p) PROVE Kept
  BY <1>2 DEF Process
<1>3. CASE GoDown
  BY <1>3 DEF GoDown
<1>4. CASE ComeUp
  BY <1>4 DEF ComeUp
<1>5. CASE UNCHANGED vars
  BY <1>5 DEF vars
<1> QED
  BY <1>1, <1>2, <1>3, <1>4, <1>5 DEF Next

(* What a step adds to a chat is the prompt or the answer of the run that  *)
(* makes it, and a decision only comes with an answer that says so.        *)
Unsaid == UNCHANGED <<history, decided>>
SaysPrompt(s, p) ==
  /\ input[s].prompt = p /\ p # NoPrompt /\ pc[s] = "top"
  /\ history' = [history EXCEPT ![s] = Append(@, [of |-> p, says |-> "prompt"])]
  /\ UNCHANGED decided
SaysAnswer(s, p, says) ==
  /\ input[s].prompt = p /\ p # NoPrompt /\ pc[s] = "answered" /\ pc' = [pc EXCEPT ![s] = "idle"]
  /\ UNCHANGED <<input, waiting, used>>
  /\ history' = [history EXCEPT ![s] = Append(@, [of |-> p, says |-> says])]
  /\ \A d \in decided' : d \in decided \/ (d[1] = p /\ says = "decided")

(* There is no third. *)
LEMMA SaysCases ==
  ASSUME DashboardTypeOK, AboutPrompt, [Next]_vars
  PROVE  \/ Unsaid
         \/ \E s \in Sessions, p \in Prompts :
              SaysPrompt(s, p) \/ \E says \in Says : SaysAnswer(s, p, says)
<1>0. NoPrompt \notin Prompts
  BY DashboardAssumption DEF DashboardAssumption
<1>1. ASSUME NEW s \in Sessions, Draw(s)
      PROVE  Unsaid \/ \E p \in Prompts : SaysPrompt(s, p)
  <2>1. CASE input[s].prompt = NoPrompt
    BY <1>1, <2>1 DEF Draw, Unsaid
  <2>2. CASE input[s].prompt # NoPrompt
    <3>1. input[s].prompt \in Prompts
      BY <2>2 DEF DashboardTypeOK, Inputs
    <3> QED
      BY <1>1, <2>2, <3>1 DEF Draw, Unsaid, SaysPrompt
  <2> QED
    BY <2>1, <2>2
<1>2. ASSUME NEW s \in Sessions, Render(s)
      PROVE  \E p \in Prompts, says \in Says : SaysAnswer(s, p, says)
  <2>1. input[s].prompt \in Prompts
    BY <1>2 DEF DashboardTypeOK, Inputs, AboutPrompt, Render
  <2>2. Verdict(s) \in Says
    BY DEF Verdict, Says
  <2>3. SaysAnswer(s, input[s].prompt, Verdict(s))
    <3> HIDE DEF Verdict
    <3> QED
      BY <1>0, <1>2, <2>1 DEF Render, SaysAnswer
  <2> QED
    BY <2>1, <2>2, <2>3
<1>3. ASSUME NEW s \in Sessions,
             Enter(s) \/ Click(s) \/ Interrupt(s) \/ Post(s) \/ Receive(s)
      PROVE  Unsaid
  BY <1>3 DEF Unsaid, Enter, Click, Interact, Interrupt, Post, Receive
<1>4. (\E p \in Prompts : Process(p)) \/ GoDown \/ ComeUp \/ UNCHANGED vars => Unsaid
  BY DEF Unsaid, Process, GoDown, ComeUp, vars
<1> QED
  BY <1>1, <1>2, <1>3, <1>4 DEF Next

(* Over, of the state after a step. *)
OverAfter(p) ==
  \A s \in Sessions : /\ input'[s].prompt = p => pc'[s] = "idle"
                      /\ waiting'[s].prompt # p

(* The run that answers a prompt was the last about it. *)
LEMMA ClosedStep ==
  ASSUME DashboardTypeOK, AboutPrompt, OnePlace, Closed, [Next]_vars
  PROVE  Closed'
<1>0. NoPrompt \notin Prompts
  BY DashboardAssumption DEF DashboardAssumption
<1>1. \A q \in Prompts \cap used : q \in used' /\ (Over(q) => OverAfter(q))
  <2>1. used \subseteq used'
    <3>1. ASSUME NEW s \in Sessions, Enter(s) \/ Click(s) PROVE used \subseteq used'
      BY <3>1 DEF Enter, Click
    <3>2. ASSUME NEW s \in Sessions, Interrupt(s) \/ Draw(s) \/ Post(s) \/ Receive(s) \/ Render(s)
          PROVE  used \subseteq used'
      BY <3>2 DEF Interrupt, Draw, Post, Receive, Render
    <3>3. (\E p \in Prompts : Process(p)) \/ GoDown \/ ComeUp \/ UNCHANGED vars => used' = used
      BY DEF Process, GoDown, ComeUp, vars
    <3> QED
      BY <3>1, <3>2, <3>3 DEF Next
  <2> QED
    BY <2>1, OverStays DEF Over, OverAfter
<1>2. \A s \in Sessions : \A n \in 1..Len(history[s]) : history[s][n].of \in Prompts
  BY MessageOf
<1>3. \A d \in decided : d[1] \in Prompts
  BY DEF DashboardTypeOK
<1>4. CASE Unsaid
  BY <1>1, <1>2, <1>3, <1>4 DEF Closed, Unsaid, Over, OverAfter
<1>5. ASSUME NEW s \in Sessions, NEW p \in Prompts, NEW says \in Says,
             (SaysPrompt(s, p) /\ says = "prompt") \/ SaysAnswer(s, p, says)
      PROVE  Closed'
  <2> DEFINE h == [of |-> p, says |-> says]
  <2>1. h \in [of : Prompts, says : Says] /\ h.of = p /\ h.says = says
    OBVIOUS
  <2>2. history' = [history EXCEPT ![s] = Append(@, h)]
    BY <1>5 DEF SaysPrompt, SaysAnswer
  <2> HIDE DEF h
  <2>3. \A u \in Sessions : \A n \in 1..Len(history'[u]) :
          history'[u][n] = h \/ (n \in 1..Len(history[u]) /\ history'[u][n] = history[u][n])
    BY <2>1, <2>2, HistoryGrows
  <2>4. p \in used /\ p \in used'
    BY <1>0, <1>1, <1>5 DEF OnePlace, SaysPrompt, SaysAnswer
  <2>5. SaysAnswer(s, p, says) => OverAfter(p)
    BY <1>0 DEF SaysAnswer, OverAfter, OnePlace, DashboardTypeOK
  <2>6. ASSUME NEW u \in Sessions, NEW n \in 1..Len(history'[u])
        PROVE  /\ history'[u][n].of \in used'
               /\ history'[u][n].says # "prompt" => OverAfter(history'[u][n].of)
    <3>1. CASE history'[u][n] = h
      <4>1. history'[u][n].of = p /\ history'[u][n].says = says
        BY <2>1, <3>1
      <4>2. says # "prompt" => OverAfter(p)
        BY <1>5, <2>5
      <4> QED
        BY <2>4, <4>1, <4>2
    <3>2. CASE n \in 1..Len(history[u]) /\ history'[u][n] = history[u][n]
      <4>1. history[u][n].of \in Prompts \cap used
        BY <1>2, <3>2 DEF Closed
      <4>2. history[u][n].says # "prompt" => OverAfter(history[u][n].of)
        BY <1>1, <3>2, <4>1 DEF Closed
      <4> QED
        BY <1>1, <3>2, <4>1, <4>2
    <3> QED
      BY <2>3, <3>1, <3>2
  <2>7. ASSUME NEW d \in decided' PROVE d[1] \in used' /\ OverAfter(d[1])
    <3>1. CASE d \in decided
      BY <1>1, <1>3, <3>1 DEF Closed
    <3>2. CASE d \notin decided
      BY <1>5, <2>4, <2>5, <3>2 DEF SaysPrompt, SaysAnswer
    <3> QED
      BY <3>1, <3>2
  <2> QED
    BY <2>6, <2>7 DEF Closed, Over, OverAfter
<1> QED
  BY <1>4, <1>5, SaysCases DEF Says

(* The run that decides has said nothing of its prompt before, and the     *)
(* chat has closed it after.                                               *)
LEMMA DecidedUnseenStep ==
  ASSUME DashboardTypeOK, AboutPrompt, OnePlace, Closed, DecidedUnseen, [Next]_vars
  PROVE  DecidedUnseen'
<1>0. NoPrompt \notin Prompts
  BY DashboardAssumption DEF DashboardAssumption
<1>1. CASE Unsaid
  BY <1>1 DEF DecidedUnseen, Unsaid
<1>2. ASSUME NEW s \in Sessions, NEW p \in Prompts, NEW says \in Says,
             (SaysPrompt(s, p) /\ says = "prompt") \/ SaysAnswer(s, p, says)
      PROVE  DecidedUnseen'
  <2> DEFINE h == [of |-> p, says |-> says]
  <2>1. h \in [of : Prompts, says : Says] /\ h.of = p /\ h.says = says
    OBVIOUS
  <2>2. history' = [history EXCEPT ![s] = Append(@, h)]
    BY <1>2 DEF SaysPrompt, SaysAnswer
  <2> HIDE DEF h
  <2>3. \A u \in Sessions : \A n \in 1..Len(history'[u]) :
          history'[u][n] = h \/ (n \in 1..Len(history[u]) /\ history'[u][n] = history[u][n])
    BY <2>1, <2>2, HistoryGrows
  <2>4. ~Over(p)
    BY <1>2 DEF SaysPrompt, SaysAnswer, Over
  <2>5. \A d \in decided : d[1] # p
    BY <2>4 DEF Closed
  <2>6. \A u \in Sessions : \A n \in 1..Len(history[u]) :
          history[u][n].of = p => history[u][n].says = "prompt"
    BY <2>4 DEF Closed
  <2>7. ASSUME NEW d \in decided', NEW u \in Sessions, NEW n \in 1..Len(history'[u]),
               history'[u][n].of = d[1]
        PROVE  history'[u][n].says # "awaiting"
    <3>1. CASE history'[u][n] = h
      <4>1. history'[u][n].of = p /\ history'[u][n].says = says
        BY <2>1, <3>1
      <4>2. d \notin decided
        BY <2>5, <2>7, <4>1
      <4>3. says = "decided"
        BY <1>2, <4>2 DEF SaysPrompt, SaysAnswer
      <4> QED
        BY <4>1, <4>3
    <3>2. CASE n \in 1..Len(history[u]) /\ history'[u][n] = history[u][n]
      <4>1. CASE d \in decided
        BY <2>7, <3>2, <4>1 DEF DecidedUnseen
      <4>2. CASE d \notin decided
        <5>1. d[1] = p
          BY <1>2, <4>2 DEF SaysPrompt, SaysAnswer
        <5> QED
          BY <2>6, <2>7, <3>2, <5>1
      <4> QED
        BY <4>1, <4>2
    <3> QED
      BY <2>3, <3>1, <3>2
  <2> QED
    BY <2>7 DEF DecidedUnseen
<1> QED
  BY <1>1, <1>2, SaysCases DEF Says

(* The parts together. *)
LEMMA DashInvStep ==
  ASSUME DashInv, [Next]_vars
  PROVE  DashInv'
<1>1. DashboardTypeOK' /\ OnePlace' /\ Sending' /\ AboutPrompt' /\ Answered'
  BY TypeStep, OnePlaceStep, SendingStep, AboutPromptStep, AnsweredStep DEF DashInv
<1>2. SentOnce' /\ ChatIsTrue' /\ ButtonsAreCurrent' /\ Closed' /\ DecidedUnseen'
  BY SentOnceStep, ChatStep, ButtonsStep, ClosedStep, DecidedUnseenStep DEF DashInv
<1> QED
  BY <1>1, <1>2 DEF DashInv

(* What every reachable state has. *)
LEMMA DashInvariance == Spec => []DashInv
BY DashInitInv, DashInvStep, PTL DEF Spec

-----------------------------------------------------------------------------
(* The page and the engine always hold values of the kinds the script      *)
(* tells apart; an answer is one of the engine's or an error.              *)
THEOREM DashboardTypeCorrect == Spec => []DashboardTypeOK
<1>1. DashInv => DashboardTypeOK
  BY DEF DashInv
<1> QED
  BY <1>1, DashInvariance, PTL

(* However many runs of the script start, stop and start again, a prompt   *)
(* is posted to the engine at most once.                                   *)
THEOREM SentOnceHolds == Spec => []SentOnce
<1>1. DashInv => SentOnce
  BY DEF DashInv
<1> QED
  BY <1>1, DashInvariance, PTL

(* "Executed", "blocked" and "awaiting approval" are said only of what the *)
(* engine has executed, blocked or staged, through every timeout, outage   *)
(* and interruption.                                                       *)
THEOREM ChatIsTrueHolds == Spec => []ChatIsTrue
<1>1. DashInv => ChatIsTrue
  BY DEF DashInv
<1> QED
  BY <1>1, DashInvariance, PTL

(* The buttons on a page at rest are those of the chat's last message.     *)
THEOREM ButtonsAreCurrentHolds == Spec => []ButtonsAreCurrent
<1>1. DashInv => ButtonsAreCurrent
  BY DEF DashInv
<1> QED
  BY <1>1, DashInvariance, PTL

(* The run a click on Approve or Reject starts finds buttons to press only *)
(* where the click was made one with a newer prompt.  So what a decision   *)
(* is about is never an action a chat has offered to anyone.               *)
THEOREM DecidesUnseen == Spec => []DecidedUnseen
<1>1. DashInv => DecidedUnseen
  BY DEF DashInv
<1> QED
  BY <1>1, DashInvariance, PTL

=============================================================================
