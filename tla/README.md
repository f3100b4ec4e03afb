# A verification project for the guardrailed SOC agent

This directory holds TLA+ models of the guardrailed AI agent in `src/`, the
TLC configurations that check them on small instances, and TLAPS proofs of the
central safety properties for every instance. The definitions are translated
from the Python source; `PROJECT.json` names, for each of them, the lines it
stands for.

1. [The system](#1-the-system)
2. [The modules and the plan](#2-the-modules-and-the-plan)
3. [How the modules correspond to the code](#3-how-the-modules-correspond-to-the-code)
4. [What the runs check](#4-what-the-runs-check)
5. [Fairness](#5-fairness)
6. [What is proved](#6-what-is-proved)
7. [Where the code and its documents disagree](#7-where-the-code-and-its-documents-disagree)
8. [What is not modelled](#8-what-is-not-modelled)

To run: `tlc -config GuardedAgent_safety.cfg MCGuardedAgent`, and so on for the
pairs of section 4; `tlapm GuardedAgentProofs.tla`, and so on for the modules
whose name ends in `Proofs`.

## 1. The system

An analyst types a request into a Streamlit dashboard; a REST engine screens
it, looks up related log entries, asks a local LLM (Ollama) what to do, and
either answers in prose or runs a tool on the host. Tools that change the host
(`block_ip`, `restart_service`) can be staged for approval first. Everything is
written to a hash-chained audit log.

| component | source | state it keeps | operations |
|---|---|---|---|
| agent core | `agent.py` | `_pending_actions` (id -> tool call), in memory only | `process`, `approve`, `reject` |
| LLM calls | `agent.py` `_call_ollama` | a `ThreadPoolExecutor` with two workers and its queue | submit, wait with a timeout, cancel; up to `max_retries` attempts |
| tool registry | `tools.py` `ToolRegistry` | `_tools`, fixed after start-up | `execute_tool`, `execute`, `register_tool` |
| tool handlers | `tools.py` | the host: firewall rules, services | `block_ip_handler`, `restart_service_handler`, `get_memory_usage_handler`, two rollbacks |
| audit log | `audit.py` | the file, the Python file buffer, a lock per object | `append`, `verify`, `read_all` |
| RAG engine | `rag_engine.py` | `vector_store`, `_initialized`; on disk `index.faiss`, `index.pkl`, `index.metadata` | `query` (builds or loads the index the first time), `sanitize` |
| input guardrail | `guardrails.py` | none | `inspect_input`; `inspect_context` is never called |
| REST API | `api.py` | the one agent object | `POST /agent/process`, `POST /agent/approve`, `GET /health` |
| CLI and second API | `main.py` | an agent per demo case, or one for its API | `run_demo_case`, the same endpoints |
| dashboard | `app.py` | per browser session: history, alerts, bans; per process: the cached health | script runs, buttons, HTTP calls |
| schemas | `schemas.py` | none | validation of tool arguments |
| deployment | `docker-compose.yml`, `Dockerfile*`, `deploy.sh` | | one engine process (`--workers 1`), `restart: unless-stopped` |
| Ollama installer | `install.sh` | | third-party script |

**How they interact.** The endpoints are plain `def` functions, so the HTTP
server runs every call on a thread of its own. All threads share one agent and
through it the table of staged actions (no lock; `dict` operations are atomic),
the executor's two workers, the RAG engine (no lock) and the audit log (a lock
around `append`). The guardrail, the registry and the agent report to the audit
log through callbacks whose exceptions are swallowed. A second process (the CLI
harness, or a second API) appends to the same audit file through an object, a
buffer and a lock of its own.

**What is hard.** Approvals, rejections and requests race; the engine can be
restarted between any two steps with the staged actions in memory only; a
handler can act and then raise; an audit append can fail at any point; the LLM
can hang for ever while its caller times out; a write to the audit file can be
cut by a full disk or a crash; the index is three files written one after the
other while the log they are built from grows.

**What makes each component correct.**

* *Agent core*: a destructive tool runs only past the dry-run and approval
  flags or by approval of the very call that was offered; an action is decided
  once and runs at most once; clients are told what happened; every call is
  answered; the trail tells every run and every decision, the offer before the
  decision, with no more gaps than appends have failed.
* *LLM calls*: a bounded number of attempts with a verdict at the end, even if
  Ollama hangs; nothing is queued or started for a request that has given up.
* *Audit log*: an append-only chain; what `append` returned is not lost; an
  accident costs one record; `verify` accepts exactly the intact files.
* *RAG engine*: vectors and documents, whole, of one version of the log; an index
  taken from disk is not older than its marker says. Both as long as first
  queries come one at a time, since nothing in the code keeps them apart.
* *Answers* (part of the agent core): a text that is a tool call is dispatched
  and no other is; an answer is graded by the words the client gets; what the
  LLM is shown is a conversation; the loop makes its attempts and no more.
* *Tool handlers*: what they return or raise accounts for the firewall rules; a
  rollback goes to the firewall of the block; a service that a restart left down
  is told of.
* *Dashboard*: what it says of a prompt is what the engine did, no rerun of its
  script posts a prompt again, a click on Approve is an approval of the action
  whose buttons were shown.

The hazards of this code, each at its line and with the properties that cover
it, are listed in `PROJECT.json`.

## 2. The modules and the plan

| module | what it is | used by |
|---|---|---|
| `RetryLoop` | abstract: the attempts of one request and its verdict | `GuardedAgent` (its steps), `LlmPool` (implements it) |
| `StagedActions` | abstract: the life of a destructive action | `GuardedAgent` (implements it) |
| `GuardedAgent` | `process`, `approve`, `reject`, the registry and the endpoints, on concurrent threads, with restarts | `MCGuardedAgent`, `GuardedAgentProofs` |
| `GuardedAgentProofs` | theorems about `GuardedAgent`: types, decisions, the gate, replies, the approval flow | `AuditTrailProofs` |
| `AuditTrailProofs` | theorems about `GuardedAgent`: what the audit trail tells | |
| `Answers` | the texts of the LLM: the tool call in them, the hints, the grade of an answer | implements `RetryLoop`; `MCAnswers`, `AnswersProofs` |
| `AnswersProofs` | theorems about `Answers` | |
| `Host` | handlers and rollbacks against firewalls and service managers | `MCHost`, `HostProofs` |
| `HostProofs` | theorems about `Host` | |
| `LlmPool` | the executor, its queue, timeouts and cancellation | `MCLlmPool`, `LlmPoolProofs` |
| `LlmPoolProofs` | theorems about `LlmPool` | |
| `AppendOnlyChain` | abstract: the store the docstrings of `audit.py` describe | `AuditLog` (implements it under stated conditions) |
| `AuditLog` | `append` and `verify` against buffer, file, failures and crashes | `MCAuditLog`, `AuditLogProofs` |
| `AuditLogProofs` | theorems about `AuditLog` | |
| `RagIndex` | building, saving, loading and searching the index | `MCRagIndex`, `RagIndexProofs` |
| `RagIndexProofs` | theorems about `RagIndex` | |
| `Dashboard` | the runs of the Streamlit script, the chat and the buttons, against an engine that may be down or slow | `MCDashboard`, `DashboardProofs` |
| `DashboardProofs` | theorems about `Dashboard` | |
| `MC...` | instances for TLC: model values and symmetry | |

`RetryLoop` sits between three detailed modules: `GuardedAgent` takes the loop's
steps from it and leaves pool and texts out, `LlmPool` shows that the pool, its
timeouts and its hanging calls implement it, and `Answers` that the loop over
the texts does. That keeps the state spaces small. In the same way `Host` takes
up where `GuardedAgent` says no more than that a handler ran and returned.

The order of the plan, the most important behaviour first:

1. the agent core with its approval flow, the retry loop, the LLM pool (done);
2. the audit log and the RAG index (done);
3. first theorems: type correctness, one decision per action, the gate, the
   truth of the replies, what the trail tells, the queue of the pool (done);
4. the dashboard: script runs, the buttons drawn inside the branch of the
   prompt, the cached health, the client timeout (done);
5. the host: `block_ip_handler`, `restart_service_handler` and
   `rollback_block_ip` against the firewalls and service managers, with commands
   that fail or time out, and first theorems about them (done);
6. the texts of the LLM: finding the tool call, the hints, cleaning and grading
   an answer (done);
7. larger instances: two processes of two threads on the audit file, two
   threads in the first query of the index (done);
8. proofs: every invariant and every action property of the passing runs, and
   the steps of every refinement: `StagedActions` and `RetryLoop` from
   `GuardedAgent`, `LlmPool` and `Answers`, `AppendOnlyChain` from `AuditLog`
   (done);
9. what is left of pure functions: `_sanitize_details` and `sanitize`.

## 3. How the modules correspond to the code

**GuardedAgent.** A thread is an HTTP call: a request (`POST /agent/process`) or
a decision (`POST /agent/approve`, either way). `pc[t]` says where it is; an
action is the code between two accesses to what threads share: the table
`pending` (`_pending_actions`), the audit `trail`, and the host (`ran[t]` counts
the runs of the handler for thread `t`). The flags of the call (`dryRun`,
`wantApproval`) are chosen in `Init`.

* up to the loop: `RefuseModel`, `Inspect`, `AnswerBlocked`, `Retrieve`;
* the loop: `CallFails`, `ProseAnswer`, `ToolAnswer`, `GiveUp`; what the LLM
  says is one of: an exception, prose, a call of any tool with any arguments;
* `_dispatch_tool`: `Route` chooses between a dry-run, staging and execution;
  `Stage` puts the call into the table, `Announce` audits and answers, and
  between the two the action can already be found;
* the registry: `NotFound`, `RaiseOnClash` (an argument called `name` collides
  with a parameter of `execute`), `RefuseArgs`, `RunHandler`, `RunHandlerAgain`
  (the `except TypeError` fallback), `AuditRun`;
* decisions: `DecideUnknown`, `AnswerUnknown`, `Claim` (the `pop`),
  `AnswerRejected`, `AnswerApproved`;
* `Crash`: the engine is killed; threads in flight are "lost" and the table is
  empty, while the trail and the host keep what they have.

An audit record is its stage, its status and the thread that writes it; the
trail is a set, since a thread writes each of its records once and the order
the properties ask about is in what must be there already. An append either
adds the record or fails and is swallowed. Action ids are fresh (the code draws
32 random bits). Clients decide ids they were told: nobody else can name one, so
the moment between `Stage` and `Announce` is nobody's to use.

*Handlers.* The shipped ones return a text of whatever `_run_command` catches.
They may also raise: a `PermissionError` or another `OSError` when the program
cannot be started (`other_error`), a `UnicodeDecodeError`, which is a
`ValueError`, when the output of a command that has done its work cannot be
decoded (`value_error`). `type_error` is there for handlers added through
`register_tool`.

**Answers.** One request, seen from its texts. A text is a sequence of pieces:
JSON objects (told by the key the code looks for), stray braces, fences, prose;
a piece brings the significant words of its own. `Extract` is
`_extract_json_object` (fences off, then the span from the first opening to the
last closing brace), `Spoken` is `_clean_free_text`, `Grounded` is `_grounded`
with its threshold in percent. `CallReturns`, `Dispatch`, `Hint`, `Answer` and
`CallRaises` are the ways through the body of the loop; `Malfunction` is a
response without text, which raises outside the `try` and ends the request with
a 500. `context` is chosen in `Init`; it holds the words of the placeholder
sentence when nothing was retrieved, so that it is hardly ever empty.

**Host.** A call is a handler or a rollback on a thread of its own. `Choose` is
the chain of `shutil.which`; the command is run in a later step, by which time
the program may be gone. `Works` and `Fails` are `_run_command`, for a command
that has done its work and for one that has not. Either way it becomes a text
(`ok`, `failed`, `missing`, `timed_out`; one killed after 20 seconds may have
done its work), or `subprocess.run` raises what `_run_command` does not catch
(`raised`): the handler ends there without a text, and its client gets an error.
What iptables, nft, netsh, systemctl and sc do to rules and services is external
and stated at the head of the module. `Stop` and `Start` are the two commands of
a restart through sc, the second of which is not run if the first raises;
`StopEnds` is the service manager finishing in its own time. `Crash` kills the engine: a command under way goes on, the next
one is not run, and nobody gets the text (`dead`). `downBy` only remembers which
call took a service down. Dry-run branches are never reached, since the schemas
have no such argument, and nothing in the engine calls the rollbacks: they are
modelled as what an operator may call after a block.

**LlmPool.** A call is a request and the number of its attempt. `Submit`,
`Return`, `TimesOut` and `Cancel` are the statements of `_call_ollama`; `Start`
and `Finish` are the executor's workers and Ollama. A cancelled future stays in
the queue until a worker discards it, as in `concurrent.futures`. Time is
abstracted: a timeout may fire whenever the answer is not there.

**AuditLog.** The file is a sequence of chunks; a chunk is a record with its
newline ("whole"), or the front of one ("head") or its remainder ("tail") when a
write was cut. `ReadLast`, `Write`, `Flush`, `FlushFails` and `SyncAndReturn`
are the statements of `append` under the lock; `LastHash` is `_last_hash` with
its backward reads of 4096 bytes counted in units (a long record is longer than
the window). `Crash` loses a process's buffer; `HostCrash` also loses a suffix
of the file that is not on stable storage, and may cut a record (`TornTails`).
`overlap` remembers that two processes have been inside `append` at once, which
the lock, one per object, does not prevent.
`Intact` is what `verify` checks. Hashes are abstracted by the identity of the
event: events are unique and SHA-256 is taken as injective.

**RagIndex.** The log's contents are versions, its mtime whole seconds. `Stat`
to `SetFlag` are the statements of `_ensure_initialized`, `_build_index`,
`save_local`, `_write_marker` and `_load_index`. `save_local` takes the store as
it is when it is called (`held`), and opens and writes each of its files in two
steps: opening empties the file (`Cut`), and when its writer is done it has the
writer's half of the index, unless another thread opened, wrote or still writes
it meanwhile (`Disturbed`): then it may hold bytes of both (`Mixed`). A crash, or
an exception of any of these statements (`Raise`), leaves the disk as it is then.
A cut file raises when it is loaded; a mixed one, or one being written, raises
or does not. There is no lock, and `together` remembers that two threads have
been in `_ensure_initialized` at once.

**Dashboard.** A session's script run goes from "top" through `Draw` (the page
down to `chat_input`, with the cached health), `Post`, `Receive` and `Render`
(the `if`/`elif` chain). `Enter` and `Click` are the analyst; while a run is
going on they wait in `waiting` and stop it (`Interrupt`) wherever it calls
Streamlit, which `requests.post` does not. An interaction that comes while an
older one waits is made one with it or takes its place (`Merged`): Streamlit,
which is external, may do either, and the code must live with both. So a run
can have a prompt and clicks at once. The engine is `Process`, `GoDown` and
`ComeUp`. Facts about Streamlit the code relies on are stated at the head of the
module. The greeting, and the lists of logs, alerts and bans, are left out: the
clicks that change them are "other", and what is kept of them is their
`st.rerun()`, which ends the run.

## 4. What the runs check

| run | instance | properties | shows |
|---|---|---|---|
| `safety` | `GuardedAgent_safety`: 2 requests, 2 decisions, 2 ids, 3 tools, every handler outcome, 2 failing appends, 1 restart | `TypeOK`, `GateRespected`, `OneDecision`, `RepliesTruthful`, `DecisionsRecorded`, `RunsRecorded` | pass |
| `approval` | `GuardedAgent_approval`: 2 requests, 2 decisions, 1 restart, fair | `ApprovalFlow` (refinement of `StagedActions`), `Answered` | pass |
| `pool` | `LlmPool_pool`: 2 requests, 3 attempts, 1 worker, fair | `PoolTypeOK`, `NothingQueuedInVain`, `NeverMadeLate`, `RetriesEnd` (refinement of `RetryLoop` and a verdict for all) | pass |
| `pool_timeout` | `LlmPool_timeout` | `CallsRunUnderTimeout` | violation |
| `audit` | `AuditLog_audit`: 2 processes of 2 threads, 3 events, long and short records, 1 failure, 2 crashes that cut records | `AuditTypeOK`, `ReturnedIsKept`, `DamageBounded`, `ImplementsChain` (refinement of `AppendOnlyChain` up to the first accident) | pass |
| `audit_long` | `AuditLog_long` | `EveryRecordChained` | violation |
| `audit_verify` | `AuditLog_verify` | `VerifyMeansChained` | violation |
| `rag_restart` | `RagIndex_restart`: 2 threads, 3 writes, 3 seconds, 2 restarts | `RagTypeOK`, `SearchesOneVersion`, `LoadsAllOlderWrites` | pass |
| `host` | `Host_host`: 3 calls, 1 address, 1 service, either platform, 1 program that comes or goes, 1 restart | `HostTypeOK`, `TextsAccountForRules`, `RollbackFollowsBlock`, `DownIsTold` | pass |
| `answers` | `Answers_grade`: texts of up to 3 pieces, 3 words, 3 attempts, 50 % | `AnswersTypeOK`, `DispatchedAlone`, `GradeIsEarned`, `ConversationAlternates`, `CallIsHeard`, `LastTextCounts`, `KeepsToLoop` (steps of `RetryLoop`) | pass |
| `dashboard` | `Dashboard_runs`: 2 sessions, 2 prompts, 1 outage | `DashboardTypeOK`, `SentOnce`, `ChatIsTrue`, `ButtonsAreCurrent` | pass |
| `dashboard_clicks` | `Dashboard_clicks`: the same | `ClickDecides` | violation |

**The bounds.** Two decisions and two requests are the least with which an id is
fought over while another thread has an action of its own; the proofs cover
every number. Three tools: a destructive one, a harmless one and one that is
not registered. One restart separates a life before and one after it, with
clients that remember ids of the first. Two failing appends reach every place an
append can fail at, and two of them in one thread or in two: that the gaps in
the trail are no more than the failures needs more than one. Three attempts have a first, a middle and
a last; one worker with two requests is a pool that can be used up. Three audit
events are the least with a record before and one after a damaged one, and two
crashes can hit a file that an earlier one has damaged. With the window of two units a long
record does not fit and a short one does. Three seconds and three versions of
the log allow a write before, in and after the second that is indexed, and two
restarts one that leaves a half-written index and one that loads it; saves that
fail halfway need no bound. Two query threads are the least that can meet in an
initialisation without a lock and write over each other's files, and two
processes of two threads the least with a lock that excludes and one that does
not.

Three calls of the host are two blocks and a rollback, or two restarts of one
service and something else between; rules of different addresses and services
of different names never touch. One program that comes or goes lies before,
between or after them. Three pieces are a call between a fence and a word, two
objects, or an object between stray braces; three words with a threshold of 50
per cent have shares below, at and above it (1/3, 1/2, 2/3), and a grade that is
wrong at the threshold alone is found; the words of an
answer differ only by being in the records or not. Two prompts
are the least with which an old offer can be mistaken for a new one, and two
sessions share the cached health.

The instances of `GuardedAgent` without `type_error` (the refinement) say what
is true of handlers like the shipped ones: with a handler that raises a
TypeError after it has acted, the registry calls it again and an action runs
twice, which is in the `safety` run (`ran[t]` reaches 2 and no more) and not in
`StagedActions`. `RunsRecorded` wants a second run that returned in the trail
like any other; it promises nothing about one that raised again, which the
registry does not audit.

`DecisionsRecorded` and `RunsRecorded` hold whatever fails: what is in the trail
is true, and what is missing from it, taken together, is no more than the
appends that failed.

Some properties are conditional where the code promises no more. `ImplementsChain`
holds up to the first accident (`Rough`: a failed flush, a record longer than
the window, a cut record, two processes inside `append` at once); `DamageBounded`
says what an accident may cost, whatever the rest. `SearchesOneVersion` and
`LoadsAllOlderWrites` claim nothing once two first queries have met
(`together`): they can write over each other's files, and what is loaded later
may be of two versions, or of none. `RollbackFollowsBlock` is about a host on
which no program is installed or removed in between.

Symmetry is used between processes, between query threads, between calls of the
host before they have chosen, and between words: all are sets of model values
that no definition tells apart, and no liveness is checked in those runs.

`CHECK_DEADLOCK FALSE` is set everywhere: when all calls are answered and all
bounds are used up the models stop, as the engine idles.

Each property has a mutant (an operator beside the definition it replaces,
marked "Mutant"): a plausible bug of that code with which TLC finds the
property violated in the same run.

## 5. Fairness

* `FairSpec` of `GuardedAgent`: weak fairness for each thread that has begun.
  The operating system schedules threads; LLM calls are waited for with a
  timeout (`RetryLoop`'s attempts end: `LlmPool`); commands are killed after 20
  seconds; the lookup of log entries is taken to end. Nobody is bound to send a
  call, and no crash is bound to happen.
* `PoolSpec`: weak fairness for each HTTP thread, whose timer expires if no
  answer comes, and for idle workers. Nothing is asked of Ollama: a call may
  run for ever and keep its worker.
* `StagedSpec` and `LoopSpec` state the fairness that the detailed modules are
  shown to implement.
* `AuditLog`, `RagIndex`, `Host`, `Answers` and `Dashboard` are checked for
  safety only. (`Answers` takes the steps of `RetryLoop`; that the loop ends is
  `RetriesEnd` of `LlmPool`.)

## 6. What is proved

`GuardedAgentProofs` proves, for any sets of requests, decisions, ids and tools,
any number of retries, restarts and failing appends, any handler outcomes, and
from `AgentAssumption` alone (requests and decisions are different calls, the
registered and the destructive tools are tools, the absent values are absent,
the bounds are numbers):

* `TypeCorrect`: `Spec => []TypeOK`. The bounds on attempts and runs are not
  inductive; `TypeInv` adds that an open loop has an attempt left, how often a
  handler has run at each phase, and that a staged call has an id.
* `OneDecisionHolds`, `GateHolds`, `RepliesHold`: the invariants `OneDecision`,
  `GateRespected` and `RepliesTruthful`.

The three follow from one inductive invariant, `SafeInv`:

* `RequestInv`: what the flags and the call of a request are at each phase (a
  request that executes a destructive call has neither flag set; one that
  staged a call wanted approval);
* `IdInv`: an id belongs to at most one request, and what the table holds under
  an id is the call of the request that staged it;
* `DecisionInv`: a decision that has taken an action has its call from the
  request that announced the id, and only an approve goes on to execute;
* `OneDecision` itself: what one decision took is not in the table any more and
  no other has it;
* `AnswerInv`: what each answer implies about runs and results.

`GateRespected` is not inductive alone: nothing in it ties the call a decision
executes to an offer; that tie goes through the table (`IdInv`) and through the
claim (`DecisionInv`). Each conjunct has a lemma with one step per action
(`RequestStep`, `IdStep`, `DecisionStep`, `OneDecisionStep`, `AnswerStep`);
`SafeCorrect` puts them together. `SafeInv` was checked by TLC before it was
proved.

`AgentRefinesFlow` is about the refinement `ApprovalFlow`: the initial state
maps to `StagedInit`, and every step to a step of `StagedActions` or to a
stutter. It assumes that handlers raise no TypeError (`"type_error" \notin
HandlerOutcomes`), as the run `approval` does and as the registered handlers do
not; with it the claim is false, since a TypeError makes the registry call the
handler again (the run `safety` has those). The proof reads the mapped state
through the invariant first (`ReadPhase`, `ReadRuns`): by `IdInv` and
`OneDecision` an action is of one decision at most, so that its phase is the
phase of *that* decision, and, by `RunsOnce` (no handler has run more than once),
the number of its runs is 1 or 0. Then there is one lemma per kind of step:
what is not seen (`Unseen`, `RequestUnseen`), staging, claiming, running,
settling, and the restart (`StageShows`, `ClaimShows`, `RunShows`,
`DecisionShows`, `CrashShows`). That a settled approval has run is `AnswerInv`,
that the action a handler runs for is being approved `DecisionInv`. The mapping
counts runs as pairs of a thread and a number, which the library's theorems on
cardinality can count.

`AuditTrailProofs` adds, from the same assumption:

* `RunsRecordedHold` and `DecisionsRecordedHold`: the invariants `RunsRecorded`
  and `DecisionsRecorded`.

They need `TrailInv`, which is `SafeInv` with two facts about the trail.
`NothingInvented`: a recorded run has taken place, a recorded decision belongs
to a thread that took the action. `GapsCounted`: the threads that have gone past
an event without its record, a run when they are back from the registry or an
offer when their client knows the id (`Owed`), are no more than the appends that
failed. It is kept because a step opens such a gap only where an append fails,
and then one (`OneGapAFailure`, proved action by action in `GapStep`). Of the
events a property misses each belongs to a thread of its own with such a gap, so
they are as few (`FewMissing`). `DecisionsRecorded` speaks of the offer of the
call that was decided: `DecisionInv` gives the request, and its gap, if any, is
the request's.

`LlmPoolProofs` proves, for any number of requests, attempts and workers, from
`PoolAssumption`:

* `PoolTypeCorrect` and `QueueHolds`: the invariants `PoolTypeOK` and
  `NothingQueuedInVain`;
* `NeverMadeLateHolds`: the action property `NeverMadeLate`;
* `PoolRefinesLoop`: each step of threads, workers and Ollama is a step of
  `RetryLoop` or a stutter. What is left of the refinement is its fairness.

The inductive invariant is `PoolInv`. `NothingQueuedInVain` alone does not
survive a submission: that the new call is not in the queue already needs
`SubmittedOnce` (a call once submitted belongs to an attempt that is over, or is
awaited) and `NotStarted` (the queue holds nothing a worker has taken), and that
there is such a call needs `OpenLoops` (an open loop has an attempt left).
`Return` and `Cancel` end an attempt the same way, which is the lemma
`AttemptEnds`.

`HostProofs` proves, for any calls, addresses, services, changes of the installed
programs and restarts, from `HostAssumption`:

* `DownIsToldHolds`: the invariant `DownIsTold`. It is not inductive alone:
  another call's command must not change the text or the place of the call that
  took the service down. `DownInv` adds that a call that took a service down is
  past its first command and was to restart that very service (`TakenDown`),
  that only sc is asked twice (`StartsWithSc`), and that a call that runs a
  service manager has a service (`OnServices`). So a call at its first command
  has taken nothing down (`RunningTookNone`), and what it says disturbs nobody.
* `RollbackFollows`: the invariant `RollbackFollowsBlock`, by `ViaInv`: while no
  program has come or gone, each call has the program it would find now.

* `TextsAccountHolds`: the invariant `TextsAccountForRules`, which is inductive
  together with `DownInv`. It compares numbers of calls; `CallsCounted` says
  that there are finitely many, and `AccountStep` what one more call in one of
  the four sets does to the account. Each outcome of a command (it ran, it
  failed, it timed out or raised before or after its effect, the engine died)
  moves the call into such a set in the same step that changes the rules.
* `HostTypeCorrect`: the invariant `HostTypeOK`. That no address has more rules
  than there are calls is not a matter of types: it follows from the account.
  `HostInv` adds that a call runs a program of the platform.

`AnswersProofs` proves, for texts of any length, any words (finitely many, since
the grade counts them: an answer has that many words), any threshold and any
number of attempts, from `AnswersAssumption`:

* `AnswersTypeCorrect`, `DispatchedAloneHolds`, `GradeIsEarnedHolds` and
  `ConversationAlternatesHolds`: the invariants of the run `answers`;
* `CallIsHeardHolds` and `LastTextCountsHolds`: its action properties;
* `AnswersRefineLoop`: `KeepsToLoop`, the refinement of `RetryLoop`.

The inductive invariant is small (`Concluded`: what was concluded is what the
functions make of the text heard last; `InTurns`: two messages to begin with and
two per attempt that is hinted at). The work is in the operators: what
`json.loads` of the whole text, of the first fence and of the stretch between
the first and the last brace find. The lemmas show that a text with two objects
is none of them and that each finds a lone object. `GradeIsEarned` says of the
words that are missing from the records what the code says of those that are in
them, and exactly so at the threshold: the two are complements (`FS_Difference`),
and `Percent` is the arithmetic.

`AuditLogProofs` proves, for any number of processes, threads, events, failures
and crashes, short and long records and any window, from `AuditAssumption`:

* `AuditTypeCorrect`, `ReturnedIsKeptHolds` and `DamageBoundedHolds`: the
  invariants of the run `audit`;
* `AuditImplementsChain`: `ImplementsChain`, the refinement of `AppendOnlyChain`
  as long as nothing has happened that the class does not guard against.

The inductive invariant is `AuditInv`. `Locked`, `Begun` and `OnItsWay` follow a
record from the buffer of its process to the file and to stable storage; that
the lock of an object is held over all of it is what makes the buffer hold the
record when `flush` is called. `FewHeads` says that each cut record in the file
has its failure or its crash; `DamageBounded` follows by an injection
(`FewUnreadable`): a record that is on disk and cannot be read stands right after
a cut one. `Smooth` is what holds while none of the four accidents has happened:
no chunk is cut, one thread at a time is in `append`, the buffer is empty or has
its record, and the hash it read still is that of the last record. It cannot be
had without the disjunction with `Rough`, and `Rough` never becomes false again
(`RoughStays`). `LastHashFound` is the lemma about `_last_hash`: in a file of
whole and short records the last line lies in the window.

`RagIndexProofs` proves, for any number of threads, writes, seconds and crashes,
from `RagAssumption`:

* `RagTypeCorrect` and `SearchesOneVersionHolds`: the invariants of the run
  `rag_restart`;
* `LoadsOlderHolds`: its action property `LoadsAllOlderWrites`.

`RagInv` has a part that holds in any case (`Clock`: mtimes are of the past and
what the log had when a second began it still has; `Ready`: whoever searches
does so after an initialisation) and one that holds until two first queries meet
(`Undisturbed`; from then on `together` holds, and nothing is claimed). The core
of the latter is `Disk`: the marker is older than the log's mtime, or the files
are whole, of one version, and lack nothing written before that second
(`Complete`). A thread that has read the mtime
relies on the same of its own second (`Stages`), although the log may be written
in between; that is why the mtime has to be read before the log.

`DashboardProofs` proves, for any number of sessions, prompts and outages, from
`DashboardAssumption`:

* `DashboardTypeCorrect`, `SentOnceHolds`, `ChatIsTrueHolds` and
  `ButtonsAreCurrentHolds`: the invariants of the run `dashboard`;
* `DecidesUnseen`: no chat ever offered an action that the page then decided. It
  states the finding of the run `dashboard_clicks` for every instance: the only
  decisions the page posts come from a click that Streamlit has made one with
  another prompt, and they decide that prompt's action, not the one whose buttons
  were clicked.

`DashInv` adds where a prompt is (`OnePlace`: it starts one run of one session,
or waits for that), that one not yet posted is not known to the engine
(`Sending`), that runs past `chat_input` have a prompt (`AboutPrompt`), that the
answer a run shows is the engine's (`Answered`), and that no run is or will be
about a prompt the chat has answered or a decision was about (`Closed`, from
which `DecidesUnseen` follows).

All the inductive invariants were checked by TLC on the instances of the runs
before they were proved.

Only model-checked, since it is out of the prover's reach: liveness. That is
`Answered`, and of `ApprovalFlow` and `RetriesEnd` the part that is not a matter
of single steps (the fairness of `StagedActions` and `RetryLoop`, and that every
request comes to a verdict). The four disagreements of section 7 are
counterexamples, found by TLC.

## 7. Where the code and its documents disagree

Each is shown by a run that TLC finds violated; `PROJECT.json` quotes the lines.

* **A timeout does not end a call** (`pool_timeout`). `future.cancel()` does
  nothing to a call a worker has started: it goes on and keeps one of the two
  workers. The loop still ends (`RetriesEnd`), since later calls are cancelled
  in the queue.
* **The chain starts anew after a long record** (`audit_long`). `_last_hash`
  takes the last line of the final 4096 bytes, which may begin in the middle of
  a record.
* **`verify` accepts a broken chain** (`audit_verify`). It compares no
  `prev_hash` with the record before. The run gets the broken chain from
  `append` itself: a flush that failed leaves its line in the buffer, and the
  next append chains to the same record.
* **Approve does not approve** (`dashboard_clicks`). The buttons, and the calls
  their clicks make, are inside the branch of the prompt; the run that a click
  starts has no prompt and draws neither. The action stays staged, and nothing
  on the page can decide it any more (`DecidesUnseen`).

Observations without a run, since nothing in the repository promises otherwise:

* two concurrent first queries can leave an index whose vectors and documents
  are of two versions of the log, in memory or on disk, and can write over each
  other's files, so that one with bytes of both stays behind a marker that says
  it is current and is loaded after the next restart (the condition `together`
  of `SearchesOneVersion`);
* a restart through sc whose first command stops the service and then raises, or
  whose second raises, leaves the service down; the client gets an error, not a
  text that says so (`DownIsTold` counts that as told);
* the dashboard's buttons carry no action id. Should Streamlit make a click on
  Approve and a prompt entered before the next run begins into one run, that run
  approves the action of the new prompt, which nobody has seen
  (`DecidesUnseen`);
* the audit file is opened for appending without looking at how it ends: a
  fragment that an accident left swallows the next record, and "one JSON object
  on its own line" (`audit.py:91`) fails for that line. `DamageBounded` says that
  it is one record per accident and no more;
* the rollback's docstring (`tools.py:194`) calls it idempotent; with iptables
  two approved blocks of an address need two rollbacks, and a third one fails
  with a text; with nft the reverse command never deletes anything, and says so.
  `TextsAccountForRules` holds all the same: the texts tell;
* the text of a failed block begins with "blocked via iptables"; that it failed
  is in its second half, and for the registry it is a success;
* the `{"answer": ...}` object the prompt asks for (`agent.py:296`) is no tool
  call and draws the hint to make one, so that an answer in prose always takes
  `max_retries` calls of the LLM; if the last of them raises, the answers of the
  earlier ones are lost (`LastTextCounts` says what does hold);
* each case of the CLI harness makes an executor of its own, and the interpreter
  waits for their workers when it exits: one hung call keeps it for ever;
* a running engine never looks at the log again after its first query, and the
  marker has whole seconds: a write in the second of the last indexed one is
  not seen after a restart either (`LoadsAllOlderWrites` says what does hold);
* the dashboard says "could not process request" of every prompt, processed or
  not, if the engine was down when the first session asked for its health.

## 8. What is not modelled

* *Guardrail*: its two outcomes and its event are in `GuardedAgent`. The decision
  itself is a fixed list of regular expressions over normalised text: a function
  without state, for which the repository has no definition to compare it with
  but itself.
* *Text*: prompts, redaction, `sanitize`, `_sanitize_details` and the ranking of
  log lines are abstracted; `read_all` only reads.
* *Tool handlers*: `get_memory_usage` and the rollback of a restart return a text
  and change nothing.
* *Dashboard lists*: logs, alerts and bans live in one session and reach nobody.
  The manual block of the page (`app.py:283`) adds to such a list and never
  reaches the engine or the host.
* *`main.py`*: builds the same agent and forwards to it; `reject` has an endpoint
  of its own there. Its threads are the threads of `GuardedAgent`, and its
  process is the second one of the run `audit`. The harness's list of cases is
  not modelled.
* *Deployment*: shell scripts and container files; what follows from them (one
  process, restarts) is in the models. *Ollama installer*: third-party.
* *Several engine processes* on one table: the table is per process, and the
  image starts one worker.
