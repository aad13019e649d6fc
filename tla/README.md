# Orchestra in TLA+

Orchestra (`src/orchestra`) takes a task over HTTP, lets a supervisor model plan
it as a graph of subtasks, runs the subtasks with specialist models and tools,
has a reviewer judge every output, pauses at human gates and writes one answer.
A run lives in a LangGraph checkpoint in Postgres; Celery delivers it to workers
that may die at any time.

This directory specifies that behaviour: modules translated from the Python
source, TLC configurations that check them on small instances, and TLAPS proofs
for the parts that matter most. Source paths below are relative to
`src/orchestra`; `PROJECT.json` maps every definition to its lines.

Contents: [inventory](#1-inventory), [modules](#2-modules-and-how-they-follow-the-code),
[runs](#3-runs), [counterexamples](#4-where-code-and-documentation-part),
[proofs](#5-proofs), [limits](#6-what-is-not-modelled), [plan](#7-plan).

## 1. Inventory

| Part | State it keeps | Operations | Hard behaviour | What makes it correct |
| --- | --- | --- | --- | --- |
| Plan validation (`graph/validate.py`) | the two sets of Kahn's loop | `validate_plan`, `_cycles` | any shape of dependencies | accepts exactly the acyclic plans it should, and ends |
| Agent graph (`graph/build.py`, `state.py`, `approval_nodes.py`) | the channels of `GraphState`, in the checkpoint | eight nodes, two routers, parallel branches | batches, retries, three gates, repeated super-steps | dependencies, attempts, approvals and human verdicts hold to the end, and there is an end |
| Specialists, reviewer, supervisor (`agents/`) | none between calls | tool loop, verdict, plan | model and scores disagree | threshold override, attempt cap |
| Tool gate and audit (`tools/execution.py`) | `tool_calls` rows | `execute_tool`, `log_tool_call` | call and row are two steps | approval of the very call; bounded audit gap |
| Tool registry (`tools/registry.py`) | call times by tool, per leg | `execute`, `_check_rate_limit` | branches share it | window never over-full, never refuses without cause |
| Task lifecycle (`worker/`, `api/server.py`, `api/repository.py`) | `tasks`, queue, worker slots | `create_task`, `run_task`, `resume_task` | crashes, redelivery, visibility timeout, API crash | no progress lost, no task stuck, states agree |
| Approvals (`api/routes.py`) | `approvals` rows | publish, decide | two humans, decision overtakes worker | a gate is passed with its own decision |
| Run metadata (`api/run_metadata.py`, `llm/recording.py`) | `run_metadata` row, a recorder per leg | `start_run`, `mark_paused`, `complete_run`, `fail_run` | a run has several legs | one row; totals within what was paid |
| Long-term memory (`memory/`) | `memories` rows | search, touch, save, delete | two statements per read, erasure beside workers, runs delivered again | scoped attribution, counts cover use, nothing of an ended run after an erasure |
| Eval harness (`evals/`) | budget, cache, result rows | `run_matrix`, `run_config` | budget trip, failures, a row that cannot be written, kill and restart | one response of overshoot per repeat; a prompt is paid once |
| Checkpointer (`graph/checkpointer.py`) | LangGraph's tables | open | — | modelled through its effect on the graph |
| Replay (`graph/replay.py`) | a second thread | `replay_task` | starts from another run's results, attempts, requests and verdicts, some of them replaced by the request | accepted work is not redone, and it returns |
| Event stream (`api/server.py:112`) | last status seen | poll | statuses change between two polls, and after the last | "completed" is said of a run that reached its end; the client is told |
| Span exporter (`observability/`) | a provider and a buffer per worker process, `spans` rows | `configure_tracing`, `export`, `flush_tracing` | threads share both; an export times out while it writes | the trace of a finished run is whole; no job hangs on it |
| Migrations (`migrations/runner.py`) | `schema_migrations` rows, the schema | `run_migrations` | API and workers start at once, no lock; crash between a file and its row | whoever serves has the schema; not all starts fail |
| Escalation policy, LLM providers, built-in tools, MCP server, sanitizing, web, scripts | — | — | — | pure I/O, loaders and reports; not modelled beyond their answers |

How they interact. The API writes a `tasks` row and enqueues `run_task`. A worker
slot takes the message, opens the checkpointer, builds a registry, a recorder and
the graph, and calls `ainvoke`. The graph commits super-step by super-step. At an
`interrupt` the invocation returns; the worker publishes the row in `approvals`,
sets the task to `awaiting_human` and acknowledges the message. A human's answer
updates the row and enqueues `resume_task`, whose worker passes it into the graph
as `Command(resume=...)`. Messages are acknowledged late, so a dead worker's
message is delivered again; a message held for longer than 60 s is delivered
again while its worker goes on. Every start of the API and every job runs the
migrations first; a job then configures tracing, and flushes the spans of its leg
before it writes how the leg ended. A client may follow the task's status as a
stream, or replay the channels of its latest checkpoint in a thread of its own.

## 2. Modules and how they follow the code

```
PlanRules ── PlanValidation ── PlanValidationProofs
    └─────── OrchestraGraph ── OrchestraGraphProofs
                   └────────── GraphReplay      (both)
GatePositions ── GateContract ── TaskLifecycleProofs
       └──────── TaskLifecycle      (all three; implements GateContract)
                      └────────── EventStream
Migrations ── MigrationsProofs
WorkerTracing ── WorkerTracingProofs
RunLegs ── RunLegsProofs
EvalMatrix ── EvalMatrixProofs
LongTermMemory ── LongTermMemoryProofs
```

`MC*` modules give TLC the plans, permissions and owners of an instance. A run
without one takes its constants from the cfg alone.

**PlanRules, PlanValidation.** `PlanRules` says what a valid plan is: known
dependencies and a source in every subset. `PlanValidation` is the program: the
field checks, then one step per round of `while remaining` in `_cycles`. The
checks on one subtask's own fields are one Boolean of the draft, `wellFormed`.

**OrchestraGraph.** One run on one thread. The variables are the channels of
`GraphState`, the position of the thread (pending super-step, subtasks sent,
writes of finished branches), the worker's memory and the world. An action is one
committed super-step, except where a super-step acts on the world before it
commits: the branches of `execute_subtask` take one turn of the specialist loop
at a time (`Observe`, `UseTool`, `AskApproval`, `Answer`, `FailBranch`), and
`synthesize` stores a lesson (`WriteAnswer`) before it commits (`CommitAnswer`).
`Crash` drops the worker's memory; the pending super-step starts again, but for
branches whose pending writes reached the checkpointer. Gates re-execute
their node on resume and ask the same question, so only the answer is a step.

**TaskLifecycle.** The outside of the same run: a position on a line
(`GatePositions`) stands for the checkpoint, `Drive` for the super-steps up to
the next gate. An action is the code between two awaits at which another process
can get in between, so `set_task_status`, `record_interrupt_approvals`, `.delay`
and the rest are separate steps. The slot that dies loses its job and the broker
puts the message back (`Crash`); `Expire` delivers it a second time. A job may
raise at any await (`Raise`, at every stage in `Fallible`): in `create_pool`,
which leaves it no pool to record the failure with, before or after its first
status, between its last writes, and in the handler that records the failure.
The message is acknowledged all the same. `lost` holds the messages nobody will
make up for: those that ended with no status written or their answer not used,
and those the API died before it could send. A later delivery of the same
message that gets to its first status makes up for it. What lost messages leave
behind is told in section 4.

**GateContract.** The abstract promise: gates in order, one question and one
reply each, and no pass without the reply to that gate. `TaskLifecycle` implements
it with position = checkpoint, asked = `approvals` rows, and passed = the answer
applied, which is "foreign" if it came from another gate's row.

**RunLegs.** One call of `_run_graph` is a leg. It has a new registry and a new
recorder; what outlives it are `tool_calls` and `run_metadata`. Branches
interleave at awaits; the permission and rate checks run between two of them and
are one action with the admission (`CallTool`). `usage`, the registry's list of
times, is kept as the set of admitted calls whose time it still holds. A
structured model call is repaired once (`Invalid`, `Repairs`). Tokens, cost and
latency are one count of responses. No built-in tool sets `rate_limit`: the
window is modelled for the tools that do, as the repository's tests define them.

**EvalMatrix.** `run_matrix`, `run_config` and `run_single_task` with the cache and
the budget between a task and its model, with or without a database. The command
line passes no pool, so both cases matter. A run is a config and a repeat; each
has a budget of its own. A task that raises is graded as failed; a statement
outside a task that raises (the row of the run or of a result, the summary file)
ends the whole matrix (`Stop`), as does a kill, and the operator may start it
again from the first run (`Restart`). Costs are whole units, prompts are tasks.

**LongTermMemory.** Runs that plan (search, then count the access), work, and
store a lesson, beside the erasure of a user. A slot drives one run from its latest
checkpoint (`Deliver`). Deliveries are free: one may follow a pause, a crash or a
failure, or start while another slot still drives the run, whose commits may then
take the checkpoint back. A job that ends before its super-step commits (`Leave`)
leaves nothing but the rows it has written. Ranking is a free choice of at most
`TOP_K` of the user's rows.

**GraphReplay.** `OrchestraGraph` twice on the same variables: first the source
run (`SourceStep`), then, from `Replay` on, the graph in a new thread whose
channels are those of the source run's latest checkpoint.
`load_checkpoint_values` takes them whatever the status of the task is, so
`Replay` may follow any step. The replay has no tool executor, no memory and
nobody who answers: it returns at the end, at a failure or at the first gate
that asks (`Returned`). The request may replace any channel (`apply_edits`).
`Edits` are those whose value the graph reads before it overwrites it: results,
attempts, requests, decisions on failures, the response; an edited plan is
overwritten by the supervisor. Results in a request are none, or JSON objects
without the `.status` that dispatch reads: the node raises and the endpoint
answers 500 (`unreadable`, `ReplayFails`). So a request that edits the results
gives up what had been accepted, and `AcceptedStays` is about the seed that the
request hands over.

**EventStream.** One client's generator beside `TaskLifecycle`: a poll reads the row
as it is between any two steps of API and workers.

**WorkerTracing.** The jobs of one worker process after their migrations.
`configure_tracing` is four steps (look, build, install, assign); an `EndSpan`
appends to the buffer, and a flush or the processor's timer calls `export`, which
hands a coroutine to the exporter's loop and waits for it until `Timeout`. A
coroutine goes on after that. `ProcessDies` loses what was in memory.

**Migrations.** A starter is one call of `run_migrations`; a step is the table of
migrations, a file, or the approvals table that only the API adds. A file and its
row are two commits. Two sessions that create the same object at the same time
collide unless the file waits for a table's lock first (`Altering`).

Assumptions about code outside the repository, all marked external in the map:
LangGraph commits a super-step before the next with `durability="sync"`; `ainvoke`
with no input continues from the latest checkpoint; `Command(resume=...)` is
taken by the interrupt pending in the latest checkpoint, whichever it is; writes
of finished branches may survive a crash. Celery with `acks_late` delivers an
unacknowledged message again. OpenTelemetry keeps the first provider it is given;
its batch processor buffers ended spans, exports one batch at a time from its
timer or from `force_flush`, and drops a batch whose export fails. Postgres runs
the statements of one string as one transaction, and its `IF NOT EXISTS` looks
before the other session has committed.

Abstractions a reader should know:

- The order in which a gate asks about several entries is a free choice.
- "modify" keeps plan and arguments: the API records `modified_plan` and
  `modified_arguments`, the graph reads `plan` and `arguments`, and what it does
  not find it leaves as proposed.
- `performed` counts to two. LangGraph's recursion limit is not modelled.
- `TaskLifecycle` has one task. Tasks share slots and nothing else.
- `RunLegs` has a clock that never goes back.

## 3. Runs

Check a run with `tlc -config <cfg> <module>`.

| Run | Module, cfg | Instance | Shows |
| --- | --- | --- | --- |
| graph_pair | MCOrchestraGraph, Graph_pair | two subtasks, five drafts, one sensitive call each, two turns, one crash; 687 000 states | attempt cap, approvals, stopped plans, threshold, settled verdicts, and that the run ends |
| graph_triple | MCOrchestraGraph, Graph_triple | two subtasks and one that needs both; a cycle | dependencies, judgement, nothing left behind |
| graph_replay | MCGraphReplay, Graph_replay | two subtasks in a chain, the reverse chain, a single one of low confidence, an invalid draft; replayed from any state, with one channel replaced by the request or none; 841 000 states | accepted results stay, and the request returns |
| plan_rounds | MCPlanValidation, Plan_rounds | all plans of up to three ids with unknown, self and cyclic dependencies, and one over the limit | the verdict is right and reached |
| lifecycle_redelivery | TaskLifecycle, Lifecycle_redelivery | one slot, two humans, two gates, one crash, expiry and API crash, two failures at any stage; 923 000 states | progress kept, decisions kept, rows agree, and the task settles unless a message was lost |
| lifecycle_promise | EventStream, Lifecycle_promise | two slots, one human, a client, two failures at any stage, no repeated delivery; 376 000 states | `TaskLifecycle` implements `GateContract`; a client is told how the task ended, and "completed" only of a run at its end |
| lifecycle_crash | TaskLifecycle | one slot, one crash | **violated**: `DecisionMatchesGate` |
| migrations_start | Migrations, Migrations_start | an API and two jobs of one worker, three files, either process may die; 309 000 states | whoever serves has the schema, and one start survives |
| worker_spans | MCWorkerTracing, Worker_spans | two jobs with three spans, batches of two, a database that is slow, refuses or hangs, a crash; 376 000 states | whole traces, and no job hangs |
| legs_calls | MCRunLegs, Legs_calls | two branches, two tools, two legs, one crash, one failing insert; 2.1 million states | exact rate limit, bounded audit gap, totals within what was paid |
| eval_matrix | EvalMatrix, Eval_matrix | two configs, two repeats, three tasks, one crash, stop and failing task; 3.9 million states | overshoot, paid once, backed summaries, completion |
| memory_runs | MCLongTermMemory, Memory_runs | three runs of two users, two slots, five deliveries, one erasure; 2.4 million states | scope, counts, erasure |

Why the bounds are enough. Two subtasks in a batch are the least that make a
merge, a second escalation and a second request possible; three make a batch
followed by a dependent one. Two attempts and a human's retry exhaust the cap.
Two gates are the least in which an answer can reach the wrong one; two slots
and one crash, expiry or failure each exercise every order of two workers over
one thread. A window of two ticks in three ticks of time lets calls leave it; a
limit of two with three calls lets it fill. The cap of three with responses of
one or two is met exactly and overshot, by a config's first repeat and by its
second. Two starters make a collision and a third one survives or follows it;
three files are one that is applied, one that is not and one that alters. Two
jobs are the least that share a provider, a buffer and a call in progress, and
with batches of two a batch may be full or hold spans of both. A replay needs an
accepted and an open subtask in its seed, and a plan that turns their order
round. Three deliveries of one run are a job, one beside it and one after both;
two more make rows for them to find. The counters are `MaxTurns`, `MaxCrashes`,
`MaxExpiries`, `MaxFailures`, `MaxStops`, `MaxEdits`, `MaxApiCrashes`,
`MaxTime`, `MaxCalls`, `MaxPaid`, `MaxLegs`, `MaxLogFailures`, `MaxRows`,
`MaxDeliveries` and `MaxErasures`; each limits the environment, none the
program. Deadlock is checked everywhere but in `RunLegs`, whose bounds really
stop it, and in `Migrations` and `WorkerTracing`, whose processes end.

Fairness. `OrchestraGraph!FairSpec`: the worker goes on (the broker redelivers a
lost run) and humans answer. `TaskLifecycle!FairSpec`: the API serves what it has
accepted, each human who has begun a decision or can make one does, each slot goes
on; crashes, expiries and failures are never forced. `EvalMatrix!FairSpec`: one
process that awaits its calls; nobody need start it again, so `MatrixCompletes` lets
a stopped matrix stay stopped. `PlanValidation!FairSpec`: the loop runs.
`ReplaySpec`: the API process goes on with the request it awaits; a failure of a
model is allowed and never forced. `StreamSpec`: the generator polls every half
second. Nothing is assumed of the lifecycle beside it, so `ClientIsTold` starts
from a task that has come to rest. `WorkerTracing!Spec`: threads go on, the
processor's thread exports on its timer and `future.result` times out; the
coroutine that writes, and so the database, need never move.
`Settles` is checked with an API that may die and jobs that raise anywhere, and
excuses a task only by a lost message; without the excuse it is false (section 4).
`StreamNext` includes the deaths of the API.

In `lifecycle_redelivery` there is one slot, as progress is false with two
(section 4). `docker-compose.yml` starts a worker with four threads, so these
properties describe one slot's worth of concurrency, not the deployment. Its humans
give one answer: no action and no property of that run compares answers, so a second
one would only rename states. `Expire` there is the delivery that comes while the
slot still works; it waits until the slot is free.

## 4. Where code and documentation part

Each line is a configuration in which TLC finds a state or behaviour that
contradicts the quoted text. Lifecycle_crash is a run of `PROJECT.json`; the
others are kept to be run by hand, with the module of section 3 that belongs to
their prefix (`Lifecycle_done` with `EventStream`, `Worker_install` with
`MCWorkerTracing`, `Graph_replay_*` with `MCGraphReplay`).

| cfg (property) | What happens | Text |
| --- | --- | --- |
| Graph_escalations (`EveryEscalationAsked`) | Two subtasks escalate in one batch; after the first answer the run is synthesized | PRD.md:21 "a specialist fails twice, the run pauses and waits for a human" |
| Lifecycle_crash (`DecisionMatchesGate`) | A worker dies after a resumed run has reached the next gate; the redelivered message answers that gate | files/TRD.md:143 "status `approved` for that exact call" |
| Lifecycle_race (`PausedIsDecidable`) | The decision overtakes the worker that published it; a finished task is set back to `awaiting_human`. Two slots | worker/tasks.py:180 "marked `awaiting_human` and nothing else happens until the API hands the decision" |
| Legs_totals (`TotalsCoverRun`) | A run that pauses completes with the totals of its last leg | api/run_metadata.py:4 "token/cost/latency totals" |
| Graph_first_failure (`FailureGateAfterTwoFailures`) | The reviewer escalates the first attempt | graph/build.py:109 "a subtask that failed twice" |
| Graph_stale_request (`AskedSubtaskIsRedispatched`) | A subtask is retried and accepted while an older request of it is still pending | graph/build.py:338 "will be re-dispatched with the decision" |
| Graph_take_over (`TakeOverEndsRun`) | take_over at the action gate rejects one call; the run goes on | graph/approval_nodes.py:11 "end the agent's run" |
| Graph_repeated_call (`ApprovedCallRunsOnce`) | A crash in a branch repeats an approved call | files/architecture.md:31 "tool calls carry an idempotency key" |
| Graph_lessons (`OneLessonPerRun`) | A crash after the extraction stores a second lesson | graph/build.py:517 "one lesson per successful run" |
| Graph_invalid_plan (`InvalidPlanFails`) | Two invalid drafts are synthesized as an empty plan | docs/decisions.md:32 "then the run fails loudly" |
| Lifecycle_audit (`AuditRecordHolds`) | Two humans answer at once; the row keeps the answer that was not applied | api/server.py:302 "durable audit record" |
| Lifecycle_lost (`NeverLosesATask`) | The API dies between its write and `.delay`, or, with `MaxFailures = 1` and `MaxApiCrashes = 0`, `create_pool` raises in `run_task`: the handler skips `fail_task`, the message is acknowledged and the task stays `queued` | api/repository.py:4 "never loses a task" |
| Lifecycle_unrecorded (`PausedIsDecidable`) | `create_pool` raises in `resume_task`: no failure is recorded and the message is acknowledged; the task stays `awaiting_human` with a row that is decided. One slot, no repeated delivery. With one, a failed task can also be revived to such a pause by its `run_task` | worker/tasks.py:180 "nothing else happens until the API hands the decision" |
| Lifecycle_overlap (`ProgressKept`) | A delivery outlives the visibility timeout; the slower worker commits an older position | worker/tasks.py:5 "continues from the last completed super-step" |
| Lifecycle_failed_run (`FailedTaskFailsRun`) | A resumed run raises; its run row stays `awaiting_human` | api/run_metadata.py:4 "failed on error" |
| Lifecycle_done (`DoneIsFinal`) | `complete_run` raises after `complete_task`; the client was told "completed" and the task is failed | api/server.py:114 "until the task reaches a terminal state" |
| Worker_install (`InstalledOnce`) | Two first jobs of a worker both find no provider and build one each; the second flushes the one that is not installed | observability/setup.py:21 "exactly once per process" |
| Eval_per_config (`TrippedConfigIsAborted`) | A config has a budget for each of its repeats: when one trips the cap the next one is run, and may spend as much again | evals/run.py:176 "each config gets its own Budget: a config that trips the cap is aborted and the matrix moves on"; evals/run.py:203 "USD cap per config"; docs/decisions.md:157 "each config carries a Budget" |
| Eval_per_config (`NeverOverspends`, with `-continue`) | The response that trips the cap has been paid for; one that is lost before it is charged is paid for and never counted | evals/budget.py:6 "can never overspend" |
| Graph_replay_plan (`ReplayExecutesPlan`) | A subtask of the new plan whose id the source run had settled is not executed | graph/replay.py:9 "exactly like a fresh run of the edited request would go" |
| Graph_replay_retry (`ReplayRespectsDependencies`) | A subtask that was in retry is sent although the new plan has it wait for another | files/architecture.md:14 "subtasks with no unmet dependencies run in parallel" |

## 5. Proofs

Checked by `tlapm`, for every value of the constants that satisfies the named
assumptions (`DraftsAssumption`, `BoundsAssumption`, `GatesAssumption`,
`AnswersAssumption`, `EditsAssumption`, `MigrationsAssumption`,
`TracingAssumption`, `LimitsAssumption`, `EvalAssumption`, `MemoryAssumption`).
Where a theorem counts them, the runs and slots of a memory table and the branches
of a leg are finite sets. Every safety and action property of a passing run is a theorem;
those of `TaskLifecycle` that need a further hypothesis name it.

**OrchestraGraphProofs.** Type correctness and every safety and action property
of the graph's runs. None of them is inductive alone. The argument has layers,
each inductive given the ones before:

1. `TypeOK`.
2. `ThreadInv`: the position tells which channels are in use. Only a pending
   `execute_subtask` has sends, only what was sent was written, nothing waits for
   judgement outside `review`, a stopped plan is empty.
3. `ScheduleInv`: the plan in force is valid, everything that was sent or asked
   has accepted dependencies, and synthesis starts with nothing to schedule. The
   lemma `Shape` reduces every step to six facts about the scheduler's inputs, so
   that this layer needs no case per action. `NothingLeftBehind` follows: were
   subtasks without a result left, the acyclic plan would have a source among
   them, and that one would be ready.
4. `AttemptInv` with `JudgedOnce`: a subtask that can still be sent has an attempt
   left, and outputs exceed attempts exactly by those in front of the reviewer.

`AnswersStick`, `VerdictsStick` and `SensitiveOnlyApproved` follow from what a step
may do to one approval, result or decision (`ApprovalShape`, `ResultShape`,
`DecisionShape`).

**PlanValidationProofs.** `RoundsInv` says that every subset of the plan that
meets the resolved ids has a member that depends on nothing in the subset. A round
keeps this; at the end it makes a fully resolved plan acyclic, and the remaining
ids of a stuck one are a set without a source.

**TaskLifecycleProofs.** For any number of gates, humans, crashes, expiries and
failures, and an API that may die:

- `DecisionsStay` needs only the ranges (`RangeInv`).
- `ProgressKept` and `CompletedRunsEnded`, with one slot (`OneSlot`): `FreshInv`
  says that what a job has read of the run is still so. It is inductive while no
  two jobs drive the run (`Exclusive`); with two it is false (section 4).
- `RestingStatus`, for one slot or for deliveries that do not expire
  (`NoneInParallel`): an unfinished status has its debtor, a queued message or a
  job that still has to write it (`DebtKnown`). Two facts carry this: every message
  can be used, because decisions stay (`MessagesUsable`), and a held message that
  would not come back is in the queue already (`ExpiredWait`). The debt may be
  forgiven by a lost message only, and one is lost exactly where the API dies before
  it has sent it or a job ends with nothing recorded.

`GatesArePassedAsAnswered` is about the contract: a gate behind the run was
passed with the answer on record for it. `TaskLifecycle` implements
`GateContract` for any number of gates and slots, any failures and an API that
may die, under `Reliable`: no worker crashes, no delivery expires, one human.
`BatonInv` says that there is at most one baton: the request that creates the
task, a queued message, a job that has not published yet, a pending row, a
decision not yet enqueued. `PlaceInv` says that it stands where the checkpoint
stands; so a resumed job answers the gate its message is about, and a published
row was not asked before. The same invariant makes drivers exclusive, and
`ToldCompletedMeansEnd` follows through `FreshInv`. `RecordsAreTrue` states what
this means for the two sentences of the documentation that section 4 refutes:
under `Reliable` every gate was passed with the decision recorded for that gate,
and the row still shows it. `Reliable` is not for convenience: with a crash the
contract is broken (lifecycle_crash), with two humans the recorded answer need
not be the applied one (Lifecycle_audit).

**MigrationsProofs.** `SchemaInv` and `StarterInv`: files are in place in order, a
row is written after its file, and every file behind the step a starter has
reached has its row. Rows are never deleted, so other starters cannot take this
away. `SomebodySurvives` needs `SurvivorInv`: some starter neither failed nor is
about to collide. A commit that makes others collide is by a starter that then
goes on, so it is the witness, and it can only be made to collide by another one
that goes on.

**WorkerTracingProofs.** An ended span of a live job is in the buffer, in the call
of `export` in progress, or was reported stored or lost (`FlushInv`); a flush ends
with the first two empty. What is reported stored has been inserted, because a
coroutine has inserted all of its batch that it no longer has to do (`StoredInv`).
With one provider the flushed one is the one that has the spans (`ProviderInv`).

**RunLegsProofs.** For any sets of branches and tools, any limits and any window:

- `RateLimitHolds`: `WindowInv` says of each tool that its admitted calls are in
  the order of time, that what the registry has pruned is out of the window
  (`Pruned`), and that `RateLimit` calls in a row span a window (`Spread`). Pruning is
  exact (`FreshIsExact`): what it keeps is what the whole history has in the window,
  so the call that is admitted finds the one `RateLimit` before it out of the window
  (`BelowLimitIsSpread`).
- `AuditGap`: `GapInv` is the property itself over cardinalities; a call, its end
  and its row change a tool's pending branches by one, and a crash drops at most all
  branches.
- `RowNeverOverstates`: `TotalsInv` adds that the recorder of the leg in progress has
  not recorded more than was recorded.

**EvalMatrixProofs.** `PositionInv` ties the place in the loops to the indices: what
has been graded lies behind the task at hand. `MoneyInv` accounts for what a repeat
of a config has paid: it was charged, was lost, or is the price of the response in
hand, and only a repeat within its cap asks for one; so the cap holds to one
response of the money that was really paid, not of the counter alone. `BillInv`,
with a database, says that a paid answer is in the cache, in hand, or was lost to a
crash or an error; a provider is asked only for what the cache does not have, so a
second payment needs a loss. `RowsInv` says that the tasks graded in the run at hand
have their rows, which a summary then counts.

**LongTermMemoryProofs.** `TableInv` gives every row ever inserted a count;
`ScopeInv` says that what a job has found and what a plan rests on is its user's
and at most `TOP_K`. An erasure is remembered with the runs that were over then:
their end was committed and no job drove them. They are over still (`OverInv`),
since nothing is delivered for an ended run and only a job of the run could take its
checkpoint back, and so they insert nothing more. A run that had failed, or whose
slower job still worked, is not over, and its lesson may follow the erasure.
`CountInv` compares three sets for each row: the runs whose plan rests on it and the
jobs about to commit one are covered by the count, and the count with the jobs of the
user that have yet to count by the jobs that began to plan for that user. It is
inductive because a plan that commits takes its job out of the second set.

**Replays** (in `OrchestraGraphProofs`). A subtask that is accepted in the seed,
whatever else the request edits, is never sent, so it is never written, counted
or judged. The invariant is smaller than that of `OrchestraGraph`, which a
replay does not satisfy: it starts with results at the supervisor.

Only model-checked: the liveness properties (`RunEnds`, `Ends`, `Settles`,
`ReplayReturns`, `ClientIsTold`, `EveryJobStops`, `MatrixCompletes`), since fairness
and `ENABLED` are beyond the prover. Type invariants other than `OrchestraGraph`'s
are stated for the reader and the proofs and are not runs of their own.

## 6. What is not modelled

- Prompts, contents, feedback texts, ranking, grading and reports: free choices.
- Read-only endpoints and listings.
- LLM providers beyond the repair loop, built-in tools and their sandbox, the MCP
  server, sanitizing, the web front end and scripts: pure I/O or text.
- `graph/escalation.py`: a YAML loader; approvals have no timeout.
- `graph/hitl.py`: the wording of a gate's question; `create_approval_request` in
  `api/routes.py`, which nothing calls.
- Edited plans and arguments: recorded under names the graph does not read.

## 7. Plan

Order of work, most important behaviour first; done parts are marked.

1. [x] `PlanRules`, `PlanValidation`, `OrchestraGraph`: runs and proofs.
2. [x] `TaskLifecycle` over `GatePositions`, refining `GateContract`; proof of the
   contract's guarantee.
3. [x] `RunLegs`, `EvalMatrix`, `LongTermMemory`: runs.
4. [x] `Migrations`: concurrent starts, a crash between a file and its row; proofs.
5. [x] `WorkerTracing`: the provider of a worker, its exporter and flush; proof.
6. [x] `EventStream`: a client beside `TaskLifecycle`.
7. [x] `GraphReplay`: `OrchestraGraph` started from another run's channels; proof.
8. [x] Proofs of `TaskLifecycle`: its safety properties for one slot, and the step
   simulation of `GateContract`.
9. [x] Proofs of `RunLegs`, `EvalMatrix` and `LongTermMemory`; the documented claims
   about approvals under `Reliable`.
10. [x] Failures before the first status and in the handlers, lost messages, edits of
    a replay, a matrix that stops, jobs delivered again beside an erasure.
