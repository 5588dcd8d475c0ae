# Metis agent harness: TLA+ models and proofs

Metis (`src/metis`, Python, asyncio) runs a language model in a loop: it sends the
conversation to a provider, executes the tool calls of the answer, asks a human before
dangerous ones, repeats until the model is done or a budget is spent, and records what
happened in SQLite. Around that loop there are background loops, provider routing, a swarm
hub for several agents, an MCP client and server, an evaluation tool chain, and web, terminal
and command-line shells.

This directory models the parts where the order of events matters, checks the models with TLC
and proves theorems about them with TLAPS. Each module of the first table is checked by a run of
its own, under fairness:

| module | code | run | proofs |
|---|---|---|---|
| `AgentLoop` | `runtime/loop.py`, `runtime/profiles.py`, `runtime/shutdown.py` | `MCAgentLoop` + `AgentLoop.cfg` | `AgentLoopProofs` |
| `ToolDispatch` | `tools/dispatcher.py`, `tools/guardrails.py`, `tools/coerce.py` | `MCToolDispatch` + `ToolDispatch.cfg` | `ToolDispatchProofs` |
| `Approvals` | `hitl/*.py`, `app/hitl_api.py`, `events/hooks.py` | `MCApprovals` + `Approvals.cfg` | `ApprovalsProofs` |
| `LoopManager` | `loops/loop_manager.py`, table `loops` of `state/sqlite_store.py` | `LoopManager` + `LoopManager.cfg` | `LoopManagerProofs` |
| `GroupChat`, `TaskSchedule` | `group_chat` of `swarm/hub.py`, `swarm/schemas.py`, `swarm/context.py` | `MCGroupChat` + `GroupChat.cfg` | `GroupChatProofs` |

The modules of the second table are the parts around the agent's turn. They are safety
specifications, and one run checks them side by side (`Services`, section 3):

| module | code | property | proof |
|---|---|---|---|
| `SwarmRegistry` | `swarm/registry.py`, `swarm/models.py` | `NothingLost`, `DestroyedOnlyFromTrash` | both, in `ServicesProofs` |
| `Routing` | `routing/*.py` | `UpProviderAnswers` | `ServicesProofs` |
| `McpClient` | `mcp/*.py` | `AnswersOwnCall` (violated) | its type, in `ServicesProofs` |
| `RateLimit` | rate limits of `app/web.py` | `ServedWithinLimit` | `ServicesProofs` |
| `ChatTurns` | chat endpoints of `app/web.py` | `StreamTellsAll` | `TurnsProofs` |
| `EvalRuns` | `evals/suite_run.py`, `real_model_suite.py`, `gate.py`, `compare.py`, `attestation.py` | `GatedRunIsOne`, `NoRegressionKeepsGate` | both, in `ServicesProofs` |
| `RepairPlan` | repair plans in `evals/compare.py`, `adapters/cli.py`, `attestation.py` | `AttemptsAccountForPlan` | `StorageProofs` |
| `JudgedRuns` | `evals/runner.py`, `evidence/`, `quality/`, `runtime/finalization.py`, `runtime/strict_output.py` | `FinalsAreBacked`, `SuccessIsEarned` | both, in `TurnsProofs` |
| `ContextFit` | `context/*.py` and the context fallbacks of `runtime/loop.py` | `ContextHolds` | `TurnsProofs` |
| `ProviderCalls` | `providers/openai_compat.py`, `response_cache.py`, the native parser | `AnswersAsSent` | `TurnsProofs` |
| `StoredRuns` | `state/sqlite_store.py` as runs and `metis resume` use it, `runtime/execution_controller.py` | `StoreTellsTrue` | `StorageProofs` |
| `FileTools` | the tools of `tools/builtin.py` that change files | `BackupHolds` | `StorageProofs` |

To check a run or a proof module, in this directory:

    tlc -workers 2 -config AgentLoop.cfg MCAgentLoop
    tlapm AgentLoopProofs.tla

`PROJECT.json` lists the runs, the lines of code every definition stands for, a mutation of
the code's model for each property, the hazards and the theorems.

## 1. The system's parts

**Agent loop** (`runtime/loop.py`). State of a run: the messages, the turn, the budget
counters (`total_tool_calls`, `_session_tool_counts`), the result cache, the failure times of
each tool, the retry budget (`repair_failure_counts` and the exhausted fingerprints and
shapes), the last answers' signatures. Operations: a turn asks the provider (with context
fallbacks, a timeout, and repair calls when the answer does not parse), truncates and limits
the calls, dispatches them alone or as a batch, or finalizes. Hard: coroutines of a batch
interleave at their hooks, five ways to settle a call, many early returns, shutdown at any
time. Correct when: budgets are never exceeded, every call gets its reply before the model is
asked again, a successful mutation is not repeated, retries, failure streaks and what is left
running are bounded, an interrupted run leaves its checkpoint and no call unanswered, every run ends.

**Tool dispatcher, guardrails, pool** (`tools/dispatcher.py`, `tools/guardrails.py`). State:
guardrail counters, the global `ThreadPoolExecutor`. Operation: `dispatch` refuses (unknown
tool, policy, guardrail, schema), coerces the arguments, asks the hooks, submits the handler and
waits, blocking the event loop. Hard: a timed-out handler cannot be cancelled and goes on in the
pool; a call is looked up before the coercion and counted after it. Correct when: nothing runs that
was not admitted, nothing twice for one admission, mutations are bounded by the limits plus the
timeouts that were reported, failures by the limits.

**Human approval** (`hitl/`, `app/hitl_api.py`). State: the `ApprovalStore` with one
`ApprovalRequest` object and one event per request, shared by the hook and the web API;
threads in `input()`. Operations: the pre-dispatch hook, prompt, wait, approve and deny. Hard:
prompt, API and timeout race for one object; a prompt's thread outlives its timeout; hooks that
raise are swallowed. Correct when: a call that needs approval runs only if it was approved, a
decided request keeps its status, which agrees with what ran, and the hook always answers.

**Background loops** (`loops/loop_manager.py`). State: the row in SQLite (status, iterations,
consecutive failures) and one asyncio task per loop. Operations: start, resume, pause, stop,
the task's ticks. Hard: commands between the suspension points of a task, a stop from within a
tick, restart of the process. Correct when: one task at most, ticks are accounted for, the
failure breaker holds, a stop is final.

**State store** (`state/sqlite_store.py`): sessions, messages, tool calls, goals, checkpoints,
loops, schedules. Written by the agent loop, the loop manager, the execution controller and the
web app, one transaction per call. Hard: a run can die between two writes; a tool-call id comes
from the provider and is a primary key; runs of one session overlap; `metis resume` continues
from whatever is there. Correct when: a reply in the store was recorded as a call, a resumed run
knows the work that was done, a plan step's status has a run behind it.

**Built-in tools** (`tools/builtin.py`). State: the files of the workspace, the handles of the
workers. Hard: a worker that the dispatcher gave up goes on, chats share a workspace, the process
ends between truncating and writing. Correct when: the text that `write_file` replaces is in the
file or in its backup at any time.

**Provider routing** (`routing/`): a health record per provider, checked by a background
monitor, by `health_check` and after failures; a strategy picks the first provider, failover
tries the others. Hard: concurrent checks that end out of order, health that is stale when used.
Correct when: a request is refused only if no provider was up all the time.

**Providers** (`providers/`): plain calls with retries and a response cache, streams whose
pieces are put together. Hard: pieces of several tool calls mixed, without an index or with a gap,
lines that are passed over, streams that are cut, a cache that runs share. Correct when: a run acts
on what the server sent for its messages.

**Context engine** (`context/`): before a call the conversation is fitted into a token budget by
trimming tool results, summarising, selecting and cutting. Hard: shares of the room, minimum
sizes and marks interact. Correct when: protected instructions stay whole, the order is kept,
the room is respected, and the newest message is there if there is room for any.

**Swarm** (`swarm/`): a registry file of agents and groups (create, trash, restore, delete,
expiry of the trash), group chats in parallel, in series or under a coordinator that runs
layers of dependent tasks with a shared context. Hard: a crash between moving a directory and
saving the registry, two processes with their own copies of it, agents inside the directories of
others; tasks of one agent that overwrite each other's result; entangled dependencies; agents
deleted while a chat runs. The registry is correct when every agent stays findable and only what
is in the trash is destroyed; a group chat
when a task is begun after its prerequisites and waits for nothing else, the synthesis sees every
outcome, the shared context holds results only, every request is answered.

**MCP** (`mcp/`): JSON-RPC client and server over streams. Hard: responses are not matched to
requests by id, and calls run in event loops other than the stream's. Correct when: a call
returns the answer to it.

**Web application** (`app/web.py`): sessions with expiry, sliding-window rate limits, chat turns
as plain requests, server-sent events and websockets, hot reload of the manifest. Hard: cleanup
beside requests; a turn, its queue and what forwards the queue are separate tasks; clients
leave. Correct when: no window has more requests than the limit, a stream tells everything in
order before it tells the end, permits come back.

**Evaluation** (`evals/`, commands in `adapters/cli.py`): an execution writes a contract, runs a
suite, writes reports, a manifest and an attestation into the directory of a run name; the gate
and the comparison judge such directories later. Hard: executions die or share a name, suites
change, the judge sees files only. Correct when: what passes the gate is one execution's work,
and a comparison without regression does not let through what the gate refuses.

**Judgement of a task** (`evals/runner.py`, `evidence/`, `quality/`, finalization and strict
output of `runtime/`): calls and evidence are stored under the session; a final answer cites and
claims; the evaluation counts, orders and matches. Hard: sessions have the same id in every
execution and the store outlives them. Correct when: an answer is believed for a reason on record
and a success was earned by the run itself.

**Repair plans** (`evals/compare.py`, `attestation.py`, the commands `diagnose`, `repair-plan`,
`repair-execute`): a regression becomes a plan of phases, executions try phases and write plans
with their attempts. Hard: plans are loaded twice with commands in between, written file by file,
by processes side by side. Correct when: the statuses of a plan are those its attempts lead to,
and no phase was done before its preconditions.

**Hooks** (`events/hooks.py`): synchronous and asynchronous handlers by priority; a handler
that raises is logged and the emission goes on.

**Others**: recovery labels, behaviour rules, planning, prompts, skills, plugins, security
helpers, telemetry, visualisation, packaging, adapters, the other commands. They are sequential,
and what they compute is mostly text.

How they interact: a shell builds the loop (`app/runtime.py`); the loop fits the context, calls
the provider (possibly the router), the dispatcher and the state store; the dispatcher emits
`TOOL_PRE_DISPATCH`, where the approval hook waits for the store that the API writes, and runs
handlers (file tools, MCP calls) in its pool; a loop manager's tick runs prompts through a
controller; the swarm hub runs one agent loop per task; the evaluation runs an agent loop per
task of a suite and reads what it stored.

## 2. Modules and the code

### AgentLoop

One run. `phase` says where `run()` stands (`turn`: head of the turn loop; `model`: awaiting
the provider; `repair`: awaiting the parser's repair call; `dispatch`: calls of the answer;
`finalize`; `done`; `raised`). `plan` is the answer's list of calls, `todo`, `inflight` and
`replied` partition its indices. A call is a value that stands for a tool name with arguments;
`ToolOf` and `ShapeOf` give the tool and the shape that the retry budget predicts.

* `ModelAnswers`, `ModelGarbles`, `RepairAnswers`, `ContextTooLong`, `ModelTimesOut`,
  `ModelFails` are what can come back from the provider; `AcceptAnswer` is truncation, loop
  detection, the per-turn limit and the branch.
* `TakesUp` is the order of calls: in a batch all reads first, without waiting for each other,
  then the writes one at a time; otherwise one at a time.
* `OverSession`, `AnswerLocally` and `HandToDispatcher` are the ways through
  `_dispatch_tool_call` up to the dispatcher, in the code's order: session limit, cache,
  rate limit, breaker, retry budget. `CallSucceeds` and `CallFails` are its return. A dispatch that
  fails with `TimeoutType` leaves its handler running in the pool, and `givenUp` counts these by
  call (history).
* `CooldownPasses` and `WindowSlides` are time: the failure times themselves are abstracted to
  the number inside the window and the length of the current streak. Both, and `RequestShutdown`,
  happen only where the code reads the time or the flag again (`TimeCounts`).
* `Finalize` chooses among the outcomes of strict output and finalization.
* `Settle` is the record and the message of a settled call. The state store may refuse the
  record (the call's id is the primary key of `tool_calls` and comes from the provider): the
  exception leaves `run()` through `gather`, which does not cancel the other reads of the batch.

Left out: message contents, traces, usage; failures of the state store other than on the record
of a call; what a read of a batch does after the run has raised. What the loop sends, how it
calls the provider, what it stores and which final answers it believes are modules of their
own: `ContextFit`, `ProviderCalls`, `StoredRuns`, `JudgedRuns`.

### ToolDispatch

Jobs are invocations of `dispatch()`. `Refuse` and `Admit` are the synchronous part,
`HookBlocks` and `Submit` the answer of the hooks, `ResultArrives` and `TimesOut` the wait. `Coerced`
says which call a call becomes by `coerce_arguments`; `Blocks` looks at the call as it came,
`AfterCall` counts the coerced one (`Performed`).
While a job waits the event loop is blocked (`LoopIsFree`). `WorkerTakes` and `HandlerEnds` are
the pool and the handlers. A handler's own `TimeoutError` is taken for the timeout of the wait,
as in the code since Python 3.11. `guarded` is the "small" profile, the only one with
guardrails; only profiles without them overlap reads.

### Approvals

A request is one call that reached the hook. `stage` is where the hook stands, `status` the
shared `ApprovalRequest.status`, `signalled` its event, `thread` and `line` the thread in
`input()` and what it read. `patience` distinguishes a positive timeout, zero, and the text that
`METIS_HITL_TIMEOUT_SECONDS` leaves in the configuration. `outcome` is the status the hook returned
with (history), which the object's status may leave behind when the hook gave up a pending request.

### LoopManager

One loop; loops share nothing. `status`, `iterations`, `failures` are the row; `tasks[k]` is the
suspension point of the k-th task; `cancel[k]` tells a cancellation from outside, which ends a
suspended task where it is, from one the tick itself causes, which lets it run on to the next
suspension. `Restart` loses the tasks and keeps the row. `streak` counts the failed ticks in a row
of all tasks (history), so that it cannot be lost with one.

### GroupChat and TaskSchedule

One request to `group_chat`. `phase` says where the handler stands (`decompose`: awaiting the
coordinator; `sorting`: the loop over the queue; `working`: awaiting a layer's `gather`;
`synthesis`; `done`; `rejected`: an HTTP error). A task is an index; `needs` and `agent` are the
`TaskDecomposition`. In the parallel and serial modes there is one task per member, in one layer
or in a layer each.

* `CoordinatorAnswers` is any decomposition that the validators of `schemas.py` accept, cyclic
  ones included, with tasks for agents nobody knows. The lists by which ready tasks enter the
  queue are abstracted to any order. `left` is the set behind `in_degree`.
* `TakeNext` is one turn of the loop over the queue, `Sorted` its end with the check for cycles.
  `topological_sort` runs the same loop for the order; here they are one.
* `StartTask`, `EndTask` and `NextLayer` are `run_one_task` and the loop over the layers. A failed
  task does not stop those that need it. `SharedContext.set` is part of `EndTask`.
* `LoseManifest` is `permanently_delete` by another request: an agent chosen earlier is gone
  when its task starts.

`TaskSchedule` is the abstract specification: a plan is fixed once, a task is begun when what it
needs has ended, and ends once. `KeepsSchedule` says that `GroupChat` implements it, with `needs`
and `state` as they are; asking, sorting, layers and synthesis are stuttering steps.

`schemas.py:15` says that a task whose `agent_id` is None is matched by capability. The hub looks
up the empty id and answers that task with an error; so does the model.

### SwarmRegistry

`onDisk` is `registry.json`, `memory[p]` a process's copy, `dirAt` the file system. An operation
(`CreateAgent`, `Scan`, `TrashAgent`, `RestoreAgent`, `DeletePermanently`) moves directories and
changes the copy in one step, since nothing is awaited; `SaveRegistry` writes the copy, and
`HubDies` can come before it or leave half a file, which the next `StartHub` reads as empty.
`Hubs` has two processes, each with a copy of its own. `StartHub` cleans the trash entry by entry.
An agent can be created inside another one's directory, where the recursive scan finds it too: a
place of the file system is a top or is inside one (`Inner`; one level, several names). `Move` takes
along what is inside, and puts the directory into the target when the target exists, as
`shutil.move` does; `Remove` takes along what is inside, or part of it, as `rmtree` does. The entry of
an inner agent keeps its path meanwhile, so the agent is no longer where its entry says.
`known`, `carried` (directories moved with another one) and `undisturbed` are histories.
`NothingLost` is a promise only without deaths and without a second process: an agent is where an
entry says, or, if it was carried, inside the directory of an entry. `DestroyedOnlyFromTrash` is one
in any case.

### Routing

`setup` is how the router was built; `health` the monitor's table; `phase`, `asked`, `untried`
belong to a call of `complete`. `RequestComes` reads the table once and orders the providers
(`Selected`, `FallbackOrder`: both strategies); `Answers`, `AttemptFails`, `FailoverCheckEnds`,
`Cancelled` are what follows an await. `SweepBegins`, `SweepChecks`, `SweepStops` are `check_all`
and the monitor. `Swing` turns a provider on or off at any time, and an attempt or a check under
way may see either. `steady` is a history: the providers up since the request came.

### McpClient

`link` is the client, `server` the process at the other end, `inbox` and `replies` the pipes,
`buffer` what the event loop of the connection has read. `Connect`, `Handshake`, `ListTools` and
`ToolsListed` run in that loop; `CallTool` is a tool's handler with `asyncio.run` in a worker thread,
where waiting on the stream raises unless an answer is already in the buffer. `NextId` numbers the
requests, `Taken` takes the next response whatever its id.

### RateLimit

Two tables (`_RATE_LIMIT_STORE`, `_RATE_LIMIT_SESSION_STORE`) from keys to request times. `Check`
prunes all keys, drops the oldest entries beyond `MAX_RATE_LIMIT_ENTRIES` and counts or refuses;
`Cleanup` is the background task. A request is a number, `at` its time. `evicted` is a history:
a key whose times were dropped because the table was full starts anew, by design.

### ChatTurns

A turn is a task (`stage`), `queue` holds its events, `inHand` is the event the websocket's pump
is sending, `sent` what the client got. `Asked` and `SocketAsks` begin a turn, `Begins` takes a
permit of the semaphore. `TurnEnds` gives it back; `Responds`, `StreamEnds`, `SocketEnds` are the ends of
the three endpoints, `TimesOut` the middleware, which only catches plain requests, `Leaves` a
client that goes. That permits come back is part of the type invariant (`permits` within
`0..MaxConcurrent`).

### EvalRuns

`progress[e]` is how far an execution is: contract, suite, report, specs, failures, manifest,
attestation, pointer, verdicts, in the order in which the code writes them. `file[d][f]` is who
wrote a file last, `Torn` a file whose writer died over it; the content of a file is what its
writer found (`outcome`, `agreed`, `executed`). `attested[d]` is the attestation, digests as
writers; `SameText` says when two writers leave the same bytes. The suite file has versions
(`SuiteEdited`); the suite of `eval-real-small-model` is one of its own (`BuiltinSuite`, with
actions of its own for what that command's module does itself).

* `GatePasses` is `evaluate_eval_run_gate` on a directory: loadable, within the thresholds,
  contract and manifest agree, the attestation verifies. `Unregressed` is the strict profile of
  the comparison. Rates and counts are cardinalities of sets of tasks, faults and clusters.
* `FoundArtifacts` is the loading of failure artifacts as it is: with a relative output root none
  is found (section 6).

### RepairPlan

`page[d]` holds a directory's three files, `job[x]` a process: stage, directories, the plan it
loaded, the verdict of its commands. `PlanRepairs` is `eval repair-plan`; `StartPreflight`,
`EndPreflight`, `RunCommands`, `RecordAttempt` are `eval repair-execute`, which loads the plan
again before it records; `WritePlan` writes one file after the other and then the attestation.
Phases, priorities, the statuses of phases and what blocks them are operators on the tasks'
statuses (`Members`, `PhaseStatus`, `BlockedBy`, `Executable`).
`disturbed` is a history: someone rewrote the plan during an execution.

### JudgedRuns

`rows[t]` are a session's stored calls as `list_tool_calls` returns them, `ledger` the evidence of
a session, `judged[r]` a run of a task. `Dispatched`, `RecordEvidence` and `RepliedAtOnce` are the
loop's two transactions for a call and the replies without a dispatch; `FinalAnswer` is strict
output and `FinalizationGuard` with the matcher of claims and the resolver of references; `Judged`
is `run_task` with the trajectory, the recoveries, the quality gates. Texts are kinds and sources:
what a text claims is a choice. `alone` is a history: no other run called tools in the session.
`RunDies` leaves the store as it is.

### ContextFit

A message is its kind and its lengths; `talk` is the run's list, `context` what was sent, `limit`
the characters it was fitted into. `Trimmed`, `Summary`, `Dropped`, `ForceFit` and `Compressed` are
the phases of `compress`, `Rank` the scoring, `Turn` the order in which messages get the room and
`Left` what is left of it after so many turns, `Room` and `Build` the engine, `Recompress` and
`ForceTruncate` the loop's reactions when the provider refuses. A summary's text is its length, a
constant set. `attempt` is how far the turn's calls have got. With `keep_recent` 0, which only
tests use, no
recent message survives the compression; `ContextHolds` says so.

### ProviderCalls

A reply is a sequence of pieces, each of the text or of one call, a call's name first; in a stream
each comes in a line with an index or without. What was put together is the set of the pieces'
places. `Complete`, `PostAnswered`, `PostFails`, `PostAgain` are a plain call with cache and retries;
`OpenStream`, `Delta`, `SkipLine`, `StreamOver` a streamed one, whose end may come before the reply's
(`cut`). `TakeDelta` puts a piece where its index says, or into the first call (`Place`), after empty
calls have filled a gap (`Padded`). `SkipLine` is a line without "data: " or one that is no JSON: what
it says is lost. `StreamOver` parses every call: arguments in full are JSON, a mere beginning is not,
and what a gap or a mixture left may be either. `Put` and `Found` are the LRU cache with its expiry.
`AnswersAsSent` says of every answer that all that came is in it, each piece in one call; that calls
are whole and nothing is missing it says where the lines tell the calls apart (`Indexed`) and none
was passed over, since the code cannot give more.

### StoredRuns

Runs, plan steps and resumed runs over one database. `story[z]` are the messages of a session,
`toolCalls` and `marks` the tables of calls and checkpoints. Each action is one transaction:
`BeginRun`, `StoreInitial`, `TakeCalls`, `RecordCall`, `StoreReply`, `AnswerShort` (cached, limited or
broken circuit: recorded, but neither its message nor evidence is stored), `ShutDown`, `Finalize`,
`RunOut`, `RefuseAnswer`; `Dies` comes between any two, and is also what a refused id or a locked
database amounts to. `ReadStory` and `AddInstruction` are `metis resume`. `RunStep` and
`CloseStep` are the execution controller's.

### FileTools

`disk` maps a path to the set of pieces it holds; a worker's `todo` is its next step. `WriteFile`,
`ReadOld`, `OpenBackup`, `BackUp`, `Open`, `Fill` are `write_file`; `EditFile` shares the last two, and
`AppendFile`, `Add`, `RenameFile`, `DeleteFile`, `CopyFile` are the others. Opening truncates; bytes
that are not UTF-8 are lost in the backup, as in the code. A process that ends is one that takes
no further step, so there is no action for it. `quiet` is a history: no other call touched the
file or its backup since this one began.

### Services

`Services` EXTENDS the twelve modules; their names do not clash. They share no variable and no
step of one reads another, so their interleavings show nothing. `component` chooses one at the
start, that one steps by its own `Next`, the others stay where they begin. Each component's
behaviours are thereby exactly those of its own specification, and TLC's count is the sum of
theirs. The theorems are about the components' own specifications.

## 3. Runs

Properties expected to hold:

* `agent_loop` (2.7 million states): three calls of two tools (one read, two mutating
  calls with one shape), three failure types (one with a shape, that of timeouts, a fatal one), five
  profiles: *small* (one call per turn, soft strict output, parser repair), the same with turns enough
  for the limit of a tool, *balanced* (several calls,
  strict output), *balanced* with a per-turn limit below the answers, *deep* (batches).
  `CallsAnswered`, `SessionBudget`, `AtMostOnceWrite`, `RetriesBounded`, `BreakerStopsStreaks`,
  `LeftRunning`, `RunEnds`.
* `tool_dispatch` (0.8 million states): four jobs over two workers, so that two abandoned handlers
  leave a third job in the queue; of the calls some are coerced to others. `MutationsBounded`,
  `FailuresBounded`, `RunsOnlyAdmitted`, `DispatchReturns`.
* `approvals` (0.4 million states): two destructive calls, so that one prompt queues behind
  another, a read listed for denial, a destructive call listed for approval, all configurations.
  `RunsApproved`, `RecordMatchesRun`, `AnswerStands`, `HookReturns`.
* `loop_manager` (17 thousand states): three iterations, two failures, three tasks. `OneRunner`,
  `RunsAccounted`, `FailuresBreak`, `RunningIsDriven`, `StopHolds`, `TasksEnd`.
* `group_chat` (0.2 million states): every acyclic dependency map of four tasks up to renaming,
  some with a cycle, two agents and an unknown one, relays of up to three. `SynthesisIsComplete`,
  `SharedHoldsResults`, `ChatEnds`, `KeepsSchedule`.
* `services` (1.9 million states, depth 27, two to three minutes): the properties of the second
  table. `ServicesTypeOK` is the conjunction of the twelve type invariants. Deadlock is not checked:
  a component whose bounds are used up stops.

The type invariants of the first five modules, and `AbandonedWereReported`, `PrerequisitesFirst`
and `NoNeedlessWait`, are proved for every instance and are not checked again by a run.

Expected violations, each a disagreement between the code and what the repository says of it:

* `final_checkpoint`: a run returns without the finalization checkpoint (loop detected, session
  limit, strict answer not final, `max_turns`).
* `loop_resume`: `resume()` within the interval in which the paused task has not yet noticed the
  pause returns early and is lost.
* `writes_sequential`: a write that timed out still runs while the next write runs.
* `approval_pending`: without a terminal the hook does not wait: `store.update` sets the event it
  is about to wait for. The API keeps listing a request whose call was already given up.
* `approval_always`: with the timeout given by the environment the hook raises, the bus swallows
  it, and a call that requires approval runs without one.
* `mcp_answers`: a tool call over MCP raises because its loop cannot wait on the stream, its
  response stays there, and the next call returns it.

The docstring of `default_approval_rules` also says that workspace writes require approval by
default; no rule says so, and the tests agree with the code, so it has no run.

### Bounds

`MaxPlan` bounds an answer's calls; turns, sessions, retries and failures are bounded by the
profiles themselves, scaled down so that every limit is reached in a run (session limit within
and at the end of a batch, per-tool limit, breaker, exhausted retries, loop of equal answers).
`MaxJobs` bounds dispatches, `MaxStarts` the tasks of a loop, `MaxTasks` the tasks of a chat: four
are enough for a diamond, for two paths of different length to one task, and for a cycle behind
a task that can be taken. Each interesting case needs two
actors of a kind (two writes, two prompts, two tasks); the instances have two or three. The
proofs hold for every value of the constants, so for safety the bounds only limit TLC.

In `services` (`Services.cfg`, `MCServices`) nothing is declared symmetric, and the bounds are:

* registry: two processes, two agents, two directories, one place of the user's and one name inside
  it, `MaxCalls` of three operations (create one inside the other, trash the outer; then delete or
  restore, or the next start cleans the trash), a clock of one tick with a
  lifetime of zero in the trash, one copy of a name;
* routing: three providers whose orders by priority, score and position differ, one request and
  one sweep, `MaxSwings` of two changes, a threshold of two failures;
* MCP: `MaxIds` of five requests: the handshake, the listing and three calls;
* rate limits: two keys in one table that holds one entry, a limit of two in a window of two,
  `MaxHits` of five requests over `MaxTime` of three;
* chat: two turns for one permit, `MaxEvents` of two events, `MaxPings` of one;
* evaluation: two executions over two run names, three suites, a critical cluster and one that is
  not, thresholds at which one fault, one critical cluster or a second failed task is too much;
* repair plans: two tasks (a precondition, and one behind it), two directories, two processes,
  `MaxAttempts` of two;
* judged runs: two tasks with opposite demands, two runs, three calls, `MaxRows` of two in the store;
* context: five openings (instructions with room or without, a large question, a resumed session)
  and exchanges with a small or a large result that is an error or not, `MaxTalk` of eight
  messages, so that the recent part, the selection and the cut all happen;
* provider: two callers, replies whose pieces come mixed, in the wrong order, without an index or
  with a gap, one line passed over (`MaxSkipped`), one retry, a cache of one entry that
  expires after one of two moments (`MaxMoment`);
* stored runs: two runs as run and resume of a session, as two sessions at once, or as one plan
  step twice; two turns for the first, answers of one call, an id and the missing id;
* files: two workers on a file and on the path of its backup, which is also a file.

These bounds are tight, since twelve components share five minutes. They were chosen from the
mutants: each property's mutant is found within them. For the safety properties, which are all
proved, they
do not matter.

### Fairness

* `AgentLoop`: weak fairness of the loop's own step (`LoopStep`, which includes the answers): the
  event loop runs a ready coroutine, a provider call ends at `per_turn_timeout` (the repair
  calls, which are not under it, by the HTTP client's timeout), a tool by the dispatcher's
  timeout. Shutdown requests and time owe nothing.
* `ToolDispatch`: weak fairness of each `Dispatching(d)`: hooks return and the timer of
  `future.result` expires. Handlers and workers owe nothing: `DispatchReturns` holds although a
  handler never ends and its job never gets a worker.
* `Approvals`: weak fairness of the hook of each request (timers expire) and of showing a prompt.
  People owe nothing.
* `LoopManager`: weak fairness of each task: a tick ends because a run ends, a sleep ends.
* `GroupChat`: weak fairness of the handler's own steps, `ChatStep`: the event loop resumes it, and
  an agent's run ends (`AgentLoop!RunEnds`). Deletions owe nothing. A request is only owed an
  answer once it was made (`phase # "idle"`).
* `Services` states none: its components are checked for safety. Processes may die there, clients
  and providers go away, and a chat turn waits for a permit as long as a run takes.

## 4. Proofs

For all values of the constants (with the assumptions named in the modules: the constants are
naturals, a limit that divides cases is not zero, sets are related as their comments say):

* `AgentLoopProofs`. `SessionBudget`, `AtMostOnceWrite`, `RetriesBounded`, `BreakerStopsStreaks`,
  `CallsAnswered` and `LeftRunning` speak of histories and of phases, not of the code's counters;
  each is strengthened by a part that links them: dispatched calls stay below the counters
  (`CountInv`); what succeeded is in the cache, and a mutating call in flight is not, and is alone
  in flight (`FlightInv`, `CacheInv`); failures of a call stay below the tool's counter, with one to
  spare as long as the call is not exhausted (`RetryInv`); a streak stays below the failures in the
  window (`BreakerInv`); timeouts of a call are failures that its tool's budget counts
  (`GivenUpInv`, for `LittleLeftRunning`); every index of the plan is to do, in flight or replied,
  or the batch went over the session limit and will end the run (`ReplyInv`). Steps are grouped
  first (`StepCases`): those that touch none of this, answers, time, and the steps of one call.
* `LoopManagerProofs`. `RunnerInv`: only the latest task can be alive. `TickInv`: a tick under way
  has an iteration left and is the difference between ticks begun and counted. `StreakInv`:
  the row's failure counter is the streak, and a task that has not ended still owes the tick that its
  start bought. `RowInv`: what the row's status says of the task.
  `StopHolds`, an action property, follows from these and one step.
* `ToolDispatchProofs`. `PoolInv` places every job: its stage, result, queue entry and outcome go
  together. `GuardInv`: a guarded dispatcher has one job outstanding, which is below its limits.
  `CountInv` equates the counters with cardinalities of sets of jobs, from which
  `MutationsBounded` follows: executions begun are those settled, those abandoned and at most one
  outstanding. A call that coercion leaves alone is counted as what it is looked up as, and calls of
  one tool stay calls of it, which gives `FailuresBounded` (`FailuresStop`). `AbandonedReported`: a
  handler that was given up was reported as timed out.
* `ApprovalsProofs`. One condition per request (`Good`): what its stage says of its status, its
  event, its thread, the recorded answer and the outcome the hook returned with. Requests meet only
  at the terminal.
* `GroupChatProofs`. That the layers are right is a proof about the loop over the queue.
  `QueueInv`: `left` is what the taken tasks leave of the prerequisites, and a task is in the queue,
  once, as soon as nothing is left. `LayerInv`: layers grow along the queue, by at most one beyond
  the task that is taken next; so the prerequisite taken last has the highest layer, and a ready
  task's layer is above all of its prerequisites. At the end of the loop this gives `Layered`,
  `WorkInv` carries it through the execution, and each step of the execution maps to a step of
  `TaskSchedule` (`ChatKeepsSchedule`) or leaves `needs` and `state` alone. `DependenciesRespected`
  and `LayersTight`: a task is begun after what it needs, and not later than in the first layer
  that allows it.
* `StorageProofs`. Stored runs: what the database says is true because rows are only added, because
  a reply is stored after the record of its call (`OpenInv`, `RecordInv`) and because a run's last
  checkpoint comes when nothing is open (`EndInv`); a resumed run that saw the checkpoint therefore
  saw the replies (`PriorInv`), and a plan step is closed by the run that it had (`ResultInv`).
  `StepShapes` reduces the actions to what they add. File tools: a call that nobody disturbed has its
  file and its backup to itself, so that what it read is still what it will copy (`WriteInv`); a step
  of another worker that touches one of the two ends the quiet, any other leaves both alone
  (`Frame`). Repair plans: a plan on disk, and one in the hands of a process that writes it, has the
  statuses its log leads to and reasons for each attempt in it (`Accounted`); what a preflight found
  is still so when the process records its attempt (`StillReady`), or somebody rewrote the plan
  and the process is `disturbed` (`RepairKept`). That a status is the one of the last attempt which
  touched its task comes from what one more attempt does to `StatusesAfter`.
* `TurnsProofs`. Chat turns: the events sent, the one in hand and those in the queue are together the
  events emitted (`Owed`), and an end is sent when none is left (`Told`). Judged runs: evidence and
  results stay where the judgement looks for them (`LedgerShown`, `FinalBacked`), and a run alone in
  its session passes with results of its own (`Earned`). Provider calls: at any moment the text and
  the calls of a stream hold exactly the pieces that came, each in one place, and where the lines
  tell the calls apart a place has the pieces of one call only (`Gathered`); arguments that parse
  are then those of the call they are in, since the pieces of two calls are disjoint, even when
  only some of them came (`StreamAsSent`). Contexts: the items that a
  filter leaves are numbered by their places (`Picked`), in order, and characters are sums over
  places (`CharsSplit`, `CharsConcat`). What goes first is a turn of the loop over the
  evictable items, in the order of the code, each giving its room if there is still need
  (`GivenChars`). Each step of the compressor makes of a conversation that has its layers, its order and
  its newest message (`Source`) one that has them too, and the last cut makes it short enough
  (`FitToSend`); `ContextInvariant` carries this through the fallbacks of a run.
* `ServicesProofs`. Routing: a provider that has been up since the request came is still untried or
  is being asked and was never seen down (`StillReachable`), so a request that has nobody left to
  try has no such provider, whatever the table says. Registry: a trashed entry names a place in the
  trash, in the file and in every copy (`SoundTable`), and a place loses a directory only by being
  moved or by its removal from there (`KeptOrTrash`). As long as no process died and none ran beside
  another, each directory known has an entry that names its place, or the place it was carried into
  (`LossInv`, `Claimed`), in the copy of the
  one process that works and, between operations, in the file (`Orderly`). Rate limits: requests
  are numbered in the order
  of time (`Numbered`), and no recent request that was served is forgotten unless the key was evicted
  (`Remembered`), so those served in a window are among those counted when the last of them was.
  Evaluation: in a directory that two executions never shared, one is at work (`OneAtWork`), what it
  wrote is in place (`WorkInPlace`), the contract it found is its own (`OwnEvidence`) and the
  attestation names one execution (`OwnFiles`); a verified directory is then the manifest's. For the
  comparison each threshold counts a set that can only shrink, or grow in the case of what passed,
  when no regression is found, over the same tasks because the provenance is the same. Together: every
  behaviour of `Services` is one of each component (`ServicesAreTheirParts`), so the
  theorems about the components hold for what the run checks, and all variables keep their types
  (`ServicesTyped`). For the MCP client that needs to know that every message the server answers
  carries the id of a request (`McpInv`).

Sums, counts and orders along sequences are needed in several of these proofs, for sequences of
any length. Induction over an operator cannot be had from the library, since its theorems take
operators as parameters. `TurnsProofs` and `StorageProofs` therefore derive it for sets: inclusion
among finite sets is well founded, so a nonempty set of naturals has a least element (`LeastNat`,
`LastNat`), so a set with 0 and with each successor up to n has n (`Induction`). A function that is
chosen to satisfy its recursion equation on 0..n exists and is unique (`Iterates`, `Iterating`); the
matching of `_contains_order` (`MatchedSoFar`) is counted this way (`Counting`) and the
characters of a conversation are summed this way (`Summing`).

Assumptions that are more than types: in `JudgedRuns` the tasks of a suite are finitely many; in
`ToolDispatch` coercion keeps a call's tool and leaves what it has made alone. (In `ProviderCalls` the
calls of a reply are named 1, 2 and so on by the model; what indices the server gives them is free.)

Every safety property of a passing run is proved. Only model-checked are the liveness
properties (`RunEnds`, `DispatchReturns`, `HookReturns`, `TasksEnd`, `ChatEnds`), since TLAPS does
not reason about fairness and `ENABLED`.

## 5. Plan

Done: agent loop, dispatcher, approvals, background loops and group chats; the registry, routing,
MCP, web limits and chats, evaluation with its judgement and repairs, the context, the provider,
the store with resume, the file tools. Left, in this order:

1. An abstract `Gate` (a call is admitted, approved, executed at most once, answered once) that
   `ToolDispatch` with `Approvals` as its hook implements.
2. Liveness of `ChatTurns` (a turn that waits gets its permit, if runs end) and of `Routing`.
3. Pure algorithms as operators against a reference definition: tool policy, approval rules,
   suite validation, and argument coercion, of which the dispatcher's model has the outcome only.

## 6. Not modelled, and what the models leave out

Recovery labels, behaviour rules, prompts, skills, plugins, security helpers, telemetry,
visualisation, adapters, `develop/workflow.py`, packaging and the browser code are text
processing or start-up without state shared between actors. The loop scheduler is not connected to
anything. `swarm/orchestrator.py` runs fixed stages one after the other and keeps no state between
them. The signal handler of `shutdown.py` leaves the process at once. In `evals/`, suite
validation, the stubs of suites and Markdown are generation and validation of data. Parts of
modelled files that are not modelled are named in `PROJECT.json` under `components`.

What the models abstract, and what was seen in the code on the way (for who changes it):

**Agent loop and dispatcher.** A cached read can be answered from before a write of the session
(`loop.py:1337`). Repair calls are not under `per_turn_timeout` (`loop.py:1156`); `RunEnds` relies on
the HTTP client there. `future.result` blocks the event loop
(`dispatcher.py:169`), so while a tool runs no other timer fires. `LeftRunning` bounds the
abandoned handlers of one call in one run; over all runs of a process nothing bounds them. The task
list says that a failing call repeated beyond the threshold is blocked. A call is looked up as it
came (`dispatcher.py:101`) and counted as it was coerced (`118-120`, `228`, `264`): one that needs
coercion, "30" for 30, never finds its own failures, nor its repetitions, and goes on until the limit
of its tool. `FailuresBounded` and `MutationsBounded` therefore bound by itself only a call that
coercion leaves alone.
`result_store.py:46` names a file
after the call's id alone, for all sessions.

**Context.** The recent slice (`compressor.py:90`) and the cut can leave tool replies without the
message that called them. The token budget is converted with an average density, so it is not
guaranteed in tokens; the model's bound is in characters, with three for the mark of a cut. A result
just above the limit grows by the note about its trimming. The final selection keeps one message besides
the summary, so the force-fit works on little else. All prompt layers are one system message. The
first build with `aggressive_result` is thrown away.

**Provider.** The reasoning of a stream is appended twice (`loop.py:663`); the content of the last
chunk is emitted again, so that a web client shows it twice (`web.py:797`); the finish reason of
streams is lost; a stream closed without `[DONE]` is taken as complete, and so is one of which lines
were passed over (`openai_compat.py:216-226`). The key of the response cache has
neither model nor temperature. Errors of parsing JSON leave `run()`.

**Swarm registry.** Trashing an agent moves the agents inside its directory with it (`registry.py:229`)
while their entries stay active, and deleting it (`285`) or the expiry of the trash deletes them,
although they were never trashed themselves; `DestroyedOnlyFromTrash` asks for the place, not for the
entry. In the model agents lie inside each other one level deep. A directory that is moved into one
that exists, and fails there over an equal name, is a move that fails. Members of groups and the
texts of manifests are left out.

**Routing.** `CHANGELOG.md:30` speaks of automatic recovery: nothing calls
`ProviderHealthMonitor.start()`, and `recovery_threshold` is not read. The model has the sweeps
nevertheless,
since the class offers them.

**MCP.** The parsing of frames is left out, and so are several servers side by side, which share
nothing. Clients made for chat turns are not closed.

**Web.** Chats of one session interleave. The session in memory hides the stored one
(`web.py:582`, `600`), and deleting it does not delete the stored one (`web.py:625`). Events still
in the queue when a
websocket's turn ends are dropped (`web.py:846`); `StreamTellsAll` asks only for no gap there. The
message with a result's errors (`web.py:857`) is one with "done". Hot reload
uses names that are local to another function (`web.py:180`, `192`).

**Store and resume.** `needs_more_work` is merged into "blocked", `max_turns`, "interrupted" and
"failed" into one; checkpoints of a session are a set; concurrent reads of a batch settle in any
order; the last message and its checkpoint are one step. `metis resume` passes the rows of
`list_messages` on as they are (`cli.py:729-770`), without the ids of calls, and builds no ledger;
no checkpoint is read to resume. A run that dies between recording a call and storing its reply
(`loop.py:1457-1485`) leaves work that a resumed run does not know of; the model has such deaths, and
`StoreTellsTrue` makes its promise only for runs that left their last checkpoint. Goals, schedules,
the lists of the web application and
`delete_session` are not modelled.

**File tools.** A copy reads its source at once; the translation of line ends (`builtin.py:109`) is
left out. `run_shell`, `run_command`, `run_test` and the making
of directories are left out. `edit_file` keeps no backup. `workspace_tools.py` has near copies of rename,
delete, copy and append.

**Evidence.** `Resolves` does not ask whether a command was cited as a command and a path as a path, so
it admits more references than the code. A reference is resolved through the first successful call
with its path or command;
results that were put away cannot be resolved; any successful `run_*` whose text says
"passed" is a test. Errors of the behaviour gates do not change a status (`loop.py:1298-1307`). Nothing
constructs an `ArtifactStore`, so gates on artifacts fail; evidence is always of medium strength,
so "strong" cannot be had. A criterion on evidence does not ask whether what it shows succeeded
(`gates.py:272`). In `JudgedRuns` schema failures are errors that can be recovered, the `max_*`
counters and expected artifacts are left out, soft and strict output are one, and a requirement
on texts fails freely.

**Evaluation.** The thresholds on schema repair hints (`gate.py:274-283`) and their part in the
comparison are left out. With a relative `--output-root`, which is the default,
`failures.py:137-139` looks for
artifacts below the run directory that `runner.py:407-419` named from the working directory: no
cluster is ever found, against `docs/evals/9b-eval-report.md:704`. The model has both cases
(`RootIsAbsolute`); the checked instance has the absolute one, in which clusters exist. Two executions
under one run name at the same time can pass the gate mixed (`overlapped` excludes it). A second
execution under the same name spoils the verification of the first one's verdicts;
`--compare-latest` with the same name compares a run with itself. A gate threshold given as a
flag that equals the default gives way to the profile's (`gate.py:107` and after).

**Repair plans.** A safe command is one that is not on a list of what may not run
(`cli.py:1215-1240`); which ones are is the constant `Commanded`. An attempt at a phase that was
not ready is forced to "blocked" and written over the
statuses of all tasks of the phase, and a "blocked" phase is not executable again
(`compare.py:3148-3168`). The plan is loaded again after the commands (`disturbed`), and of two
executions one is lost. `eval repair-plan` into a directory with a plan drops its statuses and
attempts. The preflight's own attestation is checked by digests only.
