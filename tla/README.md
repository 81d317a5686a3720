# A formal model of AutoAPPZ

AutoAPPZ is a desktop application (Electron, TypeScript) in which an AI agent
plans, edits, validates and commits changes to a user's project. Almost all of
its logic is asynchronous code on one thread: the bugs that matter are in what
happens *between* two awaits, when the user cancels, a process exits, a timer
fires or a second request arrives. This directory models that logic in TLA+,
checks it with TLC and proves its central invariants with TLAPS.

Paths below are relative to the repository (`packages/...`, `apps/...`);
`PROJECT.json` maps every definition to its lines.

## 1. The system and its parts

| Component | State it keeps | Operations | What is hard about it | What makes it correct |
|---|---|---|---|---|
| Task state machine (`packages/agent`) | none (pure) | `transition`, `profileFor`, `autoApproves` | events in states that do not expect them | unknown pairs leave the state alone; terminal states ignore everything |
| Task service (`packages/core/src/task-service.ts`) | task rows; `live` runs; one promise chain per session; approvals waiting | `submit`, `cancel`, `approve`/`revise`/`reject`, `resume`, `recoverInterrupted`, and the run itself: plan, approval, checkpoint, builder loop, validate/diagnose/repair, review, commit | every await can be overtaken by a cancel or a process exit; jobs of a session wait for one another; a resumed run starts in the middle | nothing is edited before the gate; completion means the last edits were checked; cancel wins; no task is forgotten; budgets hold |
| Task event hub (`task-event-hub.ts`) | per task: past chunks, subscribers, closed flag | `publish`, `subscribe`, expiry | a topic that is never closed leaves the window waiting | the topic of a resting task is closed or gone |
| Tool runtime (`packages/tools/src/runtime.ts`) | tool registry; a promise chain of writes per project | `execute` | consent, queueing, abort and timeout race one another; a timed-out call goes on in the background | nothing runs without a decision; writes in turn; every call answers; one audit row per decision |
| Permission engine (`packages/permissions/src/engine.ts`) | session policies, parked requests; project policies in the database | `check`, `respond`, `revoke`, timeout, abort | decisions taken now are used later; one answer settles one request | a call runs only under a consent, a live policy or a default that allows it |
| Runtime supervisor (`packages/runtime`) | per project and phase: state, child, port leases, proxy, timers, restart times | `start`, `stop`, `restart`, exit, readiness, health, backoff, fail | `start` and `launch` await with nothing locked; stop, exit and timers interleave | one supervised child per phase; a stopped phase has no child; restarts are bounded; ports are not shared |
| Command bus (`packages/command-bus`) | open requests and streams per window; event sequence numbers | `execute`, `cancel`, `runStream`, `publish`, `dispatch` | cancel and timeout race the answer; streams and events may be replayed | one answer per request; chunks in order; nothing after the end |
| Query cache (`apps/desktop/src/renderer/state`) | records with data, status, scopes | fetch, invalidate, subscribe | an invalidation while a fetch is under way | what is shown is not older than the last invalidation |
| Checkpoints (`packages/git`, `git-wiring.ts`, `change-tracker.ts`) | refs and commits; checkpoint rows; pre-images of changed files | `createCheckpoint`, `commitTask`, `restorePaths`, undo | the user's own edits and commits between two steps | undo never destroys what the task did not write |
| Validation (`packages/validation`) | none | run validators, report | skipped and failing validators | a report is ok only if what ran passed |
| Deployment (`deployment-wiring.ts`) | targets, deployments, a running set | deploy, cancel, setEnv | a readiness check awaited before the running mark | one deployment per project |
| Database gateway (`packages/integrations/src/database`) | connections | query, execute, classify | classification decides what needs consent | nothing classified as a write runs as a read |
| MCP servers (`mcp-wiring.ts`) | live clients, registered tools | connect, disconnect, delete | connecting is asynchronous | no tools of a server that is not connected |
| Plugins (`packages/plugins`) | manifests, grants, active set | scan, grant, activate, disable | activation is asynchronous | a disabled plugin is not active |
| Secrets (`packages/secrets`) | encrypted file, reference rows | put, delete, resolve | two stores written one after the other | a reference points to a value |
| Context engine (`packages/context`) | index of the project | index, retrieve | incremental updates | the index equals a full rebuild |
| AI providers (`packages/ai-providers`) | registry, model catalogue, keys | resolve, stream | model choice | a model the user enabled |
| Storage, contracts, diagnostics, projects, UI | rows, schemas, logs, files | CRUD | little | - |

How they interact: the window sends commands over the bus; `task.*` commands
call the task service, which chains one run per session, asks a provider for
each turn and hands the turn's tool calls to the tool runtime. The tool runtime
asks the permission engine (which may park the call until the user answers in
the window), then runs the tool. Validation and version control are called by
the run; the supervisor, deployment, MCP and plugin services are called by
commands of their own. The services share the database (synchronous rows) and
the files of the project.

## 2. Plan

### Modules, in order of importance

1. **TaskMachine, TaskService** - the pure machine and the runner, with
   **TaskLifecycle**, the abstract promise made to the user, refined by it
   (**TaskRefinement**), **TaskInvariant** and its proofs, **TaskClaims** for
   what documents say and the code does not do. Done, proved.
2. **ToolRuntime** with **PermissionEngine** - consent, write queue, timeouts,
   audit - with its invariant and proofs. Done, proved.
3. **RuntimeSupervisor** with the port registry - start, stop, exit, readiness and
   backoff interleaved - and the claim "one supervised child process per phase", with
   its invariant (**RuntimeInvariant**) and proofs. Done, proved.
4. **CommandBus**, **TaskEventHub** and **Renderer**, which composes both with the
   query cache and the live view of a task, with its invariant (**RendererInvariant**)
   and proofs. Done, proved.
5. The folder of a project: **Checkpoints** (git), **ProjectFiles** (file tools and
   the change tracker) with **ContextIndex** on top, **Validation**, with their
   invariants (**FolderInvariant**) and proofs. Done, proved.
6. The services beside the tasks: **Databases**, **Secrets** under **Deployments** and
   under **Extensions** (MCP servers and plugins), **Providers**, **Projects**, and **Upgrade**,
   the opening of the database under crashes; **Services** composes them, with their
   invariants (**ServicesInvariant**) and proofs. Done, proved.

What is left, in this order:

7. Liveness for the bus (every call is answered while the window is attached) under
   fairness of the channel and of the timers that `host.ts` sets.
8. The preview proxy's connections, and what retrieval may put into a prompt.

Abstract specifications worth stating: TaskLifecycle (done, the refinement proved), a serialised project
writer for the tool runtime, a one-child-per-phase machine for the supervisor.

### How the runs are cut

Components that interact are composed in one module and one run (task runner with
hub and session chain, tool runtime with permission engine, bus with hub and
window, file tools with tracker and index, secrets with deployments, secrets with
MCP servers and plugins). Components that share no state are put into one instance
all the same where each is small: `MCFolder` and `MCServices` have a variable `part`
that says which of them moves in a behaviour; the others stay where they start.
Little is lost by it: the parts of the folder share no variable, those of the services only
the vault, for which there is a part of its own in which deployments and sign-ins
move in turn. The proofs are about the full compositions, `FolderSpec` and `ServicesSpec`,
in which every part moves at any time.

## 3. The task service

### Modules

| Module | What it is |
|---|---|
| `TaskMachine` | `transition()` and the profile tables as operators |
| `TaskService` | the runner: state, one action per step between two awaits, the properties |
| `TaskLifecycle` | abstract: phases of a task as the user sees them |
| `TaskRefinement` | the mapping from the runner's state to the phases |
| `TaskInvariant` | the inductive invariant `IInv`, with `StreamsInv` (before the first exit) and `OnceInv` (a task resumed once at a time) on top of it |
| `TaskClaims` | a sentence of the documentation the code refutes |
| `MCTaskService` | instances for TLC |
| `TaskServiceProofs`, `TaskSafetyProofs` | the proofs |

### State and actions

| Model | Code |
|---|---|
| `state`, `request`, `cost`, `checkpoint`, `changed`, `usage` | columns of `tasks`, `checkpoints`, `task_changes`, `usage_records`; they survive a process exit |
| `queue[s]` | `sessionQueues`: the promise chain of session `s`; the head is the job that runs |
| `pc[t]` | the await the run of `t` is suspended at |
| `live[t]` | the `Live` entry: abort flag and counters; `entry` is the state the run found |
| `loop`, `pending` | which `builderLoop` call, and the tool calls left in the turn |
| `topic` | the hub's topic: absent, open, closed |
| `gate`, `unverified`, `live.edited` | history only: how the plan passed, whether edits are newer than the last passing check |

An action is the code between two awaits. `Command(t)` holds the user's
commands, `Progress(t)` everything that happens without the user: a job that
starts, or the answer of an awaited call, in each of its outcomes (model
answers, fails, answers after a cancel; tool returns with or without an edit;
checks pass or fail; ...). `Crash` forgets the process's memory at any await,
`Recover` is `recoverInterrupted` at the next start. The run's own copy of the
task agrees with the row at every await except in `cost`, which `ReviewPasses`
and `ReviewWantsChanges` show.

What is abstracted: prompts, context packs, messages, plan texts, diffs, and
which file is edited; a model answer is its consequence, a tool call is an edit
or no edit. An edit is one step with the return of its call because the file
tools are synchronous and the tool runtime starts them only while the signal is
not aborted; asynchronous tools (database, MCP) do not edit project files and
belong to the tool runtime's model.

### Runs

| Run | Question | Bounds, and why they are enough |
|---|---|---|
| `task_one` | all that concerns one task: invariant, gate, budgets, cancel, completion, streams | one task, all five kinds of request, one process exit, two resumes waiting, one revision, two tool calls per turn, one repair, one review round, budgets of 2-3 steps: every counter reaches its limit and every branch is taken |
| `task_queue` | the session's chain and the refinement of `TaskLifecycle` | two tasks of one session (interchangeable, hence the symmetry), smallest budgets; the second waits behind the first in each of its states. `MaxResumes = 1`: with two resumes the refinement fails, which is what `claim_ended` shows |
| `task_live` | progress under fairness | two tasks of one session, no process exit |
| `claim_ended` | the finding | one task |

`CHECK_DEADLOCK FALSE`: a system whose tasks all rest and whose bounds are used
up may stop.

Properties and what each would catch:

- `IInv` - the inductive invariant, see section "Proofs". It has as parts the types,
  that a session runs one task at a time (`OneRunPerSession`), that the row never
  moves to another state under the code that works on it (`RunnerOwnsState`), and
  that tool steps, repairs and reviews stay within their limits (`WithinBudgets`);
  these have theorems of their own and no entry in a run. The model-call budget is
  not a bound: see the divergences.
- `NoTaskForgotten` - after any cancel, crash and recovery each unfinished task
  has somebody to finish it.
- `EditsAreGated` - a run of a submitted task makes no edit before approval (or a rule that
  makes it needless) and a checkpoint attempt; a revised plan is approved anew. A resumed
  run is excepted: it repairs without either, see the divergences.
- `CompletionIsVerified` - COMPLETE and the commit only after checks that saw the
  last edit, in whichever run it was made.
- `CancelWins` - nothing changes after a cancel, and the run ends CANCELLED.
- `StreamsEnd` - no window is left listening to a task that rests.
- `EveryTaskSettles`, `CancelTakesEffect` - liveness.
- `ImplementsLifecycle` - the runner refines the abstract lifecycle; proved for any
  number of tasks, see section "Proofs".

Fairness: weak fairness of `Progress(t)`. An awaited call returns in the end:
tools and consents have timers (`runtime.ts`, `engine.ts`), validators have
timeouts, the event loop runs jobs that are due. Two calls have no timer in the
code, a provider's stream and `git`; for these, that they end is an assumption.
Nothing is assumed of the user: a plan may wait for approval for ever.

### Divergences seen

Checked by a run (`findings` in PROJECT.json): a second resume of an interrupted task
runs on a task that has already ended (`claim_ended`).

Seen while modelling, no run kept for them:

- an `ask` task that was interrupted is resumed into validation and repair, which
  edit files (`task-service.ts:478`; the ask profile is said to edit nothing,
  `contracts/src/domains/tasks.ts:31`);
- the cost of the reviewer's model call is overwritten by the run's older copy of the
  task (`task-service.ts:513`; `packages/core/README.md:8` promises a cost ledger);
- the model-call budget is compared at the end of a turn that called tools
  (`task-service.ts:874`), so plans, revisions, reviews and the first call of each
  loop are not bounded by it;
- a no-op cancel of an INTERRUPTED task publishes `done` and closes its topic; when
  the task is then resumed within the retention time its chunks go to a closed
  topic (`task-event-hub.ts`). `StreamsEnd` is stated for runs without a process
  exit for a related reason: recovery itself opens a topic for a resting task;
- NEEDS_USER is described as resumable, but `resume` accepts INTERRUPTED only.

## 4. The tool runtime and the permission engine

### Modules

| Module | What it is |
|---|---|
| `PermissionEngine` | the standing rules, the decision on a call, the rule a consent leaves behind |
| `ToolRuntime` | `execute()` at each await, with the engine; the properties |
| `ToolInvariant` | the inductive invariant `ToolInv` |
| `MCToolRuntime` | instances for TLC |
| `ToolQueueProofs`, `ToolRuntimeProofs` | the proofs |

### State and actions

| Model | Code |
|---|---|
| `store`, `session` | the policy table and `PermissionEngine.session` |
| `pc[t]`, `call[t]` | where the one call of task `t` under way is suspended, and what it calls: `consent` (in `parked`), `queued` (behind `prev`), `running` (in the race of `runWithTimeout`), `stuck` (line 266: aborted before its turn) |
| `queue[p]` | `writeQueues`: the writes of project `p` chained and not settled |
| `work` | executions of asynchronous tools, those their call gave up included |
| `aborted` | the tasks' abort signals |
| `rows` | the audit: the rows in the database |
| `passed`, `done`, `lost`, `unaudited`, `consents` | history |

`Check` is the synchronous part of `execute` up to the decision, with its
continuation when the decision needs no answer. `Respond`, `ConsentTimesOut` and
`Abort` settle a parked call; `Begin` is the turn of a queued write; `ToolEnds`,
`ToolTimesOut` and `Abort` end the race. `Exit` forgets everything but the policy
table and the audit; work under way may or may not have been done.

What is abstracted: scopes are model values and a pattern is the set of scopes it
matches; rules that expire and rules of lifetime `once` are left out, since no code
makes one; the registry of tools is fixed, since a call of an unknown tool or
under an aborted signal changes nothing and leaves no row. A rule found in the
table may be for one project or for all of them (`projects`). A row that cannot be
written (`audit`, line 324) is logged and given up: `Return` then adds the call to
`unaudited`. A settled write and the next one's beginning are two steps, where
the event loop has only promise jobs between them: the model has a few more
interleavings than the code.

### Runs

`tool_writes`: two tasks of one project, one of which makes two calls; a read
(asynchronous, allowed by default), an edit (synchronous, whose consent covers the
directory) and a statement (asynchronous, exact scope); a stored deny rule, for
every project, that the user may revoke; one process exit or one row that cannot be
written (`MaxFaults`). That is enough for two writes to meet in the
chain in every pair of states, for a third to wait behind them, for a consent to
be given, used by a later call, withdrawn and forgotten, and for an execution to
outlive its call and the call after it. Deadlock is checked: revoked and aborted
tasks can always go on.

- `ToolInv` - the inductive invariant: the chain holds the project's writes, once
  each, and only its head has begun; an execution that belongs to the call under
  way is the one the call awaits; rules are old ones or stand for consents.
- `ConsentCovers` - what a call may be let through on.
- `WritesTakeTurns` - two executions that write to one project at a time: one has been given up.
- `AuditIsComplete` - at most one row per call, true to what happened; a call that
  has returned is without one only when an exit cut it off or its insert failed.
- `EveryCallReturns` - liveness; a call aborted in the queue returns only when its
  tool's whole timeout has passed, and holds the chain until then.

Fairness: weak fairness of the consent timer, the tool's timer and a queued
write's turn. Nothing of users and tools.

### Divergences seen, no run kept

- `runtime.ts:43` says that the writes of a project are serialised; they are not once a
  timer or an abort has given one up (`runtime.ts:245`): it goes on beside the next.
- "Nothing executes without an audit row" (`runtime.ts:94`): the only row is written
  after the execution. "Every call ... produces an audit row" (`tools/README.md:5`):
  calls under an aborted signal and of unknown tools leave none, and when the insert
  fails (`runtime.ts:324-331`) the call answers, its work done, without one.
- "Destructive actions never auto-allow, even with a blanket rule"
  (`permissions/README.md:5`): `check` returns on a standing allow rule before it looks
  at the risk.
- A rule revoked while a call it let through waits in the chain does not stop the call.

## 5. The runtime supervisor

### Modules

| Module | What it is |
|---|---|
| `RuntimeSupervisor` | the supervisor and the port registry; the properties |
| `RuntimeInvariant`, `RuntimeProofs` | the inductive invariant `SupervisorInv`; the proofs (see "Proofs") |
| `RuntimeClaims` | the sentence the code refutes |
| `MCRuntime` | instances for TLC |

### State and actions

| Model | Code |
|---|---|
| `current[s]` | the phases map: which record is in the slot (project and phase) |
| `managed[m]` | the `Managed` record of the n-th start of a slot, in the map or not |
| `process[m]` | the operating system's view of its child: alive, signalled, gone |
| `planning` | `start()` calls that await `planPhase`, with the record they saw |
| `launch[m]`, `probing[m]` | `launch()`: waiting for a port probe, for the server's answer, for the proxy |
| `exiting[m]` | `onExit()`: waiting for the proxy's close, or in the backoff |
| `stops` | `stop()` calls in `killTree` or in the proxy's close, and the record whose timer made the call |
| `leased` | `PortLeaseRegistry.leased` |
| `answered`, `starved`, `raced` | history |

A record that has been replaced in the map goes on living in its handlers; the
model keeps it, which is what makes the races visible. `restart` is `Stop` followed
by `Start`, `stopAll` is `Stop` of every slot.

What is abstracted: the proxies' ports (a band of their own), output, diagnostics,
exit codes, counts of failed probes, times. The window of ten minutes is a choice:
at an exit any number of old restarts may have left it. A probe of a port may find
it free or busy whatever the registry says, since foreign programs come and go.
The preview proxy is always used, as in the desktop application.

### Runs

| Run | Question | Bounds |
|---|---|---|
| `runtime_serve` | everything one dev server can go through, with liveness | two starts, so that a start can overtake another and a restarted phase inherits the counters; one stop besides those of the timers; one automatic restart within the window; two ports |
| `runtime_slots` | several slots and the registry they share | two dev servers (interchangeable: the symmetry) and an install, one start each, one stop, two ports, so that a launch can find its port taken, another's, or none |
| `claim_supervised` | the finding | two starts, no stop |

`CHECK_DEADLOCK FALSE`: when its starts are used up and everything is at rest the
instance stops.

- `SupervisorInv` - the inductive invariant: types, the numbers of the records, and
  what the state of a record says of its process, lease, proxy and timer.
- `Supervised` - a live process belongs to the record in its slot, and a record that
  says RUNNING has a process, unless the slot was `raced`.
- `LeasesAreHeld` - the registry holds exactly the ports in use, for slots not raced.
- `StopIsFinal` - no exit, backoff, timer or readiness probe brings a stopped record back,
  unless the slot was `raced`: a launch that waits for its port spawns after the stop.
- `RestartsAreEarned` - only a process that answered is restarted automatically.
- `TransientStatesPass` - STARTING, STOPPING and RESTARTING pass.

`raced` marks a slot at the three places where the code goes on after an await
without checking again: a second `start()` during `planPhase`, a launch whose
record is no longer STARTING when its port probe or its proxy returns, and two
launches that found one port free. The properties say that these are the only ways
a process and its record part; `claim_supervised` shows the first of them.

Fairness: planners, probes, proxies, kills (which have a grace), backoffs and
timers return. Nothing of processes, which may run for ever, ignore SIGTERM, or
die at any time.

### Divergences seen

- Two overlapping starts leave a process nobody supervises (`claim_supervised`).
- A stop during the wait for a port is followed by the spawn (`supervisor.ts:244`): the
  phase is STOPPED and its process runs.
- A process that dies while the proxy is set up leaves a phase RUNNING without one
  (`supervisor.ts:396`); the next stop cleans it up.
- When the band of ports is exhausted the phase stays STARTING until it is stopped.

## 6. The command bus and the window

### Modules

| Module | What it is |
|---|---|
| `CommandBus` | host and client over the channel of one window |
| `TaskEventHub` | topics of tasks with their chunks, subscribers and queues |
| `Renderer` | composes both: the handlers, the query cache, the live view of a task; the properties |
| `RendererInvariant`, `RendererProofs` | the inductive invariant; the proofs (see "Proofs") |
| `MCRenderer` | instances for TLC |

### State and actions

| Model | Code |
|---|---|
| `up`, `down` | the two directions of the window's message port; each keeps its order |
| `inflight`, `handler`, `emitted` | `host.ts`: the entry and controller of a request, its handler, the number of the next stream message |
| `pending`, `streams`, `listening`, `lastSeq` | `client.ts`: the maps of the same names, `lastEventSeq` |
| `attached`, `subscribed`, `eventSeq` | the peer with its token, its subscriptions, the sequence of events |
| `topic`, `sub` | `task-event-hub.ts`: buffer and closed flag of a topic; queue of an iterator |
| `data`, `seen` | the host's data as a number that changes make greater; what a query has read |
| `rec` | the record of `query-cache.ts` with its fetch under way |
| `view` | the state of `useTaskStream` |

Every action is a turn of one event loop: a message is sent, arrives, a handler's
promise settles, a timer fires. A request's signal may be aborted before the
request is sent, after, while the answer is on its way, or after it; the abort of a
signal that is aborted already overtakes its own request (`client.ts:86`). The
window may close at any moment, which aborts what it has in flight. A topic is made
by its first subscriber or chunk, closed by `done`, and forgotten after a time.

Abstracted: payloads (a chunk is its number and whether it may be put together with
others), validation of payloads by schemas (a refusal is an outcome), frames the
host does not trust (dropped at the door).

### Run

`renderer_bus`, 439 118 states. The calls of a window and its streams share the
channel and nothing else, so the instance starts in one of four ways: two fetches
and two commands of which one is cancelled; three fetches, a command and a listener
of another event; a task that is new or interrupted with two streams, and a task
that is over; one stream and the fetches it causes. `CHECK_DEADLOCK FALSE`: a window
in which nothing is under way may rest. Only safety is checked.

- `RendererInv` - the inductive invariant: types, and how what is on the way fits what
  host and client remember (see "Proofs").
- `EachRequestIsInOnePlace` - a request the client waits for is either on its way
  up, in the host, or its one last answer is on its way down: it is never lost, never
  answered twice, and nothing that answers it is left when the client waits no more.
- `ReplayThenLive` - what is still to come for the observer of a stream goes on where
  the last chunk left off.
- `FreshAtRest` - when nothing is being fetched the cache shows what the last
  announced change made, as long as the query's handler reads and answers in one
  turn, as those that only read rows do. With a handler that awaits (`Async = TRUE`) it
  fails, see below.

### Divergences seen, no run kept

- "Re-fetches every record whose scope is listed" (`query-cache.ts:68`): a record whose
  fetch is under way is not fetched again (line 90). Its answer may be from before
  the change if the handler awaits between reading and answering.
- "Subscribes to task.stream for one task" (`use-task-stream.ts:45`): when another task
  is opened the old stream is cancelled, but chunks of it that are on their way still
  reach its observer and are folded into the new task's view.
- A topic closed by the no-op cancel of an interrupted task stays closed for the time
  of its retention, and swallows the chunks of a run resumed meanwhile
  (`task-event-hub.ts:24`).

## 7. The folder of a project

### Modules

| Module | What it is |
|---|---|
| `Checkpoints` | checkpoint, commit and undo of tasks, switch of branches and commit of all, git command by git command, beside a user who edits, stages, commits and merges |
| `ProjectFiles` | the file tools with the ledger of what was read and the change tracker, beside an editor |
| `ContextIndex` | extends `ProjectFiles` by the index: walk, update after a tool's call, resolution of imports, failure, restart |
| `Validation` | `runValidation` with its five validators, of tasks and of the user, while files change |
| `FolderInvariant`, `FolderProofs` | the inductive invariants of the parts; the proofs (see "Proofs") |
| `MCFolder` | one instance of the three parts for TLC, one of which moves in a behaviour |

### State and actions

| Model | Code |
|---|---|
| `work`, `index`, `commits`, `branch`, `head`, `merging`, `base` | what git keeps of the repository, the refs of checkpoints included |
| `saved`, `changes` | rows of `checkpoints` and `task_changes` |
| `job`, `undo`, `userCommit` | where a checkpoint or commit, an undo, and the user's commit of all are suspended, with what they have read |
| `disk`, `ledger`, `call`, `preimage`, `change`, `told` | the files; `ReadLedger`; the mutating call; `ChangeTracker.firstSeen` and its rows; paths to be passed on to the index |
| `rows`, `linked`, `indexing`, `walk` | tables `files` and `imports`, `ProjectIndex.state`, the walk under way |
| `faulty`, `check`, `running`, `latest` | what a validator would find now; the runs; the wiring's view of the user's |
| `call.folder`, `call.from`, `call.to` | what the call names: a file, or a folder with the files below it, and where it is moved |
| `handed` | contents whose hash the task's model has been given |
| `written`, `carried`, `clobbered`, `spared`, `broken`, `call.raced`, `quiet`, `sure` | history; `carried` is what was moved with its folder |

Every git command is a process of its own, hence one step; between two of them the
user does anything, and the application may exit. A file tool runs without giving
way to the rest of the program, but the editor is another process and saves between
the test of a hash and the write. The walk gives way between batches of files, and
a tool's call updates the index in between. A validator reads the files at one
moment and answers later.

Contents are version numbers; a hash stands for what it is of; a path is one of two;
`Large` versions (over 200 KiB) are not kept by the tracker, `Huge` ones (over 1 MiB)
are not indexed.

A write may name any hash the model has been given (`Expected`), not only one it has read
the content of. A read of some lines, or of a file over 512 KiB, gives and records the hash
of the whole file (`ReadFile` stands for these too), and a refused write gives the hash of the
present content in its message (`Conflict`, `fs.ts:63`). A guessed hash is not modelled.
`fs.delete` and `fs.rename` also take folders (`Remove`, `RenameFolder`): all the files below
go or move, while the tracker, the ledger and the index hear of the folder's own path
only (`PathsOf`), which is that of no file.

Left out: hooks that reject a commit, a detached HEAD, searches and listings (they
change nothing), containment of paths, the parsers of tool output (a choice) and
the ranking of what is retrieved.

### Run

`folder`, 1 056 869 states. One task, two paths, two branches, three acts of the user
(an exit counts as one), one tool call and one undo: enough for a user's commit, switch,
stage and edit to fall between any two commands of one commit or one undo. Two files
with four budgets: two calls in a row, a call among three saves, a call during a walk,
two walks. Two runs of validators, three of which apply, one edit. Files and checks are
interchangeable, and no property tells them apart: the symmetry is sound.
`CHECK_DEADLOCK FALSE`: an instance whose budget is used up stops. No fairness.

- `FolderInv` - the inductive invariants `RepositoryInv`, `IndexInv` and `ValidationInv`; proved
  for `FolderSpec`, in which the three parts interleave.
- `HistoryOnlyGrows` - a branch moves only to commits built on the one it was at.
- `TaskCommitsAreOfItsPaths` - what a task commits differs from its parent in paths of
  that task only, whatever is staged or committed meanwhile.
- `UndoSparesLaterEdits` - undo of a committed task, unless forced, overwrites an edit of
  the user only if it came after undo had looked at the file (`spared`: per task, the
  paths changed since its undo looked).
- `NothingIsClobbered` - a write or move replaces only content whose hash the task has been
  given: by reading it, by reading part of it, or by the refusal of an earlier write. Excepted
  is a save that falls between the test and the write of one call (`raced`). That the
  task has *read* what it replaces does not hold, see below.
- `EditsAreListed` - between calls every file that holds what the task wrote is in the
  list of its changes with that content. Excepted are files too large before and after, and
  contents that were moved with their folder (`carried`), at their old place and their new.
- `ImportGraphIsWhole` - an index that says "ready" has every import resolved, whichever
  file was indexed or removed first, but after a walk that failed or was cut short
  (`broken`).
- `VerdictIsEarned` - a report says "ok" exactly if no validator up to the tier asked for
  would find an error, unless files changed meanwhile (`quiet`), the run was cancelled,
  or a tool was not read to its end (`sure`); and no validator due is skipped. A validator
  that cannot run is an error, with which the report is still ok (`runner.ts:126`): such a
  run is not `sure`.

The exceptions are history variables set at the places where the code cannot do
better or does not; each is a hazard of PROJECT.json or a divergence below.

### Divergences seen, no run kept

- "Removed files are dropped" (`indexer.ts:134`): a file that has grown over the limit is
  in the walk and keeps its old row (line 157 removes only what the walk does not meet).
- "Records before/after content for every file a task's mutating tools touch"
  (`change-tracker.ts:18`): a file too large before and after is not listed (line 50).
- The same line: `fs.delete` and `fs.rename` take folders (`fs.ts:428`, `474`), and `pathsOf` has the
  folder's path only (`change-tracker.ts:65`). What the task wrote below it is at paths its
  changes do not list, and files it deletes with their folder are in no change at all.
- "Ensures a write targets a file the model has read" (`fs.ts:46`), "read-before-write"
  (`read-ledger.ts:9`): the refusal of a write tells the hash of content the model has not
  seen (`fs.ts:63`), and a second write that names it goes through; `tools.test.ts:197` relies
  on it. A read of a few lines is enough as well (`fs.ts:113` records the hash of the whole).

## 8. The services beside the tasks

### Modules

| Module | Code | State |
|---|---|---|
| `Databases` | `integrations-wiring.ts`, `integrations/src/database` | `link` (rows with the value of their secret), `attached`, `gateway` (cache), `pool`, `request` (uses under way), SQL as texts of statements with keyword, condition and wrapping, some of which the classifier does not see |
| `Secrets` | `secrets/src/service.ts`, `repositories/secret-refs.ts` | `ref` (table), `vault` (files), `issued`, `version` |
| `Deployments` | `deployment-wiring.ts`, the adapters, the readiness list | `target`, the run with its record and live entry, the provider's state; uses `Secrets` |
| `Extensions` | `mcp-wiring.ts`, `plugins-wiring.ts`, `plugins/src/loader.ts` | `server`, `plugin`, `current` (what runs), `registry` (tools), `attempt` (connects and activations under way); uses `Secrets` |
| `Providers` | `ai-providers`: settings, registry, router | `config`, `routing`, `discovered`, `verdict`, probes, calls, records |
| `Projects`, `ProjectClaims`, `MCProjects` | `packages/project` and its repositories | folders with their contents, catalog, blueprints, requirements, memory |
| `Upgrade` | `storage/src/database.ts`, `migration.ts` | `file`, `wal`, `backup`, where `openDatabase` is |
| `Services` | `main/services.ts` | composes the six: what they share is the vault, and the process with which deployments and connections end |
| `ServicesInvariant`, `ServicesProofs` | | the inductive invariants of the parts and of the whole; the proofs (see "Proofs") |
| `MCServices` | | one instance of all six parts for TLC |

An action is what runs between two awaits, as everywhere. Where the code is
synchronous (the catalog, an edit of a target, the secrets) an operation is one
action, except where the process may be killed between two writes and both outlive
it: then the step has a cut. The deployments part kills the process in the
middle of an edit, the upgrade part between any two operations on a file.

In `Services` the edits of targets and the sign-ins of servers work on one vault, and
the settings screen deletes and rotates any secret. The deploy panel names only what it has
just stored (`PanelNames`), as the code of the screen does; the handler behind it
would take any id. Likewise the panel of servers stores a fresh secret for a bearer
token (`StoreToken`) and names only that in `mcp.upsert`, and it never names a secret for the
environment (`ExtensionsSection.tsx:50-67`). `DeleteServer` therefore deletes the one secret the
row names; the handler would also delete those of `envSecrets` and any id another caller
had put there (`mcp-wiring.ts:196-198`), and that this takes nothing from a target is
due to the panel alone. When the process is killed in the middle of an edit, connections,
tools and attempts go too (`ExtensionsEnd`); the other parts take no notice of it, as each
has its own new start, and the upgrade of the database its own deaths.

### Run

`services`, 753 841 states. Bounds: two requests for one link and three stamps, so
that a change of the row finds a gateway being replaced; two secrets, two values,
one target with one required name, one run, two edits, one cancel or end of the
process; one server and one plugin, two attempts and four commands, so that each
command can overtake each attempt; two providers (one local, one that needs a key),
one probe and one call, three connections, one new start; three projects and two folders, one
inside the other (so that a name freed with an outer project can be taken again), with acts of one kind per behaviour (folders, papers, facts); three
migrations, three rows, three deaths. The part "vault" has the target and the server
together, with sign-ins but no tools, and targets of one adapter. `CHECK_DEADLOCK FALSE`: an instance whose bounds
are used up stops. No fairness: only safety is stated.

- `ServicesInv` - the inductive invariants of the parts, their types among them, and that the
  parts keep apart in the vault (`SecretsApart`): no target names a secret stored for a server, so
  that the deletion of a server takes nothing a deployment needs, and the other way round.
- `PoolsAreKept` - an open pool is the one in the cache, where the next change or
  deletion closes it. Excepted: a request that waits for an older pool to end while
  another comes in (`alone` is false); both then open a pool and one is dropped open.
- `NothingIsDestroyed` - what the agent runs removes no table and not all rows of one,
  and a query changes nothing. All the texts below are in the model and are run; excepted
  (`hidden`) is what the classifier cannot tell from its keywords:
  - part of the text is not seen, because `blank()` takes it for the inside of a literal and
    PostgreSQL does not: after an identifier with dollars (`a$$`), a string with escapes
    (`E'\''`), or a nested comment;
  - EXPLAIN ANALYZE in front of a statement, a write to the classifier, or a read when it is
    in parentheses before a WITH that ends in a SELECT;
  - a condition that spares no row: `WHERE true`, the ON of a MERGE that deletes, or the word
    WHERE in a query inside or in a quoted name;
  - a SELECT that calls a function which writes.

  What is left to say is that the rest is told apart: destruction behind another statement,
  in a CTE, in an UPDATE, DELETE, DROP, TRUNCATE or ALTER ... DROP.
- `TargetsHaveTheirSecrets` - a secret a target names can be resolved, unless the user
  deleted it or the process was killed while an edit replaced it (`gone`).
- `ToolsHaveTheirOwner` - a tool in the registry belongs to an attempt that runs or
  activates, and what runs is wanted. Excepted: attempts overtaken by another
  command on the same server or plugin before their end, and a plugin installed anew
  while it runs (`alone` is false).
- `WhatIsKnownIsCurrent` - the verdict and the models shown for a provider are those of
  its present key and URL, or of none. Excepted: a provider reconfigured while it was
  being contacted (`overtaken`).
- `FoldersAreApart` - two projects hold one folder only if it had been removed from
  under the first (`removed`): by the user, or with the folder of a project around it,
  for a deletion with files (`catalog.ts:209`) does not ask what other projects live
  inside.
- `RowsSurviveUpgrades` - an open database is of the program's version and has every row
  stored, unless a restore was cut short (`cut`). Proved, see "Proofs".

`claim_synced` shows, on the instance of `MCProjects`, that the requirements of a second
project cannot be stored.

### Divergences seen, no run kept

- "One running deployment at a time" (`docs/architecture/INTEGRATIONS.md:34`): `start`
  looks at the running ones (`deployment-wiring.ts:164`), then awaits the readiness list;
  two starts pass.
- The stream of a deployment replays `state.events` while its listener already queues
  (`deployment-wiring.ts:394`): an event published during the replay is delivered twice.
- "`destructive` is refused unconditionally" (`ADR-014-database-integrations.md:13`):
  `EXPLAIN ANALYZE DELETE` is a write to the classifier (`sql-classifier.ts:46`), a
  `DELETE ... WHERE true` and a MERGE that deletes every row are writes (lines 64, 73), the
  WHERE of a query inside a DELETE counts for it, and text behind `a$$` or in a string with
  `\'` is not looked at (lines 126-171). A change of a column's type that rewrites its
  values (`ALTER ... TYPE ... USING`) is ddl; the model does not count it as destruction.
- "Every call records the routed model and estimated cost"
  (`ADR-005-provider-abstraction.md:12`): a call that ends without its finish chunk
  (`registry.ts:250`: aborted, failed) leaves no record.
- "Persisted as one secret" (`ADR-016-mcp-and-plugins.md:11`): the sign-in of a server
  saves several times and takes the id of its secret from before the first save
  (`mcp-wiring.ts:88`), so that a first sign-in leaves secrets nobody names.
- Files are deleted "never for in-place imports" (`catalog.ts:188`): a project imported in
  place inside the folder of a managed one goes with it (line 209). Its row stays, and
  the name of its folder is free for the next project.

## 9. Proofs

### Task service

Assumptions: those of `TaskMachine` and `TaskService` on the constants (sessions
of tasks, requests of the known modes, natural budgets); any sets of tasks and
sessions, finite or not.

`IInv` is the conjunction of two parts, each inductive on the grounds of the one
before it:

- `Inv1` (proved in `TaskServiceProofs`): types; queued jobs belong to submitted
  tasks of their session; a running task is at the head of its chain.
- `Inv2` (proved in `TaskSafetyProofs`): while the process is down nothing runs;
  a queued resume is for a task that has been started before; for each run, the
  task state it expects at this await, where it can be, that the gate and the
  checkpoint lie behind it, that its counters are within their limits, and that
  what it is about to review, commit or answer is verified; for each task without
  a run, that it rests or has its job queued.

None of the properties is inductive alone. `NoTaskForgotten` needs to know that a
run always ends in a resting state, which needs `RunnerOwnsState`, which needs
that a resumed job never meets a task still in UNDERSTAND, which needs the order
of the chain. `EditsAreGated` needs to know that a fresh run awaiting a model or a
tool has passed the checkpoint. A run started by a second resume finds a task
that rests; the invariant says it then stays at rest (`StateOK`).

The proofs follow the actions: `LeaveRunInv`/`AwaitRunInv` and
`LeaveInv2`/`AwaitInv2` say once what ending a run and going on to the next await
do to the invariant, and each action's case supplies what is particular to it.

`StreamsEnd` has an invariant of its own on top, `StreamsInv`: before the first exit no
task is interrupted, so every run is a task's first, its state is the one `IInv` expects
at its await, and `finish()` meets no task that has already ended.

That `TaskService` implements `TaskLifecycle` is proved for every value of the constants,
in every behaviour in which no task is resumed while a job of it is in its session's
chain (`LifecycleKept`); `ImplementsLifecycleHolds` is the case in which the bound
`MaxResumes` says as much, as in the run. The hypothesis is the known divergence and not
a convenience: `resume()` checks for INTERRUPTED when it is called and its job does not
check again, so a user who resumes a task while a job of it still waits starts a second
run on a task that has come to rest (`claim_ended`).
The refinement needs a second inductive invariant, `OnceInv`: no chain holds two jobs
of a task, a resume still finds its task interrupted when its turn comes, and so every
run is of a new or of an interrupted task and is in the state `IInv` expects; a task
with edits to verify has changed files, which is why a task without changes may
complete right after its checks. The proof first says how any step moves its task (a job
joins or leaves the chain, a run begins, goes on, is aborted, is decided on, or ends,
with its edits kept, added or verified), shows that `OnceInv` survives each of these
moves, and then maps each to a step of the lifecycle or to none (`StepMaps`): the exit of
the process to `Exit`, the recovery after it to nothing, because a process that is down
has interrupted its tasks already.

Only model-checked: liveness.

### Tool runtime

Assumptions: those of `PermissionEngine` and `ToolRuntime` on the constants: tools
have descriptors, patterns are sets of scopes, rules found in the database have
ids no new call gets (ids are generated afresh), natural bounds. Any sets of
tasks, projects, tools, scopes and stored rules.

`ToolInv` is proved in three parts, each on top of the one before:

- `CallInv` (`ToolQueueProofs`): types; a call under way is the last its task made;
  the chain of a project holds its writes under way, once each, and only the head
  has begun. Inductive by itself. The facts about sequences are in `LeaveQueues`
  (the head leaves), `JoinQueues` (a call is appended) and `HoldQueues` (a call
  stays where it is); `ReturnCalls`, `HoldCalls`, `SettleCalls` ... lift them to the
  steps of a call, and there is one lemma per action.
- `EndsInv` (`ToolRuntimeProofs`): executions, rows and what was let through. `Steps`
  says what a step can be here: a call leaves (`LeavesInv`), waits at another await
  (`HoldsInv`), something else ends (`OthersInv`), the process exits (`ExitEnds`);
  `NextSteps` shows that every action is one of these. What they rest on is
  `Fresh`: the id of the call at hand has no row, no execution unless it runs, and
  was let through exactly if it is past the engine.
- `RulesStand`: rules and consents; only an answer, a withdrawal and an exit touch
  them. A withdrawal is where it could go wrong: two rules that rest on one consent
  would be the same rule.

`WritesTakeTurns` follows: two awaited executions that write to one project belong
to calls at the head of the same chain, hence to one call. `ConsentCovers` is an
action property: a verdict "allow" rests on a default or on a rule, and a rule on
what `RulesStand` says of it.

Only model-checked: `EveryCallReturns`.

### The bus and the window

Assumptions: `BoundsAssumption` and those of `CommandBus` and `TaskEventHub` on the
constants (queries and commands are calls and no streams, bounds are natural numbers). Any
sets of calls, streams, events and tasks, any lengths of the two channels.

`RendererInv` says of any state, with any number of messages on the way, how the channel
fits what host and client remember:

- `Typed`: types; in particular a request the host remembers has a handler that
  runs, and no message tells a future state of the data (`TrueIn`).
- `Placed`: of every call and every stream, the requests on the way up, the handlers
  at work and the last messages on the way down are together one if the client waits for
  it, and none if not. This is `EachRequestIsInOnePlace` with the number of messages
  counted by `Count`; it is inductive by itself once an id is used once only. What sending, taking
  the first and dropping all do to a count is stated once (`CountAppend`, `CountTail`).
- `InOrder`: the messages of a stream are numbered without a gap from the number the client
  expects (`Numbered`), else the client would end the stream on its own.
- `Whole`: a chunk goes on where the one before it ended (`GoesOn`), the subscriber's queue goes
  on where the last message ended, and who has an empty queue has all of the topic
  (`UpToDate`). The last is what the step from replay to live events needs: the next event
  published goes on from what the subscriber has, wherever that is at the time.
- `Fresh`: what a query has read, on its way down, is no older than the invalidations
  before it in the channel, given that its handler does not await.

What is said of a channel is said of any sequence, so that a lemma about `Append` and one
about `Tail` carry each part over a message sent and a message taken. There is one lemma
per action and part.

### Opening the database

Assumption: `UpgradeAssumption`, the bounds are natural numbers; they may be any.

`RowsSurviveUpgrades` speaks of the moment the database is open. `UpgradeInv` says what
holds at every other: the types; that nothing is newer than the program and no row
comes from nowhere (`Bounded`); what each place of `openDatabase` relies on
(`Reached`: the file is whole wherever it is read, and its log is gone wherever the
file is replaced); and where the rows are (`RowsAreSomewhere`): in the file with its
log until the file is set aside, and in the backup from its making to the end of the
way back. The last part alone is not inductive: that the backup has the rows needs
`Reached`, since a copy of a file whose log was still full would lack some.

### Runtime supervisor

Assumptions: those of `RuntimeSupervisor` on the constants (`Serve` is a set of slots,
ports are positive, bounds are natural numbers). Any sets of slots and ports.

`SupervisorInv` has three parts about every slot (types, `Numbered`, `Working`) and one,
`Orderly`, about a slot that is not `raced`. Nothing the runs check is inductive: that
a live process is the one of the record in its slot rests on what each state says of
process, lease, proxy and timer together (`Says`), for a handler that goes on after an await
relies on the state alone. `Awaits` says that a start which awaits its plan will
replace a record at rest, `Ends` that a stop works on a record marked as stopping,
and `Registered` that the registry holds the leases of the slot's records and no other.
What a step does to other slots is said once; each action's case speaks of its
own slot, and an action that marks the slot as `raced` has nothing to show of it.

Proved: `SupervisorInvHolds`, and from it `TypeOKHolds`, `SupervisedHolds`,
`LeasesAreHeldHolds`, and the action properties `StopIsFinalHolds` and
`RestartsAreEarnedHolds`.

Only model-checked: `TransientStatesPass`.

### The folder

Assumptions: those of `Checkpoints`, `ProjectFiles` and `Validation` on the constants
(the task's content is told from the user's, there is a branch, the files of a project
are finitely many, budgets are natural numbers). Any sets of tasks, paths, branches, runs.

- `RepositoryInv`, about git: what the runner has in hand between two commands (`InHand`)
  are commits that exist, with the parent it read; what undo has found is still so, but for
  paths changed since (`Knows`); a result is a commit of the task's paths (`Delivered`).
  `TaskCommitsHold` and `UndoSparesHolds` follow. `HistoryHolds` needs besides that
  a branch which moves, moves to a child of where it is (`BranchesMoveOn`), and that the
  recursive function behind `Ancestors` exists: a parent has a smaller number than its
  child, and a least number without such a function is impossible (`AboveIsThere`, from
  the well-foundedness of the natural numbers).
- `IndexInv`, about the tools and the index: what a mutating call has checked is so
  unless the user has saved meanwhile (`CallInv`); a pre-image is one content, and none of
  the task's that was not moved with its folder (`PreimagesAreOld`), without which a file restored to its first content
  would drop out of the list of changes while the task's content is in it; every
  file that no call is at is listed if it holds what the task wrote (`Listed`). The index
  is resolved whenever no walk is under way and none was cut short (`WholeAtRest`).
  `NothingIsClobberedHolds`, `EditsAreListedHolds` and `ImportGraphIsWholeHolds` follow.
- `ValidationInv`, about the checks: for each validator a run is through with, why it was
  passed over or what it said (`Spoken`), and that the failing tier is that of a validator
  which failed. `VerdictIsEarnedHolds` follows.

`FolderInvHolds` puts the three together: a part's step leaves the variables of the
others alone, so each invariant holds of the composition as of its part.

### The services

Assumptions: those of `Databases`, `Secrets`, `Deployments`, `Extensions`, `Providers` and
`Projects` on the constants: natural bounds, at least one version of a secret,
attempts are numbered and a server is no plugin, providers of the known kinds, no
folder inside itself. Any sets of links, requests, targets, servers, plugins, providers,
projects and folders.

- `DatabaseInv`: who waits for a pool of a link to end is not alone with it, if any other
  request waits too or a pool of the link is open that its owner took to be the only one
  (`Waits`). `PoolsAreKept` is inductive only with it. `NothingIsDestroyedHolds` is proved
  together with it: what a request becomes while it closes, builds and runs keeps what
  its statement did (`Safe`).
- `DeploymentInv`: no secret is named twice, by two targets or two places of one
  (`NamedOnce`), and a place holds one or none (`OneEach`). Dropping the secret of one place
  is harmless for the others only because of the first. The operations of `Secrets` are
  lemmas (`StoredTyped`, `DroppedTyped`).
- `ExtensionsInv`: what runs and what is registered was put there by an attempt of its own
  (`Placed`), while an attempt is under way nobody else on that server or plugin is alone
  (`Crowded`), and an attempt nobody has overtaken is still wanted (`Wanted`). The invariant is
  taken apart by server or plugin (`OwnerInv`): a step of an attempt is `MoveKeeps`, a command
  is `CommandTurns`, and `OthersStay` says that both leave the others as they are.
- `ProvidersInv`: verdict, models and what a probe brings are of the present connection,
  for every provider not `overtaken`.
- `ProjectsInv`: a folder of the catalog stands unless it was removed from under its project
  (`FoldersStand`), which is what makes a free name free; with `FoldersAreApart` itself.

`ServicesInvHolds` is about the composition. Here two parts do change the same variables,
and the invariants of neither mention the other's rows: that a sign-in does not break
`NamedOnce` of the targets, nor an edit of a target the tokens of servers, rests on
`SecretsApart`. The secrets targets name were issued and are not stored for a server; what
servers and attempts name is; a sign-in stores under a token it holds or under an id never
issued before, and the panel of servers under a new one; an edit drops what it has replaced, which
is no server's.
`DeploymentsMoveKeeps` and `ExtensionsMoveKeeps` prove it of the two parts.

### What the proofs found in the models

- `removed`, in `FoldersAreApart`, used to count only what the user removes, and TLC
  had not refuted that on two projects. The proof did not go
  through; a third project does it (delete the outer one with its files, create another
  under the name of the inner folder). The property now says so, the instance has three
  projects, and the divergence is listed under "The services".
- Alternatives in a CASE whose guards overlapped, where TLC takes the first and a proof
  may take any, now exclude one another.
- Targets found at the start of a session name different secrets; the first version of
  `DeployInit` allowed two to share one, which no edit can bring about.
- Assumptions the modules had silently relied on are stated: that there is a branch, that
  the files are finitely many, that a server is no plugin.

### What is only model-checked

- Liveness (`EveryTaskSettles`, `CancelTakesEffect`, `EveryCallReturns`,
  `TransientStatesPass`) is out of the prover's reach.
- That `TaskService` implements `TaskLifecycle` is proved where it is true, for tasks
  resumed once at a time; what happens otherwise is shown by `claim_ended`.

Invariants proved that have no entry of their own in a run are parts of one that has:
`TypeOK`, `OneRunPerSession`, `RunnerOwnsState` and `WithinBudgets` of `TaskService` are
parts of `IInv`, the types of the tool runtime of `ToolInv`, those of the folder's parts
of `FolderInv`, those of the services and `UpgradeInv` of `ServicesInv`, and `TypeOK` of
`Renderer` of `RendererInv`.

## 10. What is not modelled

Not modelled at all, or in part (status in PROJECT.json):

- **Scope patterns** are a pure matcher over path strings. In the permission engine a
  pattern is the set of scopes it matches, so what is proved holds for any matcher.
- **Preview proxy, commands and output** are HTTP plumbing, the parsing of command lines
  and ring buffers of text; the supervisor's model has the proxy's start and close.
- **Diagnostics, contracts**: text and schemas.
- **Desktop shell and user interface**: wiring and presentation, but for the query cache and
  the live view of a task.
- **File tools**: searching and listing change nothing; that a path lies within the
  project is a matter of strings and symbolic links, not of behaviour over time.
- **Deployment adapters**: finding the framework and collecting the files are pure functions
  of a directory; the phases and the polling are modelled.
- **Context engine**: the ranking of what is retrieved is arithmetic over scores.
- **Storage**: a repository's row is a variable of the model that uses it; the database
  engine is taken to keep its promises on transactions.

Hazards that were seen in modelled components and that no property covers, so that
further work starts from them:

| Where | What can go wrong |
|---|---|
| `packages/tools/src/runtime.ts:188` | the decision is taken before a call queues and used when its turn comes: a rule revoked in between does not stop it |
| `packages/permissions/src/engine.ts:101` | a standing allow rule is consulted before the test for destructive tools |
| `packages/git/src/service.ts:218` | the branch has moved when the real index is brought in line: a failure there is reported as a failed commit although the commit is made |
| `packages/git/src/service.ts:249` | a task without a result commit is undone without the test for later edits of the user; `UndoSparesLaterEdits` is about tasks that committed |
| `packages/git/src/service.ts:246` | undo restores path by path; a failing checkout in the middle leaves part of the task undone |
| `packages/core/src/change-tracker.ts:65` | what is moved or deleted with its folder is in no change of the task (`carried` in `EditsAreListed`), so that the commit and the undo of the task pass over it |
| `packages/tools/src/tools/fs.ts:475` | the ledger moves the record of a folder's path and none of the files below it |
| `packages/core/src/change-tracker.ts:22` | pre-images live in memory: after a restart the first content of a path changed twice is the task's own |
| `apps/desktop/src/main/deployment-wiring.ts:228` | a cancel that comes after the adapter is done marks a deployment that went live as cancelled |
| `apps/desktop/src/main/deployment-wiring.ts:187` | a deployment's row says running until it finishes; after a process exit nothing ends it |
| `apps/desktop/src/main/mcp-wiring.ts:107` | two connects of one server both pass the disconnect: the second's connection replaces the first's, which nobody closes (`alone` in `ToolsHaveTheirOwner`) |
| `apps/desktop/src/main/mcp-wiring.ts:101` | tools are unregistered while calls of them wait for consent or for their turn: the call keeps the tool it looked up |
| `apps/desktop/src/main/plugins-wiring.ts:132` | grants are read when a plugin is activated: a capability withdrawn from an active plugin changes the record and not the plugin |
| `packages/validation/src/runner.ts:126` | a validator that could not run is an error and no failure, and the report says ok; the task completes on it |
