# A formal model of the LLM workbench

This directory holds TLA+ specifications of the backend in `src/backend` and of
the browser client in `src/frontend`, the TLC configurations that check them on
small instances, and proofs, checked by TLAPS, of nearly all safety properties
of both, for every value of the constants. File and line references are to the
repository this project accompanies.

* [1. The system](#1-the-system)
* [2. Modules](#2-modules)
* [3. RunLifecycle: state and actions against the
  code](#3-runlifecycle-state-and-actions-against-the-code)
* [4. The views: state and actions against the
  code](#4-the-views-state-and-actions-against-the-code)
* [5. What is checked](#5-what-is-checked)
* [6. Where the code departs from its
  documents](#6-where-the-code-departs-from-its-documents)
* [7. What is proved](#7-what-is-proved)
* [8. What is not modelled](#8-what-is-not-modelled)
* [9. Plan](#9-plan)

## 1. The system

The workbench fine-tunes language models, evaluates and serves them. A FastAPI
process owns a SQLite database and starts trainers: local subprocesses, or
sandboxes on Modal reached through a pump that looks like a subprocess. A React
client follows along over WebSockets. The parts with state of their own are
these.

| part | state | operations | what is hard, what must hold |
|---|---|---|---|
| `services/orchestrator.py` | rows of runs, attempts, stages; `_active_tasks`, `_active_processes` | create a run, run and read a trainer, record its outcome, propose / accept / cancel an OOM fallback, sweep abandoned ones | many transactions per operation, any interleaving between them, crashes; one owner per run, whole bills, ordered attempts, the newest task registered |
| `services/run_service.py` | the same rows | cancel, pause, resume, delete, reads | acts on the row only, while tasks go on; nobody's outcome overwritten, no orphans |
| `services/watchdog.py` | the same rows, checkpoint directories | recovery of stale rows at startup, health check | runs after a crash at any point; every abandoned run found |
| `services/training_dispatcher.py`, `services/cloud/modal_adapter.py` | processes, sandboxes, a pump thread and its queue | start, read, cancel, download | events after the end, a cancel racing a result, a failed start |
| `services/trainer.py` | checkpoint directories, heartbeat file | training loop, events on stdout, SIGTERM | a kill between two files of a checkpoint |
| `services/oom_detector.py`, `core/modal_catalog.py` | none | classify an exit, prices, memory | cost cap, termination of the fallback chain |
| `services/storage_manager.py` | checkpoint rows and directories | retention, deletion | files and rows agree |
| `core/database.py` | the write lock of SQLite | `BEGIN IMMEDIATE` for every transaction | a transaction inside another one, a lock held across a network call |
| `core/events.py`, `api/websocket`, `frontend/src/ws` | subscriptions, bounded queues, browser sockets | publish, stream, reconnect | full queues, duplicate sockets |
| `services/eval_runner.py`, `services/eval/*` | eval runs, calls, scores, rubric versions | run an evaluation under a cost cap, recover, drain at shutdown; load rubrics | cost accounting under failure, one version number per text |
| `services/cloud/mlx_serving_registry.py` | active serves, drain tasks | start, stop, status, evict | capacity under concurrent starts; a drain task must end |
| `services/voice/*` | the single session, its config and handle | create, connect, run, finalize, expire | exactly one session |
| config, settings, suggestions | versions, suggestion states | update, accept, reject | version numbers, no double decision |
| projects, models, datasets, metrics, notifications, introspection | rows and files | CRUD and reads | data, little control |
| `frontend` runs and dashboard pages | selection, live store, query cache | follow a run; start, pause, resume, cancel, delete, choose a GPU | an answer, an event and a click in any order; buttons computed from a cached row |
| `frontend` evaluation page | selection, live feed, form | trigger, follow, open a case | events of the run that was selected before |
| `frontend` configuration pages | forms, YAML dialog, the cached active configuration | edit, preset, save, restore, launch | two forms and a dialog over one versioned document; an answer after the page was left |
| `frontend` other pages | forms, dialogs, cached lists | resolve, register, merge, serve, redact, accept, delete, capture | lists invalidated by hand, per-page state, late answers |
| `frontend` voice demo | session, socket, microphone, transcript | start, stop, leave | a chain of awaits that nothing interrupts |
| `frontend` shell | persisted store, toasts, notifications | reload, palette, toasts, theme | timers of toasts that are gone, an older store read back |

They interact in five ways. Routes call services within a request. The
orchestrator starts an asyncio task per attempt, which outlives the request and
shares the rows with every later request. Trainers talk to their task over a
pipe and outlive the backend. Everything else reads the rows. The database is
the only thing a restart finds again. The browser sends requests, keeps what
they returned under query keys until something invalidates it, and is told of
changes over one WebSocket per tab, by events that are dropped when a queue is
full or a connection is lost.

Concurrency is cooperative: one event loop, one process. `core/database.py`
opens every transaction with `BEGIN IMMEDIATE` (lines 27-81), so a session
block is a critical section; between two blocks of the same handler anything
can happen. That is the grain of the model. The browser is single-threaded too:
a callback runs to its end, and what it awaits may be answered after the user
has gone to another page or another project.

## 2. Modules

| module | what it is |
|---|---|
| `RunLifecycle` | the life of runs: orchestrator, run service, startup recovery, trainers, crashes |
| `RunProperties` | safety, action and liveness properties of it; the refinement mapping to the ledger; statements of the documents the code does not keep |
| `AttemptLedger` | abstract specification: what attempts, trainers and bills promise, with none of the machinery |
| `RunInvariant` | the inductive invariants: `Ownership` behind the safety properties, `Accounting` behind the refinement, `Habits` behind the action properties |
| `FallbackPolicy` | the GPU catalog, the cost cap, and the filter of the fallback chain |
| `FallbackChain` | one run that always runs out of memory, under every chain: does the fallback end? With the proof of when it does not |
| `MCRunLifecycle`, `MCFallbackChain` | instances for TLC |
| `RunLifecycleProofs` | proofs of types, of `Ownership` and the safety properties, that `RunLifecycle` implements `AttemptLedger`, and of its action properties |
| `QueryCache` | an entry of react-query's cache |
| `RunSocket` | the tab's WebSocket client and the server's connection manager, its queues and its routing |
| `RunServer`, `RunStream`, `RunsPage` | what a browser sees of the runs; the live store and its listener; the runs page and the dashboard |
| `RunsView` | those composed: next-state relation and properties |
| `EvalRunner`, `EvalPage`, `EvalView` | the task of an evaluation run; the evaluation page; both composed over `RunSocket` |
| `ConfigServer` | configuration versions and every service that writes one |
| `Workbench` | what all pages share: mounted page, chosen project, cached configuration, requests |
| `YamlDialog`, `TrainingPage`, `AdaptersPage` | the editors of the configuration |
| `FormControls` | the controls and presets of the forms, how a page uses them, and what the trainer makes of the result |
| `Tables` | the lists of rows with their queries and mutations |
| `ModelsPage`, `DatasetsPage`, `SuggestionsPage`, `ArtifactsPage`, `ProjectsPage` | one page each |
| `ServingPanel` | the panel that serves a model and the server's registry |
| `VoiceSession` | the voice demo and the server's session lock |
| `FlowFigure`, `WeightsPage` | the drawing of an architecture; the weights explorer |
| `Shell` | store, toasts, palette, notifications |
| `WorkbenchView` | all pages but the runs and evaluation ones, composed |
| `MCRunsView`, `MCWorkbenchView` | instances for TLC |
| `SocketProofs` | lemmas on the socket and the query cache for every page over them |
| `DataInduction` | induction over numbers, finite sets and ranks as theorems about sets; loops, recursive functions and sums |
| `FlowProofs` | what `FlowFigure` computes for every set of trees: columns, cards, arrows, ticks |
| `RunsViewProofs`, `EvalViewProofs`, `WorkbenchViewProofs` | proofs of the safety properties of the three views |

`RunLifecycle` and `FallbackChain` both extend `FallbackPolicy`. `RunProperties`
extends `RunLifecycle` and instantiates `AttemptLedger`; `RunInvariant` extends
`RunProperties`, and the proofs and the TLC instance extend `RunInvariant`.

The views are chains of extensions: `RunSocket` <- `RunServer` <- `RunStream` <-
`RunsPage` <- `RunsView`, `RunSocket` <- `EvalRunner` <- `EvalPage` <-
`EvalView`, and `ConfigServer` <- `Workbench` <- every other page <-
`WorkbenchView`. They are three and not one because the socket, the two run
pages and the configuration share nothing but the chosen project: the product
would be large and show no new interleaving. The proofs extend the views;
`RunsViewProofs` and `EvalViewProofs` share `SocketProofs`, and all three use
`DataInduction`, `WorkbenchViewProofs` through `FlowProofs`. `RunServer` is not
an instance of `RunLifecycle`: a page sees the row and the events of a run, not
the transactions behind them, and any row that `RunLifecycle` reaches may be
what it is shown.

## 3. RunLifecycle: state and actions against the code

**State.** Run rows are functions over run identifiers (`status`, `env`, `gpu`,
`strategy`, `started`, `pid`, `ckpt`, `cost`), attempt rows functions over runs
and attempt indices (`att`: `"none"`, `"open"` or the exit reason; `attGpu`),
stage rows `stage`. A run that was never inserted has status `"none"`, a deleted
one `"deleted"`. `trainer` is the process of an attempt. `task` is the control
point of its orchestration task (`_run_trainer_subprocess`), `tally` the local
variable `cost_usd` of its terminal sequence, `taskGpu` the GPU in its
execution config. `request` and `respawn` are the second half of a REST handler
that has committed and not finished. `activeTask` and `activeProc` are the two
registries of `orchestrator.py:97-107`. `up`, `todo`, `cur`, `bootPc` and
`bootTally` are the startup passes. A cost is the set of attempts it sums: what
can go wrong with a bill is which attempts it covers, not the arithmetic.

**Actions.** Each is one transaction, or one step between two awaits that
changes memory.

| code | actions |
|---|---|
| `orchestrator.create_run` 200-345 | `Create`, `SnapshotWritten` or `SnapshotFails`, `Launch`, `RequestFails` |
| `_run_trainer_subprocess` 1111-1156 | `TaskStart`, `TaskPrepare`, `TaskDispatch`, `TaskRegister` |
| `_process_trainer_event` 770-1050 | `TaskEnterStage` + `TaskEntered`, `TaskLeaveStage`, `TaskProgress`, `TaskCheckpoint` + `TaskSaved`, `TaskRecord` |
| end of output and terminal sequence 1158-1300 | `TaskDrain`, `TaskClose`, `TaskSum`, `TaskSkip`, `TaskStatus`, `TaskPost` |
| `_handle_trainer_oom`, `_fail_run_with_oom_reason` 1563-1753 | `TaskCloseOom`, then `TaskPropose` or `TaskSum` ... |
| automatic fallback 1640-1648 | `TaskAccept` or `TaskAcceptRefused`, `TaskSpawn` |
| `accept_fallback` 1897-1970 | `AcceptFallback`, `Respawn` or `RequestFails` |
| `cancel_fallback` 1973-2043 | `CancelFallback`, `SkipAfterCancel` or `RequestFails` |
| exceptions of the task 1385-1395, done callback 123-132 | `TaskRaise`, `TaskFail`, `TaskDie`, `Evict` |
| `run_service` 151-248 | `Cancel`, `Pause`, `Resume`, `Delete` |
| `watchdog.recover_stale_runs` 317-411 | `Restart`, `RecoverSkip`, `RecoverPending` + `RecoverSecond`, `RecoverRunning` |
| `_sweep_abandoned_fallback_runs` 1773-1824 | `SweepBegin`, `SweepClose`, `SweepSum`, `SweepSkip`, `SweepStatus`, `SweepRaise` |
| `main.lifespan`, the operating system | `Serve`, `Crash`, `TrainerExit` |

Choices worth knowing about:

* `_update_run_status` writes whatever the old status was (461-534); `Write`
  does the same. Only the guards the code has are guards here.
* A trainer's events are any sequence of its event kinds until the end of its
  output; what it reports last and its exit code are its `Endings`. An end can
  come at any point, and lines still in the pipe are read after it.
* Whether a transaction opened inside another one gets through depends on
  SQLite's locking and the pool; `NestedTx` makes both outcomes possible. The
  snapshot of `create_run` is such a transaction: `refresh(run)` (275) has
  opened the request's own one again, so no cancel or delete commits before the
  snapshot is written, and a run that was deleted before the refresh makes it
  raise (`SnapshotFails`).
* `Faults` lets any transaction of a task raise, which is what the `except`
  clauses of the task and of the sweep are for, and what a request does after
  its commit (`RequestFails`): a run then has a row and no task.
* `cancel_fallback` would close an open attempt in a transaction of its own. A
  run that waits for a decision has none (`FallbackIsIdle`), so what is left is
  one transaction, and `CancelFallback` requires that there is none.
* Time is nondeterminism: whether a pending row is inside the grace window,
  whether a heartbeat is fresh, whether a waiting run is older than its TTL.
* Process ids are not reused, and recovery's `pid` is that of the first
  attempt's trainer: only local runs have one and only Modal runs have more
  attempts.

## 4. The views: state and actions against the code

**Pages.** `page` is the mounted page, `ui` its component state (`useState`,
`useRef`): a record per page, made anew when the page is entered and dropped
when it is left, as React does. `activeProject` is the store's, which stays.
Dialogs are modal: while one is open, only its own buttons are actions. An
effect (`useEffect`) is no action of its own: `Settled` applies it in the same
step as whatever changed its dependencies.

**Requests.** A mutation is three steps: the click adds it to `calls` (or
`saves`, `launches`, `writes`), the server handles it, the answer runs the
callbacks of the hook. The hook's `onSuccess`, the invalidation, runs whatever
page is mounted; the callbacks passed to `mutate` only while the component is
still there (`watched`). That is react-query's rule, modelled as external. In
between the user goes on, other requests included.

**Queries.** An entry is `data`, `stale` and `flight` (`QueryCache`). A fetch
takes the server's value at some moment and delivers it at a later one; an
invalidation marks the entry and, if a mounted page shows it, a fetch that is
on its way is superseded. Entries are kept by the keys of the hooks, so an
answer for another project does not overwrite this one's.

**The socket.** `RunSocket` keeps every browser socket, not only the client's
latest: `connect()` forgets the earlier one, whose callbacks stay attached
(`ws/client.ts:136`), and which reconnects by itself. The server's part is
`ConnectionManager`: a subscription per connection, a bounded queue, and
`_route_event`, which drops what does not fit (`api/websocket/stream.py:137`).

| code | module: actions |
|---|---|
| `ws/client.ts`, `api/websocket/*` | `RunSocket`: `Opened`, `HandleSubscribe`, `Lost`, `Reconnect`, delivery in `RunStream` and `EvalPage` |
| `hooks/useRunStream.ts`, `stores/run-stream-store.ts` | `RunStream` |
| `pages/runs-page.tsx`, `pages/dashboard-page.tsx`, `hooks/useRuns.ts`, `hooks/useRunFallback.ts` | `RunsPage` |
| `pages/eval-page.tsx`, `components/eval/*`, `hooks/useEval*.ts`, `services/eval_runner.py` | `EvalPage`, `EvalRunner` |
| `pages/training-page.tsx`, `pages/adapters-page.tsx`, `components/training/*`, `components/adapters/*`, `hooks/useConfigs.ts`, `services/config_service.py` | `TrainingPage`, `AdaptersPage`, `YamlDialog`, `FormControls`, `ConfigServer` |
| `components/model/serving-panel.tsx`, `hooks/useServing.ts`, `mlx_serving_registry.py` | `ServingPanel` |
| the other pages and their hooks | `Tables` and the module named like the page |
| `hooks/use-voice-session.ts`, `ws/voice-client.ts`, `services/voice/voice_service.py` | `VoiceSession` |
| `lib/flatten-to-flow-columns.ts`, `components/weights/*` | `FlowFigure`, `WeightsPage` |
| `stores/app-store.ts`, `hooks/use-toast.ts`, `components/layout/*` | `Shell` |

**What stands for what.** A configuration is one value per section; a text in
the YAML dialog is the configuration it says. A row of a list is its number.
A judge's charge, a step of training, a column of the flow are small numbers,
but the arithmetic over them (ceiling, sums, layout, curve of the learning
rate, splits) is the code's.

**History.** `told`, `toldOf`, `followed` and the field `shown` of a launch
record what the page was told or showed, so that an invariant can speak of it;
no guard reads them. What `told` records is kept apart from the table of what
is invalidated, so that a key forgotten there is found.

## 5. What is checked

All runs use small sets of model values. `MaxAttempts` and `MaxCrashes` are the
only bounds on counters; the code bounds neither. Deadlock is not checked: with
finitely many run identifiers a behaviour may end with every run settled and
nothing left to ask for.

| run | instance | shows |
|---|---|---|
| `life` | 1 run; local, Modal "ask", "auto" or "disabled"; 3 attempts, 2 crashes, faults, locked transactions; 1.15 million states | all safety invariants, `Ownership`, and refinement of `AttemptLedger` |
| `life_live` | the configurations of `life`, 1 run and the child it may be resumed as, 2 attempts, 1 crash, fair, no faults; 88,611 states | `RunSettles`, `CompletedIsFinal`, `RecoveryIsThorough` |
| `live_view` | 2 runs of one project and another, empty project; 1 step; 4 GPUs, the cap on the largest, the chain 4, 2, 1, one run on Modal and one local; 2 sockets with queues of 2; live buffer of 2; 3 bounded steps; 1.84 million states | `OwnEventsOnly`, `MetricsShownOnce`, `EventsInvalidate`, `OfferedIsAccepted`, `GpuChosenIsCandidate` |
| `eval_view` | 2 evaluation runs of 1 case under 2 rubrics, charge 0 or 2, ceiling 1 or none; 2 sockets with queues of 2; 4 bounded steps; fair; 1.02 million states | `ShownIsOfSelectedRun`, `CapRespected`, `EvalEventsInvalidate`, `RowsAddUp`, `StreamRecovers` |
| `workbench` | 2 projects, 6 versions, lists of 2 rows, 3 voice starts, 14 tours, 3 architectures, windows of 300 and 620 pixels; fair polls; 593,425 states | 13 properties of the other pages |
| `doc_*` | the smallest instance that shows it | section 6 |

Why the bounds are enough, for the backend. Runs share nothing but the startup
passes, so one run shows every interleaving of requests, tasks, events and
crashes, and two show `resume_run`, the only handler that touches two rows, and
recovery of its child. `Fresh` are the runs that requests create; in
`life_live` the second run only comes of a resume. Recovery still finds two
rows at once there, when a late progress event of a cancelled parent has set it
to `running` beside its child; that it reaches every row of any number is the
theorem `RecoveryCoversAll`. The third attempt is the first whose predecessor
was itself a fallback; two crashes are a crash during recovery from a crash.
One stage is enough, since stages are independent, and the shipped chain keeps
two affordable GPUs, the least with which a fallback can be repeated. The
proofs of section 7 remove these bounds for all safety properties.

And for the views. `MaxSteps` counts what users, trainers and networks do
(clicks, refetches, events, losses), never answers and callbacks, so every
answer may still be on its way at the end. Three or four such steps are enough
for: select, event, other selection; connect, change project, loss; click,
other page, click. Two sockets are the latest and a forgotten one; a queue of
two is full after the second event; a live buffer of two trims. Two runs and
two projects are what a selection can be wrong about. Two rubrics give one case
two calls to add up; a charge of 2 over a ceiling of 1 is the last call that
goes past it, and a charge of 0 (a judge that fails, or is free) is a call that
leaves the total where it was; more values would differ in numbers only. GPU 3
is what a run is started on and is not in the chain; of the chain GPU 4 is
beyond the cap, so that after a fallback to GPU 2 the smaller GPU 1 is all that
is proposed, and after that GPU 2 again. A tour of `workbench` names the pages
a behaviour may go between and how many clicks it makes; pages share only what
the tour of a pair exercises: the configuration (`training` with `adapters`,
`models`, `datasets`, `suggestions`), and the chosen project (`projects` with
`weights`). Six versions are the two projects' first, an earlier one, and three
saves, the most that the clicks of a tour reach. `Switches` are the tours in
which the project is changed too. A window of 300 pixels holds one column and
one of 620 several; the architectures are that of a Llama (`model` with
`embed_tokens`, two layers of `self_attn` with four projections, `mlp` with
three and two norms, `norm`, then `lm_head`), a decoder of equal blocks without
alike siblings, and one without blocks, none of them deeper than `MaxDepth` =
5. Deadlock is not checked in the views: their steps are bounded.

The safety properties are about the seams between those transactions:

* `OneOpenAttempt`, `FallbackIsIdle`: `accept_fallback` inserts an attempt
  without looking at the previous one. It is sound because of what happened
  several transactions, and perhaps a restart, earlier.
* `CostIsWhole`, `CompletedIsWhole`: the terminal sequence closes, sums, skips
  and writes in four transactions; a failed fallback attempt must be in the sum.
* `AnchorIsCurrent`, `GpuInSync`: `started_at` and the GPU are reset per
  attempt while older trainers and the config on disk still know the old ones.
* `NewestTaskRegistered`: the done callback of an old task must not evict the
  new one.
* `RecoveryIsThorough`: after recovery the only runs still shown as running are
  local ones whose trainer had started.
* `KeepsLedger`: every step of `RunLifecycle` is a step of `AttemptLedger` or
  changes nothing it sees.

Those of the views are about what a user is shown or may ask for, while answers
and events are late:

* `OwnEventsOnly`, `ShownIsOfSelectedRun`: what is live on a page is of the run
  it is shown under, whatever was selected when it was sent.
* `MetricsShownOnce`: query and socket, and a second socket, deliver the same
  step; the chart merges them.
* `EventsInvalidate`, `EvalEventsInvalidate`, `AnsweredIsShown`,
  `OwnSaveFollowed`: after an event or an answer told the page of a change, no
  list keeps the older state as up to date, though a fetch begun before may
  still answer.
* `OfferedIsAccepted`, `GpuChosenIsCandidate`, `SanitizeAccepted`: what a page
  offers on current data is what the server accepts, its checks of checkpoint,
  environment and cost included. Three offers are excepted because the server
  refuses them: the banner's Stop on a run that waits for a fallback, Resume of
  a run on Modal (`run_service.py:212-213`; the pages do not look at the
  environment), and Resume of a run none of whose checkpoints the page knows
  (209-210). What the fallback dialog would send is a GPU it shows: one of the
  chain, within the cap, not the one that failed; it may well be a smaller one.
* `LaunchedAsShown`, `RollbackNamesItsSource`: a launch saves first and a
  restore names its source, across a chain of answers.
* `CapRespected`, `RowsAddUp`: the ceiling is checked after a call was paid; the
  case table and the header are computed apart.
* `OneVoiceSession`, `EntriesKeyed`, `ToastRemovalIsOwn`: timers, expiries and
  sockets that outlive what they were started for.
* `PresetDecides`, `CurveCompletes`, `FlowAddsUp`, `DrawnInside`: pure parts. A
  preset is compared with the trainer's own derivation of the method from the
  whole configuration, the flow with the tree it was flattened from: the totals
  of its columns and the parameters of the siblings they leave out (`LeftOut`)
  are those of all leaves. `DrawnInside` is about cards, arrows and ticks. Not
  claimed: that an arrow on its way back to the left edge passes no card. It
  does so halfway between the middles of two cards, where a card of the row
  that is higher than they are may be in front of it.
* `StreamRecovers`, `ServingSettles`: liveness, below.

**Fairness** (`FairSpec`, used by `life_live` only). Requests and tasks progress
(`WF`): the event loop runs what is ready, and a transaction gets the write
lock in the end. `TaskDrain` has strong fairness, since it is disabled while
the task is busy with a line and a pipe holds finitely many lines. A trainer
ends (`WF` of `TrainerExit`): training has a last step, and a Modal sandbox a
timeout. The backend is restarted (`WF` of `StartupStep`). No user action and
no fault is fair. `RunSettles` excepts local runs after a crash: see below.

`EvalView` adds weak fairness of each socket's connection (`Opened`,
`HandleSubscribe`) and of `Reconnect`: a server that is up accepts connections
and reads frames, and a timer that was set goes off. Losses are not fair and
are bounded, which is what "once the connections stay up" means.
`StreamRecovers` speaks of the channels the client remembers. `connect()`
returns early on an open socket (`ws/client.ts:35-37`) and forgets the channels
it was called with, so a page that is mounted while the socket of another one
is open is never subscribed; the property does not see that, nor the events
that a full queue drops (`EvalEventsInvalidate` speaks of what the page was
told). `WorkbenchView` adds weak fairness, per project, of the panel's poll and
its answer: an interval of the browser goes off and a request is answered.
Neither has fairness for a click.

## 6. Where the code departs from its documents

Seven statements are refuted by a run, each with the trace TLC prints:

* `doc_cancel`: `run_service.cancel_run` changes the row and never reaches the
  trainer. When the trainer fails later the task writes `failed` over
  `cancelled`, which `training_dispatcher.py:133-135` says does not happen.
  (`orchestrator.cancel_run`, which terminates the trainer, is called from
  nowhere.)
* `doc_recovery`: `watchdog.py:279-283` says skipping the stages shares a
  transaction with marking a run failed, so that no crash separates them. The
  first of the two helpers commits by itself; a crash in between leaves pending
  stages on a failed run, which no later recovery selects.
* `doc_orphans`: `run_service.py:181-184` deletes the children so that none
  becomes an orphan. A cancel changes the row only, after which a delete is
  accepted; the request or the task of the run goes on, spawns, dispatches a
  trainer, and inserts metric, artifact and weight rows for the deleted run. In
  TLC's trace both fall between the snapshot of `create_run` and its spawn.
* `doc_accept`: under strategy "auto" the task commits `fallback_pending` and
  accepts in a second transaction. An accept from the route in between makes
  the task's own accept raise, and its `except` clause writes `failed` over the
  run that the new task is training, against `orchestrator.py:1690-1692`.
  `CompletedIsFinal` therefore speaks of the other strategies.
* `doc_rehydrate`: the training page fills its form once
  (`training-page.tsx:110`) and never again. After a save in the YAML dialog the
  active configuration is fetched, the form keeps what it had, and its next save
  or launch writes the old values over the new version.
  `docs/superpowers/specs/2026-04-20-yaml-paste-and-versioning-design.md:18`
  says all form tabs re-hydrate.
* `doc_chain`: `_filter_fallback_candidates` (`orchestrator.py:1421-1444`)
  leaves out only the GPU that failed last. With two GPUs within the cap the
  automatic fallback never ends (`TwoNeverExhaust`), and the shipped chain alternates between l40s and
  a100-40gb. `test_oom_orchestrator.py:502-506` expects the chain to end, and
  `orchestrator.py:258-260` and the dialog speak of a larger GPU, while a retry
  after 48 GB is offered 40 GB.
* `doc_totals`: under each column of the flow stands `totalParams`. Of alike
  siblings a column lists the first (`flatten-to-flow-columns.ts:57-72`) and
  sums what it lists (139), so that of the projections of an attention block
  only `q_proj` is counted, and of those of the MLP `gate_proj`. For a Llama
  the number shown is far below that of its blocks, against "Parameter count by
  layer" (`SPEC.md:2013`). `FlowAddsUp` says by how much: exactly the siblings
  left out.

More are plain from the model and have no run of their own:

* No step watches a trainer after startup (`check_run_health` is never called),
  so a local trainer that outlives a restart leaves its run `running` for ever;
  `SPEC.md:1824-1826` describes a periodic watchdog. `RunSettles` has the
  exception this needs.
* A pending row inside the grace window is skipped (`RecoverSkip`) and never
  looked at again, the "forever-pending phantom" of `watchdog.py:323-326`.
* `resume_run` inserts a pending row with no attempt, stages or task (`Resume`);
  nothing launches it, though `SPEC.md:1858` says it starts.
* The weights page sends layer paths that begin with the root's own name
  (`Captured`); the backend looks them up in `named_modules()`, whose names do
  not, and passes over those it does not know (`causal_lm.py:178-183`). Every
  capture is empty, and so is every comparison of `SPEC.md:2018-2025`.
* The evaluation form sends no `project_id` (`api/eval.ts:273-288`), which
  `schemas/eval.py:65` requires and nothing else is allowed beside: the trigger
  of `improvement-plan-v4.md:201` is always refused (`EvalPage`).
* The query of the architecture never goes stale and resolving another model
  does not invalidate it: the weights page goes on drawing the old one.
* The palette's "Pause current run" and "Stop current run" only show a toast
  (`Shell`), and the dialog that resumes from a checkpoint ignores which one
  was chosen (`runs-page.tsx:397`).
* The training and adapters pages each write whole sections from the copy they
  were opened with, so what another page saved meanwhile is lost.
  `LaunchedAsShown` holds nevertheless: the launch names the version it saved.

## 7. What is proved

### The backend

TLAPS proves, for any number of runs, attempts, crashes, stages and GPUs, any
chain, any set of configurations, with or without faults and locked
transactions:

| theorem | | module |
|---|---|---|
| `OwnershipInvariant` | `Spec => []Ownership` | `RunLifecycleProofs` |
| `TypeCorrect` | `Spec => []TypeOK` | |
| `AttemptsAreOrdered` | `Spec => []OneOpenAttempt` | |
| `WaitingIsFree` | `Spec => []FallbackIsIdle` | |
| `BillsAreWhole` | `Spec => []CostIsWhole` | |
| `CompletionIsWhole` | `Spec => []CompletedIsWhole` | |
| `GpusAgree` | `Spec => []GpuInSync` | |
| `AnchorsAreCurrent` | `Spec => []AnchorIsCurrent` | |
| `RegistryIsCurrent` | `Spec => []NewestTaskRegistered` | |
| `AccountsAreKept` | `Spec => []Accounting` | |
| `ImplementsLedger` | `Spec => KeepsLedger`, that is `Ledger!Spec` under the mapping of `RunProperties` | |
| `HabitsAreKept` | `Spec => []Habits` | |
| `CompletionIsFinal` | `Spec => CompletedIsFinal`, for `Faults = FALSE` | |
| `RecoveryCoversAll` | `Spec => RecoveryIsThorough` | |
| `TwoNeverExhaust` | `Spec => []RetriesWithTwo`: with two GPUs within the cap the fallback never ends (`doc_chain`), for any chain, duration and cap | `FallbackChain` |

The only assumption about `RunLifecycle` is its `ConstantsAssumption` (the
constants have their types and `NoRun`, `NoGpu` are fresh), which TLC
evaluates; `FallbackChain` has none. `Faults = FALSE` is needed for
`CompletionIsFinal` because a fault between the commit of `completed` and the
end of the task sends it to its except clause, which writes `failed` over it;
the run `life_live`, which checks the property, has the same restriction.

**Ownership.** None of these invariants is inductive. `accept_fallback`
checks the status and nothing else, so why is there no open attempt, no live
trainer and no second task at that moment? Because at most one *owner* works on
a run: the request that is about to spawn a task, or a task that has not yet
decided its outcome (`Owner`, `OneOwner`), and it works on the newest attempt.
Only an owner writes `fallback_pending`, after closing that attempt and after
its trainer ended, and by doing so it stops being one (`Resting`). An old task
may still be anywhere behind that point, the refused accept of section 6
included; it can spoil the status, but own nothing. The same holds for a run
that was billed (`Billed`). The rest of `Ownership` ties the registries, the
GPUs, `started_at` and the startup passes to the owner.

That steps preserve types is proved with one leaf per action; typing needs
ownership in two places (the attempt a spawn takes its GPU from, and the
verdict of an ended trainer). A step is *quiet* for a run when nothing of it is
new, and *calm* when moreover nothing is decided. `QuietStructure` and the
`...Kept` lemmas show once that such steps keep the invariant; the lemmas
`RequestCalm`, `EventCalm`, `TaskCalm`, `RecoveryCalm` and `BootCalm` show
action by action that most steps are of this kind, for their own run and for
the others. Each remaining action has a lemma about the part it decides:
`EnteredInv`, `RollUpInv`, `ProposeInv`, `VerdictInv`, `CancelFallbackInv`,
`SweepStatusInv`, `CreateInv`, `DeleteInv`, `AcceptInv`, `SpawnInv`. `BootStep`
covers the startup passes.

**The ledger.** The mapping shows of a run its attempts, who works, whether it
is gone, and its bill. Ownership says too little for it: it speaks of runs that
exist, while the trainer and the task of a deleted run live on, and the ledger
counts them. `Accounting` adds that a live trainer is alone and nobody owns
another attempt, also after deletion (`OneWorker`), that an attempt is open as
long as its owner works on it (`OpenWhileWorking`), that a run waiting for a
decision has an attempt (`Tried`), and that deletion leaves none (`Dropped`).
Then `UnseenStep` covers the steps the ledger does not see, and `CreateRefines`,
`DispatchRefines`, `ExitRefines`, `CloseRefines`, `AcceptRefines`,
`BillRefines`, `VerdictRefines`, `GiveUpRefines` and `DeleteRefines` show each
of the others to be one step of the ledger. `CloseRefines` is the one with two
cases: the close of a deleted run's attempt is an `UPDATE` that matches no row.

**Action properties.** A completed run has no owner (`Billed`), a fallback is
decided only on a run that waits, and what is left is a task on its way to its
except clause. `Automatic` says how it got there: by a fault, or because an
automatic fallback was refused. `RecoveryIsThorough` needs `Recovered`: while
recovery runs, a row still `running` either has not been looked at or is a
local run whose trainer had started.

### The views

For any number of projects, runs, evaluation runs, versions, rows, sockets,
GPUs, training steps, cases, rubrics and bounded steps, any ceiling and any
percentages, any set of module trees of any depth, and any window:

| theorem | | module |
|---|---|---|
| `EvalViewIsKept` | `Spec => []EvalInv` | `EvalViewProofs` |
| `EvalTypesAreKept` | `Spec => []TypeOK` | |
| `OnlySelectedIsShown` | `Spec => []ShownIsOfSelectedRun` | |
| `CapIsRespected` | `Spec => []CapRespected` | |
| `EvalEventsReachThePage` | `Spec => []EvalEventsInvalidate` | |
| `NoTriggerIsAccepted` | no request to create an evaluation run is accepted (section 6) | |
| `CostsAddUp` | `Spec => []RowsAddUp` | |
| `RunsViewIsKept` | `Spec => []RunsInv` | `RunsViewProofs` |
| `RunsTypesAreKept` | `Spec => []TypeOK` | |
| `RunsKeepTheirEvents` | `Spec => []OwnEventsOnly` | |
| `RunEventsReachThePage` | `Spec => []EventsInvalidate` | |
| `DialogOffersItsChoice` | `Spec => []GpuChosenIsCandidate` | |
| `OffersAreTrue` | `Spec => []OfferedIsAccepted` | |
| `ChartsShowEachStepOnce` | `Spec => []MetricsShownOnce` | |
| `WorkbenchIsKept` | `Spec => []WorkInv` | `WorkbenchViewProofs` |
| `WorkbenchTypesAreKept` | `Spec => []TypeOK` | |
| `LaunchesAreAsShown` | `Spec => []LaunchedAsShown` | |
| `RollbacksNameTheirSource` | `Spec => []RollbackNamesItsSource` | |
| `SavesAreFollowed` | `Spec => []OwnSaveFollowed` | |
| `AnswersAreShown` | `Spec => []AnsweredIsShown` | |
| `PresetsDecide` | `Spec => []PresetDecides` | |
| `SanitizesAreAccepted` | `Spec => []SanitizeAccepted` | |
| `VoiceIsExclusive` | `Spec => []OneVoiceSession` | |
| `EntriesHaveTheirKeys` | `Spec => []EntriesKeyed` | |
| `CurvesComplete` | `Spec => []CurveCompletes` | |
| `ToastsStay` | `Spec => ToastRemovalIsOwn` | |
| `DrawingIsKept` | `Spec => [](WorkInv /\ DrawingOK)` | |
| `FlowsAddUp` | `Spec => []FlowAddsUp` | |
| `CardsAreInside` | `Spec => []DrawnInside` | |

The assumptions are those the modules state beside their constants, each
evaluated by TLC on the runs: types (`SocketAssumption`, `ServerAssumption`,
`EvalAssumption`, `FormAssumption`, `ChannelAssumption`, `ProjectAssumption`,
`TourAssumption`, `PercentsAssumption`, `VoiceAssumption`); a live buffer of at
least one point (`StreamAssumption`; the code keeps 5000); finitely many
projects and fewer of them than versions the instance has room for
(`ConfigAssumption`); lists with room for two rows (`TableAssumption`); widths
that are natural numbers (`WidthAssumption`); module trees that nest modules in
modules down to a depth and whose root is not a bare layer
(`ArchitectureAssumption`: `introspection.py:43-80` walks `named_children()` of
a model, and every model the adapters load has some); and that the tour of the
shell visits nothing else (`ShellAssumption`), which is a choice of the
instance, not of the code: the shell shares no state with the pages but the
toasts.

**What the page knows.** The properties that relate a page to its server all
have the same enemy: an answer asked for before something changed and shown
after. The invariants therefore speak of what is on its way. An event in the
queue of a socket is true of its run (`EventsOK`) and stays true, because rows
only move in one direction (`Onward`: metrics and checkpoints are kept until
deletion, an end is final, calls only grow in number). What the page was told
is then true as well (`ToldOK`), and an answer, arrived or not, that is not
marked was asked for afterwards and includes it: the event marks the older
answer and drops the older request in one step, `Invalidated` of `QueryCache`.
`SocketProofs` has the part every page shares: which events can be in a queue
after a step of the socket, and what the cache's operations keep.

**The ceiling.** `CapRespected` needs `CursorsOK`: without its last call a run
is below its ceiling, and a run at its ceiling was warned.

**Configuration and lists.** Versions are only appended, so what a request, a
cache entry or a dialog says of one stays true; the active version of a project
is its latest, so an answer that was asked for after a save has it or a later
one (`CfgOK`). `TablesOK` is the same for the rows of a list and `ServingOK` for
the panel. `UiOK` says that a request still watched was sent by the page in
front, which is why an answer can set the launch dialog or the editor without
asking where it is: react-query drops the callbacks of an unmounted page.

**The voice lock.** `OneVoiceSession` alone is not inductive: a session that
waits for its socket may be overtaken. `VoiceOK` adds that waiting and living
sessions are the holder of the lock, and that no two starts, sockets or pending
answers name the same session.

**Induction over data.** Three properties say what a computation yields for data
of any size: the costs of the rows of a table, the columns of a tree, the cards
of a grid. The library states induction for an operator, which none of the
installed provers can instantiate, but an operator is not needed where the
subject is a set. `DataInduction` takes from the library only that the order of
the numbers is well founded, and restates it: a non-empty set of numbers has a
least element (`LeastElement`), a set that has what its members' predecessors
imply is everything (`RankInduction`, `SetInduction`). From these follow that a
loop (`upto[k]` from `upto[k - 1]`) has a value at each k (`Loop`), that a
function which asks only for what is of lower rank is well defined
(`Recursion`), and the sums: a sum over a set is the sum of the sums over the
parts it is divided into, whatever order it is taken in.

`CostsAddUp` needs that sum over the cases, each with the calls under all
rubrics. Its invariant, `AllAccounted`, says of every row of the server and of
every detail in the cache that what was spent is the sum of the calls it has
and, once it is completed, that the total is what was spent: no call is made
after the status is written, and an answer is a copy of one state of the
server.

**The flow.** `DrawingOK` adds to `WorkInv` that a cached, or awaited,
architecture is one that the server resolves and that the state of the page has
a width of a window, whatever is clicked, captured, invalidated or answered
late (`WeightsClicks`, `DrawingStep`; TLC found it true of the 593,425 states
of `workbench` first). What is left is about `FlowFigure` and is proved in
`FlowProofs` for any tree. A module is of higher rank than its children, so
`CollectColumnNodes`, `ExpandNodesToColumns`, `LeafParams`, `Unlisted`,
`LeftOut` and `Even` have values. The loop of `groupByFingerprint` keeps that
the groups, one after the other, are the nodes so far and that each has a
member (`Groups`), hence a sum over the nodes is the sum over the groups. By
induction over rank the rows of a module and its unlisted siblings are its
leaves (`RowsCount`), and a column, that of a run counted as often as it has
members, with what it leaves out, is all leaves of the run (`RepeatedRows`,
`RunAddsUp`, `ColumnsAddUp`). The condition `Even` says that repeated blocks
have the same number of parameters each: fingerprints compare types and names
of children and not their sizes, so a column of blocks of several sizes is the
first of them times their number. In the models the adapters load the layers of
a stack are of one size. What `doc_totals` refutes is the same statement
without `LeftOut`. Parameters that a container holds itself are on its header
and in no total (`SumLeafParams`).

For the cards: two in one row differ in column and are a gap apart; of two in
different rows the lower one is below the highest of the upper row, because the
tops of the rows are sums of the heights before (`CardsApart`, `CardWithin`).
For the arrows: within a row both ends are in the gap between two cards; an
arrow to the next row goes down in the right gutter, back between the rows and
down in the left one, and has room for its corners because the middle of the
upper card is at least a card's half, the gap of the rows and another half
above that of the lower one (`EndsOfArrow`, `ArrowsFit`); the gutters are
beside all cards (`GuttersBeside`). For the ticks: with at most as many ticks
as layers the rounded positions are at least one apart (`TicksOf`).

**Numbers.** `CurvesComplete` and `SanitizesAreAccepted` are arithmetic with
division and need the bounds step by step; `DrawnFits` is the lemma that keeps
each drawn point inside.

**What the proofs changed.** Trying to prove them showed places where the model
could not be reasoned about or said too little. The cases of one guard
overlapped (`HandledKeys`: `CASE` with two true guards may take either, so they
are disjoint now); the spending of an evaluation was a sum computed again in
every state and is the accumulator the code has (`spent`, `eval_runner.py`);
requests of different kinds had different fields; the runs of siblings were
found by the indices at which one starts, and are the loop the code has
(`Grouped`). The invariant of the voice lock had to be strengthened with what
it says of sockets and of distinct sessions. `WorkInv` was checked by TLC on
all 593,425 states of the instance `workbench` before it was proved.

### Only model-checked

* Liveness: `RunSettles`, `StreamRecovers`, `ServingSettles`. It is out of the prover's reach, as is anything about `ENABLED`.
* The statements of documents that the code does not keep (section 6): they are
  false.

## 8. What is not modelled

* Data: metric values, artifact contents, prompts, log lines, the text of
  events, dollar amounts of actual spend, config validation.
* `orchestrator.cancel_run`, `pause_run`, `resume_run`,
  `watchdog.check_run_health` and `run_service.create_run`: nothing calls them.
* The libraries: PyTorch, Modal, MLX, Pipecat, the language-model providers.
  Where the code's control depends on them their outcomes are choices.
* Row and file work behind the pages: parsing and downloading datasets and
  models, conversion of weights, checkpoint files, weight statistics; the
  command-line tools, benchmarks, migrations.
* Judges and rubrics: calls of a language model, and loading in a transaction.
* In the browser: charts, tables and cards that only draw, sorting, filters and
  search, layout other than the flow's, texts and most toasts; the weights
  explorer's tabs of parameters, run weights and expert mode. Some components
  and one hook are used by no page and left out for that reason (the artifact
  table, drawer panels, token statistics chart, `hooks/use-stream.ts` and
  others).
* The settings and compare pages: one form with one save, and tables over two
  finished runs.
* A second WebSocket of one voice session. On the server it would finalize a
  session that is still booting and free its lock (`voice_service.py:180-196`);
  the browser opens one socket for each session it creates.
* What only the server's validation of a run reads (data policy, budget,
  credentials, the redacted rows of a run on Modal): a Start that fails on them
  is a request that is refused, which `RunsPage` has for the cost cap.

## 9. Plan

Done: sections 3 to 7. Next:

1. Proofs. Every invariant and action property of the passing runs is proved.
   What is left is to prove with each of the modules below what it adds, and the
   abstract specifications at the end of this section.
2. `SessionLocks`: sessions as holders of the write lock. The nested snapshot
   session of `create_run` (orchestrator 279), the auto-analysis that keeps the
   lock across a model call (1090), and the claim about read-only sessions in
   `database.py:69-70`. Discharges `NestedTx`.
3. `ModalBridge` and `CheckpointStore`: sandbox, pump and queue, cancel against
   results; checkpoint writer, completion marker, retention, recovery's choice
   of a checkpoint. Composes with `RunLifecycle` through trainer endings.
4. Startup and shutdown of `EvalRunner`: recovery of stale evaluation runs and
   the drain; version numbers of rubrics under concurrent loaders.
5. Drain tasks and the bridge of the model server.

Abstract specifications worth stating: `AttemptLedger` (done); a capacity lease
that `ServingPanel` and `VoiceSession` implement; a spending account for
`EvalRunner`; an at-most-once lossy channel for `RunSocket`.
