---------------------------- MODULE RunLifecycle ----------------------------
(***************************************************************************)
(* The life of a training run in the workbench backend: the rows of the    *)
(* database (runs, run_attempts, run_stages), the REST handlers that       *)
(* change them, the orchestration tasks of services/orchestrator.py, the   *)
(* trainer processes those tasks watch, the out-of-memory fallback, a      *)
(* crash of the backend and the recovery and sweep done when it restarts.  *)
(*                                                                         *)
(* One action is one database transaction, or one step between two awaits  *)
(* that changes memory.  database.py opens every transaction with BEGIN    *)
(* IMMEDIATE, so a session block, reads included, is a critical section    *)
(* (database.py:27-81); between two blocks anything may happen.            *)
(*                                                                         *)
(* An attempt and the task that runs it are created together (create_run:  *)
(* attempt 0; accept_fallback: the next one), so a task and a trainer are  *)
(* named by their run and attempt index.                                   *)
(*                                                                         *)
(* Left out: metric, artifact, notification and decision-log rows (but for *)
(* whether a deleted run is given new ones), log lines, WebSocket events,  *)
(* the amounts of costs (which attempts a roll-up covers is kept), and     *)
(* orchestrator.cancel_run, pause_run, resume_run and                      *)
(* watchdog.check_run_health, which nothing calls.                         *)
(***************************************************************************)
EXTENDS Integers, Sequences, FallbackPolicy

CONSTANTS
    Runs,         \* run identifiers
    Fresh,        \* bound: the runs requests create; others are only resumed
    NoRun,        \* no run
    MaxAttempts,  \* bound: attempts of one run (the code has none)
    MaxCrashes,   \* bound: crashes of the backend
    Stages,       \* names of pipeline stages (14 in the code)
    GPUs,         \* the Modal GPU catalog
    NoGpu,        \* modal_gpu_type of a local run
    Chain,        \* execution.modal_oom_fallback.chain
    Affordable,   \* GPUs whose worst-case spend is within the hard cap
    Configs,      \* environment, GPU and fallback strategy of the runs created
    NestedTx,     \* what happens to a transaction opened inside another one
    Faults        \* TRUE: any transaction of a task may raise

Attempts == 0 .. (MaxAttempts - 1)
None == -1
\* execution.modal_oom_fallback.strategy
Strategies == {"ask", "auto", "disabled"}

ASSUME ConstantsAssumption ==
    /\ MaxAttempts \in Nat \ {0}
    /\ MaxCrashes \in Nat
    /\ Fresh \subseteq Runs
    /\ NoRun \notin Runs
    /\ NoGpu \notin GPUs
    /\ Chain \in Seq(GPUs)
    /\ Affordable \subseteq GPUs
    /\ Configs \subseteq {"local", "modal"} \X (GPUs \cup {NoGpu})
                                            \X Strategies
    /\ NestedTx \subseteq {"ok", "locked"}
    /\ Faults \in BOOLEAN

VARIABLES
    \* the database
    status,      \* runs.status; "none": never inserted, "deleted": row gone
    env,         \* runs.environment
    gpu,         \* runs.modal_gpu_type
    strategy,    \* the fallback strategy of the run's configuration
    started,     \* attempt whose stage_enter set runs.started_at, or None
    pid,         \* runs.pid is recorded
    ckpt,        \* runs.last_checkpoint_path is recorded
    cost,        \* attempts summed in runs.cost_usd; {}: NULL
    att,         \* run_attempts: "none", "open" or the exit_reason
    attGpu,      \* run_attempts.gpu_type
    stage,       \* run_stages.status; "absent": no row
    orphans,     \* deleted runs that were given new child rows
    \* the trainers
    trainer,     \* "none", "live", or how it ended
    \* the memory of the backend
    task,        \* control point of the orchestration task of an attempt
    taskGpu,     \* its execution_cfg.modal_gpu_type, passed to the trainer
    tally,       \* its local cost_usd
    request,     \* what an unfinished REST request of the run does next
    respawn,     \* attempt accept_fallback committed and has not spawned
    activeTask,  \* orchestrator._active_tasks
    activeProc,  \* orchestrator._active_processes
    \* the backend
    up,          \* "down", "recovering", "sweeping", "serving"
    todo,        \* rows selected by the current startup pass
    cur,         \* the row that pass is in the middle of, or NoRun
    bootPc,      \* what it does next to that row
    bootTally,   \* the sweep's local cost_usd
    crashes      \* crashes so far

setup  == <<env, gpu, strategy>>
dbRun  == <<status, setup, started, pid, ckpt, cost>>
dbAtt  == <<att, attGpu>>
dbKids == <<stage, orphans>>
db     == <<dbRun, dbAtt, dbKids>>
locals == <<taskGpu, tally>>
calls  == <<request, respawn>>
registry == <<activeTask, activeProc>>
heap   == <<locals, calls, registry>>
memory == <<task, heap>>
boot   == <<up, todo, cur, bootPc, bootTally, crashes>>
vars   == <<db, trainer, memory, boot>>

RowStatus   == {"pending", "running", "paused", "fallback_pending",
                "completed", "failed", "cancelled"}
Terminal    == {"completed", "failed", "cancelled"}
ExitReasons == {"completed", "cancelled", "failed", "oom",
                "oom_fallback_abandoned", "oom_user_cancelled"}
Endings     == {"completed", "cancelled", "failed", "oom"}
\* control points inside the try block of _run_trainer_subprocess
Guarded     == {"dispatch", "register", "read", "entered", "saved", "close",
                "oomclose", "propose", "accept", "spawn", "sum", "skip",
                "status", "post"}
TaskPoints  == Guarded \cup {"none", "start", "prepare", "fail",
                             "finished", "done", "lost"}

RowType ==
    /\ status \in [Runs -> RowStatus \cup {"none", "deleted"}]
    /\ env \in [Runs -> {"local", "modal"}]
    /\ gpu \in [Runs -> GPUs \cup {NoGpu}]
    /\ strategy \in [Runs -> Strategies]
    /\ started \in [Runs -> Attempts \cup {None}]
    /\ pid \in [Runs -> BOOLEAN]
    /\ ckpt \in [Runs -> BOOLEAN]
    /\ cost \in [Runs -> SUBSET Attempts]

AttemptType ==
    /\ att \in [Runs -> [Attempts -> ExitReasons \cup {"none", "open"}]]
    /\ attGpu \in [Runs -> [Attempts -> GPUs \cup {NoGpu}]]
    /\ stage \in [Runs -> [Stages -> {"absent", "pending", "running",
                                      "completed", "failed", "skipped"}]]
    /\ orphans \subseteq Runs
    /\ trainer \in [Runs -> [Attempts -> Endings \cup {"none", "live"}]]

MemoryType ==
    /\ task \in [Runs -> [Attempts -> TaskPoints]]
    /\ taskGpu \in [Runs -> [Attempts -> GPUs \cup {NoGpu}]]
    /\ tally \in [Runs -> [Attempts -> SUBSET Attempts]]
    /\ request \in [Runs -> {"none", "snapshot", "launch", "respawn", "skip"}]
    /\ respawn \in [Runs -> Attempts \cup {None}]
    /\ activeTask \in [Runs -> Attempts \cup {None}]
    /\ activeProc \in [Runs -> Attempts \cup {None}]

BootType ==
    /\ up \in {"down", "recovering", "sweeping", "serving"}
    /\ todo \subseteq Runs
    /\ cur \in Runs \cup {NoRun}
    /\ bootPc \in {"idle", "second", "sum", "skip", "status"}
    /\ bootTally \in SUBSET Attempts
    /\ crashes \in 0 .. MaxCrashes

TypeOK == RowType /\ AttemptType /\ MemoryType /\ BootType

Init ==
    /\ status = [r \in Runs |-> "none"]
    /\ env = [r \in Runs |-> "local"]
    /\ gpu = [r \in Runs |-> NoGpu]
    /\ strategy = [r \in Runs |-> "ask"]
    /\ started = [r \in Runs |-> None]
    /\ pid = [r \in Runs |-> FALSE]
    /\ ckpt = [r \in Runs |-> FALSE]
    /\ cost = [r \in Runs |-> {}]
    /\ att = [r \in Runs |-> [i \in Attempts |-> "none"]]
    /\ attGpu = [r \in Runs |-> [i \in Attempts |-> NoGpu]]
    /\ stage = [r \in Runs |-> [s \in Stages |-> "absent"]]
    /\ orphans = {}
    /\ trainer = [r \in Runs |-> [i \in Attempts |-> "none"]]
    /\ task = [r \in Runs |-> [i \in Attempts |-> "none"]]
    /\ taskGpu = [r \in Runs |-> [i \in Attempts |-> NoGpu]]
    /\ tally = [r \in Runs |-> [i \in Attempts |-> {}]]
    /\ request = [r \in Runs |-> "none"]
    /\ respawn = [r \in Runs |-> None]
    /\ activeTask = [r \in Runs |-> None]
    /\ activeProc = [r \in Runs |-> None]
    /\ up = "serving"
    /\ todo = {}
    /\ cur = NoRun
    /\ bootPc = "idle"
    /\ bootTally = {}
    /\ crashes = 0

-----------------------------------------------------------------------------
(* Rows *)

HasRow(r) == status[r] \in RowStatus

\* _update_run_status: the new status is written whatever the old one was;
\* a row that is gone is left gone
Write(r, s) == IF HasRow(r) THEN [status EXCEPT ![r] = s] ELSE status

Existing(r) == {i \in Attempts : att[r][i] # "none"}

\* _load_current_attempt: the row with the highest index
IsCurrent(r, i) ==
    /\ att[r][i] # "none"
    /\ \A j \in Attempts : j > i => att[r][j] = "none"

\* _next_attempt_index: one more than the highest index
IsNext(r, n) ==
    /\ \A i \in Attempts : i >= n => att[r][i] = "none"
    /\ n > 0 => att[r][n - 1] # "none"

\* _close_current_attempt: an attempt that is closed already is left alone
CloseCurrent(r, reason) ==
    att' = [att EXCEPT ![r] = [i \in Attempts |->
               IF IsCurrent(r, i) /\ att[r][i] = "open"
               THEN reason ELSE att[r][i]]]

\* mutants of CloseOom: the run's failure reason instead of the attempt's, and
\* a forgotten close
CloseOomWrongReason(r) ==
    att' = [att EXCEPT ![r] = [i \in Attempts |->
               IF IsCurrent(r, i) THEN "oom_chain_exhausted" ELSE att[r][i]]]

CloseOomForgotten(r) == att' = att

\* _close_failed_attempt: whatever the attempt was
CloseOom(r) ==
    att' = [att EXCEPT ![r] = [i \in Attempts |->
               IF IsCurrent(r, i) THEN "oom" ELSE att[r][i]]]

\* _mark_pending_stages_skipped
SkipPending(r) ==
    stage' = [stage EXCEPT ![r] = [s \in Stages |->
                 IF stage[r][s] = "pending" THEN "skipped" ELSE stage[r][s]]]

\* a metric, artifact or weight row inserted for run r
InsertChild(r) ==
    orphans' = IF status[r] = "deleted" THEN orphans \cup {r} ELSE orphans

-----------------------------------------------------------------------------
(* REST requests *)

\* create_run, first transaction: the run, its stages and its attempt 0.
\* _validate_execution_for_run refuses a GPU beyond the cost cap.
Create(r) ==
    /\ up = "serving"
    /\ r \in Fresh
    /\ status[r] = "none"
    /\ \E c \in Configs :
          /\ IF c[1] = "modal" THEN c[2] \in Affordable ELSE c[2] = NoGpu
          /\ env' = [env EXCEPT ![r] = c[1]]
          /\ gpu' = [gpu EXCEPT ![r] = c[2]]
          /\ attGpu' = [attGpu EXCEPT ![r][0] = c[2]]
          /\ strategy' = [strategy EXCEPT ![r] = c[3]]
    /\ status' = [status EXCEPT ![r] = "pending"]
    /\ att' = [att EXCEPT ![r][0] = "open"]
    /\ stage' = [stage EXCEPT ![r] = [s \in Stages |-> "pending"]]
    /\ request' = [request EXCEPT ![r] = "snapshot"]
    /\ UNCHANGED <<started, pid, ckpt, cost, orphans, trainer, task, locals,
                   respawn, registry, boot>>

\* session.refresh(run) begins a transaction that lasts until the notification
\* is committed; the snapshot is inserted by another session, inside it
SnapshotWritten(r) ==
    /\ request[r] = "snapshot"
    /\ HasRow(r)
    /\ "ok" \in NestedTx
    /\ request' = [request EXCEPT ![r] = "launch"]
    /\ UNCHANGED <<db, trainer, task, locals, respawn, registry, boot>>

\* refresh finds no row, or the other session "database is locked": the
\* request fails and the row stays as it is
SnapshotFails(r) ==
    /\ request[r] = "snapshot"
    /\ ~HasRow(r) \/ "locked" \in NestedTx
    /\ request' = [request EXCEPT ![r] = "none"]
    /\ UNCHANGED <<db, trainer, task, locals, respawn, registry, boot>>

\* asyncio.create_task and _active_tasks[run_id] = task, points being where
\* the other tasks of the run are by then
Spawn(r, i, g, points) ==
    /\ task' = [task EXCEPT ![r] = [points EXCEPT ![i] = "start"]]
    /\ taskGpu' = [taskGpu EXCEPT ![r][i] = g]
    /\ activeTask' = [activeTask EXCEPT ![r] = i]

\* create_run: the task of attempt 0, with the GPU of the configuration
Launch(r) ==
    /\ request[r] = "launch"
    /\ Spawn(r, 0, attGpu[r][0], task[r])
    /\ request' = [request EXCEPT ![r] = "none"]
    /\ UNCHANGED <<db, trainer, tally, respawn, activeProc, boot>>

\* mutant of Cancel: a completed run may be cancelled
CancelAny(r) ==
    /\ up = "serving"
    /\ status[r] \in {"pending", "running", "paused", "completed"}
    /\ status' = [status EXCEPT ![r] = "cancelled"]
    /\ UNCHANGED <<setup, started, pid, ckpt, cost, dbAtt, dbKids, trainer,
                   memory, boot>>

\* run_service.cancel_run: only the row changes
Cancel(r) ==
    /\ up = "serving"
    /\ status[r] \in {"pending", "running", "paused"}
    /\ status' = [status EXCEPT ![r] = "cancelled"]
    /\ UNCHANGED <<setup, started, pid, ckpt, cost, dbAtt, dbKids, trainer,
                   memory, boot>>

\* run_service.pause_run: only the row changes
Pause(r) ==
    /\ up = "serving"
    /\ status[r] = "running"
    /\ status' = [status EXCEPT ![r] = "paused"]
    /\ UNCHANGED <<setup, started, pid, ckpt, cost, dbAtt, dbKids, trainer,
                   memory, boot>>

\* run_service.resume_run: a pending child c with no stage, attempt or task
Resume(r, c) ==
    /\ up = "serving"
    /\ status[r] \in {"failed", "cancelled", "paused", "completed"}
    /\ ckpt[r]
    /\ env[r] = "local"
    /\ status[c] = "none"
    /\ status' = [status EXCEPT ![c] = "pending"]
    /\ UNCHANGED <<setup, started, pid, ckpt, cost, dbAtt, dbKids, trainer,
                   memory, boot>>

\* run_service.delete_run: the row, its stages and its attempts
Delete(r) ==
    /\ up = "serving"
    /\ status[r] \in Terminal
    /\ status' = [status EXCEPT ![r] = "deleted"]
    /\ att' = [att EXCEPT ![r] = [i \in Attempts |-> "none"]]
    /\ stage' = [stage EXCEPT ![r] = [s \in Stages |-> "absent"]]
    /\ UNCHANGED <<setup, started, pid, ckpt, cost, attGpu, orphans, trainer,
                   memory, boot>>

\* mutants of Accept: started_at is not reset; the status is not checked
AcceptKeepsAnchor(r, g, n) ==
    /\ status[r] = "fallback_pending"
    /\ g \in Affordable
    /\ g # gpu[r]
    /\ IsNext(r, n)
    /\ att' = [att EXCEPT ![r][n] = "open"]
    /\ attGpu' = [attGpu EXCEPT ![r][n] = g]
    /\ gpu' = [gpu EXCEPT ![r] = g]
    /\ status' = [status EXCEPT ![r] = "running"]
    /\ respawn' = [respawn EXCEPT ![r] = n]
    /\ UNCHANGED <<env, strategy, started, pid, ckpt, cost, dbKids>>

AcceptAnyStatus(r, g, n) ==
    /\ HasRow(r)
    /\ g \in Affordable
    /\ g # gpu[r]
    /\ IsNext(r, n)
    /\ att' = [att EXCEPT ![r][n] = "open"]
    /\ attGpu' = [attGpu EXCEPT ![r][n] = g]
    /\ gpu' = [gpu EXCEPT ![r] = g]
    /\ status' = [status EXCEPT ![r] = "running"]
    /\ started' = [started EXCEPT ![r] = None]
    /\ respawn' = [respawn EXCEPT ![r] = n]
    /\ UNCHANGED <<env, strategy, pid, ckpt, cost, dbKids>>

\* accept_fallback up to its commit: guards, then attempt n on GPU g
Accept(r, g, n) ==
    /\ status[r] = "fallback_pending"
    /\ g \in Affordable
    /\ g # gpu[r]
    /\ IsNext(r, n)
    /\ att' = [att EXCEPT ![r][n] = "open"]
    /\ attGpu' = [attGpu EXCEPT ![r][n] = g]
    /\ gpu' = [gpu EXCEPT ![r] = g]
    /\ status' = [status EXCEPT ![r] = "running"]
    /\ started' = [started EXCEPT ![r] = None]
    /\ respawn' = [respawn EXCEPT ![r] = n]
    /\ UNCHANGED <<env, strategy, pid, ckpt, cost, dbKids>>

AcceptFallback(r) ==
    /\ up = "serving"
    /\ \E g \in GPUs, n \in Attempts : Accept(r, g, n)
    /\ request' = [request EXCEPT ![r] = "respawn"]
    /\ UNCHANGED <<trainer, task, locals, registry, boot>>

\* mutant of SpawnAccepted: without gpu_type_override the task would take the
\* GPU of the stored configuration
SpawnAcceptedConfigGpu(r, points) ==
    /\ Spawn(r, respawn[r], attGpu[r][0], points)
    /\ respawn' = [respawn EXCEPT ![r] = None]

\* the rest of accept_fallback: _spawn_trainer_task with gpu_type_override
SpawnAccepted(r, points) ==
    /\ Spawn(r, respawn[r], attGpu[r][respawn[r]], points)
    /\ respawn' = [respawn EXCEPT ![r] = None]

Respawn(r) ==
    /\ request[r] = "respawn"
    /\ SpawnAccepted(r, task[r])
    /\ request' = [request EXCEPT ![r] = "none"]
    /\ UNCHANGED <<db, trainer, tally, activeProc, boot>>

\* cancel_fallback up to the commit of the row.  It would close an open attempt
\* in a transaction of its own; that there is none is FallbackIsIdle, and then
\* this is one transaction.  Its roll-ups open sessions of their own inside it;
\* when they are locked out nothing changes.
CancelFallback(r) ==
    /\ up = "serving"
    /\ status[r] = "fallback_pending"
    /\ \A i \in Attempts : IsCurrent(r, i) => att[r][i] # "open"
    /\ "ok" \in NestedTx
    /\ cost' = [cost EXCEPT ![r] = Existing(r)]
    /\ status' = [status EXCEPT ![r] = "failed"]
    /\ request' = [request EXCEPT ![r] = "skip"]
    /\ UNCHANGED <<setup, started, pid, ckpt, dbAtt, dbKids, trainer, task,
                   locals, respawn, registry, boot>>

\* the rest of cancel_fallback: _mark_pending_stages_skipped
SkipAfterCancel(r) ==
    /\ request[r] = "skip"
    /\ SkipPending(r)
    /\ request' = [request EXCEPT ![r] = "none"]
    /\ UNCHANGED <<dbRun, dbAtt, orphans, trainer, task, locals, respawn,
                   registry, boot>>

\* what follows the commit raises: the notification, the path of the
\* configuration or the stages; what was committed stays
RequestFails(r) ==
    /\ Faults
    /\ request[r] \in {"launch", "respawn", "skip"}
    /\ request' = [request EXCEPT ![r] = "none"]
    /\ respawn' = [respawn EXCEPT ![r] = IF request[r] = "respawn" THEN None ELSE @]
    /\ UNCHANGED <<db, trainer, task, locals, registry, boot>>

-----------------------------------------------------------------------------
(* The orchestration task: _run_trainer_subprocess *)

At(r, i, point) == task[r][i] = point
Goto(r, i, point) == task' = [task EXCEPT ![r][i] = point]

\* the first statement: status running, whatever happened since the spawn
TaskStart(r, i) ==
    /\ At(r, i, "start")
    /\ status' = Write(r, "running")
    /\ Goto(r, i, "prepare")
    /\ UNCHANGED <<setup, started, pid, ckpt, cost, dbAtt, dbKids, trainer,
                   heap, boot>>

\* the log directory and _load_execution_config
TaskPrepare(r, i) ==
    /\ At(r, i, "prepare")
    /\ Goto(r, i, "dispatch")
    /\ UNCHANGED <<db, trainer, heap, boot>>

\* dispatch_training, then _active_processes[run_id] = proc
TaskDispatch(r, i) ==
    /\ At(r, i, "dispatch")
    /\ trainer' = [trainer EXCEPT ![r][i] = "live"]
    /\ activeProc' = [activeProc EXCEPT ![r] = i]
    /\ Goto(r, i, "register")
    /\ UNCHANGED <<db, locals, calls, activeTask, boot>>

\* status running with the pid; a Modal trainer has none
TaskRegister(r, i) ==
    /\ At(r, i, "register")
    /\ status' = Write(r, "running")
    /\ pid' = [pid EXCEPT ![r] = @ \/ (HasRow(r) /\ env[r] = "local")]
    /\ Goto(r, i, "read")
    /\ UNCHANGED <<setup, started, ckpt, cost, dbAtt, dbKids, trainer, heap,
                   boot>>

\* stage_enter, first transaction: _update_stage
TaskEnterStage(r, i) ==
    /\ At(r, i, "read")
    /\ \E s \in Stages :
          stage' = [stage EXCEPT ![r][s] =
                       IF @ = "absent" THEN "absent" ELSE "running"]
    /\ Goto(r, i, "entered")
    /\ UNCHANGED <<dbRun, dbAtt, orphans, trainer, heap, boot>>

\* stage_enter, second transaction: the status, and started_at once
TaskEntered(r, i) ==
    /\ At(r, i, "entered")
    /\ status' = Write(r, "running")
    /\ started' = [started EXCEPT ![r] =
                      IF HasRow(r) /\ @ = None THEN i ELSE @]
    /\ Goto(r, i, "read")
    /\ UNCHANGED <<setup, pid, ckpt, cost, dbAtt, dbKids, trainer, heap,
                   boot>>

\* stage_complete and stage_fail
TaskLeaveStage(r, i) ==
    /\ At(r, i, "read")
    /\ \E s \in Stages, how \in {"completed", "failed"} :
          stage' = [stage EXCEPT ![r][s] =
                       IF @ = "absent" THEN "absent" ELSE how]
    /\ UNCHANGED <<dbRun, dbAtt, orphans, trainer, memory, boot>>

\* progress
TaskProgress(r, i) ==
    /\ At(r, i, "read")
    /\ status' = Write(r, "running")
    /\ UNCHANGED <<setup, started, pid, ckpt, cost, dbAtt, dbKids, trainer,
                   memory, boot>>

\* checkpoint, first transaction
TaskCheckpoint(r, i) ==
    /\ At(r, i, "read")
    /\ status' = Write(r, "running")
    /\ ckpt' = [ckpt EXCEPT ![r] = @ \/ HasRow(r)]
    /\ Goto(r, i, "saved")
    /\ UNCHANGED <<setup, started, pid, cost, dbAtt, dbKids, trainer, heap,
                   boot>>

\* checkpoint, second transaction: the artifact row
TaskSaved(r, i) ==
    /\ At(r, i, "saved")
    /\ InsertChild(r)
    /\ Goto(r, i, "read")
    /\ UNCHANGED <<dbRun, dbAtt, stage, trainer, heap, boot>>

\* metric, artifact, weight_stats: a child row
TaskRecord(r, i) ==
    /\ At(r, i, "read")
    /\ InsertChild(r)
    /\ UNCHANGED <<dbRun, dbAtt, stage, trainer, memory, boot>>

\* mutant of TaskDrain: the failed attempt is not closed before the proposal
TaskDrainNoClose(r, i) ==
    /\ At(r, i, "read")
    /\ trainer[r][i] \in Endings
    /\ activeProc' = [activeProc EXCEPT ![r] = None]
    /\ Goto(r, i, IF trainer[r][i] = "oom" /\ env[r] = "modal"
                  THEN "propose" ELSE "close")
    /\ UNCHANGED <<db, trainer, locals, calls, activeTask, boot>>

\* end of stdout, proc.wait() and _active_processes.pop(run_id): the terminal
\* status is the one the trainer reported, or follows from its exit code
TaskDrain(r, i) ==
    /\ At(r, i, "read")
    /\ trainer[r][i] \in Endings
    /\ activeProc' = [activeProc EXCEPT ![r] = None]
    /\ Goto(r, i, IF trainer[r][i] = "oom" /\ env[r] = "modal"
                  THEN "oomclose" ELSE "close")
    /\ UNCHANGED <<db, trainer, locals, calls, activeTask, boot>>

\* terminal_status; out of memory on the host is a plain failure
Verdict(r, i) == IF trainer[r][i] = "oom" THEN "failed" ELSE trainer[r][i]

TaskClose(r, i) ==
    /\ At(r, i, "close")
    /\ CloseCurrent(r, Verdict(r, i))
    /\ Goto(r, i, "sum")
    /\ UNCHANGED <<dbRun, attGpu, dbKids, trainer, heap, boot>>

\* _handle_trainer_oom: _close_failed_attempt, then the strategy
TaskCloseOom(r, i) ==
    /\ At(r, i, "oomclose")
    /\ CloseOom(r)
    /\ Goto(r, i, IF \/ strategy[r] = "disabled"
                     \/ Candidates(Chain, Affordable, taskGpu[r][i]) = {}
                  THEN "sum" ELSE "propose")
    /\ UNCHANGED <<dbRun, attGpu, dbKids, trainer, heap, boot>>

\* mutant of TaskPropose: the task ends and the status is never written
TaskProposeSilent(r, i) ==
    /\ At(r, i, "propose")
    /\ Goto(r, i, "finished")
    /\ UNCHANGED <<db, trainer, heap, boot>>

\* _transition_to_fallback_pending
TaskPropose(r, i) ==
    /\ At(r, i, "propose")
    /\ status' = Write(r, "fallback_pending")
    /\ Goto(r, i, CASE ~HasRow(r) -> "finished"
                    [] HasRow(r) /\ strategy[r] = "auto" -> "accept"
                    [] HasRow(r) /\ strategy[r] # "auto" -> "finished")
    /\ UNCHANGED <<setup, started, pid, ckpt, cost, dbAtt, dbKids, trainer,
                   heap, boot>>

\* _auto_accept_first_candidate
FirstCandidate(r, i) ==
    Chain[First(Candidates(Chain, Affordable, taskGpu[r][i]))]

TaskAccept(r, i) ==
    /\ At(r, i, "accept")
    /\ \E n \in Attempts : Accept(r, FirstCandidate(r, i), n)
    /\ Goto(r, i, "spawn")
    /\ UNCHANGED <<trainer, locals, request, registry, boot>>

\* accept_fallback raises RunStateError, RunNotFoundError or
\* UnsupportedEnvironmentError: somebody else acted on the run in between
TaskAcceptRefused(r, i) ==
    /\ At(r, i, "accept")
    /\ \/ status[r] # "fallback_pending"
       \/ FirstCandidate(r, i) = gpu[r]
    /\ activeProc' = [activeProc EXCEPT ![r] = None]
    /\ Goto(r, i, "fail")
    /\ UNCHANGED <<db, trainer, locals, calls, activeTask, boot>>

\* what is left of the old task is session.refresh and its return
TaskSpawn(r, i) ==
    /\ At(r, i, "spawn")
    /\ SpawnAccepted(r, [task[r] EXCEPT ![i] = "post"])
    /\ UNCHANGED <<db, trainer, tally, request, activeProc, boot>>

\* mutants of TaskSum: only the current attempt is summed; the pending stages
\* are not skipped
TaskSumLast(r, i) ==
    /\ At(r, i, "sum")
    /\ tally' = [tally EXCEPT ![r][i] = {j \in Attempts : IsCurrent(r, j)}]
    /\ Goto(r, i, "skip")
    /\ UNCHANGED <<db, trainer, taskGpu, calls, registry, boot>>

TaskSumNoSkip(r, i) ==
    /\ At(r, i, "sum")
    /\ tally' = [tally EXCEPT ![r][i] = Existing(r)]
    /\ Goto(r, i, "status")
    /\ UNCHANGED <<db, trainer, taskGpu, calls, registry, boot>>

\* _sum_attempt_costs
TaskSum(r, i) ==
    /\ At(r, i, "sum")
    /\ tally' = [tally EXCEPT ![r][i] = Existing(r)]
    /\ Goto(r, i, "skip")
    /\ UNCHANGED <<db, trainer, taskGpu, calls, registry, boot>>

TaskSkip(r, i) ==
    /\ At(r, i, "skip")
    /\ SkipPending(r)
    /\ Goto(r, i, "status")
    /\ UNCHANGED <<dbRun, dbAtt, orphans, trainer, heap, boot>>

TaskStatus(r, i) ==
    /\ At(r, i, "status")
    /\ status' = Write(r, Verdict(r, i))
    /\ cost' = [cost EXCEPT ![r] = IF HasRow(r) THEN tally[r][i] ELSE @]
    /\ Goto(r, i, "post")
    /\ UNCHANGED <<setup, started, pid, ckpt, dbAtt, dbKids, trainer, heap,
                   boot>>

\* retention sweep, terminal event, notification
TaskPost(r, i) ==
    /\ At(r, i, "post")
    /\ Goto(r, i, "finished")
    /\ UNCHANGED <<db, trainer, heap, boot>>

\* except Exception: _active_processes.pop(run_id), whosever handle it is; an
\* attempt that was to be spawned is not
TaskRaise(r, i) ==
    /\ Faults
    /\ task[r][i] \in Guarded
    /\ activeProc' = [activeProc EXCEPT ![r] = None]
    /\ respawn' = [respawn EXCEPT ![r] = IF At(r, i, "spawn") THEN None ELSE @]
    /\ Goto(r, i, "fail")
    /\ UNCHANGED <<db, trainer, locals, request, activeTask, boot>>

\* the rest of the except clause
TaskFail(r, i) ==
    /\ At(r, i, "fail")
    /\ status' = Write(r, "failed")
    /\ Goto(r, i, "finished")
    /\ UNCHANGED <<setup, started, pid, ckpt, cost, dbAtt, dbKids, trainer,
                   heap, boot>>

\* an exception outside the try block, or in the except clause itself
TaskDie(r, i) ==
    /\ Faults
    /\ task[r][i] \in {"start", "prepare", "fail"}
    /\ Goto(r, i, "finished")
    /\ UNCHANGED <<db, trainer, heap, boot>>

\* mutant of Evict: whatever task is registered
EvictAny(r, i) ==
    /\ At(r, i, "finished")
    /\ activeTask' = [activeTask EXCEPT ![r] = None]
    /\ Goto(r, i, "done")
    /\ UNCHANGED <<db, trainer, locals, calls, activeProc, boot>>

\* _evict_completed_trainer_task, the done callback
Evict(r, i) ==
    /\ At(r, i, "finished")
    /\ activeTask' = [activeTask EXCEPT ![r] = IF @ = i THEN None ELSE @]
    /\ Goto(r, i, "done")
    /\ UNCHANGED <<db, trainer, locals, calls, activeProc, boot>>

\* The trainer ends.  What it still had to say is in the pipe.
TrainerExit(r, i) ==
    /\ trainer[r][i] = "live"
    /\ \E how \in Endings : trainer' = [trainer EXCEPT ![r][i] = how]
    /\ UNCHANGED <<db, memory, boot>>

-----------------------------------------------------------------------------
(* Crash, startup recovery, sweep *)

\* the tasks, requests and registries are gone; a trainer is not
Crash ==
    /\ up # "down"
    /\ crashes < MaxCrashes
    /\ crashes' = crashes + 1
    /\ up' = "down"
    /\ todo' = {} /\ cur' = NoRun /\ bootPc' = "idle" /\ bootTally' = {}
    /\ task' = [r \in Runs |-> [i \in Attempts |->
                   IF task[r][i] \in {"none", "done"} THEN task[r][i]
                   ELSE "lost"]]
    /\ request' = [r \in Runs |-> "none"]
    /\ respawn' = [r \in Runs |-> None]
    /\ activeTask' = [r \in Runs |-> None]
    /\ activeProc' = [r \in Runs |-> None]
    /\ UNCHANGED <<db, trainer, locals>>

\* recover_stale_runs: the rows it will look at
Restart ==
    /\ up = "down"
    /\ up' = "recovering"
    /\ todo' = {r \in Runs : status[r] \in {"running", "pending"}}
    /\ UNCHANGED <<db, trainer, memory, cur, bootPc, bootTally, crashes>>

Recovering(r) ==
    /\ up = "recovering"
    /\ cur = NoRun
    /\ r \in todo
    /\ todo' = todo \ {r}

\* mutant of RecoverSkip: the heartbeat of the project is enough
RecoverSkipOnHeartbeat(r) ==
    /\ Recovering(r)
    /\ status[r] \in {"pending", "running"}
    /\ UNCHANGED <<db, trainer, memory, up, cur, bootPc, bootTally, crashes>>

\* a pending row inside the grace window (60 s), or a running row whose pid is
\* alive and whose heartbeat, a file per project, is fresh
RecoverSkip(r) ==
    /\ Recovering(r)
    /\ \/ status[r] = "pending"
       \/ status[r] = "running" /\ pid[r] /\ trainer[r][0] = "live"
    /\ UNCHANGED <<db, trainer, memory, up, cur, bootPc, bootTally, crashes>>

\* an older pending row: _mark_run_failed commits, the stages come after
RecoverPending(r) ==
    /\ Recovering(r)
    /\ status[r] = "pending"
    /\ status' = [status EXCEPT ![r] = "failed"]
    /\ cur' = r
    /\ bootPc' = "second"
    /\ UNCHANGED <<setup, started, pid, ckpt, cost, dbAtt, dbKids, trainer,
                   memory, up, bootTally, crashes>>

RecoverSecond ==
    /\ bootPc = "second"
    /\ SkipPending(cur)
    /\ cur' = NoRun
    /\ bootPc' = "idle"
    /\ UNCHANGED <<dbRun, dbAtt, orphans, trainer, memory, up, todo,
                   bootTally, crashes>>

\* a running row with a dead or unrecorded pid, or no fresh heartbeat; the
\* latest finalized checkpoint, when there is one, is recorded
RecoverRunning(r) ==
    /\ Recovering(r)
    /\ status[r] = "running"
    /\ status' = [status EXCEPT ![r] = "failed"]
    /\ \E found \in BOOLEAN : ckpt' = [ckpt EXCEPT ![r] = @ \/ found]
    /\ UNCHANGED <<setup, started, pid, cost, dbAtt, dbKids, trainer, memory,
                   up, cur, bootPc, bootTally, crashes>>

\* _sweep_abandoned_fallback_runs: those idle for longer than the TTL
SweepBegin ==
    /\ up = "recovering"
    /\ todo = {} /\ cur = NoRun
    /\ up' = "sweeping"
    /\ todo' \in SUBSET {r \in Runs : status[r] = "fallback_pending"}
    /\ UNCHANGED <<db, trainer, memory, cur, bootPc, bootTally, crashes>>

\* _fail_abandoned_fallback_run: close the attempt if it is open
SweepClose(r) ==
    /\ up = "sweeping"
    /\ cur = NoRun
    /\ r \in todo
    /\ todo' = todo \ {r}
    /\ CloseCurrent(r, "oom_fallback_abandoned")
    /\ cur' = r
    /\ bootPc' = "sum"
    /\ UNCHANGED <<dbRun, attGpu, dbKids, trainer, memory, up, bootTally,
                   crashes>>

\* _fail_run_with_oom_reason
SweepSum ==
    /\ bootPc = "sum"
    /\ bootTally' = Existing(cur)
    /\ bootPc' = "skip"
    /\ UNCHANGED <<db, trainer, memory, up, todo, cur, crashes>>

SweepSkip ==
    /\ bootPc = "skip"
    /\ SkipPending(cur)
    /\ bootPc' = "status"
    /\ UNCHANGED <<dbRun, dbAtt, orphans, trainer, memory, up, todo, cur,
                   bootTally, crashes>>

SweepStatus ==
    /\ bootPc = "status"
    /\ status' = Write(cur, "failed")
    /\ cost' = [cost EXCEPT ![cur] = bootTally]
    /\ cur' = NoRun
    /\ bootPc' = "idle"
    /\ UNCHANGED <<setup, started, pid, ckpt, dbAtt, dbKids, trainer, memory,
                   up, todo, bootTally, crashes>>

\* the except clause around each run of the sweep
SweepRaise ==
    /\ Faults
    /\ up = "sweeping"
    /\ cur # NoRun
    /\ cur' = NoRun
    /\ bootPc' = "idle"
    /\ UNCHANGED <<db, trainer, memory, up, todo, bootTally, crashes>>

Serve ==
    /\ up = "sweeping"
    /\ todo = {} /\ cur = NoRun
    /\ up' = "serving"
    /\ UNCHANGED <<db, trainer, memory, todo, cur, bootPc, bootTally,
                   crashes>>

-----------------------------------------------------------------------------

UserStep(r) ==
    \/ Create(r) \/ Cancel(r) \/ Pause(r) \/ Delete(r)
    \/ AcceptFallback(r) \/ CancelFallback(r)
    \/ \E c \in Runs : Resume(r, c)

RequestStep(r) ==
    SnapshotWritten(r) \/ SnapshotFails(r) \/ Launch(r) \/ Respawn(r)
    \/ SkipAfterCancel(r) \/ RequestFails(r)

EventStep(r, i) ==
    \/ TaskEnterStage(r, i) \/ TaskLeaveStage(r, i) \/ TaskProgress(r, i)
    \/ TaskCheckpoint(r, i) \/ TaskRecord(r, i)

TaskStep(r, i) ==
    \/ TaskStart(r, i) \/ TaskPrepare(r, i) \/ TaskDispatch(r, i)
    \/ TaskRegister(r, i) \/ TaskEntered(r, i) \/ TaskSaved(r, i)
    \/ TaskDrain(r, i) \/ TaskClose(r, i) \/ TaskCloseOom(r, i)
    \/ TaskPropose(r, i) \/ TaskAccept(r, i) \/ TaskAcceptRefused(r, i)
    \/ TaskSpawn(r, i) \/ TaskSum(r, i) \/ TaskSkip(r, i) \/ TaskStatus(r, i)
    \/ TaskPost(r, i) \/ TaskFail(r, i) \/ Evict(r, i)

FaultStep(r, i) == TaskRaise(r, i) \/ TaskDie(r, i)

StartupStep ==
    \/ Restart
    \/ \E r \in Runs : RecoverSkip(r) \/ RecoverPending(r) \/ RecoverRunning(r)
                       \/ SweepClose(r)
    \/ RecoverSecond \/ SweepBegin \/ SweepSum \/ SweepSkip \/ SweepStatus
    \/ Serve

Next ==
    \/ \E r \in Runs : UserStep(r) \/ RequestStep(r)
    \/ \E r \in Runs, i \in Attempts :
          EventStep(r, i) \/ TaskStep(r, i) \/ FaultStep(r, i)
          \/ TrainerExit(r, i)
    \/ Crash
    \/ StartupStep
    \/ SweepRaise

Spec == Init /\ [][Next]_vars

\* The event loop runs what is ready; a pipe holds finitely many lines, so a
\* task whose trainer has ended reaches the end of its output; training ends
\* (max steps, or the sandbox timeout); the backend is restarted.
Fairness ==
    /\ \A r \in Runs : WF_vars(RequestStep(r))
    /\ \A r \in Runs, i \in Attempts :
          /\ WF_vars(TaskStep(r, i) /\ ~TaskDrain(r, i))
          /\ SF_vars(TaskDrain(r, i))
          /\ WF_vars(TrainerExit(r, i))
    /\ WF_vars(StartupStep)

FairSpec == Spec /\ Fairness
=============================================================================
