--------------------------- MODULE RunProperties ---------------------------
(***************************************************************************)
(* What RunLifecycle is meant to guarantee, and what the documents of the  *)
(* repository say of it that the code does not do.                         *)
(***************************************************************************)
EXTENDS RunLifecycle

-----------------------------------------------------------------------------
(* Safety *)

(* run_attempts is a dense, ordered history: every attempt before the last *)
(* one is closed, so at most the last is open (accept_fallback adds a row  *)
(* without looking at the previous one; _close_failed_attempt must have    *)
(* run before the status became fallback_pending).                         *)
OneOpenAttempt ==
    \A r \in Runs : \A i, j \in Attempts :
        (i < j /\ att[r][j] # "none") => att[r][i] \in ExitReasons

(* While a run waits for a fallback decision none of its trainers is alive *)
(* and none of its attempts is being charged: accepting at any moment,     *)
(* before or after a restart, cannot start a second trainer.               *)
FallbackIsIdle ==
    \A r \in Runs : status[r] = "fallback_pending" =>
        \A i \in Attempts : att[r][i] # "open" /\ trainer[r][i] # "live"

(* _evict_completed_trainer_task: while the newest task of a run is        *)
(* unfinished it is the one _active_tasks holds, whatever older task       *)
(* finishes in between.                                                    *)
NewestTaskRegistered ==
    \A r \in Runs : \A i \in Attempts :
        (/\ task[r][i] \notin {"none", "done", "lost"}
         /\ \A j \in Attempts : j > i => task[r][j] = "none")
        => activeTask[r] = i

(* runs.started_at, once set, is the start of the current attempt: the     *)
(* reset in accept_fallback is not undone by an event of an older trainer. *)
AnchorIsCurrent ==
    \A r \in Runs :
        (HasRow(r) /\ started[r] # None) => IsCurrent(r, started[r])

(* The GPU a live trainer runs on, the one its attempt is charged for and  *)
(* the one on the run row are the same (gpu_type_override).                *)
GpuInSync ==
    \A r \in Runs : \A i \in Attempts :
        (HasRow(r) /\ trainer[r][i] = "live") =>
            taskGpu[r][i] = attGpu[r][i] /\ attGpu[r][i] = gpu[r]

(* A recorded cost covers every attempt of the run, all of them closed; it *)
(* never misses a failed fallback attempt and is never out of date.        *)
CostIsWhole ==
    \A r \in Runs : (HasRow(r) /\ cost[r] # {}) =>
        cost[r] = Existing(r) /\ \A i \in Attempts : att[r][i] # "open"

(* A run shown as completed has its cost recorded and no stage left in     *)
(* pending: the status is written after the roll-up and the stages.        *)
CompletedIsWhole ==
    \A r \in Runs : status[r] = "completed" =>
        cost[r] # {} /\ \A s \in Stages : stage[r][s] # "pending"

(* When no transaction of a task raises, a completed run stays so until it *)
(* is deleted: no late event, recovery or sweep rewrites it.  Automatic    *)
(* fallback is left out: see FallbackOwnsStatus.                           *)
CompletedIsFinal ==
    [][\A r \in Runs :
          (status[r] = "completed" /\ strategy[r] # "auto")
          => status'[r] \in {"completed", "deleted"}]_vars

(* When startup recovery has gone through its rows, a run still shown as   *)
(* running is a local one whose trainer had started and whose pid had been *)
(* recorded: every other run that the crash left without a task has been   *)
(* failed, whichever rows were looked at first.                            *)
RecoveryIsThorough ==
    [][(up = "recovering" /\ up' = "sweeping") =>
          \A r \in Runs : status[r] = "running" =>
              env[r] = "local" /\ pid[r] /\ trainer[r][0] # "none"]_vars

-----------------------------------------------------------------------------
(* Refinement: attempts, trainers and costs keep the ledger's promises     *)
(* through every interleaving, crash and fault.                            *)

gone == {r \in Runs : status[r] = "deleted"}
workers == [r \in Runs |-> {i \in Attempts : trainer[r][i] = "live"}]
bills == [r \in Runs |-> IF r \in gone THEN {} ELSE cost[r]]

Ledger == INSTANCE AttemptLedger WITH
    entry    <- att,
    entryGpu <- attGpu,
    worker   <- workers,
    bill     <- bills,
    Reasons  <- ExitReasons

(* Every step of the lifecycle is a step of the ledger or changes nothing  *)
(* the ledger sees.                                                        *)
KeepsLedger == Ledger!Spec

-----------------------------------------------------------------------------
(* Liveness *)

Settled(r) == status[r] \in Terminal \cup {"paused", "fallback_pending",
                                           "deleted"}

(* When no transaction of a task raises, a run shown as running is         *)
(* eventually settled: its task reaches the end of the trainer's output    *)
(* and records an outcome, through the fallback path as well, and a crash  *)
(* that loses the task is followed by a recovery that fails the run.  Only *)
(* a local run may stay, when its trainer outlives the crash.              *)
RunSettles ==
    \A r \in Runs :
        status[r] = "running"
        ~> (Settled(r) \/ (env[r] = "local" /\ crashes > 0))

-----------------------------------------------------------------------------
(* Statements of the repository the code does not keep *)

(* training_dispatcher.py: a cancelled row is not rewritten to failed      *)
(* ("does not rewrite the DB row from `cancelled` back to `failed`").      *)
CancelledIsNotFailed ==
    [][\A r \in Runs : status[r] = "cancelled" => status'[r] # "failed"]_vars

(* watchdog.py: skipping the stages shares a transaction with marking the  *)
(* run failed, so no crash separates them.                                 *)
RecoveryIsAtomic ==
    \A r \in Runs :
        (up = "serving" /\ status[r] = "failed" /\ task[r][0] = "none") =>
            \A s \in Stages : stage[r][s] # "pending"

(* orchestrator._handle_trainer_oom: the task of an attempt that ran out   *)
(* of memory is done with the run once the fallback has been taken: it     *)
(* does not write the status of the run a newer task works on.             *)
FallbackOwnsStatus ==
    [][\A r \in Runs : \A i, j \in Attempts :
          (i < j /\ task[r][j] # "none" /\ task'[r][i] # task[r][i])
          => status'[r] = status[r]]_vars

(* run_service.py: deleting a run leaves no orphaned child rows.           *)
NoOrphans == orphans = {}
=============================================================================
