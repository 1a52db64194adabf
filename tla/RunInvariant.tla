---------------------------- MODULE RunInvariant ----------------------------
(***************************************************************************)
(* Why the safety properties of RunProperties hold: an inductive invariant *)
(* of RunLifecycle.  The idea is ownership.  A run that is not waiting for *)
(* a fallback decision has at most one owner, the request or task that     *)
(* works on its newest attempt; only an owner writes fallback_pending, and *)
(* giving a run up for a decision means that its attempts are closed, its  *)
(* trainers have ended and nothing has been billed yet.                    *)
(***************************************************************************)
EXTENDS RunProperties

\* control points of a task that may still write the outcome of its run
OwnerPoints == {"start", "prepare", "dispatch", "register", "read", "entered",
                "saved", "close", "oomclose", "propose", "sum", "skip",
                "status"}

\* control points after the end of the trainer's output
EndedPoints == {"close", "oomclose", "propose", "accept", "spawn", "sum",
                "skip", "status", "post"}

\* the task of attempt i, or the request that is about to spawn it
Owner(r, i) ==
    \/ task[r][i] \in OwnerPoints
    \/ i = 0 /\ request[r] \in {"snapshot", "launch"}
    \/ respawn[r] = i

\* no two
OneOwner(r) ==
    \A i, j \in Attempts : Owner(r, i) /\ Owner(r, j) => i = j

\* the owner works on the newest attempt, unless the run was deleted
OwnerIsCurrent(r) ==
    status[r] # "deleted" =>
        \A i \in Attempts : Owner(r, i) => IsCurrent(r, i)

\* what is about to be spawned is newer than every task
SpawnIsNew(r) ==
    /\ request[r] \in {"snapshot", "launch"} =>
          /\ respawn[r] = None
          /\ \A j \in Attempts : task[r][j] = "none"
    /\ \A n, j \in Attempts :
          (respawn[r] = n /\ n <= j) => task[r][j] = "none"

\* an accepted attempt is spawned by the one request or task that accepted it
OneSpawner(r) ==
    /\ request[r] = "respawn" =>
          /\ respawn[r] \in Attempts
          /\ \A i \in Attempts : task[r][i] # "spawn"
    /\ \A i \in Attempts : task[r][i] = "spawn" =>
          /\ respawn[r] \in Attempts
          /\ request[r] # "respawn"
          /\ \A j \in Attempts : task[r][j] = "spawn" => j = i

\* an attempt that does not exist has neither task nor trainer
Unborn(r) ==
    /\ status[r] = "none" => \A i \in Attempts : att[r][i] = "none"
    /\ status[r] # "deleted" =>
          \A i \in Attempts : att[r][i] = "none" =>
              task[r][i] = "none" /\ trainer[r][i] = "none"

\* the attempts before the last are closed
Closing(r) ==
    \A i, j \in Attempts :
        (i < j /\ att[r][j] # "none") => att[r][i] \in ExitReasons

\* where a task is in relation to its trainer
TrainerPhase(r) ==
    \A i \in Attempts :
        /\ task[r][i] \in {"none", "start", "prepare", "dispatch"} =>
              trainer[r][i] = "none"
        /\ task[r][i] \in EndedPoints => trainer[r][i] \in Endings

\* only the newest attempt can have a live trainer
LiveIsCurrent(r) ==
    status[r] # "deleted" =>
        \A i \in Attempts : trainer[r][i] = "live" => IsCurrent(r, i)

\* a run that waits for a decision is nobody's
Resting(r) ==
    status[r] = "fallback_pending" =>
        /\ cost[r] = {}
        /\ \A i \in Attempts :
              ~Owner(r, i) /\ att[r][i] # "open" /\ trainer[r][i] # "live"

\* and so is one that has been billed
Billed(r) ==
    (status[r] # "deleted" /\ cost[r] # {}) =>
        /\ cost[r] = Existing(r)
        /\ \A i \in Attempts : ~Owner(r, i) /\ att[r][i] # "open"

\* what the terminal sequence has done so far
RollUp(r) ==
    status[r] # "deleted" =>
        \A i \in Attempts :
            /\ task[r][i] \in {"propose", "sum", "skip", "status"} =>
                  \A j \in Attempts : att[r][j] # "open"
            /\ task[r][i] \in {"skip", "status"} => tally[r][i] = Existing(r)
            /\ task[r][i] = "status" =>
                  \A s \in Stages : stage[r][s] # "pending"

\* a completed run is billed and has no pending stage
Whole(r) ==
    status[r] = "completed" =>
        cost[r] # {} /\ \A s \in Stages : stage[r][s] # "pending"

\* a task has the GPU of its attempt, the row that of the current one
Gpus(r) ==
    /\ \A i \in Attempts : task[r][i] # "none" => taskGpu[r][i] = attGpu[r][i]
    /\ status[r] # "deleted" =>
          \A i \in Attempts : IsCurrent(r, i) => attGpu[r][i] = gpu[r]

\* started_at is the start of the current attempt
Anchor(r) ==
    (status[r] # "deleted" /\ started[r] # None) => IsCurrent(r, started[r])

\* the newest unfinished task is the registered one
Registered(r) ==
    \A i \in Attempts :
        (/\ task[r][i] \notin {"none", "done", "lost"}
         /\ \A j \in Attempts : i < j => task[r][j] = "none")
        => activeTask[r] = i

Structure(r) ==
    /\ OneOwner(r) /\ OwnerIsCurrent(r) /\ SpawnIsNew(r) /\ OneSpawner(r)
    /\ Unborn(r) /\ Closing(r) /\ TrainerPhase(r) /\ LiveIsCurrent(r)
    /\ Gpus(r) /\ Registered(r)

Outcome(r) == Resting(r) /\ Billed(r) /\ RollUp(r) /\ Whole(r) /\ Anchor(r)

RunInv(r) == Structure(r) /\ Outcome(r)

\* no task and no request outside serving; a sweep holds runs that wait
BootInv ==
    /\ up # "serving" =>
          \A r \in Runs :
              /\ request[r] = "none"
              /\ \A i \in Attempts : task[r][i] \in {"none", "done", "lost"}
    /\ up \in {"down", "serving"} => cur = NoRun
    /\ cur = NoRun => bootPc = "idle"
    /\ cur # NoRun => cur \notin todo
    /\ bootPc = "second" => up = "recovering" /\ cur # NoRun
    /\ bootPc \in {"sum", "skip", "status"} =>
          up = "sweeping" /\ cur # NoRun /\ status[cur] = "fallback_pending"
    /\ bootPc \in {"skip", "status"} => bootTally = Existing(cur)
    /\ up = "sweeping" => \A r \in todo : status[r] = "fallback_pending"

(* A run has at most one owner, the owner works on the newest attempt, and *)
(* a run that waits for a decision or has been billed has none: the        *)
(* invariant the proofs rest on, and the reason accept_fallback may add an *)
(* attempt without looking at the previous one.                            *)
Ownership ==
    /\ TypeOK
    /\ \A r \in Runs : RunInv(r)
    /\ BootInv
(* What the refinement of AttemptLedger needs on top of ownership; it      *)
(* holds of deleted runs too where their task and trainer live on.         *)

\* control points before the attempt is closed
WorkPoints == {"start", "prepare", "dispatch", "register", "read", "entered",
               "saved", "close", "oomclose"}

\* an owner that has not closed its attempt
Working(r, i) ==
    \/ task[r][i] \in WorkPoints
    \/ i = 0 /\ request[r] \in {"snapshot", "launch"}
    \/ respawn[r] = i

\* a live trainer is the only one, and nobody owns another attempt
OneWorker(r) ==
    \A i, j \in Attempts :
        trainer[r][j] = "live" /\ (trainer[r][i] = "live" \/ Owner(r, i))
        => i = j

\* an attempt is open as long as its owner works on it
OpenWhileWorking(r) ==
    status[r] # "deleted" =>
        \A i \in Attempts : Working(r, i) => att[r][i] = "open"

\* a run that waits for a decision has an attempt that failed
Tried(r) == status[r] = "fallback_pending" => Existing(r) # {}

\* nothing is left of the attempts of a deleted run
Dropped(r) == status[r] = "deleted" => Existing(r) = {}

Accounts(r) ==
    OneWorker(r) /\ OpenWhileWorking(r) /\ Tried(r) /\ Dropped(r)

(* Every run keeps its accounts: the invariant the refinement rests on.    *)
Accounting == \A r \in Runs : Accounts(r)

(* What the action properties need on top of ownership.                    *)

\* a task gets to the except clause by a fault, or because the fallback it
\* accepts on its own was refused
Automatic(r) ==
    \A i \in Attempts :
        /\ task[r][i] = "accept" => strategy[r] = "auto"
        /\ task[r][i] = "fail" => strategy[r] = "auto" \/ Faults

\* a pid is that of a local run
PidIsLocal(r) == pid[r] => status[r] # "none" /\ env[r] = "local"

\* recovery has still to look at a running row, or has found its trainer
Recovered(r) ==
    (up = "recovering" /\ status[r] = "running") =>
        r \in todo \/ (pid[r] /\ trainer[r][0] # "none")

Habits == \A r \in Runs : Automatic(r) /\ PidIsLocal(r) /\ Recovered(r)
=============================================================================
