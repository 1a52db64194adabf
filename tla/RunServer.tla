------------------------------ MODULE RunServer ------------------------------
(***************************************************************************)
(* What the browser can observe of the server's runs: the rows the REST    *)
(* routes return (run_service.py) and the events the orchestrator          *)
(* publishes while it handles a trainer's output (orchestrator.py).  The   *)
(* life of a run inside the server is module RunLifecycle; here a trainer  *)
(* event is one step, because a page sees only the row and the events.     *)
(* All runs belong to one project (Home); another project is empty, which  *)
(* is what a switch of project has to cope with.                           *)
(*                                                                         *)
(* Left out: events no page handles (run_created, run_started), log lines  *)
(* (they are delivered and stored as metrics are), stage events (handled   *)
(* as progress_update is, without the progress) and the resource samples,  *)
(* which are about no run and overwrite each other.                        *)
(***************************************************************************)
EXTENDS RunSocket, FallbackPolicy

CONSTANTS
    NRuns,      \* bound: runs 1..NRuns; a later run has a larger number
    NSteps,     \* bound: training steps; a step has one metric
    NGpus,      \* MODAL_GPU_CATALOG: GPUs 1..NGpus
    Affordable, \* those whose worst-case cost is within the cap
    Chain,      \* execution.modal_oom_fallback.chain of the configurations
    StartGpus,  \* bound: what a run is started with, a GPU or NoGpu
    Running,    \* bound: the same of the runs under way in the beginning
    Endings,    \* bound: the terminal statuses a trainer's end may give
    Home        \* the project the runs belong to

ASSUME ServerAssumption ==
    /\ NRuns \in Nat \ {0} /\ NSteps \in Nat /\ NGpus \in Nat \ {0}
    /\ Affordable \subseteq 1 .. NGpus /\ Chain \in Seq(1 .. NGpus)
    /\ StartGpus \subseteq 0 .. NGpus
    /\ Running \in [1 .. NRuns -> {0} \cup Affordable]
    /\ Home \in Projects
    /\ Endings \subseteq {"completed", "failed", "cancelled"}

VARIABLE row   \* per run: its row, and its metric and checkpoint rows

serverVars == <<row>>

Runs == 1 .. NRuns
Steps == 1 .. NSteps

RunStatuses == {"pending", "running", "paused", "completed", "failed",
                "cancelled", "fallback_pending"}
Terminal == {"completed", "failed", "cancelled"}

\* modal_gpu_type of a run that does not run on Modal
NoGpu == 0

\* no row: never inserted, or deleted
NoRow == {"absent", "deleted"}

Absent == [status |-> "absent", alive |-> FALSE, metrics |-> {}, kept |-> {},
           pruned |-> {}, gpu |-> NoGpu]

\* the sets at the head of run_service.py
CancellableStatuses == {"pending", "running", "paused"}
PausableStatuses == {"running"}
ResumableStatuses == {"failed", "cancelled", "paused", "completed"}
DeletableStatuses == {"completed", "failed", "cancelled"}

\* _enforce_worst_case_cost_cap, for a run on Modal
WithinBudget(gpu) == gpu = NoGpu \/ gpu \in Affordable

\* when the tab is opened, some runs are under way
ServerInit ==
    \E n \in Runs :
        row = [r \in Runs |->
                IF r <= n
                THEN [Absent EXCEPT !.status = "running", !.alive = TRUE,
                                    !.gpu = Running[r]]
                ELSE Absent]

Event(channel, event, r, n) ==
    [channel |-> channel, event |-> event, about |-> r, n |-> n]

\* a trainer event of r: its row becomes new, its events are published in
\* turn; the row of a deleted run is not found, the events go out all the same
Emit(r, new, events) ==
    /\ Step
    /\ row[r].alive
    /\ row' = [row EXCEPT ![r] = IF @.status = "deleted"
                                  THEN [@ EXCEPT !.alive = new.alive] ELSE new]
    /\ sock' = IF Len(events) = 1
               THEN Published(sock, Home, events[1])
               ELSE Published(Published(sock, Home, events[1]), Home, events[2])
    /\ UNCHANGED <<socket, wsProject, wsChannels, reconnects>>

MetricRecorded(r, k) ==
    /\ k \notin row[r].metrics
    /\ Emit(r, [row[r] EXCEPT !.metrics = @ \cup {k}],
            <<Event("metrics", "metric_recorded", r, k)>>)

\* _update_run_status(status="running") whatever the status was
ProgressUpdate(r, k) ==
    Emit(r, [row[r] EXCEPT !.status = "running"],
         <<Event("run_state", "progress_update", r, k)>>)

\* the checkpoint row, then retention, then both events
CheckpointSaved(r, k, pruned) ==
    /\ k \notin row[r].kept \cup row[r].pruned
    /\ pruned \subseteq row[r].kept
    /\ Emit(r, [row[r] EXCEPT !.status = "running",
                              !.kept = (@ \ pruned) \cup {k},
                              !.pruned = @ \cup pruned],
            <<Event("system", "checkpoint_saved", r, k),
              Event("system", "retention_applied", r, k)>>)

\* the trainer's end: the run's terminal event
RunEnded(r, status) ==
    Emit(r, [row[r] EXCEPT !.status = status, !.alive = FALSE],
         <<Event("run_state",
                 CASE status = "completed" -> "run_completed"
                   [] status = "failed" -> "run_failed"
                   [] OTHER -> "run_cancelled", r, 0)>>)

\* _filter_fallback_candidates, after gpu ran out of memory: smaller GPUs too
ProposedGpus(gpu) == {Chain[k] : k \in Candidates(Chain, Affordable, gpu)}

\* out of memory on Modal under strategy "ask", a candidate left
FallbackProposed(r) ==
    /\ row[r].status = "running"
    /\ row[r].gpu # NoGpu /\ ProposedGpus(row[r].gpu) # {}
    /\ Emit(r, [row[r] EXCEPT !.status = "fallback_pending", !.alive = FALSE],
            <<Event("run_state", "fallback_proposed", r, row[r].gpu)>>)

TrainerStep ==
    \E r \in Runs :
        \/ \E k \in Steps : \/ MetricRecorded(r, k)
                            \/ ProgressUpdate(r, k)
                            \/ \E P \in SUBSET Steps : CheckpointSaved(r, k, P)
        \/ \E status \in Endings : RunEnded(r, status)
        \/ FallbackProposed(r)

(***************************************************************************)
(* The REST routes.  An operator says whether the route accepts the        *)
(* request, and another the row it leaves.  gpu is the GPU of the          *)
(* configuration a run is created with, or the one chosen in its place.    *)
(***************************************************************************)
NewRun(rows) == {r \in Runs : \A q \in r .. NRuns : rows[q].status = "absent"}

Accepted(kind, r, gpu) ==
    CASE kind = "save" -> TRUE
      [] kind = "create" -> WithinBudget(gpu)
      [] kind = "delete" -> row[r].status \in DeletableStatuses
      [] kind = "cancel" -> row[r].status \in CancellableStatuses
      [] kind = "pause" -> row[r].status \in PausableStatuses
      [] kind = "resume" -> /\ row[r].status \in ResumableStatuses
                            /\ row[r].kept \cup row[r].pruned # {}
                            /\ row[r].gpu = NoGpu
      [] kind = "accept" -> /\ row[r].status = "fallback_pending"
                            /\ gpu # row[r].gpu
                            /\ WithinBudget(gpu)
      [] kind = "decline" -> row[r].status = "fallback_pending"

\* bound: a run can be created only while a number is left
Room(kind) == kind \in {"create", "resume"} => NewRun(row) # {}

LeastNew(rows) == CHOOSE r \in NewRun(rows) : \A q \in NewRun(rows) : r <= q

\* a resumed run gets a row and no trainer; a saved configuration is not in row
AfterRequest(kind, r, gpu) ==
    CASE kind = "save" -> row
      [] kind = "create" ->
            [row EXCEPT ![LeastNew(row)] =
                [Absent EXCEPT !.status = "pending", !.alive = TRUE, !.gpu = gpu]]
      [] kind = "delete" ->
            [row EXCEPT ![r] = [Absent EXCEPT !.status = "deleted",
                                              !.alive = row[r].alive]]
      [] kind = "cancel" -> [row EXCEPT ![r].status = "cancelled"]
      [] kind = "pause" -> [row EXCEPT ![r].status = "paused"]
      [] kind = "resume" ->
            [row EXCEPT ![LeastNew(row)] = [Absent EXCEPT !.status = "pending"]]
      [] kind = "accept" ->
            [row EXCEPT ![r].status = "running", ![r].alive = TRUE,
                        ![r].gpu = gpu]
      [] kind = "decline" -> [row EXCEPT ![r].status = "failed"]

\* declining a fallback publishes run_failed
AfterPublish(kind, r) ==
    IF kind = "decline"
    THEN Published(sock, Home, Event("run_state", "run_failed", r, 0))
    ELSE sock

Rows == [status : RunStatuses \cup NoRow, alive : BOOLEAN,
         metrics : SUBSET Steps, kept : SUBSET Steps, pruned : SUBSET Steps,
         gpu : 0 .. NGpus]

ServerType == row \in [Runs -> Rows]
=============================================================================
