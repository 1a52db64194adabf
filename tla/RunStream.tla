------------------------------ MODULE RunStream ------------------------------
(***************************************************************************)
(* The live data of runs in the browser: the store of                      *)
(* stores/run-stream-store.ts, which outlives the pages, and the message   *)
(* listener of hooks/useRunStream.ts, which a page registers for the run   *)
(* it shows and which writes to the store, invalidates queries and raises  *)
(* toasts (module Shell).                                                  *)
(*                                                                         *)
(* Left out: log lines (appended and trimmed as metrics are), and the      *)
(* connection indicator, which only a label reads.                         *)
(***************************************************************************)
EXTENDS RunServer, QueryCache

CONSTANT MaxLive   \* MAX_LIVE_METRICS (5000)

ASSUME StreamAssumption ==
    /\ MaxLive \in Nat \ {0}
    /\ {"run_state", "metrics", "logs", "system"} \subseteq Channels

VARIABLES
    store,     \* runData: per run, live metrics, live checkpoints, progress
    proposals, \* fallbackProposals: per run, the GPU that ran out; 0: none
    cache      \* the query cache: the list, and per run metrics, checkpoints

streamVars == <<store, proposals, cache>>

StreamChannels == {"run_state", "metrics", "logs", "system"}

ListKey == <<"list", 0>>
Keys == {ListKey} \cup {"metrics", "checkpoints"} \X Runs

\* the keys below ["projects", p, "runs", r], and below ["projects", p, "runs"]
RunKeys(r) == {<<"metrics", r>>, <<"checkpoints", r>>}

EmptyRunData == [metrics |-> << >>, ckpts |-> << >>, progress |-> 0]

StreamInit ==
    /\ store = [r \in Runs |-> EmptyRunData]
    /\ proposals = [r \in Runs |-> 0]
    /\ cache = [k \in Keys |-> EmptyEntry]

LastN(seq, n) ==
    IF Len(seq) > n THEN SubSeq(seq, Len(seq) - n + 1, Len(seq)) ELSE seq

AppendMetricPoints(st, r, point) ==
    [st EXCEPT ![r].metrics = LastN(Append(@, point), MaxLive)]

AppendCheckpoint(st, r, ckpt) == [st EXCEPT ![r].ckpts = Append(@, ckpt)]

\* mutant of SetProgress: the percentage is stored for the step
SetPercent(st, r, step) == [st EXCEPT ![r].progress = 100 * step]

SetProgress(st, r, step) == [st EXCEPT ![r].progress = step]

\* mutant of Passes: the run of the event is not compared
PassesAny(e, r) == TRUE

\* is an event let through to the listener registered for run r
Passes(e, r) == e.about = 0 \/ e.about = r

InvalidatingEvents ==
    {"stage_entered", "stage_completed", "stage_failed", "run_completed",
     "run_failed", "run_cancelled", "run_paused", "progress_update"}
EndingEvents == {"run_completed", "run_failed", "run_cancelled"}

\* the listener's writes to the store
HandledStore(st, r, e) ==
    CASE e.event = "metric_recorded" ->
            AppendMetricPoints(st, r, [run |-> e.about, step |-> e.n])
      [] e.event = "checkpoint_saved" ->
            AppendCheckpoint(st, r, [run |-> e.about, step |-> e.n])
      [] e.event = "progress_update" -> SetProgress(st, r, e.n)
      [] OTHER -> st

HandledProposals(ps, r, e) ==
    IF e.event = "fallback_proposed" THEN [ps EXCEPT ![r] = e.n] ELSE ps

\* mutant of HandledKeys: retention is not followed
HandledKeysNoRetention(r, e) ==
    CASE e.event \in EndingEvents -> Keys
      [] e.event \in (InvalidatingEvents \ EndingEvents) \cup {"fallback_proposed"} ->
            RunKeys(r)
      [] OTHER -> {}

\* the listener's invalidations, as the set of keys they cover
HandledKeys(r, e) ==
    CASE e.event = "retention_applied" -> {<<"checkpoints", r>>}
      [] e.event \in EndingEvents -> Keys
      [] e.event \in (InvalidatingEvents \ EndingEvents) \cup {"fallback_proposed"} ->
            RunKeys(r)
      [] OTHER -> {}

ClearFallbackProposal(ps, r) == [ps EXCEPT ![r] = 0]

\* what the server answers to the query of a key
Answer(key) ==
    CASE key[1] = "list" -> [r \in Runs |-> row[r].status]
      [] key[1] = "metrics" -> row[key[2]].metrics
      [] OTHER -> [kept |-> row[key[2]].kept, pruned |-> row[key[2]].pruned]

Points == [run : Runs, step : Steps]

StreamType ==
    /\ store \in [Runs -> [metrics : Seq(Points), ckpts : Seq(Points),
                           progress : 0 .. NSteps]]
    /\ proposals \in [Runs -> 0 .. NGpus]
    /\ DOMAIN cache = Keys
    /\ \A k \in Keys : cache[k].stale => cache[k].data # NoAnswer
=============================================================================
