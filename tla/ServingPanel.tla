----------------------------- MODULE ServingPanel -----------------------------
(***************************************************************************)
(* components/model/serving-panel.tsx with hooks/useServing.ts, and the    *)
(* server's registry of model servers (services/cloud/                     *)
(* mlx_serving_registry.py): at most one subprocess serves a model, it     *)
(* takes minutes to start under a lock, and it may die at any time.        *)
(***************************************************************************)
EXTENDS Workbench

VARIABLES
    serve,        \* a project's subprocess: "none", "alive", "dead" (_active)
    lockHolder,   \* the start request that holds _lock, as a set
    serveQuery,   \* ["projects", p, "serving"]: a state
    serveCalls    \* start and stop requests that are not answered yet

serveVars == <<serve, lockHolder, serveQuery, serveCalls>>

\* the states the server reports; the panel knows "starting" and "stopping" too
ServingStates == {"stopped", "running", "failed"}

Active == {p \in Projects : serve[p] # "none"}
OnServing == page = "serving" /\ activeProject # NoProject

ServeRest == UNCHANGED <<configVars, tour, activeProject, page, ui, cfg,
                         requestVars, followed>>

\* get_status: a subprocess that died is reported once, and forgotten
GetStatus(p) ==
    [state |-> [none |-> "stopped", dead |-> "failed", alive |-> "running"][serve[p]],
     serve |-> IF serve[p] = "dead" THEN [serve EXCEPT ![p] = "none"] ELSE serve]

\* _evict_dead_active_entries
Evicted == [p \in Projects |-> IF serve[p] = "dead" THEN "none" ELSE serve[p]]

(***************************************************************************)
(* The server.  start_serving stops what the project has running, and      *)
(* waits for its own subprocess with the lock held.                        *)
(***************************************************************************)
CapacityLeft(S, p) == \A q \in Projects \ {p} : S[q] = "none"

\* the adapter does not convert, before the lock is asked for: what is running goes on
ConversionFails(c) ==
    /\ c.kind = "start" /\ c.phase = "sent"
    /\ serveCalls' = Replaced(serveCalls, c, [c EXCEPT !.phase = "failed"])
    /\ ServeRest /\ UNCHANGED <<serve, lockHolder, serveQuery, steps>>

BeginServing(c) ==
    /\ c.kind = "start" /\ c.phase = "sent" /\ lockHolder = {}
    /\ IF CapacityLeft(Evicted, c.project)
       THEN /\ serve' = [Evicted EXCEPT ![c.project] = "none"]
            /\ lockHolder' = {c.project}
            /\ serveCalls' = Replaced(serveCalls, c, [c EXCEPT !.phase = "validating"])
       ELSE /\ serve' = Evicted
            /\ serveCalls' = Replaced(serveCalls, c, [c EXCEPT !.phase = "failed"])
            /\ UNCHANGED lockHolder
    /\ ServeRest /\ UNCHANGED <<serveQuery, steps>>

\* ready, or not in time; the answer of a call is get_status, which nobody reads
ServingReady(c) ==
    /\ c.kind = "start" /\ c.phase = "validating" /\ lockHolder = {c.project}
    /\ lockHolder' = {}
    /\ \/ /\ serve' = [serve EXCEPT ![c.project] = "alive"]
          /\ serveCalls' = Replaced(serveCalls, c, [c EXCEPT !.phase = "ok"])
       \/ /\ serveCalls' = Replaced(serveCalls, c, [c EXCEPT !.phase = "failed"])
          /\ UNCHANGED serve
    /\ ServeRest /\ UNCHANGED <<serveQuery, steps>>

\* stop_serving; that nothing was running is no error
StopServing(c) ==
    /\ c.kind = "stop" /\ c.phase = "sent" /\ lockHolder = {}
    /\ serve' = [serve EXCEPT ![c.project] = "none"]
    /\ serveCalls' = Replaced(serveCalls, c, [c EXCEPT !.phase = "ok"])
    /\ ServeRest /\ UNCHANGED <<lockHolder, serveQuery, steps>>

SubprocessDies(p) ==
    /\ serve[p] = "alive" /\ Step
    /\ serve' = [serve EXCEPT ![p] = "dead"]
    /\ ServeRest /\ UNCHANGED <<lockHolder, serveQuery, serveCalls>>

(***************************************************************************)
(* The panel.                                                              *)
(***************************************************************************)
\* mutant of SelectPollInterval: a server that runs is not asked again
PollUntilRunning(shown) == shown \cap {"starting", "stopping"} # {}

\* selectPollInterval is not false
SelectPollInterval(shown) == shown \cap {"starting", "stopping", "running"} # {}

\* useServingStatus: what is missing or stale is fetched, and by the interval
PollStatus(p) ==
    /\ OnServing /\ p = activeProject /\ serveQuery[p].flight = NoAnswer
    /\ \/ serveQuery[p].data = NoAnswer \/ serveQuery[p].stale
       \/ SelectPollInterval(serveQuery[p].data)
    /\ serveQuery' = [serveQuery EXCEPT ![p] = Asked(@, GetStatus(p).state)]
    /\ serve' = GetStatus(p).serve
    /\ ServeRest /\ UNCHANGED <<lockHolder, serveCalls, steps>>

StatusAnswered(p) ==
    /\ serveQuery[p].flight # NoAnswer
    /\ serveQuery' = [serveQuery EXCEPT ![p] = Answered(@)]
    /\ ServeRest /\ UNCHANGED <<serve, lockHolder, serveCalls, steps>>

\* ServingActions: the button for the state, disabled while a call is on its way
ShownState == DataOr(serveQuery[activeProject], "stopped")
IsBusy == \E c \in serveCalls : c.watched
ServingActions ==
    IF ~OnServing \/ IsBusy THEN {}
    ELSE IF ShownState = "running" THEN {"stop"} ELSE {"start"}

ClickServing(kind) ==
    /\ kind \in ServingActions /\ Step
    /\ serveCalls' = serveCalls \cup
        {[kind |-> kind, project |-> activeProject, watched |-> TRUE, phase |-> "sent"]}
    /\ ServeRest /\ UNCHANGED <<serve, lockHolder, serveQuery>>

\* onSuccess of useStartServing, useStopServing
ServingAnswered(c) ==
    /\ c.phase \in {"ok", "failed"}
    /\ serveCalls' = serveCalls \ {c}
    /\ serveQuery' =
        IF c.phase = "failed" THEN serveQuery
        ELSE [serveQuery EXCEPT ![c.project] =
                Invalidated(@, OnServing /\ activeProject = c.project)]
    /\ ServeRest /\ UNCHANGED <<serve, lockHolder, steps>>

ServingInit ==
    /\ serve = [p \in Projects |-> "none"] /\ lockHolder = {} /\ serveCalls = {}
    /\ serveQuery = [p \in Projects |-> EmptyEntry]

ServingNext ==
    \/ \E c \in serveCalls : \/ ConversionFails(c) \/ BeginServing(c) \/ ServingReady(c)
                             \/ StopServing(c) \/ ServingAnswered(c)
    \/ \E p \in Projects : SubprocessDies(p) \/ PollStatus(p) \/ StatusAnswered(p)
    \/ \E kind \in {"start", "stop"} : ClickServing(kind)

\* the browser's timers go off and requests are answered
ServingFairness == \A p \in Projects : WF_<<workVars, serveVars>>(PollStatus(p))
                                       /\ WF_<<workVars, serveVars>>(StatusAnswered(p))

ServingType ==
    /\ serve \in [Projects -> {"none", "alive", "dead"}]
    /\ lockHolder \subseteq Projects
    /\ \A p \in Projects : serveQuery[p].data \cup serveQuery[p].flight \subseteq ServingStates
    /\ \A c \in serveCalls : c.kind \in {"start", "stop"} /\ c.phase \in Phases
=============================================================================
