------------------------------ MODULE Workbench ------------------------------
(***************************************************************************)
(* What the pages of the browser application share: the page that is       *)
(* mounted with its component state, the project chosen in the store, the  *)
(* query cache of the active configuration, and the requests that write a  *)
(* configuration or start a run.  A request is sent, handled by the server *)
(* and answered in three steps.                                            *)
(*                                                                         *)
(* ui holds the state of the mounted page, a record of its own for every   *)
(* page; leaving a page drops it.  An effect of React is part of the       *)
(* action that changes what it depends on (Settled, in WorkbenchView).     *)
(***************************************************************************)
EXTENDS ConfigServer, QueryCache

CONSTANTS
    NoProject,   \* activeProjectId is null
    Tours        \* bound: the pages a behaviour moves between, and how many
                 \* clicks, refetches and the like it has: [pages, clicks]

ASSUME ProjectAssumption == NoProject \notin Projects
ASSUME TourAssumption == \A t \in Tours : t.clicks \in Nat

VARIABLES
    tour,
    activeProject, \* app-store's activeProjectId
    page,
    ui,
    cfg,       \* the query ["projects", p, "configs", "active"]: a version
    saves,     \* PUT /configs requests that are not answered yet
    launches,  \* POST /runs requests that are not answered yet
    writes,    \* requests that write one section on the server
    followed,  \* history: the last version whose save refreshed its project
    steps

requestVars == <<saves, launches, writes>>
workVars == <<tour, activeProject, page, ui, cfg, requestVars, followed, steps>>

Step == steps < tour.clicks /\ steps' = steps + 1

Flip(v) == 3 - v   \* another value

(***************************************************************************)
(* Requests.  owner: the project whose query the hook's onSuccess will     *)
(* invalidate, which a mutation takes from the render of the moment;       *)
(* watched: the page that sent it is still mounted, so that the callbacks  *)
(* given to mutate run and its button is disabled meanwhile.               *)
(***************************************************************************)
Phases == {"validating", "sent", "ok", "failed"}

Unset == -1     \* a ratio that is null
SplitFields == {"train", "val", "test"}
NoRatios == [f \in SplitFields |-> Unset]

SaveRequest(by, content, shown) ==
    [by |-> by, project |-> activeProject, owner |-> activeProject,
     watched |-> TRUE, phase |-> "sent", content |-> content, restored |-> 0,
     shown |-> shown, version |-> 0]

\* row: the suggestion that is accepted; ratios: the splits a dataset is read with
WriteRequest(by, section, value) ==
    [by |-> by, project |-> activeProject, owner |-> activeProject,
     watched |-> TRUE, phase |-> "sent", section |-> section, value |-> value,
     row |-> 0, ratios |-> NoRatios]

LaunchRequest(p, version, shown) ==
    [project |-> p, version |-> version, shown |-> shown, watched |-> TRUE,
     phase |-> "sent"]

Unwatched(R) == {[r EXCEPT !.watched = FALSE] : r \in R}
Adopted(R, p) == {IF r.watched THEN [r EXCEPT !.owner = p] ELSE r : r \in R}

IsPending(R, who) ==
    \E r \in R : r.watched /\ r.by \in who /\ r.phase # "validating"

Replaced(R, r, q) == (R \ {r}) \cup {q}

\* PUT /projects/{id}/configs
HandleSave(s) ==
    /\ s.phase = "sent"
    /\ \/ /\ SaveConfig(s.project, s.content, s.restored)
          /\ saves' = Replaced(saves, s,
                [s EXCEPT !.phase = "ok", !.version = Len(versions) + 1])
       \/ /\ saves' = Replaced(saves, s, [s EXCEPT !.phase = "failed"])
          /\ UNCHANGED configVars
    /\ UNCHANGED <<tour, activeProject, page, ui, cfg, launches, writes,
                   followed, steps>>

\* POST /models/resolve, /datasets/resolve
HandleWrite(w) ==
    /\ w.phase = "sent" /\ w.by # "accept"
    /\ \/ /\ WriteSection(w.project, w.section, w.value)
          /\ writes' = Replaced(writes, w, [w EXCEPT !.phase = "ok"])
       \/ /\ writes' = Replaced(writes, w, [w EXCEPT !.phase = "failed"])
          /\ UNCHANGED configVars
    /\ UNCHANGED <<tour, activeProject, page, ui, cfg, saves, launches,
                   followed, steps>>

\* POST /runs
HandleLaunch(l) ==
    /\ l.phase = "sent"
    /\ \/ /\ CreateRun(l.project, l.version, l.shown)
          /\ launches' = Replaced(launches, l, [l EXCEPT !.phase = "ok"])
       \/ /\ launches' = Replaced(launches, l, [l EXCEPT !.phase = "failed"])
          /\ UNCHANGED configVars
    /\ UNCHANGED <<tour, activeProject, page, ui, cfg, saves, writes, followed,
                   steps>>

(***************************************************************************)
(* The active configuration.                                               *)
(***************************************************************************)
ConfigPages == {"training", "adapters", "models", "weights", "compare"}

IsShown(p) == activeProject = p /\ page \in ConfigPages

\* configVersion: useActiveConfig's data, as a set of at most one version
ConfigVersion(c, p) == IF p = NoProject THEN NoAnswer ELSE c[p].data

\* fetchActiveConfig: a version and then its text; a page that is mounted
\* fetches what is missing or stale, and anything it shows after a while
FetchConfig(p) ==
    /\ IsShown(p) /\ cfg[p].flight = NoAnswer
    /\ IF cfg[p].data = NoAnswer \/ cfg[p].stale THEN UNCHANGED steps ELSE Step
    /\ cfg' = [cfg EXCEPT ![p] = Asked(@, activeOf[p])]
    /\ UNCHANGED <<configVars, tour, activeProject, page, ui, requestVars,
                   followed>>

\* mutant of InvalidateConfig: the key of the history is invalidated instead
InvalidateOther(c, p) == c

\* useSaveConfig's onSuccess
InvalidateConfig(c, p) ==
    IF p = NoProject THEN c ELSE [c EXCEPT ![p] = Invalidated(@, IsShown(p))]

\* what the hook does with an answer, whoever sent the request; the page shows
\* the new version from the next answer on if it shows the project at all
SaveFollowed(s) ==
    IF s.phase = "ok"
    THEN /\ cfg' = InvalidateConfig(cfg, s.owner)
         /\ followed' = IF s.owner = s.project /\ IsShown(s.project)
                             /\ cfg[s.project].data # NoAnswer
                             /\ followed[s.project] < s.version
                        THEN [followed EXCEPT ![s.project] = s.version] ELSE followed
    ELSE UNCHANGED <<cfg, followed>>

(***************************************************************************)
(* lib/yaml-config.ts: every key is converted, those of the field mapping  *)
(* included, so what a form composes has them in snake case.               *)
(***************************************************************************)
Recased(content) == [content EXCEPT !["mapping"] = 1]

WorkType ==
    /\ tour \in Tours /\ page \in tour.pages
    /\ activeProject \in Projects \cup {NoProject}
    /\ \A p \in Projects : cfg[p].data \cup cfg[p].flight \subseteq VersionIds
    /\ \A s \in saves : /\ s.content \in Contents /\ s.restored \in 0 .. MaxVersions
                        /\ s.phase = "ok" <=> s.version # 0
    /\ \A s \in saves \cup writes \cup launches :
        s.project \in Projects /\ s.phase \in Phases
    /\ steps \in 0 .. tour.clicks
=============================================================================
