------------------------------- MODULE RunsPage -------------------------------
(***************************************************************************)
(* The pages that follow runs live: pages/runs-page.tsx with its dialogs,  *)
(* and pages/dashboard-page.tsx, over the mutations of hooks/useRuns.ts    *)
(* and hooks/useRunFallback.ts.  A request is three steps: the click, the  *)
(* server's handling of it, the answer's callbacks; trainer events, other  *)
(* requests and navigation come in between.                                *)
(*                                                                         *)
(* An effect of React (auto-select, connect, the reset of the GPU choice)  *)
(* is part of the action that changes what it depends on.                  *)
(*                                                                         *)
(* Left out: the status filter and the selected stage, which only narrow   *)
(* what is drawn, and toasts.                                              *)
(***************************************************************************)
EXTENDS RunStream

VARIABLES
    activeProject, \* app-store's activeProjectId
    page,          \* the page mounted
    selected,      \* selectedRunId; 0: null
    resumeOpen,    \* isResumeDialogOpen
    gpuChoice,     \* the fallback dialog's selectedGpuType; 0: null
    calls,         \* requests that are not answered yet
    told           \* history: events handled on data the page was showing

pageVars == <<activeProject, page, selected, resumeOpen, gpuChoice, calls,
              told>>
vars == <<socketVars, serverVars, streamVars, pageVars, steps>>

\* a page that follows no run is as the dashboard without an active one
Pages == {"runs", "dashboard"}
Ended == 0   \* in told: the run's terminal event; a step: its retention

(***************************************************************************)
(* What the pages derive from the query cache.                             *)
(***************************************************************************)
NoRuns == [r \in Runs |-> "absent"]

\* const { data: runs = [] } = useRuns(...)
ListIn(c, p) == IF p = Home THEN DataOr(c[ListKey], NoRuns) ELSE NoRuns
List == ListIn(cache, activeProject)

Listed(list) == {r \in Runs : list[r] \notin NoRow}
Latest(R) == IF R = {} THEN 0 ELSE CHOOSE r \in R : \A q \in R : q <= r

\* the list is newest first, so find() returns the latest match
PickLiveRun(list) ==
    Latest({r \in Runs : list[r] \in {"running", "pending", "paused",
                                      "fallback_pending"}})
PickActiveRun(list) ==
    Latest({r \in Runs : list[r] \in {"running", "pending", "paused"}})

\* the auto-select effect
AutoSelect(sel, list) ==
    IF sel # 0 THEN sel
    ELSE IF PickLiveRun(list) # 0 THEN PickLiveRun(list)
    ELSE Latest(Listed(list))

SelectionOn(c) ==
    IF page = "runs" THEN AutoSelect(selected, ListIn(c, activeProject)) ELSE 0

\* the run a page follows: what it passes to useRunStream
Followed(pg, p, sel, list) ==
    CASE pg = "runs" /\ p # NoProject -> sel
      [] pg = "dashboard" /\ p # NoProject -> PickActiveRun(list)
      [] OTHER -> 0

Listener == Followed(page, activeProject, selected, List)

\* the keys some mounted component observes
ActiveKeys ==
    IF activeProject # Home THEN {}
    ELSE {ListKey} \cup
         (IF Listener = 0 THEN {}
          ELSE IF page = "runs" THEN RunKeys(Listener)
          ELSE {<<"metrics", Listener>>})

\* a query about the selected run; under another project it finds nothing
Loaded(kind, default) ==
    IF activeProject = Home THEN DataOr(cache[<<kind, selected>>], default)
    ELSE default

\* the numbers of a finite set in ascending order
Ascending(S) ==
    CHOOSE f \in [1 .. Cardinality(S) -> S] :
        \A i, j \in 1 .. Cardinality(S) : i < j => f[i] < f[j]

\* mutant of MergedMetrics: what came twice is shown twice
MergedMetricsTwice ==
    LET live == store[selected].metrics
    IN  Ascending(Loaded("metrics", {}))
        \o [i \in DOMAIN live |-> live[i].step]

\* mergedMetrics: stored metrics, then live ones, the first of a step is kept
MergedMetrics ==
    LET live == store[selected].metrics
        all == Ascending(Loaded("metrics", {}))
               \o [i \in DOMAIN live |-> live[i].step]
        IsFirst(i) == \A j \in 1 .. i - 1 : all[j] # all[i]
        kept == Ascending({i \in DOMAIN all : IsFirst(i)})
    IN  [n \in DOMAIN kept |-> all[kept[n]]]

\* allCheckpoints: fetched ones and live ones, as a number of rows
AllCheckpoints ==
    LET fetched == Loaded("checkpoints", [kept |-> {}, pruned |-> {}])
    IN  Cardinality(fetched.kept \cup fetched.pruned)
        + Len(store[selected].ckpts)

\* RunFallbackDialog is open for the selected run's proposal
DialogOpen ==
    /\ page = "runs" /\ activeProject # NoProject
    /\ selected # 0 /\ proposals[selected] # 0

\* mutant of FirstCandidate: the GPU that ran out is chosen again
FirstCandidateSame(sel, ps) == IF sel = 0 THEN 0 ELSE ps[sel]

\* the dialog's effect: on a new proposal, its first candidate
FirstCandidate(sel, ps) ==
    IF sel = 0 \/ ps[sel] = 0 \/ ProposedGpus(ps[sel]) = {} THEN 0
    ELSE Chain[First(Candidates(Chain, Affordable, ps[sel]))]

\* a modal dialog keeps clicks from the page
PageFree == ~DialogOpen /\ ~resumeOpen

(***************************************************************************)
(* The controls the page offers.                                           *)
(***************************************************************************)
Pending(kind) == \E c \in calls : c.kind = kind /\ c.bound

CanStart == activeProject = Home /\ PickLiveRun(List) = 0

\* mutant of ActionsOffered: a run that is not under way may be paused
ActionsOfferedEarly(status) ==
    {k \in {"cancel"} : status \in {"running", "paused", "pending"}}
    \cup {k \in {"pause"} : status \in {"running", "pending"}}
    \cup {k \in {"resume"} : status \in {"paused", "failed"}}

\* components/runs/run-actions.tsx, for the selected run
ActionsOffered(status) ==
    {k \in {"cancel"} : status \in {"running", "paused", "pending"}}
    \cup {k \in {"pause"} : status = "running"}
    \cup {k \in {"resume"} : status \in {"paused", "failed"}}

\* the banner of the live run, shown when that run is selected
BannerOffers(status) ==
    {"cancel"} \cup {k \in {"pause"} : status = "running"}
               \cup {k \in {"resume"} : status = "paused"}

\* components/runs/run-list.tsx
DELETABLE_STATUSES == {"completed", "failed", "cancelled"}

Offers(kind) ==
    /\ page = "runs" /\ selected \in Listed(List) /\ PageFree
    /\ \/ kind \in ActionsOffered(List[selected]) /\ ~Pending(kind)
       \/ PickLiveRun(List) = selected /\ kind \in BannerOffers(List[selected])

OffersDelete(r) ==
    /\ page = "runs" /\ PageFree
    /\ List[r] \in DELETABLE_STATUSES
    /\ ~\E c \in calls : c.kind = "delete" /\ c.bound /\ c.run = r

PageInit ==
    /\ activeProject = Home
    /\ page = "runs"
    /\ selected = 0 /\ resumeOpen = FALSE /\ gpuChoice = 0
    /\ calls = {}
    /\ told = [r \in Runs |-> {}]

(***************************************************************************)
(* Actions.  Follow: the effects that depend on the followed run and the   *)
(* project; connect is called when either changed.                         *)
(***************************************************************************)
Follow(pg, p, sel, c) ==
    LET run == Followed(pg, p, sel, ListIn(c, p))
        changed == <<pg, p, run>> # <<page, activeProject, Listener>>
    IN  /\ page' = pg
        /\ activeProject' = p
        /\ selected' = sel
        /\ gpuChoice' = IF sel # selected THEN FirstCandidate(sel, proposals)
                        ELSE gpuChoice
        /\ cache' = c
        /\ IF run # 0 /\ changed THEN Connect(p, StreamChannels)
           ELSE UNCHANGED socketVars

\* the router mounts another page: local state starts over, the requests go
\* on but the callbacks given to mutate are dropped
Navigate(pg) ==
    /\ pg # page
    /\ Step
    /\ Follow(pg, activeProject,
              IF pg = "runs" /\ activeProject # NoProject
              THEN AutoSelect(0, List) ELSE 0, cache)
    /\ resumeOpen' = FALSE
    /\ calls' = {[c EXCEPT !.bound = FALSE] : c \in calls}
    /\ UNCHANGED <<serverVars, store, proposals, told>>

\* the project switcher of the top bar: the selection stays
SetActiveProject(p) ==
    /\ p # activeProject
    /\ Step
    /\ PageFree
    /\ Follow(page, p,
              IF page = "runs" THEN AutoSelect(selected, ListIn(cache, p)) ELSE 0,
              cache)
    /\ UNCHANGED <<serverVars, store, proposals, resumeOpen, calls,
                   told>>

SelectRun(r) ==
    /\ page = "runs" /\ PageFree
    /\ r \in Listed(List) /\ r # selected
    /\ Step
    /\ Follow(page, activeProject, r, cache)
    /\ UNCHANGED <<serverVars, store, proposals, resumeOpen, calls,
                   told>>

\* a query is sent by its interval, on focus or because it is stale; the one
\* that finds no data, and the query of metrics, which only grow, are one step
\* with their answer
Fetch(k) ==
    LET entry == cache[k]
        whole == entry.data = NoAnswer \/ k[1] = "metrics"
        sent == Asked(entry, Answer(k))
    IN  /\ k \in ActiveKeys
        /\ entry.flight = NoAnswer
        /\ IF entry.data = NoAnswer THEN UNCHANGED steps ELSE Step
        /\ IF whole
           THEN LET c == [cache EXCEPT ![k] = Answered(sent)]
                IN  Follow(page, activeProject, SelectionOn(c), c)
           ELSE /\ cache' = [cache EXCEPT ![k] = sent]
                /\ UNCHANGED <<socketVars, activeProject, page, selected, gpuChoice>>
        /\ UNCHANGED <<serverVars, store, proposals, resumeOpen, calls, told>>

\* its answer: a new list may move the selection or the followed run
FetchAnswered(k) ==
    /\ cache[k].flight # NoAnswer
    /\ LET c == [cache EXCEPT ![k] = Answered(@)]
       IN  Follow(page, activeProject, SelectionOn(c), c)
    /\ UNCHANGED <<serverVars, store, proposals, resumeOpen, calls,
                   told, steps>>

\* what the listener was told about run r, if data of the kind is on show, for told
ToldBy(e, r) ==
    LET shown(k) == activeProject = Home /\ k \in ActiveKeys /\ cache[k].data # NoAnswer
    IN  {n \in 0 .. NSteps :
            \/ e.event = "retention_applied" /\ n = e.n /\ shown(<<"checkpoints", r>>)
            \/ e.event \in EndingEvents /\ n = Ended /\ shown(ListKey)}

\* a frame arrives on any socket of the tab and runs the listener
Deliver(s) ==
    /\ Received(s)
    /\ LET e == Head(sock[s].queue)
           r == Listener
           keys == IF activeProject = Home THEN HandledKeys(r, e) ELSE {}
       IN  IF r = 0 \/ ~Passes(e, r)
           THEN UNCHANGED <<streamVars, gpuChoice, told>>
           ELSE /\ store' = HandledStore(store, r, e)
                /\ proposals' = HandledProposals(proposals, r, e)
                /\ cache' = InvalidatedAll(cache, keys, ActiveKeys)
                /\ gpuChoice' = IF e.event = "fallback_proposed" /\ page = "runs"
                                THEN FirstCandidate(r, proposals') ELSE gpuChoice
                /\ told' = [told EXCEPT ![r] = @ \cup ToldBy(e, r)]
    /\ UNCHANGED <<serverVars, activeProject, page, selected, resumeOpen, calls>>

\* mutate: a second call of the same hook drops the callbacks of the first
Send(kind, r, gpu) ==
    /\ Step
    /\ calls' =
        {[c EXCEPT !.bound = c.bound /\ c.kind # kind] : c \in calls}
        \cup {[kind |-> kind, project |-> activeProject, run |-> r,
               gpu |-> gpu, bound |-> TRUE,
               selected |-> selected, id |-> steps, answer |-> "none",
               new |-> 0]}
    /\ UNCHANGED <<socketVars, serverVars, streamVars, activeProject, page,
                   selected, gpuChoice, told>>

\* an environment other than the configuration's is saved as a new one first,
\* and the answer sends the create (RespondSave); meanwhile Start can be used
HandleStartRun ==
    /\ page = "runs" /\ PageFree /\ CanStart /\ ~Pending("create")
    /\ \E gpu \in StartGpus, kind \in {"save", "create"} : Send(kind, 0, gpu)
    /\ UNCHANGED resumeOpen

HandleDeleteRun(r) ==
    /\ OffersDelete(r)
    /\ Send("delete", r, 0) /\ UNCHANGED resumeOpen

HandleCancelSelected ==
    /\ Offers("cancel")
    /\ Send("cancel", selected, 0) /\ UNCHANGED resumeOpen

HandlePauseSelected ==
    /\ Offers("pause")
    /\ Send("pause", selected, 0) /\ UNCHANGED resumeOpen

\* without checkpoints the request, with some the dialog
HandleResumeSelected ==
    /\ Offers("resume")
    /\ IF AllCheckpoints = 0
       THEN Send("resume", selected, 0) /\ UNCHANGED resumeOpen
       ELSE /\ resumeOpen' = TRUE
            /\ UNCHANGED <<socketVars, serverVars, streamVars, activeProject,
                           page, selected, gpuChoice, calls, told, steps>>

\* a row of the checkpoint list opens the dialog, whatever the run's status; a
\* live copy counts as retained
SelectCheckpoint ==
    /\ page = "runs" /\ selected \in Listed(List) /\ PageFree
    /\ \/ Loaded("checkpoints", [kept |-> {}, pruned |-> {}]).kept # {}
       \/ store[selected].ckpts # << >>
    /\ resumeOpen' = TRUE
    /\ UNCHANGED <<socketVars, serverVars, streamVars, activeProject, page,
                   selected, gpuChoice, calls, told, steps>>

\* the checkpoint chosen in the dialog is not part of the request
HandleResumeFromCheckpoint ==
    /\ resumeOpen /\ AllCheckpoints # 0 /\ ~Pending("resume") /\ selected # 0
    /\ Send("resume", selected, 0) /\ UNCHANGED resumeOpen

CloseResumeDialog ==
    /\ resumeOpen
    /\ resumeOpen' = FALSE
    /\ UNCHANGED <<socketVars, serverVars, streamVars, activeProject, page,
                   selected, gpuChoice, calls, told, steps>>

\* components/runs/run-fallback-dialog.tsx
ChooseGpu(gpu) ==
    /\ DialogOpen /\ gpu \in ProposedGpus(proposals[selected])
    /\ gpuChoice' = gpu
    /\ UNCHANGED <<socketVars, serverVars, streamVars, activeProject, page,
                   selected, resumeOpen, calls, told, steps>>

HandleAccept ==
    /\ DialogOpen /\ gpuChoice # 0 /\ ~Pending("accept") /\ ~Pending("decline")
    /\ Send("accept", selected, gpuChoice) /\ UNCHANGED resumeOpen

HandleDecline ==
    /\ DialogOpen /\ ~Pending("accept") /\ ~Pending("decline")
    /\ Send("decline", selected, 0) /\ UNCHANGED resumeOpen

CloseFallbackDialog ==
    /\ DialogOpen
    /\ proposals' = ClearFallbackProposal(proposals, selected)
    /\ gpuChoice' = 0
    /\ UNCHANGED <<socketVars, serverVars, store, cache,
                   activeProject, page, selected, resumeOpen, calls, told, steps>>

\* the server handles a request
Handle(c) ==
    LET ok == c.project = Home /\ Accepted(c.kind, c.run, c.gpu)
        answered == [c EXCEPT !.answer = IF ok THEN "ok" ELSE "refused",
                              !.new = IF ok /\ c.kind = "create"
                                      THEN LeastNew(row) ELSE 0]
    IN  /\ c.answer = "none" /\ Room(c.kind)
        /\ row' = IF ok THEN AfterRequest(c.kind, c.run, c.gpu) ELSE row
        /\ sock' = IF ok THEN AfterPublish(c.kind, c.run) ELSE sock
        /\ calls' = (calls \ {c}) \cup {answered}
        /\ UNCHANGED <<socket, wsProject, wsChannels, reconnects, steps,
                       streamVars, activeProject, page, selected, resumeOpen,
                       gpuChoice, told>>

\* the answer: the hook's onSuccess invalidates, then the callbacks given to
\* mutate run on what they captured at the click
SelectionAfter(c) ==
    CASE c.kind = "create" -> c.new
      [] c.kind = "delete" /\ c.selected = c.run -> 0
      [] OTHER -> selected

Respond(c) ==
    LET ok == c.answer = "ok"
        invalid == IF ok THEN InvalidatedAll(cache, Keys, ActiveKeys) ELSE cache
    IN  /\ c.answer # "none"
        /\ calls' = calls \ {c}
        /\ IF ok /\ c.bound
           THEN /\ Follow(page, activeProject,
                          AutoSelect(SelectionAfter(c), ListIn(invalid, activeProject)),
                          invalid)
                /\ resumeOpen' = (resumeOpen /\ c.kind # "resume")
           ELSE /\ cache' = invalid
                /\ UNCHANGED <<socketVars, activeProject, page, selected,
                               resumeOpen, gpuChoice>>
        /\ UNCHANGED <<serverVars, store, proposals, told, steps>>

\* maybeCreateOverrideConfig has saved: the create, from a page that may have
\* been left since; a second Start drops the callbacks of the first
RespondSave(c) ==
    LET create == [c EXCEPT !.kind = "create", !.answer = "none"]
    IN  /\ c.answer # "none"
        /\ calls' = IF c.answer = "ok"
                    THEN {[d EXCEPT !.bound = d.bound /\ d.kind # "create"] :
                            d \in calls \ {c}} \cup {create}
                    ELSE calls \ {c}
        /\ UNCHANGED <<socketVars, serverVars, streamVars, activeProject, page,
                       selected, resumeOpen, gpuChoice, told, steps>>

\* accept and decline: their own callback closes the dialog they came from
RespondFallback(c) ==
    LET ok == c.answer = "ok"
    IN  /\ c.answer # "none"
        /\ calls' = calls \ {c}
        /\ cache' = IF ok THEN InvalidatedAll(cache, Keys, ActiveKeys) ELSE cache
        /\ proposals' = IF ok /\ c.bound THEN ClearFallbackProposal(proposals, c.run)
                        ELSE proposals
        /\ gpuChoice' = IF proposals' # proposals /\ c.run = selected THEN 0
                        ELSE gpuChoice
        /\ UNCHANGED <<socketVars, serverVars, store, activeProject,
                       page, selected, resumeOpen, told, steps>>
=============================================================================
