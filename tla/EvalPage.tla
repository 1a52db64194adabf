------------------------------- MODULE EvalPage -------------------------------
(***************************************************************************)
(* pages/eval-page.tsx with the components of components/eval: the form    *)
(* that triggers an evaluation, the list of evaluation runs, the selected  *)
(* run's cases and calls (hooks/useEval.ts, api/eval.ts), and its live     *)
(* events (hooks/useEvalStream.ts, ws/eval-stream.ts).                     *)
(*                                                                         *)
(* The other page is one that follows a training run, which shares the     *)
(* tab's socket.  A query is one step with its answer; answers racing an   *)
(* invalidation are in module RunsPage.  Left out: the export of the       *)
(* detail on show, expanding a judge's reasoning, and texts.               *)
(***************************************************************************)
EXTENDS EvalRunner, QueryCache

CONSTANTS
    Versions,         \* rubric versions
    LatestVersions,   \* the latest of each rubric
    Calibrated,       \* the calibrated ones
    TrainingRuns,     \* the training runs of Home
    CostInputs        \* what the cost input parses to; NoCap: empty (null)

ASSUME FormAssumption ==
    /\ LatestVersions \subseteq Versions /\ Calibrated \subseteq Versions
    /\ TrainingRuns \subseteq Nat \ {0}
    /\ CostInputs \subseteq 0 .. NoCap /\ NoCap \in CostInputs

ASSUME ChannelAssumption ==
    {"eval", "run_state", "metrics", "logs", "system"} \subseteq Channels

VARIABLES
    activeProject, \* app-store's activeProjectId
    page,          \* "eval", or "runs": a page that follows a run
    evalSel,       \* selectedEvalRunId; 0: null
    caseSel,       \* selectedCaseId, an <<evaluation run, case>>; NoCase: null
    form,          \* selectedTrainingRunId, ...VersionIds, the toggle, the cost
    live,          \* useEvalStream's three states
    calls,         \* requests to create a run that are not answered yet
    evalCache,     \* the query cache: the list and the details
    toldOf         \* history: events handled about data that was on show

pageVars == <<activeProject, page, evalSel, caseSel, form, live, calls,
              evalCache, toldOf>>
vars == <<socketVars, erow, pageVars, steps>>

NoCase == <<0, 0>>
Forms == [run : {0} \cup TrainingRuns, versions : SUBSET Versions,
          uncalibrated : BOOLEAN, cost : CostInputs]
EmptyForm == [run |-> 0, versions |-> {}, uncalibrated |-> FALSE, cost |-> NoCap]
NoLive == [cases |-> << >>, completion |-> {}, warning |-> {}]

ListKey == 0
EvalKeys == {ListKey} \cup Evals

PageInit ==
    /\ activeProject = Home /\ page = "eval"
    /\ evalSel = 0 /\ caseSel = NoCase
    /\ form = EmptyForm /\ live = NoLive
    /\ calls = {}
    /\ evalCache = [k \in EvalKeys |-> EmptyEntry]
    /\ toldOf = [e \in Evals |-> {}]

(***************************************************************************)
(* Queries.  An answer with a status or a tier the parsers do not know     *)
(* throws, and the query keeps what it had.                                *)
(***************************************************************************)
EVAL_RUN_STATUSES == {"pending", "running", "completed", "failed", "cancelled"}

\* parseEvalRunStatus
StatusParses(r) == r.status \in EVAL_RUN_STATUSES

\* parseJudgeTier, parseJudgeVerdict: an error call has tier and verdict "error"
CallParses(charged) == charged # 0

EvalAnswer(k) ==
    IF k = ListKey
    THEN [e \in {d \in Evals : erow[d].status # "absent"} |-> erow[e].status]
    ELSE erow[k]

\* normalizeEvalRun over the list; over the detail with its calls
AnswerParses(k) ==
    IF k = ListKey
    THEN \A e \in Evals : erow[e].status # "absent" => StatusParses(erow[e])
    ELSE /\ StatusParses(erow[k])
         /\ \A i \in DOMAIN erow[k].calls : CallParses(erow[k].calls[i])

ActiveKeys ==
    IF page = "eval" THEN {ListKey} \cup ({evalSel} \cap Evals) ELSE {}

FetchEval(k) ==
    /\ k \in ActiveKeys
    /\ AnswerParses(k)
    /\ IF evalCache[k].data = NoAnswer THEN UNCHANGED steps ELSE Step
    /\ evalCache' = [evalCache EXCEPT ![k] = Answered(Asked(@, EvalAnswer(k)))]
    /\ UNCHANGED <<socketVars, erow, activeProject, page, evalSel, caseSel, form,
                   live, calls, toldOf>>

ListedEvals == DOMAIN DataOr(evalCache[ListKey], << >>)

\* evalRunDetail: nothing until the selected run's query has answered
Detail == IF evalSel = 0 THEN NoAnswer ELSE evalCache[evalSel].data

\* mutant of CaseCalls: each call replaces the one before
CaseCallsLast(detail, c) ==
    {k \in DOMAIN detail.calls :
        /\ CaseOf(k) = c
        /\ \A j \in DOMAIN detail.calls : CaseOf(j) = c => j <= k}

\* buildCallsByCaseId: the calls of a case
CaseCalls(detail, c) == {k \in DOMAIN detail.calls : CaseOf(k) = c}

\* the rows of the case table: every case, with what its calls charged
CaseCost(detail, c) == SumFunctionOnSet(detail.calls, CaseCalls(detail, c))

\* rows are there once the task has stored the cases
DetailCases(detail) == IF detail.status = "pending" THEN {} ELSE 1 .. NCases

\* selectedCase: the drawer shows nothing for a case the detail does not have
OpenCase ==
    {c \in 1 .. NCases : /\ caseSel = <<evalSel, c>>
                         /\ \E d \in Detail : c \in DetailCases(d)}

(***************************************************************************)
(* The socket's listener.                                                  *)
(***************************************************************************)
EVAL_CHANNELS == {"eval"}
StreamChannels == {"run_state", "metrics", "logs", "system"}

\* parseEvalEnvelope
EvalEventKinds == {"case_completed", "run_completed", "cost_warning"}

ListensTo(event) ==
    /\ page = "eval" /\ activeProject # NoProject
    /\ event.channel = "eval" /\ event.event \in EvalEventKinds
    /\ evalSel = 0 \/ event.about = evalSel

Handled(lv, event) ==
    CASE event.event = "case_completed" ->
            [lv EXCEPT !.cases = Append(@, <<event.about, event.n>>)]
      [] event.event = "run_completed" -> [lv EXCEPT !.completion = {event.about}]
      [] OTHER -> [lv EXCEPT !.warning = {<<event.about, event.n>>}]

\* mutant of InvalidatedBy: the end of the run is not followed
InvalidatedByCase(event) == IF event.event = "case_completed" THEN EvalKeys ELSE {}

\* invalidateEvalRunQueries: the prefix of the list covers the details
InvalidatedBy(event) == IF event.event = "cost_warning" THEN {} ELSE EvalKeys

Deliver(s) ==
    /\ Received(s)
    /\ LET event == Head(sock[s].queue)
           keys == InvalidatedBy(event)
           shown == {k \in {ListKey, event.about} : /\ event.event # "cost_warning"
                                                   /\ evalCache[k].data # NoAnswer}
       IN  IF ~ListensTo(event) THEN UNCHANGED <<live, evalCache, toldOf>>
           ELSE /\ live' = Handled(live, event)
                /\ evalCache' = InvalidatedAll(evalCache, keys, ActiveKeys)
                /\ toldOf' = [toldOf EXCEPT ![event.about] =
                                @ \cup {<<k = ListKey, event.n>> : k \in shown}]
    /\ UNCHANGED <<erow, activeProject, page, evalSel, caseSel, form, calls>>

\* mutant of LiveAfter: the effect that resets is missing
LiveKept(sel) == live

\* useEvalStream's effects: one resets the live data when the evaluation run
\* changes, the other connects when that or the project does
LiveAfter(sel) == IF sel # evalSel THEN NoLive ELSE live

Follow(p, sel) ==
    /\ activeProject' = p /\ evalSel' = sel /\ page' = "eval"
    /\ live' = IF page = "eval" THEN LiveAfter(sel) ELSE NoLive
    /\ IF p # NoProject /\ <<page, activeProject, evalSel>> # <<"eval", p, sel>>
       THEN Connect(p, EVAL_CHANNELS)
       ELSE UNCHANGED socketVars

(***************************************************************************)
(* Navigation and the form.                                                *)
(***************************************************************************)
PageLeft ==
    /\ caseSel' = NoCase /\ form' = EmptyForm
    /\ calls' = {[c EXCEPT !.bound = FALSE] : c \in calls}

OpenEvalPage ==
    /\ page = "runs" /\ Step
    /\ Follow(activeProject, 0)
    /\ PageLeft
    /\ UNCHANGED <<erow, evalCache, toldOf>>

OpenRunsPage ==
    /\ page = "eval" /\ Step
    /\ page' = "runs" /\ evalSel' = 0 /\ live' = NoLive
    /\ PageLeft
    /\ IF activeProject # NoProject THEN Connect(activeProject, StreamChannels)
       ELSE UNCHANGED socketVars
    /\ UNCHANGED <<erow, activeProject, evalCache, toldOf>>

\* every choice but the project's stays; the runs listed are of the new one
SetActiveProject(p) ==
    /\ page = "eval" /\ p # activeProject /\ Step
    /\ Follow(p, evalSel)
    /\ UNCHANGED <<erow, caseSel, form, calls, evalCache, toldOf>>

PageShown == page = "eval" /\ activeProject # NoProject

HandleSelectEvalRun(e) ==
    /\ PageShown /\ e \in ListedEvals /\ Step
    /\ Follow(activeProject, e)
    /\ caseSel' = NoCase
    /\ UNCHANGED <<erow, form, calls, evalCache, toldOf>>

SelectCase(c) ==
    /\ PageShown /\ Step
    /\ \E d \in Detail : c \in DetailCases(d)
    /\ caseSel' = <<evalSel, c>>
    /\ UNCHANGED <<socketVars, erow, activeProject, page, evalSel, form, live,
                   calls, evalCache, toldOf>>

CloseCase ==
    /\ PageShown /\ OpenCase # {}
    /\ caseSel' = NoCase
    /\ UNCHANGED <<socketVars, erow, activeProject, page, evalSel, form, live,
                   calls, evalCache, toldOf, steps>>

\* buildLatestVersionsByRubric, filterVersions
VisibleVersions ==
    {v \in LatestVersions : form.uncalibrated \/ v \in Calibrated}

\* the form of EvalTriggerPanel
EditForm ==
    /\ PageShown /\ Step
    /\ \/ \E v \in VisibleVersions :     \* handleToggleVersion
            form' = [form EXCEPT !.versions = SymDiff(@, {v})]
       \/ form' = [form EXCEPT !.uncalibrated = ~@]
       \/ \E r \in {0} \cup (IF activeProject = Home THEN TrainingRuns ELSE {}) :
            form' = [form EXCEPT !.run = r]
       \/ \E c \in CostInputs : form' = [form EXCEPT !.cost = c]
    /\ UNCHANGED <<socketVars, erow, activeProject, page, evalSel, caseSel, live,
                   calls, evalCache, toldOf>>

(***************************************************************************)
(* createEvalRun: the request, the server's answer, the callbacks.         *)
(***************************************************************************)
\* the keys of the body; there is no project_id among them
TriggerFields == {"training_run_id", "rubric_version_ids", "max_cost_usd"}

HandleTriggerEval ==
    /\ PageShown /\ form.versions # {}
    /\ ~\E c \in calls : c.bound
    /\ Step
    /\ calls' = calls \cup {[form |-> form, bound |-> TRUE, id |-> steps,
                             answer |-> "none", new |-> 0]}
    /\ UNCHANGED <<socketVars, erow, activeProject, page, evalSel, caseSel, form,
                   live, evalCache, toldOf>>

HandleCreate(c) ==
    LET free == {e \in Evals : erow[e].status = "absent"}
        ok == /\ CreateAccepted(TriggerFields, c.form.versions, c.form.cost)
              /\ free # {}
        new == CHOOSE e \in free : \A d \in free : e <= d
    IN  /\ c.answer = "none"
        /\ erow' = IF ok THEN [erow EXCEPT ![new].status = "pending",
                                           ![new].cap = c.form.cost]
                   ELSE erow
        /\ calls' = (calls \ {c}) \cup
                    {[c EXCEPT !.answer = IF ok THEN "ok" ELSE "refused",
                               !.new = IF ok THEN new ELSE 0]}
        /\ UNCHANGED <<socketVars, steps, activeProject, page, evalSel, caseSel,
                       form, live, evalCache, toldOf>>

\* useCreateEvalRun's onSuccess, then the page's; a refusal raises a toast
RespondCreate(c) ==
    LET ok == c.answer = "ok"
    IN  /\ c.answer # "none"
        /\ calls' = calls \ {c}
        /\ evalCache' = IF ok THEN InvalidatedAll(evalCache, {ListKey}, ActiveKeys)
                        ELSE evalCache
        /\ IF ok /\ c.bound
           THEN Follow(activeProject, c.new) /\ caseSel' = NoCase
           ELSE UNCHANGED <<socketVars, activeProject, page, evalSel, caseSel, live>>
        /\ UNCHANGED <<steps, erow, form, toldOf>>
=============================================================================
