----------------------------- MODULE DatasetsPage -----------------------------
(***************************************************************************)
(* pages/datasets-page.tsx: the form that describes a dataset and the      *)
(* dialog that adds one, resolving either, and redacting the rows for a    *)
(* run in the cloud (hooks/useDatasetProfile.ts).                          *)
(*                                                                         *)
(* Left out: the samples, figures and labels drawn from a profile; the     *)
(* draft's format and split detection, which the request does not use.     *)
(***************************************************************************)
EXTENDS Workbench

CONSTANT Percents   \* bound: the percentages a user enters, which are clamped

ASSUME PercentsAssumption == Percents \subseteq 0 .. 100

VARIABLES
    datasetForm,     \* app-store's datasetForm, one for all projects
    datasetProfile,  \* ["projects", p, "dataset", "profile"]: a dataset
    sanitizeStatus,  \* ["projects", p, "dataset", "sanitize", "status"]
    sanitizes        \* POST /datasets/sanitize requests not answered yet

datasetVars == <<datasetForm, datasetProfile, sanitizeStatus, sanitizes>>

Ratios == Percents \cup {Unset}

\* DEFAULT_DATASET_FORM; id 0: the field is empty
DefaultDatasetForm == [id |-> 0, format |-> "default",
                       ratios |-> [train |-> 80, val |-> 10, test |-> 10]]

\* dialog: activeDialog; draft: addDraft.path; preview: previewResponse
DatasetsUi == [dialog |-> "none", draft |-> 0, preview |-> 0]

OnDatasets == page = "datasets" /\ activeProject # NoProject
NoDatasetDialog == ui.dialog = "none"
DatasetFree == OnDatasets /\ NoDatasetDialog

Profile == DataOr(datasetProfile[activeProject], 0)
Resolving == IsPending(writes, {"dataset", "ingest"})

DatasetsRest == UNCHANGED <<configVars, tour, activeProject, page, cfg, saves,
                            launches, followed>>
OnlyForm == DatasetsRest /\ UNCHANGED <<ui, writes, datasetProfile, sanitizeStatus, sanitizes>>

\* the effect: an empty field is filled from the project's profile
FilledForm(form, profile) ==
    IF form.id = 0 THEN [form EXCEPT !.id = DataOr(profile, 0)] ELSE form

(***************************************************************************)
(* The form.                                                               *)
(***************************************************************************)
Clamp(n) == IF n < 0 THEN 0 ELSE IF n > 100 THEN 100 ELSE n

\* handleRatioChange: with two of the three set the other is what is left
HandleRatioChange(ratios, field, entered) ==
    LET next == [ratios EXCEPT ![field] = entered]
        left(a, b) == Clamp(100 - next[a] - next[b])
        set(a, b) == next[a] # Unset /\ next[b] # Unset
    IN  IF field # "test" /\ set("train", "val")
        THEN [next EXCEPT !.test = left("train", "val")]
        ELSE IF field # "val" /\ set("train", "test")
        THEN [next EXCEPT !.val = left("train", "test")]
        ELSE IF field # "train" /\ set("val", "test")
        THEN [next EXCEPT !.train = left("val", "test")]
        ELSE next

EnterRatio(field, entered) ==
    /\ DatasetFree /\ Step
    /\ datasetForm' = [datasetForm EXCEPT !.ratios = HandleRatioChange(@, field, entered)]
    /\ OnlyForm

SetDataset(id) ==
    /\ DatasetFree /\ id # datasetForm.id /\ Step
    /\ datasetForm' = FilledForm([datasetForm EXCEPT !.id = id], datasetProfile[activeProject])
    /\ OnlyForm

SetFormat(format) ==
    /\ DatasetFree /\ format # datasetForm.format /\ Step
    /\ datasetForm' = [datasetForm EXCEPT !.format = format]
    /\ OnlyForm

(***************************************************************************)
(* Resolving.                                                              *)
(***************************************************************************)
\* the splits a dataset comes with, in percent, rounded one by one
NaturalSplits == {[train |-> 100, val |-> Unset, test |-> Unset],
                  [train |-> Unset, val |-> 0, test |-> Unset],
                  [train |-> 67, val |-> 33, test |-> 0]}

ResolveRequest(by, id, ratios) ==
    [WriteRequest(by, "dataset", id) EXCEPT !.ratios = ratios]

HandleResolve ==
    /\ DatasetFree /\ datasetForm.id # 0 /\ ~Resolving /\ Step
    /\ writes' = writes \cup
        {ResolveRequest("dataset", datasetForm.id, datasetForm.ratios)}
    /\ DatasetsRest /\ UNCHANGED <<ui, datasetVars>>

OpenDatasetDialog(dialog) ==
    /\ DatasetFree /\ Step
    /\ ui' = [ui EXCEPT !.dialog = dialog]
    /\ DatasetsRest /\ UNCHANGED <<writes, datasetVars>>

TypePath(id) ==
    /\ page = "datasets" /\ ui.dialog = "add" /\ ui.draft # id /\ Step
    /\ ui' = [ui EXCEPT !.draft = id]
    /\ DatasetsRest /\ UNCHANGED <<writes, datasetVars>>

CloseDatasetDialog ==
    /\ page = "datasets" /\ ~NoDatasetDialog
    /\ ui' = [ui EXCEPT !.dialog = "none"]
    /\ DatasetsRest /\ UNCHANGED <<writes, datasetVars, steps>>

HandleIngestSubmit ==
    /\ page = "datasets" /\ ui.dialog = "add" /\ ui.draft # 0 /\ ~Resolving /\ Step
    /\ writes' = writes \cup
        {ResolveRequest("ingest", ui.draft, NoRatios)}
    /\ DatasetsRest /\ UNCHANGED <<ui, datasetVars>>

\* the profile goes to the project of the last render; the callbacks of the
\* page take the splits into the form, or close the dialog, whichever is open
DatasetResolved(w) ==
    /\ w.by \in {"dataset", "ingest"} /\ w.phase \in {"ok", "failed"}
    /\ writes' = writes \ {w}
    /\ LET worked == w.phase = "ok"
           splits == IF w.ratios.train = Unset THEN NaturalSplits ELSE {w.ratios}
           seen == worked /\ w.watched
       IN  /\ datasetProfile' = IF ~worked THEN datasetProfile
                ELSE [datasetProfile EXCEPT ![w.owner].data = {w.value},
                                            ![w.owner].stale = FALSE]
           /\ ui' = IF seen /\ w.by = "ingest"
                    THEN [ui EXCEPT !.dialog = "none", !.draft = 0] ELSE ui
           /\ \E form \in
                IF seen /\ w.by = "dataset"
                THEN {[datasetForm EXCEPT !.ratios = s] : s \in splits} \cup {datasetForm}
                ELSE {datasetForm} :
                datasetForm' = IF OnDatasets
                               THEN FilledForm(form, datasetProfile'[activeProject])
                               ELSE form
    /\ DatasetsRest /\ UNCHANGED <<sanitizeStatus, sanitizes, steps>>

\* fetchDatasetProfile; where nothing was resolved it fails
FetchProfile(p) ==
    /\ OnDatasets /\ p = activeProject /\ datasetProfile[p].flight = NoAnswer
    /\ dataRows[p] # 0
    /\ IF datasetProfile[p].data = NoAnswer THEN UNCHANGED steps ELSE Step
    /\ datasetProfile' = [datasetProfile EXCEPT ![p] = Asked(@, dataRows[p])]
    /\ DatasetsRest /\ UNCHANGED <<ui, writes, datasetForm, sanitizeStatus, sanitizes>>

ProfileAnswered(p) ==
    /\ datasetProfile[p].flight # NoAnswer
    /\ datasetProfile' = [datasetProfile EXCEPT ![p] = Answered(@)]
    /\ datasetForm' = IF OnDatasets /\ p = activeProject
                      THEN FilledForm(datasetForm, datasetProfile'[p]) ELSE datasetForm
    /\ DatasetsRest /\ UNCHANGED <<ui, writes, sanitizeStatus, sanitizes, steps>>

(***************************************************************************)
(* Redaction for the cloud.                                                *)
(***************************************************************************)
\* mutant of ToSanitizeSplitRatios: what is entered is sent as it is
SplitsAsEntered(r) ==
    LET part(f) == IF r[f] = Unset THEN 0 ELSE r[f]
    IN  [train |-> part("train"), val |-> part("val"), test |-> part("test"), of |-> 100]

\* toSanitizeSplitRatios: parts of their sum, or the fallback if that is nothing
ToSanitizeSplitRatios(r) ==
    LET part(f) == IF r[f] = Unset THEN 0 ELSE r[f]
        total == part("train") + part("val") + part("test")
    IN  IF total <= 0 THEN [train |-> 80, val |-> 10, test |-> 10, of |-> 100]
        ELSE [train |-> part("train"), val |-> part("val"), test |-> part("test"),
              of |-> total]

\* toSanitizeSourceFormat: custom rows are read as default ones
ToSanitizeSourceFormat(format) == IF format = "custom" THEN "default" ELSE format

HandleSanitize ==
    /\ DatasetFree /\ Profile # 0 /\ Step
    /\ \A s \in sanitizes : ~s.watched
    /\ sanitizes' = sanitizes \cup
        {[project |-> activeProject, watched |-> TRUE, phase |-> "sent",
          ratios |-> ToSanitizeSplitRatios(datasetForm.ratios),
          format |-> ToSanitizeSourceFormat(datasetForm.format)]}
    /\ DatasetsRest /\ UNCHANGED <<ui, writes, datasetForm, datasetProfile, sanitizeStatus>>

\* SplitRatios of schemas/dataset_sanitizer.py refuses others
RatiosAccepted(r) == r.train + r.val + r.test = r.of

SanitizeHandled(s) ==
    /\ s.phase = "sent"
    /\ \/ /\ RatiosAccepted(s.ratios) /\ SanitizeDataset(s.project)
          /\ sanitizes' = Replaced(sanitizes, s, [s EXCEPT !.phase = "ok"])
       \/ /\ sanitizes' = Replaced(sanitizes, s, [s EXCEPT !.phase = "failed"])
          /\ UNCHANGED configVars
    /\ UNCHANGED <<tour, activeProject, page, ui, cfg, requestVars, followed, steps,
                   datasetForm, datasetProfile, sanitizeStatus>>

SanitizeAnswered(s) ==
    /\ s.phase \in {"ok", "failed"}
    /\ sanitizes' = sanitizes \ {s}
    /\ sanitizeStatus' = IF s.phase = "failed" THEN sanitizeStatus
                         ELSE [sanitizeStatus EXCEPT ![s.project] =
                                Invalidated(@, OnDatasets /\ activeProject = s.project)]
    /\ DatasetsRest /\ UNCHANGED <<ui, writes, datasetForm, datasetProfile, steps>>

FetchSanitizeStatus(p) ==
    /\ OnDatasets /\ p = activeProject /\ sanitizeStatus[p].flight = NoAnswer
    /\ sanitizeStatus[p].data = NoAnswer \/ sanitizeStatus[p].stale
    /\ sanitizeStatus' = [sanitizeStatus EXCEPT ![p] = Asked(@, sanitized[p])]
    /\ DatasetsRest /\ UNCHANGED <<ui, writes, datasetForm, datasetProfile, sanitizes, steps>>

SanitizeStatusAnswered(p) ==
    /\ sanitizeStatus[p].flight # NoAnswer
    /\ sanitizeStatus' = [sanitizeStatus EXCEPT ![p] = Answered(@)]
    /\ DatasetsRest /\ UNCHANGED <<ui, writes, datasetForm, datasetProfile, sanitizes, steps>>
=============================================================================
