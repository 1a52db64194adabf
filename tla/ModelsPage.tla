------------------------------ MODULE ModelsPage ------------------------------
(***************************************************************************)
(* pages/models-page.tsx: the model of the project is resolved, models are *)
(* registered, a finished run is merged into its base.  The panel that     *)
(* serves the model is module ServingPanel.                                *)
(*                                                                         *)
(* Left out: which tab is shown, and the buttons that only show a toast    *)
(* (Activated, HF page, Export queued, Copy path).                         *)
(***************************************************************************)
EXTENDS Tables

VARIABLES
    modelForm,  \* app-store's modelForm.modelId; 0: ""
    profile     \* the profile the page shows of each project's model; 0: none

modelVars == <<modelForm, profile>>

\* register: RegisterModelModal's draft; merging: isMergeDialogOpen with
\* mergeRunId, 0 is ""
ModelsUi == [register |-> "closed", merging |-> FALSE, mergeRun |-> 0]

OnModels == page = "models" /\ activeProject # NoProject
NoDialog == ui.register = "closed" /\ ~ui.merging
KeepServer == UNCHANGED <<configVars, tour, activeProject, page, cfg, saves,
                          launches, followed>>
KeepWrites == KeepServer /\ UNCHANGED writes
OnlyModelsUi == KeepWrites /\ UNCHANGED <<tableVars, modelVars>>

\* the effect: an empty field is filled with the project's model
Refilled(form, p) == IF form = 0 /\ p # NoProject THEN profile[p] ELSE form

\* the field is the store's: another project does not change it
SetModelForm(id) ==
    /\ OnModels /\ NoDialog /\ ~IsPending(writes, {"model"}) /\ Step
    /\ modelForm' = Refilled(id, activeProject)
    /\ KeepWrites /\ UNCHANGED <<ui, tableVars, profile>>

HandleResolveModel ==
    /\ OnModels /\ NoDialog /\ modelForm # 0 /\ ~IsPending(writes, {"model"}) /\ Step
    /\ writes' = writes \cup {WriteRequest("model", "model", modelForm)}
    /\ KeepServer /\ UNCHANGED <<ui, tableVars, modelVars>>

\* useResolveModel's onSuccess refreshes the profile of the project that was
\* resolved, and not its active configuration
ModelResolved(w) ==
    /\ w.by = "model" /\ w.phase \in {"ok", "failed"}
    /\ writes' = writes \ {w}
    /\ profile' = IF w.phase = "ok" THEN [profile EXCEPT ![w.project] = w.value]
                  ELSE profile
    /\ modelForm' = IF modelForm = 0 /\ page = "models" /\ activeProject = w.project
                    THEN profile'[w.project] ELSE modelForm
    /\ KeepServer /\ UNCHANGED <<ui, tableVars, steps>>

(***************************************************************************)
(* The dialogs.                                                            *)
(***************************************************************************)
OpenRegister ==
    /\ OnModels /\ NoDialog
    /\ ui' = [ui EXCEPT !.register = "empty"] /\ OnlyModelsUi /\ Step

\* path and name are typed
TypeDraft ==
    /\ page = "models" /\ ui.register = "empty"
    /\ ui' = [ui EXCEPT !.register = "typed"] /\ OnlyModelsUi /\ UNCHANGED steps

\* by its Cancel, disabled meanwhile, or by a click outside, never disabled;
\* the draft is dropped
CloseRegister ==
    /\ page = "models" /\ ui.register # "closed"
    /\ ui' = [ui EXCEPT !.register = "closed"] /\ OnlyModelsUi /\ UNCHANGED steps

HandleRegister ==
    /\ page = "models" /\ ui.register = "typed" /\ ~Busy("register")
    /\ Send("register", 0)
    /\ KeepWrites /\ UNCHANGED <<ui, modelVars>>

\* isMergeableRun: run r is completed with a checkpoint
MergeableRuns == Rows

HandleOpenMergeDialog ==
    /\ OnModels /\ NoDialog
    /\ ui' = [ui EXCEPT !.merging = TRUE, !.mergeRun = Min(MergeableRuns)]
    /\ OnlyModelsUi /\ Step

SelectMergeRun(r) ==
    /\ page = "models" /\ ui.merging /\ r \in MergeableRuns
    /\ ui' = [ui EXCEPT !.mergeRun = r] /\ OnlyModelsUi /\ Step

CloseMergeDialog ==
    /\ page = "models" /\ ui.merging
    /\ ui' = [ui EXCEPT !.merging = FALSE] /\ OnlyModelsUi /\ UNCHANGED steps

HandleConfirmMerge ==
    /\ page = "models" /\ ui.merging /\ ui.mergeRun # 0 /\ ~Busy("merge")
    /\ Send("merge", ui.mergeRun)
    /\ KeepWrites /\ UNCHANGED <<ui, modelVars>>

HandleDeleteMerged(m) ==
    /\ OnModels /\ NoDialog /\ m \in Listed("merged") /\ ~Busy("unmerge")
    /\ Send("unmerge", m)
    /\ KeepWrites /\ UNCHANGED <<ui, modelVars>>

\* onSuccess closes the dialog, be it the one the request came from or not
ModelsUiAfter(c) ==
    CASE c.kind = "register" -> [ui EXCEPT !.register = "closed"]
      [] c.kind = "merge" -> [ui EXCEPT !.merging = FALSE]
      [] OTHER -> ui

ModelsShows == {"registry", "merged"}
=============================================================================
