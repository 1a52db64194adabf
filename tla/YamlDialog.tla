------------------------------ MODULE YamlDialog ------------------------------
(***************************************************************************)
(* components/training/yaml-preview-dialog.tsx with its editor pane and    *)
(* history: the text of the configuration, pasted over, restored from an   *)
(* earlier version, validated and saved as a new one.  A text is the       *)
(* configuration it stands for.                                            *)
(*                                                                         *)
(* Left out: a text that does not parse, which the pane keeps to itself;   *)
(* whether the history is unfolded; error lists and toasts.                *)
(***************************************************************************)
EXTENDS Workbench

CONSTANT EditSections   \* bound: the sections a user changes in the text

Nothing == -1   \* pendingAction is null
Closing == 0    \* pendingAction.kind is "close"; a version: "restore"

\* the effect on [isOpen, yamlContent]
ResetDialog(preview) ==
    [open |-> TRUE, mode |-> "view", initial |-> preview, text |-> preview,
     rollback |-> 0, asking |-> Nothing, loads |-> {}]

\* mutant of ResetFor: what was restored before is still named
ResetForKept(y, preview) ==
    [ResetDialog(preview) EXCEPT !.loads = y.loads, !.rollback = y.rollback]

\* pendingAction and the loads on their way survive the reset
ResetFor(y, preview) ==
    [ResetDialog(preview) EXCEPT !.asking = y.asking, !.loads = y.loads]

ClosedDialog == [ResetDialog(DefaultConfig) EXCEPT !.open = FALSE]

yaml == ui.yaml
Become(y) == ui' = [ui EXCEPT !.yaml = y]

InDialog == page = "training" /\ yaml.open /\ yaml.asking = Nothing
IsDirty == yaml.mode = "edit" /\ yaml.text # yaml.initial

Quiet == UNCHANGED <<configVars, tour, activeProject, page, cfg, launches,
                     writes, followed>>
OnlyDialog == Quiet /\ UNCHANGED saves

\* a click that would lose edits asks first
Guarded(ask, y) == Become(IF IsDirty THEN [yaml EXCEPT !.asking = ask] ELSE y)

\* the Edit button mounts the pane with editorYaml
EditClick ==
    /\ InDialog /\ yaml.mode = "view"
    /\ Become([yaml EXCEPT !.mode = "edit", !.text = yaml.initial])
    /\ OnlyDialog /\ UNCHANGED steps

TypeText(s) ==
    /\ InDialog /\ yaml.mode = "edit" /\ s \in EditSections /\ Step
    /\ Become([yaml EXCEPT !.text[s] = Flip(@)])
    /\ OnlyDialog

HandleViewClick ==
    /\ InDialog /\ yaml.mode = "edit"
    /\ Guarded(Closing, [yaml EXCEPT !.mode = "view", !.rollback = 0])
    /\ OnlyDialog /\ UNCHANGED steps

HandleCloseRequest ==
    /\ InDialog
    /\ Guarded(Closing, [yaml EXCEPT !.open = FALSE])
    /\ OnlyDialog /\ UNCHANGED steps

\* the versions the history offers: not the active one it knows of
Restorable ==
    {v \in VersionIds : versions[v].project = activeProject}
        \ ConfigVersion(cfg, activeProject)

HandleRestoreRequest(v) ==
    /\ InDialog /\ v \in Restorable /\ v \notin yaml.loads /\ Step
    /\ Guarded(v, [yaml EXCEPT !.loads = @ \cup {v}])
    /\ OnlyDialog

HandlePendingConfirm ==
    /\ page = "training" /\ yaml.asking # Nothing
    /\ Become(IF yaml.asking = Closing
              THEN [yaml EXCEPT !.asking = Nothing, !.open = FALSE]
              ELSE [yaml EXCEPT !.asking = Nothing, !.loads = @ \cup {yaml.asking}])
    /\ OnlyDialog /\ UNCHANGED steps

KeepEditing ==
    /\ page = "training" /\ yaml.asking # Nothing
    /\ Become([yaml EXCEPT !.asking = Nothing])
    /\ OnlyDialog /\ UNCHANGED steps

\* loadVersionIntoEditor: the pane takes the text if it differs from the last
LoadVersionIntoEditor(v) ==
    LET loaded == versions[v].content
        keeps == yaml.mode = "edit" /\ loaded = yaml.initial
    IN  Become([yaml EXCEPT !.loads = @ \ {v}, !.mode = "edit", !.rollback = v,
                            !.initial = loaded,
                            !.text = IF keeps THEN @ ELSE loaded])

VersionLoaded(v) ==
    /\ page = "training" /\ v \in yaml.loads
    /\ \/ LoadVersionIntoEditor(v)
       \/ Become([yaml EXCEPT !.loads = @ \ {v}])
    /\ OnlyDialog /\ UNCHANGED steps

\* the text is validated first; the source of the version is fixed here
SaveText ==
    /\ InDialog /\ yaml.mode = "edit" /\ ~IsPending(saves, {"yaml"}) /\ Step
    /\ saves' = saves \cup {[SaveRequest("yaml", yaml.text, yaml.text) EXCEPT
                                !.phase = "validating", !.restored = yaml.rollback]}
    /\ Quiet /\ UNCHANGED ui

\* validateYamlInline: sent on, or refused with what is wrong
TextValidated(s) ==
    /\ s.phase = "validating"
    /\ saves' \in {saves \ {s}, Replaced(saves, s, [s EXCEPT !.phase = "sent"])}
    /\ Quiet /\ UNCHANGED <<ui, steps>>

\* the rest of handleSave: back to the view, whatever was typed meanwhile
TextSaved(s) ==
    /\ s.by = "yaml" /\ s.phase \in {"ok", "failed"}
    /\ SaveFollowed(s)
    /\ saves' = saves \ {s}
    /\ IF s.watched /\ s.phase = "ok"
       THEN Become([yaml EXCEPT !.mode = "view", !.rollback = 0])
       ELSE UNCHANGED ui
    /\ UNCHANGED <<configVars, tour, activeProject, page, launches, writes, steps>>
=============================================================================
