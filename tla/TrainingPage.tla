----------------------------- MODULE TrainingPage -----------------------------
(***************************************************************************)
(* pages/training-page.tsx: a form over two parts of the configuration, a  *)
(* save, and a launch that saves first what is not saved yet.              *)
(***************************************************************************)
EXTENDS YamlDialog

\* slice: {} until the configuration was first read; touched: the form was
\* changed since (history); launch: isLaunchDialogOpen
TrainingUi == [slice |-> {}, touched |-> FALSE, launch |-> FALSE,
               yaml |-> ClosedDialog]

SliceFromConfig(content) == [training |-> content["training"],
                             adapters |-> content["adapters"]]

ComposeFullConfig(base, slice) ==
    Recased([base EXCEPT !["training"] = slice.training,
                         !["adapters"] = slice.adapters])

\* parsedConfig
ParsedConfig(c, p) == {versions[v].content : v \in ConfigVersion(c, p)}

\* yamlPreview: "" is {}
YamlPreview(u, p, c) ==
    {ComposeFullConfig(base, slice) : base \in ParsedConfig(c, p), slice \in u.slice}

\* the effects: the slice is read once; the dialog follows the preview
TrainingSettled(u, p, c) ==
    LET read == IF u.slice # {} THEN u
                ELSE [u EXCEPT !.slice =
                        {SliceFromConfig(content) : content \in ParsedConfig(c, p)}]
        preview == YamlPreview(read, p, c)
    IN  IF u.yaml.open /\ preview # {} /\ preview # YamlPreview(u, activeProject, cfg)
        THEN [read EXCEPT !.yaml = ResetFor(@, CHOOSE y \in preview : TRUE)]
        ELSE read

\* no dialog covers the page
PageFree == page = "training" /\ ~ui.launch /\ ~yaml.open /\ yaml.asking = Nothing

SavePending == IsPending(saves, {"form", "launch"})
LaunchPending == \E l \in launches : l.watched

\* Save config and Launch run are disabled while a request is on its way
CanSave == PageFree /\ ui.slice # {} /\ ~SavePending
CanLaunch ==
    /\ PageFree /\ ConfigVersion(cfg, activeProject) # NoAnswer
    /\ ~SavePending /\ ~LaunchPending

Composed == YamlPreview(ui, activeProject, cfg)

HandleSliceChange(s) ==
    /\ PageFree /\ ui.slice # {} /\ s \in {"training", "adapters"} /\ Step
    /\ ui' = [ui EXCEPT !.touched = TRUE,
                        !.slice = {[sl EXCEPT ![s] = Flip(@)] : sl \in @}]
    /\ OnlyDialog

HandleFormSave ==
    /\ CanSave /\ Step
    /\ \E composed \in Composed :
        saves' = saves \cup {SaveRequest("form", composed, composed)}
    /\ Quiet /\ UNCHANGED ui

OpenYaml ==
    /\ PageFree /\ ui.slice # {} /\ Step
    /\ \E preview \in Composed : Become(ResetDialog(preview))
    /\ OnlyDialog

\* Launch run, or Re-run in the history, which asks for the form's run
OpenLaunch ==
    /\ CanLaunch /\ Step
    /\ ui' = [ui EXCEPT !.launch = TRUE]
    /\ OnlyDialog

CloseLaunch ==
    /\ page = "training" /\ ui.launch
    /\ ui' = [ui EXCEPT !.launch = FALSE]
    /\ OnlyDialog /\ UNCHANGED steps

\* handleLaunch: the two texts may differ although they say the same
HandleLaunchClick ==
    /\ page = "training" /\ ui.launch /\ ~SavePending /\ ~LaunchPending /\ Step
    /\ \E composed \in Composed, v \in ConfigVersion(cfg, activeProject) :
        \/ /\ composed = versions[v].content
           /\ launches' = launches \cup {LaunchRequest(activeProject, v, composed)}
           /\ UNCHANGED saves
        \/ /\ saves' = saves \cup {SaveRequest("launch", composed, composed)}
           /\ UNCHANGED launches
    /\ UNCHANGED <<configVars, tour, activeProject, page, ui, cfg, writes, followed>>

\* mutant of LaunchWithConfigVersion: the version the page shows is launched
LaunchShownVersion(s) ==
    {LaunchRequest(s.project, v, s.shown) : v \in ConfigVersion(cfg, s.project)}

LaunchWithConfigVersion(s) == {LaunchRequest(s.project, s.version, s.shown)}

\* the answer of a form's save; a launch goes on with the new version, if the
\* page is still there
SaveAnswered(s) ==
    /\ s.by # "yaml" /\ s.phase \in {"ok", "failed"}
    /\ SaveFollowed(s)
    /\ saves' = saves \ {s}
    /\ launches' = IF s.by = "launch" /\ s.watched /\ s.phase = "ok"
                   THEN launches \cup LaunchWithConfigVersion(s) ELSE launches
    /\ UNCHANGED <<configVars, tour, activeProject, page, ui, writes, steps>>

LaunchAnswered(l) ==
    /\ l.phase \in {"ok", "failed"}
    /\ launches' = launches \ {l}
    /\ ui' = IF l.watched /\ l.phase = "ok" THEN [ui EXCEPT !.launch = FALSE] ELSE ui
    /\ UNCHANGED <<configVars, tour, activeProject, page, cfg, saves, writes,
                   followed, steps>>
=============================================================================
