---------------------------- MODULE WorkbenchView ----------------------------
(***************************************************************************)
(* The pages of the browser application beside the server they write to:   *)
(* what is mounted, navigation, the choice of a project, and every page's  *)
(* actions.  The runs page and the evaluation page have views of their     *)
(* own (RunsView, EvalView).                                               *)
(***************************************************************************)
EXTENDS TrainingPage, AdaptersPage, ModelsPage, ServingPanel, FormControls,
        DatasetsPage, SuggestionsPage, ArtifactsPage, ProjectsPage,
        VoiceSession, Shell, WeightsPage

CONSTANT Switches   \* bound: the pages on which another project is chosen

\* what belongs to one page each
ownVars == <<modelVars, serveVars, datasetVars, ruleVars, voiceVars, archs>>
vars == <<configVars, workVars, tableVars, ownVars>>

(***************************************************************************)
(* Mounting.                                                               *)
(***************************************************************************)
UiOf(pg) ==
    CASE pg = "training" -> TrainingUi
      [] pg = "adapters" -> AdaptersUi
      [] pg = "models" -> ModelsUi
      [] pg = "form" -> FormUi
      [] pg = "datasets" -> DatasetsUi
      [] pg = "suggestions" -> SuggestionsUi
      [] pg = "artifacts" -> ArtifactsUi
      [] pg = "projects" -> ProjectsUi
      [] pg = "voice" -> VoiceUi
      [] pg = "shell" -> ShellUi
      [] pg = "weights" -> WeightsUi
      [] OTHER -> [mounted |-> TRUE]

\* the effects of a page, after what they depend on has changed
Settled(u, pg, p, c) ==
    CASE pg = "training" -> TrainingSettled(u, p, c)
      [] pg = "adapters" -> AdaptersSettled(u, p, c)
      [] pg = "weights" -> WeightsSettled(u, p)
      [] OTHER -> u

\* a dialog is modal: it keeps clicks from the page and the frame around it
Unobstructed ==
    CASE page = "training" -> PageFree
      [] page = "models" -> NoDialog
      [] page = "datasets" -> NoDatasetDialog
      [] page = "weights" -> ~DetailOpen
      [] OTHER -> TRUE

PageLeft ==
    /\ saves' = Unwatched(saves) /\ writes' = Unwatched(writes)
    /\ launches' = Unwatched(launches) /\ calls' = Unwatched(calls)
    /\ serveCalls' = Unwatched(serveCalls) /\ sanitizes' = Unwatched(sanitizes)
    /\ VoiceLeft

\* a link of the sidebar, or the palette, which opens over a dialog
Navigate(pg) ==
    /\ pg \in tour.pages \ {page} /\ Step
    /\ page' = pg
    /\ ui' = Settled(UiOf(pg), pg, activeProject, cfg)
    /\ modelForm' = IF pg = "models" THEN Refilled(modelForm, activeProject)
                    ELSE modelForm
    /\ datasetForm' = IF pg = "datasets"
                      THEN FilledForm(datasetForm, datasetProfile[activeProject])
                      ELSE datasetForm
    /\ PageLeft
    /\ UNCHANGED <<configVars, tour, activeProject, cfg, followed, tables, lists,
                   told, profile, serve, lockHolder, serveQuery, datasetProfile,
                   sanitizeStatus, ruleVars, archs>>

\* the project chip: whatever is mounted stays, and renders the other project
SetActiveProject(p) ==
    /\ p \in Projects \ {activeProject} /\ page \in Switches /\ Unobstructed /\ Step
    /\ activeProject' = p
    /\ ui' = Settled(ui, page, p, cfg)
    /\ saves' = Adopted(saves, p)
    /\ writes' = Adopted(writes, p)
    /\ sanitizes' = Unwatched(sanitizes)
    /\ modelForm' = IF page = "models" THEN Refilled(modelForm, p) ELSE modelForm
    /\ datasetForm' = IF page = "datasets" THEN FilledForm(datasetForm, datasetProfile[p])
                      ELSE datasetForm
    /\ UNCHANGED <<configVars, tour, page, cfg, launches, followed, tableVars,
                   profile, serveVars, datasetProfile, sanitizeStatus, ruleVars,
                   voiceVars, archs>>

\* the answer is there, and the page renders it
ConfigAnswered(p) ==
    /\ cfg[p].flight # NoAnswer
    /\ cfg' = [cfg EXCEPT ![p] = Answered(@)]
    /\ ui' = IF p = activeProject THEN Settled(ui, page, p, cfg') ELSE ui
    /\ UNCHANGED <<configVars, tour, activeProject, page, requestVars, followed,
                   steps, tableVars, ownVars>>

(***************************************************************************)
(* The parts.                                                              *)
(***************************************************************************)
Requests ==
    \/ \E s \in saves : HandleSave(s) \/ SaveAnswered(s) \/ TextValidated(s) \/ TextSaved(s)
    \/ \E w \in writes : HandleWrite(w)
    \/ \E l \in launches : HandleLaunch(l) \/ LaunchAnswered(l)
    \/ \E p \in Projects : FetchConfig(p)

Yaml ==
    \/ EditClick \/ HandleViewClick \/ HandleCloseRequest \/ HandlePendingConfirm
    \/ KeepEditing \/ SaveText
    \/ \E s \in Sections : TypeText(s)
    \/ \E v \in VersionIds : HandleRestoreRequest(v) \/ VersionLoaded(v)

Training ==
    \/ HandleFormSave \/ OpenYaml \/ OpenLaunch \/ CloseLaunch \/ HandleLaunchClick
    \/ \E s \in Sections : HandleSliceChange(s)

Adapters ==
    \/ \E S \in SUBSET Owned : ChangeLocal(S)
    \/ HandleResetToParsed \/ HandleAdaptersSave

Models ==
    \/ \E id \in Values : SetModelForm(id)
    \/ HandleResolveModel \/ OpenRegister \/ TypeDraft \/ CloseRegister
    \/ HandleRegister \/ HandleOpenMergeDialog \/ CloseMergeDialog \/ HandleConfirmMerge
    \/ \E r \in Rows : SelectMergeRun(r) \/ HandleDeleteMerged(r)
    \/ \E w \in writes : ModelResolved(w)

Datasets ==
    \/ \E f \in SplitFields, n \in Ratios : EnterRatio(f, n)
    \/ \E id \in Values \cup {0} : SetDataset(id) \/ TypePath(id)
    \/ \E format \in {"default", "custom"} : SetFormat(format)
    \/ \E dialog \in {"add", "validate", "inspect"} : OpenDatasetDialog(dialog)
    \/ HandleResolve \/ CloseDatasetDialog \/ HandleIngestSubmit \/ HandleSanitize
    \/ \E w \in writes : DatasetResolved(w)
    \/ \E s \in sanitizes : SanitizeHandled(s) \/ SanitizeAnswered(s)
    \/ \E p \in Projects : \/ FetchProfile(p) \/ ProfileAnswered(p)
                           \/ FetchSanitizeStatus(p) \/ SanitizeStatusAnswered(p)

Suggestions ==
    \/ \E r \in 0 .. 1 : SelectSource(r)
    \/ \E id \in Rows : SelectSuggestion(id)
    \/ ClearSelection \/ HandleGenerate \/ HandleAcceptClick \/ HandleRejectClick
    \/ ToggleChat \/ TypeMessage \/ HandleSendMessage
    \/ OpenRules \/ ToggleRule \/ CloseRules \/ HandleSaveRuleSettings \/ RulesFetched
    \/ \E w \in writes : SuggestionAccepted(w) \/ AcceptAnswered(w)
    \/ \E c \in calls : RulesHandled(c)

Artifacts ==
    \/ \E r \in Rows : SelectArtifact(r) \/ AskDelete(r) \/ HandleMergeCheckpoint(r)
    \/ CloseArtifact \/ AskCleanup \/ CancelAsking \/ HandleDelete \/ HandleCleanup
    \/ \E c \in calls : CleanupHandled(c)

ProjectList ==
    \/ \E r \in Rows : HandleSelectProject(r) \/ AskDeleteProject(r)
    \/ CloseDetail \/ OpenCreate \/ TypeName \/ DismissCreate \/ CancelCreate
    \/ HandleCreateProject \/ HandleImport \/ CancelDelete \/ HandleDeleteConfirm

\* what the mounted page shows of the lists, and what it does with an answer
Shows ==
    CASE page = "models" -> ModelsShows
      [] page = "suggestions" -> SuggestionsShows
      [] page = "artifacts" -> ArtifactsShows
      [] page = "projects" -> ProjectsShows
      [] page = "shell" -> ShellShows
      [] OTHER -> {}

UiAfter(c) ==
    CASE page = "models" -> ModelsUiAfter(c)
      [] page = "suggestions" -> SuggestionsUiAfter(c)
      [] page = "artifacts" -> ArtifactsUiAfter(c)
      [] page = "projects" -> ProjectsUiAfter(c)
      [] OTHER -> ui

TableStep ==
    /\ \/ \E t \in Tabled : \/ t \in Shows /\ FetchList(t)
                            \/ ListAnswered(t)
       \/ \E c \in calls : CallHandled(c) /\ UNCHANGED steps
    /\ UNCHANGED <<ui, ruleVars>>

\* the key of the list of projects, ["projects"], is the start of the keys of all
\* that belongs to a project
ListsChanged(c) == c.phase = "ok" /\ c.kind \in {"create", "remove"}
AllStale(cache, shown) == [p \in Projects |-> Invalidated(cache[p], p \in shown)]
ShownOn(pg) == {p \in Projects : activeProject = p /\ page = pg}

\* the answer of the rules comes with the query read again
TableAnswer ==
    \E c \in calls :
        /\ CallAnswered(c, Shows)
        /\ IF ListsChanged(c)
           THEN /\ cfg' = AllStale(cfg, {p \in Projects : IsShown(p)})
                /\ datasetProfile' = AllStale(datasetProfile, ShownOn("datasets"))
                /\ sanitizeStatus' = AllStale(sanitizeStatus, ShownOn("datasets"))
                /\ archs' = AllStale(archs, ShownOn("weights"))
           ELSE UNCHANGED <<cfg, datasetProfile, sanitizeStatus, archs>>
        /\ UNCHANGED <<datasetForm, sanitizes>>
        /\ ui' = IF c.watched /\ c.phase = "ok" THEN UiAfter(c) ELSE ui
        /\ shownRules' = IF c.kind = "rules" /\ c.phase = "ok" THEN {ruleSettings}
                         ELSE shownRules
        /\ UNCHANGED ruleSettings
        /\ UNCHANGED steps

OtherWork == UNCHANGED <<configVars, tour, activeProject, page, requestVars, followed>>

Init ==
    /\ ConfigInit /\ TableInit /\ ServingInit /\ VoiceInit
    /\ tour \in Tours
    /\ activeProject = versions[1].project
    /\ page \in tour.pages
    /\ cfg = [p \in Projects |-> EmptyEntry]
    /\ ui = UiOf(page)
    /\ saves = {} /\ launches = {} /\ writes = {} /\ steps = 0
    /\ followed = [p \in Projects |-> 0]
    /\ modelForm = 0 /\ profile = [p \in Projects |-> 0]
    /\ datasetForm = DefaultDatasetForm /\ sanitizes = {}
    /\ datasetProfile = [p \in Projects |-> EmptyEntry]
    /\ sanitizeStatus = [p \in Projects |-> EmptyEntry]
    /\ ruleSettings = 1 /\ shownRules = {}
    /\ archs = [p \in Projects |-> EmptyEntry]

Next ==
    \/ \E pg \in tour.pages : Navigate(pg)
    \/ \E p \in Projects : SetActiveProject(p) \/ ConfigAnswered(p)
    \/ /\ Requests \/ Yaml \/ Training \/ Adapters \/ UseControl \/ UsePreset
       /\ UNCHANGED <<tableVars, ownVars>>
    \/ (Artifacts \/ ProjectList) /\ UNCHANGED ownVars
    \/ Models /\ UNCHANGED <<serveVars, datasetVars, ruleVars, voiceVars, archs>>
    \/ ServingNext /\ UNCHANGED <<tableVars, modelVars, datasetVars, ruleVars, voiceVars, archs>>
    \/ Datasets /\ UNCHANGED <<tableVars, modelVars, serveVars, ruleVars, voiceVars, archs>>
    \/ Suggestions /\ UNCHANGED <<modelVars, serveVars, datasetVars, voiceVars, archs>>
    \/ ShellNext /\ UNCHANGED <<modelVars, serveVars, ruleVars, voiceVars, archs>>
    \/ VoiceNext /\ UNCHANGED <<tableVars, modelVars, serveVars, datasetVars, ruleVars, archs>>
    \/ WeightsNext /\ UNCHANGED <<tableVars, modelVars, serveVars, datasetVars, ruleVars, voiceVars>>
    \/ TableStep /\ OtherWork /\ UNCHANGED <<cfg, modelVars, serveVars, datasetVars, voiceVars, archs>>
    \/ TableAnswer /\ OtherWork /\ UNCHANGED <<modelVars, serveVars, voiceVars>>

Spec == Init /\ [][Next]_vars /\ ServingFairness

(***************************************************************************)
(* Properties.                                                             *)
(***************************************************************************)
\* Every variable holds a value of its kind
TypeOK == WorkType /\ ConfigType /\ TableType /\ ServingType /\ VoiceType /\ ShellType

\* A run is started on a configuration of its project that says, in the parts
\* the form edits, what the launch dialog showed: the save and the launch of
\* handleLaunch hand on the version that was saved, whatever other page or
\* answer changed the active one in between
LaunchedAsShown ==
    \A l \in launched :
        /\ versions[l.version].project = l.project
        /\ \A s \in {"training", "adapters"} :
            versions[l.version].content[s] = l.shown[s]

\* A version that the dialog would name as the source of the text in its editor
\* (source_detail) is a version of the project, and the text that was loaded
\* is the text of that version
RollbackNamesItsSource ==
    (page = "training" /\ yaml.open /\ yaml.rollback # 0) =>
        /\ yaml.initial = versions[yaml.rollback].content
        /\ versions[yaml.rollback].project = activeProject

\* After a save was answered on a page that shows the configuration, the cache
\* holds that version or a later one, or it knows that what it holds is old
OwnSaveFollowed ==
    \A p \in Projects : \/ cfg[p].stale \/ cfg[p].data = NoAnswer
                        \/ \A v \in cfg[p].data : v >= followed[p]

\* What the answer of a call told the page about a row, that it was made or that
\* it is gone, the list says too, or knows that what it holds is old
AnsweredIsShown ==
    \A n \in told : \/ lists[n[1]].stale
                    \/ \A rows \in lists[n[1]].data : n[3] \in rows <=> n[2]

\* After a preset was applied the trainer will do what its name says
PresetDecides ==
    (page = "form" /\ ui.preset # "") =>
        /\ TrainedAs(ui.form).method = Promised.method[ui.preset]
        /\ TrainedAs(ui.form).bits = Promised.bits[ui.preset]

\* The drawn learning rate stays between nothing and its peak, starts at
\* nothing if it is warmed up, and by the end of the run has been at its peak
CurveCompletes ==
    page = "form" =>
        /\ \A i \in 1 .. 5 : LRCurve(ui.form)[i] \in 0 .. 1000
        /\ (LRCurve(ui.form)[1] = 0) = (ui.form.warmupSteps > 0)
        /\ LRCurve(ui.form)[5] \in {0, 1000}

\* Every redaction the page asks for has splits that make up the whole, whatever
\* was entered, cleared or taken over from a profile before: the server refuses
\* any other request
SanitizeAccepted == \A s \in sanitizes : RatiosAccepted(s.ratios)

\* A panel that shows a server as running, and stays on the screen, notices that
\* the subprocess died
ServingSettles ==
    \A p \in Projects :
        (/\ OnServing /\ activeProject = p /\ "running" \in serveQuery[p].data
         /\ serve[p] # "alive")
        ~> (\/ ~OnServing \/ activeProject # p \/ "running" \notin serveQuery[p].data
            \/ serve[p] = "alive")

\* The server runs the pipeline of one voice session at a time, the holder of the
\* lock, however late the socket of a session that expired is opened, and
\* however many starts are on their way
OneVoiceSession == \A s \in Sessions : sessions[s] \in Alive => voiceLock = s

\* No two entries of a transcript have the same index, which is the key they
\* are drawn by, whatever was replaced in between and whoever started over
EntriesKeyed ==
    page = "voice" =>
        \A i, j \in DOMAIN ui.transcript :
            ui.transcript[i].index = ui.transcript[j].index => i = j

\* A toast that is shown only leaves for another one or once it was dismissed,
\* whichever timers of earlier toasts are still to come
ToastRemovalIsOwn ==
    [][(/\ page = "shell" /\ \E i \in DOMAIN ui.toasts : ui.toasts[i].open
        /\ ~Reload)
       => ui'.toasts # <<>>]_vars

ColumnTotal == Total(Columns, LAMBDA column : column.totalParams)

\* The parameters shown on the columns of the flow, and those of the alike siblings
\* that the columns leave out, are all the parameters of the model's leaves:
\* none is counted twice and no other is missing, however often a block repeats,
\* if the repeated blocks have as many parameters each
FlowAddsUp ==
    Drawn /\ ui.tab = "flow" /\ Even[Tree] =>
        ColumnTotal + LeftOut[Tree] = LeafParams[Tree]

\* The columns show all the parameters of the model
ColumnTotals ==
    Drawn /\ ui.tab = "flow" /\ Even[Tree] => ColumnTotal = LeafParams[Tree]

\* However wide the window, and whichever columns are expanded, no two cards of
\* the flow overlap and all of them are within the canvas; the gutters in which
\* the arrows wrap to the next row are beside all cards, the arrows stay
\* within the picture and have room to turn; the ticks of the strip are
\* different layers, from the first to the last
DrawnInside ==
    Drawn /\ ui.tab = "flow" =>
        LET flat == BuildFlatColumns(Columns, ui.expanded)
            per == ColsPerRow(ui.width)
            cards == {CardAt(flat, per, i) : i \in DOMAIN flat}
            layers == LayerCount(Tree)
            ticks == StackTicks(layers)
            apart(a, b) == \/ a.x + ColumnWidth < b.x \/ b.x + ColumnWidth < a.x
                           \/ a.y + a.height < b.y \/ b.y + b.height < a.y
        IN  /\ Cardinality(cards) = Len(flat)
            /\ \A a, b \in cards : a # b => apart(a, b)
            /\ \A a \in cards : /\ a.x + ColumnWidth <= CanvasWidth(flat, per)
                               /\ a.y + a.height <= CanvasHeight(flat, per)
                               /\ BesideGutters(flat, per, a)
            /\ \A i \in 1 .. Len(flat) - 1 : ArrowFits(flat, per, i)
            /\ layers > 0 => /\ IsInjective(ticks) /\ ticks[1] = 0
                             /\ ticks[Len(ticks)] = layers - 1

\* The forms follow what the other editor saved: with the training page open,
\* nothing edited, and the configuration read again, the form shows it
FormsRehydrate ==
    (/\ page = "training" /\ ui.slice # {} /\ ~ui.touched
     /\ ConfigVersion(cfg, activeProject) # NoAnswer
     /\ ~cfg[activeProject].stale /\ cfg[activeProject].flight = NoAnswer)
    => ui.slice = {SliceFromConfig(c) : c \in ParsedConfig(cfg, activeProject)}
=============================================================================
