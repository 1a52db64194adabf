--------------------------------- MODULE Shell ---------------------------------
(***************************************************************************)
(* The frame around every page: the store that outlives a reload           *)
(* (stores/app-store.ts), the toasts (hooks/use-toast.ts), the command     *)
(* palette, the theme, the side panels and the notifications               *)
(* (components/layout).  It is checked on a page of its own, "shell", on   *)
(* which a reload meets no request of another page on its way.             *)
(*                                                                         *)
(* Left out: density and motion, which are set as the theme is; searching  *)
(* in the palette; what the panels hold.  The right drawer is only opened  *)
(* by its button, with no project, and then says that nothing is selected. *)
(***************************************************************************)
EXTENDS DatasetsPage, Tables

\* the frame is on every page; its steps are taken on a page without others
ASSUME ShellAssumption ==
    \A t \in Tours : "shell" \in t.pages => t.pages = {"shell"}

NavGroups == {"training", "execution"}   \* bound: two of the five groups
Commands == {"go", "pause", "theme", "tweaks"}
Deltas == {-300, 50, 300}                \* bound: how far the panel is dragged

\* dom: data-theme; stored: localStorage; theme: the state of TweaksPanel;
\* removals: toastTimeouts; running: the palette knows an active run
ShellUi ==
    [booted |-> FALSE, sidebar |-> FALSE, closed |-> {}, palette |-> FALSE,
     tweaks |-> FALSE, drawer |-> FALSE, bottom |-> FALSE, height |-> 200,
     dom |-> "light", stored |-> "light", theme |-> "light",
     toasts |-> <<>>, removals |-> {}, nextId |-> 1]

OnShell == page = "shell" /\ ui.booted
ShellFree == OnShell /\ ~ui.palette   \* the palette is modal
ShellRest == UNCHANGED <<configVars, tour, activeProject, page, cfg, requestVars,
                         followed, tables, lists, told, datasetProfile,
                         sanitizeStatus, sanitizes>>
ShellKeeps == ShellRest /\ UNCHANGED <<datasetForm, calls>>
Becomes(u) == ui' = u /\ ShellKeeps

(***************************************************************************)
(* The persisted store.                                                    *)
(***************************************************************************)
Absent == -2   \* a ratio that is undefined: the first version had none

\* what a browser may hold of the three versions of the store
EarlierStores ==
    {[version |-> 1, ratios |-> [f \in SplitFields |-> Absent]],
     [version |-> 2, ratios |-> NoRatios],
     [version |-> 3, ratios |-> [DefaultDatasetForm.ratios EXCEPT !["val"] = Unset]]}

\* mutant of Migrate: only a store of the last version is brought up
MigrateLast(saved) ==
    IF saved.version = 2 THEN DefaultDatasetForm.ratios ELSE saved.ratios

\* migrate: the form starts over, or its ratios are filled in
Migrate(saved) ==
    IF saved.version < 2 THEN DefaultDatasetForm.ratios
    ELSE IF saved.version < 3
    THEN [f \in SplitFields |-> IF saved.ratios[f] \in {Absent, Unset}
                                THEN DefaultDatasetForm.ratios[f] ELSE saved.ratios[f]]
    ELSE saved.ratios

\* initTheme runs before the first render, the store is read with it
Boot(saved) ==
    /\ page = "shell" /\ ~ui.booted
    /\ ui' = [ui EXCEPT !.booted = TRUE, !.dom = ui.stored, !.theme = ui.stored]
    /\ datasetForm' = [datasetForm EXCEPT !.ratios = Migrate(saved)]
    /\ ShellRest /\ UNCHANGED <<calls, steps>>

\* partialize: the sidebar, its groups and the forms stay
Reload ==
    /\ OnShell /\ Step
    /\ ui' = [ShellUi EXCEPT !.booted = TRUE, !.sidebar = ui.sidebar,
                             !.closed = ui.closed, !.dom = ui.stored,
                             !.stored = ui.stored, !.theme = ui.stored]
    /\ lists' = [t \in Tabled |-> EmptyEntry] /\ told' = {}
    /\ calls' = {c \in calls : c.phase = "sent"}
    /\ UNCHANGED <<configVars, tour, activeProject, page, cfg, requestVars, followed,
                   tables, datasetVars>>

(***************************************************************************)
(* Toasts.  TOAST_LIMIT is 1: another one takes its place.                 *)
(***************************************************************************)
Toasted(u) ==
    [u EXCEPT !.toasts = SubSeq(<<[id |-> u.nextId, open |-> TRUE]>> \o @, 1, 1),
              !.nextId = @ + 1]

\* by its cross, or when its time is over
DismissToast ==
    /\ OnShell
    /\ \E i \in DOMAIN ui.toasts :
        /\ ui.toasts[i].open
        /\ Becomes([ui EXCEPT !.toasts[i].open = FALSE,
                              !.removals = @ \cup {ui.toasts[i].id}])
    /\ UNCHANGED steps

\* mutant of WithoutToast: REMOVE_TOAST that looks at no id
WithoutAnyToast(toasts, id) == <<>>

\* ids are different
WithoutToast(toasts, id) ==
    LET removed == {i \in DOMAIN toasts : toasts[i].id = id}
    IN  IF removed = {} THEN toasts ELSE RemoveAt(toasts, CHOOSE i \in removed : TRUE)

\* the timeout of addToRemoveQueue
RemoveToast(id) ==
    /\ OnShell /\ id \in ui.removals
    /\ Becomes([ui EXCEPT !.toasts = WithoutToast(@, id), !.removals = @ \ {id}])
    /\ UNCHANGED steps

(***************************************************************************)
(* The palette.  The global shortcuts work over it.                        *)
(***************************************************************************)
OpenPalette == OnShell /\ ~ui.palette /\ Becomes([ui EXCEPT !.palette = TRUE]) /\ Step

ClosePalette ==
    OnShell /\ ui.palette /\ Becomes([ui EXCEPT !.palette = FALSE]) /\ UNCHANGED steps

Other(theme) == IF theme = "dark" THEN "light" ELSE "dark"

\* what a command does once the palette is closed: the commands for the run that
\* is active only say that it was paused or stopped, and the switch of the theme
\* does not reach the Tweaks panel
Ran(u, command) ==
    CASE command = "go" -> u
      [] command = "pause" -> Toasted(u)
      [] command = "theme" ->
            Toasted([u EXCEPT !.dom = Other(u.dom), !.stored = Other(u.dom)])
      [] command = "tweaks" -> [u EXCEPT !.tweaks = TRUE]

HandleSelect(command) ==
    /\ OnShell /\ ui.palette
    /\ Becomes(Ran([ui EXCEPT !.palette = FALSE], command))
    /\ UNCHANGED steps

(***************************************************************************)
(* The panels.                                                             *)
(***************************************************************************)
HandleThemeChange(theme) ==
    /\ ShellFree /\ ui.tweaks /\ theme # ui.theme
    /\ Becomes([ui EXCEPT !.theme = theme, !.dom = theme, !.stored = theme]) /\ Step

CloseTweaks == ShellFree /\ ui.tweaks /\ Becomes([ui EXCEPT !.tweaks = FALSE]) /\ UNCHANGED steps

ToggleSidebar == OnShell /\ Becomes([ui EXCEPT !.sidebar = ~@]) /\ Step

\* the groups fold while the sidebar is wide
ToggleNavGroup(g) ==
    /\ ShellFree /\ ~ui.sidebar /\ Step
    /\ Becomes([ui EXCEPT !.closed = IF g \in @ THEN @ \ {g} ELSE @ \cup {g}])

HandleToggleRightDrawer == ShellFree /\ Becomes([ui EXCEPT !.drawer = ~@]) /\ Step

ToggleBottomPanel == ShellFree /\ Becomes([ui EXCEPT !.bottom = ~@]) /\ Step

\* a drag, from the height it started at
HandleResize(delta) ==
    /\ ShellFree /\ ui.bottom /\ Step
    /\ LET height == ui.height + delta
       IN  Becomes([ui EXCEPT !.height =
                IF height < 100 THEN 100 ELSE IF height > 400 THEN 400 ELSE height])

(***************************************************************************)
(* The menu of the notifications: one that was not read is marked.         *)
(***************************************************************************)
HandleSelectNotification(r) ==
    /\ ShellFree /\ r \in Listed("unread")
    /\ Send("markRead", r)
    /\ UNCHANGED <<configVars, tour, activeProject, page, ui, cfg, requestVars,
                   followed, datasetVars>>

ShellShows == {"unread"}

ShellNext ==
    \/ Reload \/ DismissToast \/ OpenPalette \/ ClosePalette \/ CloseTweaks
    \/ ToggleSidebar \/ HandleToggleRightDrawer \/ ToggleBottomPanel
    \/ \E saved \in EarlierStores : Boot(saved)
    \/ \E command \in Commands : HandleSelect(command)
    \/ \E theme \in {"light", "dark"} : HandleThemeChange(theme)
    \/ \E g \in NavGroups : ToggleNavGroup(g)
    \/ \E delta \in Deltas : HandleResize(delta)
    \/ IF OnShell THEN \/ \E id \in ui.removals : RemoveToast(id)
                       \/ \E r \in Rows : HandleSelectNotification(r)
                  ELSE FALSE

ShellType ==
    /\ \A f \in SplitFields : datasetForm.ratios[f] \in 0 .. 100 \cup {Unset}
    /\ page = "shell" => ui.height \in 100 .. 400 /\ Len(ui.toasts) <= 1
=============================================================================
