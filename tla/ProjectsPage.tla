----------------------------- MODULE ProjectsPage -----------------------------
(***************************************************************************)
(* pages/projects-page.tsx with components/projects: projects are created, *)
(* imported, chosen and deleted.  A project is a row of the list           *)
(* "projects"; the configurations of a new one are module ConfigServer's.  *)
(*                                                                         *)
(* Left out: searching, sorting, grid or list, and what is drawn of a row. *)
(***************************************************************************)
EXTENDS Tables

\* active: the store's activeProjectId on this page; selected: selectedProject,
\* a copy of the row; pendingDelete: pendingDeleteId; draft: a name is typed
ProjectsUi == [active |-> 1, selected |-> 0, creating |-> FALSE, draft |-> FALSE,
               pendingDelete |-> 0]

OnProjects == page = "projects"
DeleteOpen == ui.pendingDelete \in Listed("projects")
ProjectsFree == OnProjects /\ ~ui.creating /\ ~DeleteOpen

ProjectsRest == UNCHANGED <<configVars, tour, activeProject, page, cfg, saves,
                            launches, writes, followed>>
OnlyProjectsUi == ProjectsRest /\ UNCHANGED tableVars

HandleSelectProject(r) ==
    /\ ProjectsFree /\ r \in Listed("projects") /\ Step
    /\ ui' = [ui EXCEPT !.selected = r, !.active = r] /\ OnlyProjectsUi

CloseDetail ==
    /\ ProjectsFree /\ ui.selected # 0
    /\ ui' = [ui EXCEPT !.selected = 0] /\ OnlyProjectsUi /\ UNCHANGED steps

(***************************************************************************)
(* CreateProjectDialog.  A click outside clears its fields; Cancel and a   *)
(* project that was made leave them as they are.                           *)
(***************************************************************************)
OpenCreate ==
    /\ ProjectsFree /\ Step
    /\ ui' = [ui EXCEPT !.creating = TRUE] /\ OnlyProjectsUi

TypeName ==
    /\ OnProjects /\ ui.creating /\ ~ui.draft /\ ~Busy("create")
    /\ ui' = [ui EXCEPT !.draft = TRUE] /\ OnlyProjectsUi /\ UNCHANGED steps

DismissCreate ==
    /\ OnProjects /\ ui.creating
    /\ ui' = [ui EXCEPT !.creating = FALSE, !.draft = FALSE]
    /\ OnlyProjectsUi /\ UNCHANGED steps

CancelCreate ==
    /\ OnProjects /\ ui.creating /\ ~Busy("create")
    /\ ui' = [ui EXCEPT !.creating = FALSE]
    /\ OnlyProjectsUi /\ UNCHANGED steps

HandleCreateProject ==
    /\ OnProjects /\ ui.creating /\ ui.draft /\ ~Busy("create")
    /\ Send("create", 1) /\ ProjectsRest /\ UNCHANGED ui

\* a file of another project's metadata: the same request, no dialog (row 0)
HandleImport ==
    /\ ProjectsFree /\ ~Busy("create")
    /\ Send("create", 0) /\ ProjectsRest /\ UNCHANGED ui

(***************************************************************************)
(* Deleting.                                                               *)
(***************************************************************************)
AskDeleteProject(r) ==
    /\ ProjectsFree /\ r \in Listed("projects") /\ Step
    /\ ui' = [ui EXCEPT !.pendingDelete = r] /\ OnlyProjectsUi

CancelDelete ==
    /\ OnProjects /\ DeleteOpen
    /\ ui' = [ui EXCEPT !.pendingDelete = 0] /\ OnlyProjectsUi /\ UNCHANGED steps

\* the confirmation closes at once; its button is disabled while one is deleted
HandleDeleteConfirm ==
    /\ OnProjects /\ DeleteOpen /\ ~Busy("remove")
    /\ calls' = calls \cup {[kind |-> "remove", row |-> ui.pendingDelete,
                             watched |-> TRUE, phase |-> "sent",
                             wasSelected |-> ui.selected = ui.pendingDelete]}
    /\ ui' = [ui EXCEPT !.pendingDelete = 0]
    /\ ProjectsRest /\ UNCHANGED <<tables, lists, told, steps>>

\* onSuccess of a creation closes the dialog, of a deletion another confirmation;
\* the project is given up if it was the selected one when the button was clicked
ProjectsUiAfter(c) ==
    CASE c.kind = "create" -> [ui EXCEPT !.creating = FALSE]
      [] c.kind = "remove" ->
            IF c.wasSelected
            THEN [ui EXCEPT !.pendingDelete = 0, !.selected = 0, !.active = 0]
            ELSE [ui EXCEPT !.pendingDelete = 0]
      [] OTHER -> ui

ProjectsShows == {"projects"}
=============================================================================
