----------------------------- MODULE ArtifactsPage -----------------------------
(***************************************************************************)
(* pages/artifacts-page.tsx: the checkpoints of a project, deleted one by  *)
(* one or by the retention policy (services/storage_manager.py), and       *)
(* merged.  A row is a checkpoint of one completed run, numbered in the    *)
(* order they were written.                                                *)
(*                                                                         *)
(* Left out: exports, which are only listed, the usage bar (Figures), and  *)
(* the sliders of the retention card, which change nothing.                *)
(***************************************************************************)
EXTENDS Tables

Best == 1         \* the checkpoint of the best evaluation (is_best)
KeepLastN == 1    \* bound: checkpoint_retention.keep_last_n

\* asking: the confirmation that is open, 0 for the bulk cleanup
ArtifactsUi == [selected |-> 0, asking |-> -1]

OnArtifacts == page = "artifacts" /\ activeProject # NoProject
ArtifactsFree == OnArtifacts /\ ui.asking = -1 /\ ui.selected \notin Listed("artifacts")

ArtifactsRest == UNCHANGED <<configVars, tour, activeProject, page, cfg, saves,
                             launches, writes, followed>>
OnlyArtifactsUi == ArtifactsRest /\ UNCHANGED tableVars
OnlyArtifactsCall == ArtifactsRest /\ UNCHANGED ui

\* a row opens its drawer, which is modal while the row is listed
SelectArtifact(r) ==
    /\ ArtifactsFree /\ r \in Listed("artifacts") /\ Step
    /\ ui' = [ui EXCEPT !.selected = r] /\ OnlyArtifactsUi

CloseArtifact ==
    /\ OnArtifacts /\ ui.selected \in Listed("artifacts")
    /\ ui' = [ui EXCEPT !.selected = 0] /\ OnlyArtifactsUi /\ UNCHANGED steps

\* the trash of a row, disabled while one is being deleted
AskDelete(r) ==
    /\ ArtifactsFree /\ r \in Listed("artifacts") /\ ~Busy("erase") /\ Step
    /\ ui' = [ui EXCEPT !.asking = r] /\ OnlyArtifactsUi

AskCleanup ==
    /\ ArtifactsFree /\ ~Busy("cleanup") /\ Step
    /\ ui' = [ui EXCEPT !.asking = 0] /\ OnlyArtifactsUi

CancelAsking ==
    /\ OnArtifacts /\ ui.asking # -1
    /\ ui' = [ui EXCEPT !.asking = -1] /\ OnlyArtifactsUi /\ UNCHANGED steps

\* the confirmation belongs to its row and goes with it
HandleDelete ==
    /\ OnArtifacts /\ ui.asking \in Listed("artifacts")
    /\ calls' = calls \cup {[kind |-> "erase", row |-> ui.asking, watched |-> TRUE,
                             phase |-> "sent"]}
    /\ ui' = [ui EXCEPT !.asking = -1]
    /\ ArtifactsRest /\ UNCHANGED <<tables, lists, told, steps>>

\* handleBulkCleanup
HandleCleanup ==
    /\ OnArtifacts /\ ui.asking = 0
    /\ calls' = calls \cup {[kind |-> "cleanup", row |-> 0, watched |-> TRUE,
                             phase |-> "sent"]}
    /\ ui' = [ui EXCEPT !.asking = -1]
    /\ ArtifactsRest /\ UNCHANGED <<tables, lists, told, steps>>

HandleMergeCheckpoint(r) ==
    /\ ArtifactsFree /\ r \in Listed("artifacts") /\ ~Busy("merge")
    /\ Send("merge", r) /\ OnlyArtifactsCall

(***************************************************************************)
(* The server.                                                             *)
(***************************************************************************)
RetainedLast(rows) == {r \in rows : Cardinality({s \in rows : s > r}) < KeepLastN}

\* apply_retention_for_run: the last ones, the final one among them, and the best
RetainedOf(rows) == RetainedLast(rows) \cup (rows \cap {Best})

\* run_project_cleanup, which also recomputes what is shown as used
CleanupHandled(c) ==
    /\ c.kind = "cleanup" /\ c.phase = "sent"
    /\ \/ /\ tables' = [tables EXCEPT !["artifacts"] = RetainedOf(@)]
          /\ calls' = Replaced(calls, c, [c EXCEPT !.phase = "ok"])
          /\ told' = {n \in told : n[1] # "artifacts" \/ n[3] \in RetainedOf(tables["artifacts"])}
       \/ /\ calls' = Replaced(calls, c, [c EXCEPT !.phase = "failed"])
          /\ UNCHANGED <<tables, told>>
    /\ ArtifactsRest /\ UNCHANGED <<ui, lists, steps>>

\* handleDelete's callback: the selection of the time of the click is compared
ArtifactsUiAfter(c) == ui

ArtifactsShows == {"artifacts"}
=============================================================================
