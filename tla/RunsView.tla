------------------------------- MODULE RunsView -------------------------------
(***************************************************************************)
(* The live pages together with the socket that feeds them and the server  *)
(* that publishes: the whole next-state relation and what it has to        *)
(* guarantee.  That the stream recovers is checked in module EvalView.     *)
(***************************************************************************)
EXTENDS RunsPage

Init == SocketInit /\ ServerInit /\ StreamInit /\ PageInit

Network ==
    /\ \/ \E s \in Sockets : Opened(s) \/ HandleSubscribe(s) \/ Lost(s)
       \/ Reconnect
    /\ UNCHANGED <<serverVars, streamVars, pageVars>>

Trainer == TrainerStep /\ UNCHANGED <<streamVars, pageVars>>

Browse ==
    \/ \E pg \in Pages : Navigate(pg)
    \/ \E p \in Projects : SetActiveProject(p)
    \/ \E r \in Runs : SelectRun(r)
    \/ \E k \in Keys : Fetch(k) \/ FetchAnswered(k)

Click ==
    \/ HandleStartRun \/ HandleCancelSelected \/ HandlePauseSelected
    \/ HandleResumeSelected \/ SelectCheckpoint
    \/ HandleResumeFromCheckpoint \/ CloseResumeDialog
    \/ HandleAccept \/ HandleDecline \/ CloseFallbackDialog
    \/ \E r \in Runs : HandleDeleteRun(r)
    \/ \E gpu \in 1 .. NGpus : ChooseGpu(gpu)

Request ==
    \E c \in calls :
        \/ Handle(c)
        \/ c.kind \in {"accept", "decline"} /\ RespondFallback(c)
        \/ c.kind = "save" /\ RespondSave(c)
        \/ c.kind \notin {"accept", "decline", "save"} /\ Respond(c)

Next ==
    \/ Network \/ Trainer \/ Browse \/ Click \/ Request
    \/ \E s \in Sockets : Deliver(s)

Spec == Init /\ [][Next]_vars

-----------------------------------------------------------------------------

\* the state is made of values of the expected kinds
TypeOK ==
    /\ SocketType /\ ServerType /\ StreamType
    /\ activeProject \in Projects \cup {NoProject}
    /\ page \in Pages
    /\ selected \in 0 .. NRuns
    /\ resumeOpen \in BOOLEAN
    /\ gpuChoice \in 0 .. NGpus
    /\ told \in [Runs -> SUBSET (0 .. NSteps)]

\* what the store holds under a run is about that run, however often the
\* selection, the page and the project changed while frames were on their way
OwnEventsOnly ==
    \A r \in Runs :
        /\ \A i \in DOMAIN store[r].metrics : store[r].metrics[i].run = r
        /\ \A i \in DOMAIN store[r].ckpts : store[r].ckpts[i].run = r

\* the charts show every step of a run once and only steps it recorded,
\* though it may come from the query, from the socket and from a second socket
MetricsShownOnce ==
    page = "runs" /\ selected # 0 =>
        /\ \A i, j \in DOMAIN MergedMetrics :
            MergedMetrics[i] = MergedMetrics[j] => i = j
        /\ \A i \in DOMAIN MergedMetrics :
            row[selected].status # "deleted"
                => MergedMetrics[i] \in row[selected].metrics

\* after a page was told that a run ended, or that retention removed some of
\* its checkpoints, it never keeps showing the older answer as up to date
EventsInvalidate ==
    \A r \in Runs :
        /\ \A k \in told[r] \ {Ended} :
            LET entry == cache[<<"checkpoints", r>>]
            IN  entry.stale \/ \A v \in entry.data :
                    k \in v.kept \cup v.pruned \/ row[r].status = "deleted"
        /\ Ended \in told[r] =>
            \/ cache[ListKey].stale
            \/ \A v \in cache[ListKey].data : v[r] \in Terminal \cup NoRow

\* an action the page offers on a list that is up to date is one the server
\* accepts, and so is the GPU the fallback dialog would send.  But for three: the
\* banner's Stop on a run that waits for a fallback, and Resume of a run on Modal
\* (run-actions.tsx and the banner do not ask for the environment) or of a run
\* none of whose checkpoints the page knows
OfferedIsAccepted ==
    activeProject = Home /\ List = Answer(ListKey) =>
        /\ Offers("cancel") => \/ Accepted("cancel", selected, NoGpu)
                               \/ row[selected].status = "fallback_pending"
        /\ Offers("pause") => Accepted("pause", selected, NoGpu)
        /\ Offers("resume") =>
            /\ row[selected].status \in ResumableStatuses
            /\ \/ row[selected].gpu # NoGpu \/ AllCheckpoints = 0
               \/ Accepted("resume", selected, NoGpu)
        /\ \A r \in Runs : OffersDelete(r) => Accepted("delete", r, NoGpu)
        /\ /\ DialogOpen /\ row[selected].status = "fallback_pending"
           /\ proposals[selected] = row[selected].gpu
           => Accepted("accept", selected, gpuChoice)

\* the GPU the fallback dialog would send is one of those the dialog shows, for
\* the run it is sent for, though the selection, the proposal and the dialog
\* change in any order
GpuChosenIsCandidate ==
    /\ DialogOpen => gpuChoice \in ProposedGpus(proposals[selected])
    /\ ~DialogOpen => gpuChoice = 0
=============================================================================
