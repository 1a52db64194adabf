------------------------------- MODULE EvalView -------------------------------
(***************************************************************************)
(* The evaluation page together with the socket that feeds it and the task *)
(* that judges: the whole next-state relation, its fairness, and what it   *)
(* has to guarantee.                                                       *)
(***************************************************************************)
EXTENDS EvalPage

Init == SocketInit /\ EvalInit /\ PageInit

Connection(s) == Opened(s) \/ HandleSubscribe(s)

Network ==
    /\ \/ \E s \in Sockets : Connection(s) \/ Lost(s)
       \/ Reconnect
    /\ UNCHANGED <<erow, pageVars>>

Task == EvalTask /\ UNCHANGED pageVars

Browse ==
    \/ OpenEvalPage \/ OpenRunsPage \/ CloseCase \/ EditForm
    \/ \E p \in Projects : SetActiveProject(p)
    \/ \E e \in Evals : HandleSelectEvalRun(e)
    \/ \E c \in 1 .. NCases : SelectCase(c)
    \/ \E k \in EvalKeys : FetchEval(k)

Trigger ==
    \/ HandleTriggerEval
    \/ \E c \in calls : HandleCreate(c) \/ RespondCreate(c)

Next == Network \/ Task \/ Browse \/ Trigger \/ \E s \in Sockets : Deliver(s)

\* the server accepts connections and reads frames, and timers fire
Fairness ==
    /\ \A s \in Sockets : WF_vars(Connection(s) /\ UNCHANGED <<erow, pageVars>>)
    /\ WF_vars(Reconnect /\ UNCHANGED <<erow, pageVars>>)

Spec == Init /\ [][Next]_vars /\ Fairness

-----------------------------------------------------------------------------

\* the state is made of values of the expected kinds
TypeOK ==
    /\ SocketType /\ EvalType
    /\ activeProject \in Projects \cup {NoProject}
    /\ page \in {"eval", "runs"}
    /\ evalSel \in 0 .. NEvals /\ caseSel \in (0 .. NEvals) \X (0 .. NCases)
    /\ form \in Forms
    /\ DOMAIN evalCache = EvalKeys

\* while an evaluation run is selected, everything live on the page and the
\* open case are of that run, whatever was selected when its events were sent
ShownIsOfSelectedRun ==
    evalSel # 0 =>
        /\ \A i \in DOMAIN live.cases : live.cases[i][1] = evalSel
        /\ live.completion \subseteq {evalSel}
        /\ \A w \in live.warning : w[1] = evalSel
        /\ caseSel = NoCase \/ caseSel[1] = evalSel

\* a run spends past its ceiling by less than its last judge call charged, and
\* whoever is stopped by the ceiling was warned of it
CapRespected ==
    \A e \in Evals :
        LET r == erow[e]
        IN  /\ r.cap # NoCap /\ r.calls # << >> =>
                r.spent - Last(r.calls) < r.cap
            /\ r.status = "cost_capped" => r.warned

\* after the page was told that a pair was judged, or that the run ended, it
\* never keeps showing the older list or detail as up to date
EvalEventsInvalidate ==
    \A e \in Evals : \A t \in toldOf[e] :
        LET k == IF t[1] THEN ListKey ELSE e
        IN  evalCache[k].stale \/ \A v \in evalCache[k].data :
                /\ ~t[1] => Len(v.calls) >= t[2]
                /\ t[2] = 0 => (IF t[1] THEN v[e] ELSE v.status) \in EvalEnded

\* the rows of the case table account for all that the judge charged: on the
\* detail of a completed run their costs add up to the total in its header
RowsAddUp ==
    \A d \in Detail :
        d.status = "completed" =>
            d.total = SumFunctionOnSet([c \in 1 .. NCases |-> CaseCost(d, c)],
                                       DetailCases(d))

\* once the connections stay up, the client's socket is open on its project
\* and the server has registered it for the channels the client asked for.  Those
\* are the ones it remembers: connect() on an open socket returns early, and the
\* channels of a page that is mounted later are not among them
StreamRecovers ==
    [](wsProject # NoProject =>
        <>(/\ IsConnected
           /\ sock[socket].project = wsProject
           /\ wsChannels \subseteq sock[socket].subs))
=============================================================================
