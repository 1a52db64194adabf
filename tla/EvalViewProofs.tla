---------------------------- MODULE EvalViewProofs ----------------------------
(***************************************************************************)
(* The evaluation page and the task that judges, proved for any number of  *)
(* evaluation runs, cases, rubric versions, sockets and steps, and for     *)
(* every ceiling and charge.                                               *)
(*                                                                         *)
(* The argument of EvalEventsInvalidate: an event that waits in a queue    *)
(* says what is true of its run (EventsOK), and stays true, because a      *)
(* run's calls only grow in number and its end is final (Onward).  So an   *)
(* answer asked for after the page was told shows at least as much         *)
(* (ToldOK), and an older answer was marked when the page was told.        *)
(*                                                                         *)
(* The argument of RowsAddUp: what a run spent is the sum of its calls,    *)
(* also in an older answer (AllAccounted), and every call is of one case.  *)
(***************************************************************************)
EXTENDS EvalView, SocketProofs, DataInduction

USE SocketAssumption, EvalAssumption, FormAssumption, ChannelAssumption

-----------------------------------------------------------------------------
(* The inductive invariant. *)

\* the page's trigger is refused by the server's schema, so an answer is not
\* "ok"
Requests == [form : Forms, bound : BOOLEAN, id : Nat,
             answer : {"none", "refused"}, new : {0}]

LiveData == [cases : Seq(Evals \X Nat), completion : SUBSET Evals,
             warning : SUBSET (Evals \X Nat)]

PageTyped ==
    /\ activeProject \in Projects \cup {NoProject} /\ page \in {"eval", "runs"}
    /\ evalSel \in 0 .. NEvals /\ caseSel \in (0 .. NEvals) \X (0 .. NCases)
    /\ form \in Forms /\ DOMAIN evalCache = EvalKeys
    /\ calls \subseteq Requests
    /\ live \in LiveData
    /\ toldOf \in [Evals -> SUBSET (BOOLEAN \X Nat)]
    /\ \A k \in EvalKeys : IsEntry(evalCache[k])

Typed == SocketOK /\ EvalType /\ PageTyped

\* a run's cursor: the call that reached the ceiling was the last one, and the
\* warning went out no later than it
CursorOK(r) ==
    /\ r.status = "absent" => r.calls = << >>
    /\ CapBreached(r) => r.warned
    /\ r.cap # NoCap /\ r.calls # << >> => r.spent - Last(r.calls) < r.cap
    /\ r.status = "cost_capped" => r.warned

CursorsOK == \A e \in Evals : CursorOK(erow[e])

\* an event says what is true of its run
TrueOf(event, rows) ==
    /\ event.about \in Evals
    /\ event.event = "case_completed" =>
            event.n \in 1 .. Len(rows[event.about].calls)
    /\ event.event = "run_completed" =>
            event.n = 0 /\ rows[event.about].status \in EvalEnded

EventsOK == \A event \in Queued(sock) : TrueOf(event, erow)

\* and so does what the page was told
ToldOK ==
    \A e \in Evals : \A t \in toldOf[e] :
        /\ t[2] <= Len(erow[e].calls)
        /\ t[2] = 0 => erow[e].status \in EvalEnded

EvalInv ==
    /\ Typed /\ CursorsOK /\ EventsOK /\ ToldOK
    /\ EvalEventsInvalidate /\ ShownIsOfSelectedRun

-----------------------------------------------------------------------------
(* What a step of the task, or a request, does to the runs. *)

\* calls only grow in number, and an end is final
Onward ==
    \A e \in Evals :
        /\ Len(erow[e].calls) <= Len(erow'[e].calls)
        /\ erow[e].status \in EvalEnded => erow'[e].status \in EvalEnded

\* what was true of a run stays true
LEMMA TruthLasts ==
    ASSUME EvalType, EvalType', Onward, NEW event \in Events, TrueOf(event, erow)
    PROVE  TrueOf(event, erow')
<1> DEFINE e == event.about
<1>1. e \in Evals
    BY DEF TrueOf
<1>2. Len(erow[e].calls) \in Nat /\ Len(erow'[e].calls) \in Nat
    BY <1>1 DEF EvalType, EvalRows
<1>3. event.n \in Nat
    BY DEF Events
<1> QED BY <1>1, <1>2, <1>3 DEF Onward, TrueOf

LEMMA ToldLasts ==
    ASSUME EvalType, EvalType', Onward, ToldOK, UNCHANGED toldOf,
           toldOf \in [Evals -> SUBSET (BOOLEAN \X Nat)]
    PROVE  ToldOK'
<1> SUFFICES ASSUME NEW e \in Evals, NEW t \in toldOf[e]
             PROVE  /\ t[2] <= Len(erow'[e].calls)
                    /\ t[2] = 0 => erow'[e].status \in EvalEnded
    BY DEF ToldOK
<1>1. t[2] \in Nat
    OBVIOUS
<1>2. Len(erow[e].calls) \in Nat /\ Len(erow'[e].calls) \in Nat
    BY DEF EvalType, EvalRows
<1> QED BY <1>1, <1>2 DEF Onward, ToldOK

\* a run changes to new: the rows' type, the cursor and the order of things
LEMMA RowChanges ==
    ASSUME EvalType, CursorsOK, NEW e \in Evals, NEW new \in EvalRows,
           erow' = [erow EXCEPT ![e] = new], CursorOK(new),
           Len(erow[e].calls) <= Len(new.calls),
           erow[e].status \in EvalEnded => new.status \in EvalEnded
    PROVE  EvalType' /\ CursorsOK' /\ Onward
<1>1. EvalType'
    BY DEF EvalType
<1>2. erow'[e] = new /\ \A d \in Evals \ {e} : erow'[d] = erow[d]
    BY DEF EvalType
<1>3. CursorsOK'
    BY <1>2 DEF CursorsOK
<1>4. \A d \in Evals : Len(erow[d].calls) \in Nat
    BY DEF EvalType, EvalRows
<1>5. Onward
    BY <1>2, <1>4 DEF Onward
<1> QED BY <1>1, <1>3, <1>5

\* the envelope of the task's events
LEMMA EvalEventFits ==
    ASSUME NEW e \in Evals, NEW k \in Nat, NEW kind \in EventNames
    PROVE  /\ EvalEvent(kind, e, k) \in Events
           /\ EvalEvent(kind, e, k).about = e /\ EvalEvent(kind, e, k).n = k
           /\ EvalEvent(kind, e, k).event = kind
BY DEF EvalEvent, Events, Evals, ChannelAssumption

LEMMA RoutingOnce ==
    ASSUME NEW socks \in [Sockets -> Connections], NEW event \in Events
    PROVE  /\ Routing(socks, event) \in [Sockets -> Connections]
           /\ Queued(Routing(socks, event)) \subseteq Queued(socks) \cup {event}
BY PublishedOnce DEF Routing

\* what a step of the task has to leave
TaskKeeps == EvalType' /\ CursorsOK' /\ Onward /\ SocketOK' /\ EventsOK'

LEMMA TaskLeaves ==
    ASSUME EvalInv, NEW e \in Evals, NEW new \in EvalRows, NEW socks,
           PublishEval(e, new, socks), Counted, CursorOK(new),
           Len(erow[e].calls) <= Len(new.calls),
           erow[e].status \in EvalEnded => new.status \in EvalEnded,
           socks \in [Sockets -> Connections],
           \A event \in Queued(socks) : event \in Queued(sock) \/ TrueOf(event, erow')
    PROVE  TaskKeeps
<1>1. EvalType /\ CursorsOK /\ SocketOK /\ EventsOK
    BY DEF EvalInv, Typed, TypeOK
<1>2. EvalType' /\ CursorsOK' /\ Onward
    BY <1>1, RowChanges DEF PublishEval
<1>3. SocketOK'
    BY <1>1, PublishKeeps DEF PublishEval
<1>4. ASSUME NEW event \in Queued(sock) PROVE TrueOf(event, erow')
    <2>1. PICK s \in Sockets : \E i \in DOMAIN sock[s].queue : event = sock[s].queue[i]
        BY QueuedIff
    <2>2. sock[s].queue \in Seq(Events)
        BY <1>1 DEF SocketOK, SocketType, Connections
    <2>3. event \in Events
        BY <2>1, <2>2
    <2> QED BY <1>1, <1>2, <2>3, TruthLasts DEF EventsOK
<1>5. EventsOK'
    BY <1>4 DEF EventsOK, PublishEval
<1> QED BY <1>2, <1>3, <1>5 DEF TaskKeeps

\* the rows of a state that EvalInv describes
LEMMA RowFacts ==
    ASSUME EvalInv, NEW e \in Evals
    PROVE  /\ erow[e] \in EvalRows /\ CursorOK(erow[e])
           /\ erow[e].calls \in Seq({0} \cup PairCosts)
           /\ erow[e].spent \in Nat /\ erow[e].cap \in 1 .. NoCap
           /\ sock \in [Sockets -> Connections] /\ SocketOK
           /\ PairCosts \subseteq Nat
BY DEF EvalAssumption, EvalInv, Typed, TypeOK, EvalType, EvalRows, CursorsOK, SocketOK, SocketType

LEMMA CreateEvalKeeps ==
    ASSUME EvalInv, NEW e \in Evals, NEW cap \in Caps, CreateEval(e, cap)
    PROVE  TaskKeeps
<1> DEFINE new == [NoEval EXCEPT !.status = "pending", !.cap = cap]
<1>1. PublishEval(e, new, sock) /\ Step /\ erow[e].status = "absent"
    BY DEF CreateEval
<1>2. /\ new \in EvalRows /\ new.status = "pending" /\ new.calls = << >>
      /\ new.spent = 0 /\ new.cap = cap /\ cap \in 1 .. NoCap
    <2>1. cap \in 1 .. NoCap /\ NoCap \in Nat
        BY DEF EvalAssumption
    <2>2. << >> \in Seq({0} \cup PairCosts)
        OBVIOUS
    <2> QED BY <2>1, <2>2 DEF NoEval, EvalRows, EvalStatuses
<1>3. CursorOK(new)
    BY <1>2 DEF CursorOK, CapBreached
<1>4. Len(erow[e].calls) <= Len(new.calls) /\ erow[e].status \notin EvalEnded
    BY <1>1, <1>2, RowFacts DEF CursorOK, EvalEnded
<1>5. Counted
    BY <1>1, RowFacts, StepCounts
<1> QED BY <1>1, <1>2, <1>3, <1>4, <1>5, RowFacts, TaskLeaves

LEMMA StartEvalKeeps ==
    ASSUME EvalInv, NEW e \in Evals, StartEval(e)
    PROVE  TaskKeeps
<1> DEFINE new == [erow[e] EXCEPT !.status = "running"]
<1>1. PublishEval(e, new, sock) /\ UNCHANGED steps /\ erow[e].status = "pending"
    BY DEF StartEval
<1>2. /\ new \in EvalRows /\ new.status = "running" /\ new.calls = erow[e].calls
      /\ new.spent = erow[e].spent /\ new.cap = erow[e].cap /\ new.warned = erow[e].warned
    BY RowFacts DEF EvalRows, EvalStatuses
<1>3. CursorOK(new)
    BY <1>2, RowFacts DEF CursorOK, CapBreached
<1>4. Len(erow[e].calls) <= Len(new.calls) /\ erow[e].status \notin EvalEnded
    BY <1>1, <1>2, RowFacts DEF EvalEnded
<1>5. Counted
    BY <1>1, RowFacts, NoStepCounts
<1> QED BY <1>1, <1>2, <1>3, <1>4, <1>5, RowFacts, TaskLeaves

LEMMA PairJudgedKeeps ==
    ASSUME EvalInv, NEW e \in Evals, NEW charged \in PairCosts, PairJudged(e, charged)
    PROVE  TaskKeeps
<1> DEFINE old == erow[e]
           r == [old EXCEPT !.calls = Append(@, charged), !.spent = @ + charged]
           first == EvalEvent("case_completed", e, Len(r.calls))
           second == EvalEvent("cost_warning", e, r.spent)
           done == Routing(sock, first)
           warned == Routing(done, second)
           new == [r EXCEPT !.warned = @ \/ WarningDue(r)]
           socks == IF WarningDue(r) THEN warned ELSE done
<1>1. PublishEval(e, new, socks) /\ Step /\ PairLeft(old)
    BY DEF PairJudged
<1>2. /\ charged \in Nat /\ charged \in {0} \cup PairCosts
      /\ Append(old.calls, charged) \in Seq({0} \cup PairCosts)
      /\ Len(Append(old.calls, charged)) = Len(old.calls) + 1
      /\ Len(old.calls) \in Nat
    <2>1. charged \in Nat /\ charged \in {0} \cup PairCosts
        BY RowFacts
    <2>2. old.calls \in Seq({0} \cup PairCosts)
        BY RowFacts
    <2> HIDE DEF old
    <2> QED BY <2>1, <2>2
<1>3. /\ r \in EvalRows /\ r.status = "running" /\ r.cap = old.cap /\ r.warned = old.warned
      /\ r.calls = Append(old.calls, charged) /\ r.spent = old.spent + charged
    <2>1. old \in EvalRows /\ old.status = "running" /\ old.spent + charged \in Nat
        BY <1>1, <1>2, RowFacts DEF PairLeft
    <2>2. Append(old.calls, charged) \in Seq({0} \cup PairCosts)
        BY <1>2
    <2> HIDE <1>2, <1>1
    <2> QED BY <2>1, <2>2 DEF EvalRows
<1>4. WarningDue(r) \in BOOLEAN
    BY DEF WarningDue
<1>5. /\ new \in EvalRows /\ new.status = "running" /\ new.cap = old.cap
      /\ new.calls = r.calls /\ new.spent = r.spent
      /\ new.warned = (old.warned \/ WarningDue(r))
    <2> HIDE DEF r
    <2> QED BY <1>3, <1>4 DEF EvalRows
<1>6. CursorOK(new)
    <2>1. CapBreached(new) => new.warned
        <3> SUFFICES ASSUME CapBreached(new), ~old.warned PROVE WarningDue(r)
            BY <1>4, <1>5, RowFacts DEF EvalRows
        <3>1. old.cap # NoCap /\ r.spent >= old.cap
            BY <1>5 DEF CapBreached
        <3>2. 10 * r.spent >= 8 * old.cap
            BY <1>2, <1>3, <3>1, RowFacts
        <3> QED BY <1>3, <3>1, <3>2 DEF WarningDue
    <2>2. new.cap # NoCap => new.spent - Last(new.calls) < new.cap
        <3> SUFFICES ASSUME old.cap # NoCap PROVE new.spent - Last(new.calls) < old.cap
            BY <1>5
        <3>1. Last(new.calls) = charged
            BY <1>2, <1>3, <1>5, RowFacts DEF Last
        <3>2. old.spent < old.cap
            BY <1>1, RowFacts DEF PairLeft, CapBreached
        <3> QED BY <1>2, <1>3, <1>5, <3>1, <3>2, RowFacts
    <2> QED BY <1>5, <2>1, <2>2 DEF CursorOK
<1>7. Len(old.calls) <= Len(new.calls) /\ old.status \notin EvalEnded
    BY <1>1, <1>2, <1>3, <1>5 DEF PairLeft, EvalEnded
<1>8. Len(r.calls) \in Nat /\ r.spent \in Nat /\ Len(r.calls) \in 1 .. Len(r.calls)
    BY <1>2, <1>3, RowFacts
<1>9. /\ first \in Events /\ first.about = e /\ first.n = Len(r.calls)
      /\ first.event = "case_completed"
      /\ second \in Events /\ second.about = e /\ second.event = "cost_warning"
    <2> HIDE DEF r
    <2>1. "case_completed" \in EventNames /\ "cost_warning" \in EventNames
        BY DEF EventNames
    <2>2. /\ first \in Events /\ first.about = e /\ first.n = Len(r.calls)
          /\ first.event = "case_completed"
        BY <1>8, <2>1, EvalEventFits
    <2>3. second \in Events /\ second.about = e /\ second.event = "cost_warning"
        BY <1>8, <2>1, EvalEventFits
    <2> QED BY <2>2, <2>3
<1>10. erow'[e] = new
    BY <1>1 DEF PublishEval, EvalInv, Typed, TypeOK, EvalType
<1>11. TrueOf(first, erow') /\ TrueOf(second, erow')
    <2> HIDE DEF r, first, second, new
    <2> QED BY <1>5, <1>8, <1>9, <1>10 DEF TrueOf
<1>12. done \in [Sockets -> Connections] /\ Queued(done) \subseteq Queued(sock) \cup {first}
    BY <1>9, RowFacts, RoutingOnce
<1>13. warned \in [Sockets -> Connections] /\ Queued(warned) \subseteq Queued(done) \cup {second}
    BY <1>9, <1>12, RoutingOnce
<1>14. /\ socks \in [Sockets -> Connections]
       /\ \A event \in Queued(socks) : event \in Queued(sock) \/ TrueOf(event, erow')
    <2> HIDE DEF first, second, done, warned, r, new
    <2> QED BY <1>11, <1>12, <1>13
<1>15. Counted
    BY <1>1, RowFacts, StepCounts
<1> HIDE DEF first, second, done, warned, r, new, socks
<1> QED BY <1>1, <1>5, <1>6, <1>7, <1>14, <1>15, TaskLeaves

LEMMA PairFailedKeeps ==
    ASSUME EvalInv, NEW e \in Evals, PairFailed(e)
    PROVE  TaskKeeps
<1> DEFINE old == erow[e]
           new == [old EXCEPT !.calls = Append(@, 0)]
           event == EvalEvent("case_failed", e, Len(new.calls))
           socks == Routing(sock, event)
<1>1. PublishEval(e, new, socks) /\ Step /\ PairLeft(old)
    BY DEF PairFailed
<1>2. /\ Append(old.calls, 0) \in Seq({0} \cup PairCosts)
      /\ Len(Append(old.calls, 0)) = Len(old.calls) + 1
      /\ Len(old.calls) \in Nat
    BY RowFacts
<1>3. /\ new \in EvalRows /\ new.status = "running" /\ new.cap = old.cap
      /\ new.warned = old.warned /\ new.calls = Append(old.calls, 0) /\ new.spent = old.spent
    <2>1. old \in EvalRows /\ old.status = "running"
        BY <1>1, RowFacts DEF PairLeft
    <2> QED BY <1>2, <2>1 DEF EvalRows
<1>4. CursorOK(new)
    <2>1. Last(new.calls) = 0
        BY <1>2, <1>3, RowFacts DEF Last
    <2>2. ~CapBreached(old)
        BY <1>1 DEF PairLeft
    <2> HIDE DEF new
    <2> QED BY <1>3, <2>1, <2>2, RowFacts DEF CursorOK, CapBreached
<1>5. Len(old.calls) <= Len(new.calls) /\ old.status \notin EvalEnded
    BY <1>1, <1>2, <1>3 DEF PairLeft, EvalEnded
<1>6. event \in Events /\ event.about = e /\ event.event = "case_failed"
    <2>1. "case_failed" \in EventNames /\ Len(new.calls) \in Nat
        BY <1>2, <1>3 DEF EventNames
    <2> HIDE DEF new
    <2> QED BY <2>1, EvalEventFits
<1>7. TrueOf(event, erow')
    <2> HIDE DEF event
    <2> QED BY <1>6 DEF TrueOf
<1>8. socks \in [Sockets -> Connections] /\ Queued(socks) \subseteq Queued(sock) \cup {event}
    BY <1>6, RowFacts, RoutingOnce
<1>9. Counted
    BY <1>1, RowFacts, StepCounts
<1> HIDE DEF event, new, socks
<1> QED BY <1>1, <1>3, <1>4, <1>5, <1>7, <1>8, <1>9, TaskLeaves

\* both ends of the task: the row is final, and the event says so
LEMMA EndKeeps ==
    ASSUME EvalInv, NEW e \in Evals, erow[e].status \notin EvalEnded,
           NEW status \in EvalEnded, status = "cost_capped" => CapBreached(erow[e]),
           NEW total \in Nat,
           PublishEval(e, [erow[e] EXCEPT !.status = status, !.total = total],
                       Routing(sock, EvalEvent("run_completed", e, 0))),
           Counted
    PROVE  TaskKeeps
<1> DEFINE old == erow[e]
           new == [old EXCEPT !.status = status, !.total = total]
           event == EvalEvent("run_completed", e, 0)
           socks == Routing(sock, event)
<1>1. /\ new \in EvalRows /\ new.status = status /\ new.calls = old.calls
      /\ new.spent = old.spent /\ new.cap = old.cap /\ new.warned = old.warned
    BY RowFacts DEF EvalRows, EvalEnded, EvalStatuses
<1>2. CursorOK(new)
    <2> HIDE DEF new
    <2> QED BY <1>1, RowFacts DEF CursorOK, CapBreached, EvalEnded
<1>3. Len(old.calls) <= Len(new.calls)
    BY <1>1, RowFacts
<1>4. /\ event \in Events /\ event.about = e /\ event.event = "run_completed"
      /\ event.n = 0
    <2>1. "run_completed" \in EventNames
        BY DEF EventNames
    <2> QED BY <2>1, EvalEventFits
<1>5. erow'[e] = new
    BY DEF PublishEval, EvalInv, Typed, TypeOK, EvalType
<1>6. TrueOf(event, erow')
    <2> HIDE DEF event, new
    <2> QED BY <1>1, <1>4, <1>5 DEF TrueOf
<1>7. socks \in [Sockets -> Connections] /\ Queued(socks) \subseteq Queued(sock) \cup {event}
    BY <1>4, RowFacts, RoutingOnce
<1>8. PublishEval(e, new, socks)
    OBVIOUS
<1> HIDE DEF event, new, socks
<1> QED BY <1>1, <1>2, <1>3, <1>6, <1>7, <1>8, TaskLeaves

LEMMA FinalizeSuccessKeeps ==
    ASSUME EvalInv, NEW e \in Evals, FinalizeSuccess(e)
    PROVE  TaskKeeps
<1> DEFINE status == IF CapBreached(erow[e]) THEN "cost_capped" ELSE "completed"
<1>1. /\ erow[e].status = "running" /\ UNCHANGED steps
      /\ PublishEval(e, [erow[e] EXCEPT !.status = status, !.total = erow[e].spent],
                     Routing(sock, EvalEvent("run_completed", e, 0)))
    BY DEF FinalizeSuccess
<1>2. Counted
    BY <1>1, RowFacts, NoStepCounts
<1>3. /\ erow[e].status \notin EvalEnded /\ status \in EvalEnded
      /\ status = "cost_capped" => CapBreached(erow[e])
    BY <1>1 DEF EvalEnded
<1>4. erow[e].spent \in Nat
    BY RowFacts
<1> HIDE DEF status
<1> QED BY <1>1, <1>2, <1>3, <1>4, EndKeeps

LEMMA FinalizeFailureKeeps ==
    ASSUME EvalInv, NEW e \in Evals, FinalizeFailure(e)
    PROVE  TaskKeeps
<1>1. /\ erow[e].status \in {"pending", "running"} /\ Step
      /\ PublishEval(e, [erow[e] EXCEPT !.status = "failed"],
                     Routing(sock, EvalEvent("run_completed", e, 0)))
    BY DEF FinalizeFailure
<1>2. Counted
    BY <1>1, RowFacts, StepCounts
<1>3. erow[e].status \notin EvalEnded /\ "failed" \in EvalEnded
    BY <1>1 DEF EvalEnded
<1>4. erow[e].total \in Nat
    BY RowFacts DEF EvalRows
<1>5. [erow[e] EXCEPT !.status = "failed"] =
        [erow[e] EXCEPT !.status = "failed", !.total = erow[e].total]
    BY RowFacts DEF EvalRows
<1>6. PublishEval(e, [erow[e] EXCEPT !.status = "failed", !.total = erow[e].total],
                  Routing(sock, EvalEvent("run_completed", e, 0)))
    BY <1>1, <1>5
<1> QED BY <1>2, <1>3, <1>4, <1>6, EndKeeps

LEMMA EvalTaskKeeps == ASSUME EvalInv, EvalTask PROVE TaskKeeps
BY CreateEvalKeeps, StartEvalKeeps, PairJudgedKeeps, PairFailedKeeps,
   FinalizeSuccessKeeps, FinalizeFailureKeeps DEF EvalTask

-----------------------------------------------------------------------------
(* What a step of the page leaves. *)

\* the page's part of the invariant, with the runs as they are
PageOK ==
    PageTyped /\ ToldOK /\ EvalEventsInvalidate /\ ShownIsOfSelectedRun

LEMMA TypesHold == EvalInv => TypeOK
BY DEF EvalInv, Typed, PageTyped, TypeOK, SocketOK

\* events stay true while the runs stay, and while none is published
LEMMA QuietEvents ==
    ASSUME EventsOK, Kept, UNCHANGED erow PROVE EventsOK'
BY DEF EventsOK, Kept, TrueOf

LEMMA PageLeaves ==
    ASSUME EvalInv, Kept, UNCHANGED erow, PageOK' PROVE EvalInv'
<1>1. EventsOK'
    BY QuietEvents DEF EvalInv
<1>2. EvalType' /\ CursorsOK'
    BY DEF EvalInv, Typed, EvalType, CursorsOK
<1>3. SocketOK'
    BY DEF Kept
<1> QED BY <1>1, <1>2, <1>3 DEF EvalInv, Typed, PageOK

\* the network's and the task's steps leave the page alone
LEMMA PageStays ==
    ASSUME EvalInv, UNCHANGED pageVars, SocketOK', EvalType', CursorsOK', EventsOK',
           Onward
    PROVE  EvalInv'
<1>1. ToldOK'
    BY ToldLasts DEF EvalInv, Typed, PageTyped, pageVars
<1>2. PageTyped'
    BY DEF EvalInv, Typed, PageTyped, pageVars
<1>3. EvalEventsInvalidate' /\ ShownIsOfSelectedRun'
    BY DEF EvalInv, EvalEventsInvalidate, ShownIsOfSelectedRun, pageVars
<1> QED BY <1>1, <1>2, <1>3 DEF EvalInv, Typed

LEMMA NetworkKeeps == ASSUME EvalInv, Network PROVE EvalInv'
<1>1. SocketOK
    BY DEF EvalInv, Typed
<1>2. Kept
    BY <1>1, OpenedKeeps, HandleSubscribeKeeps, LostKeeps, ReconnectKeeps
       DEF Network, Connection
<1>3. UNCHANGED erow /\ UNCHANGED pageVars
    BY DEF Network
<1>4. PageOK'
    <2>1. PageTyped' /\ ToldOK' /\ EvalEventsInvalidate' /\ ShownIsOfSelectedRun'
        BY <1>3 DEF EvalInv, Typed, PageTyped, ToldOK, EvalEventsInvalidate,
                    ShownIsOfSelectedRun, pageVars
    <2> QED BY <2>1 DEF PageOK
<1> QED BY <1>2, <1>3, <1>4, PageLeaves

LEMMA TaskStepKeeps == ASSUME EvalInv, Task PROVE EvalInv'
BY EvalTaskKeeps, PageStays DEF Task, TaskKeeps

\* what is live is of the run sel
LiveOf(lv, sel) ==
    /\ \A i \in DOMAIN lv.cases : lv.cases[i][1] = sel
    /\ lv.completion \subseteq {sel}
    /\ \A w \in lv.warning : w[1] = sel

LEMMA NothingLive == NoLive \in LiveData /\ \A sel : LiveOf(NoLive, sel)
<1>1. NoLive \in LiveData /\ DOMAIN NoLive.cases = {} /\ NoLive.completion = {}
      /\ NoLive.warning = {}
    BY DEF NoLive, LiveData
<1> QED BY <1>1 DEF LiveOf

\* the effects that follow a change of the project or of the selection
LEMMA FollowKeeps ==
    ASSUME EvalInv, NEW p \in Projects \cup {NoProject}, NEW sel \in 0 .. NEvals,
           Follow(p, sel), Counted
    PROVE  /\ Kept /\ activeProject' = p /\ evalSel' = sel /\ page' = "eval"
           /\ live' \in LiveData /\ (sel # 0 => LiveOf(live', sel))
<1>1. activeProject' = p /\ evalSel' = sel /\ page' = "eval"
    BY DEF Follow
<1>2. Kept
    <2>1. EVAL_CHANNELS \in SUBSET Channels
        BY DEF EVAL_CHANNELS, ChannelAssumption
    <2>2. CASE p # NoProject /\ Connect(p, EVAL_CHANNELS)
        BY <2>1, <2>2, ConnectKeeps DEF EvalInv, Typed
    <2>3. CASE UNCHANGED socketVars
        BY <2>3, ApartKeeps DEF EvalInv, Typed
    <2> QED BY <2>2, <2>3 DEF Follow
<1>3. live' \in LiveData /\ (sel # 0 => LiveOf(live', sel))
    <2>1. CASE page = "eval" /\ sel = evalSel
        <3>1. live' = live
            BY <2>1 DEF Follow, LiveAfter
        <3>2. live \in LiveData /\ (evalSel # 0 => LiveOf(live, evalSel))
            BY DEF EvalInv, Typed, PageTyped, ShownIsOfSelectedRun, LiveOf
        <3> QED BY <2>1, <3>1, <3>2
    <2>2. CASE ~(page = "eval" /\ sel = evalSel)
        <3>1. live' = NoLive
            BY <2>2 DEF Follow, LiveAfter
        <3> QED BY <3>1, NothingLive
    <2> QED BY <2>1, <2>2
<1> QED BY <1>1, <1>2, <1>3

\* the cache and what was told stay: so does what relates them
LEMMA CacheStays ==
    ASSUME EvalInv, UNCHANGED <<erow, evalCache, toldOf>>
    PROVE  /\ ToldOK' /\ EvalEventsInvalidate'
           /\ DOMAIN evalCache' = EvalKeys
           /\ toldOf' \in [Evals -> SUBSET (BOOLEAN \X Nat)]
           /\ \A k \in EvalKeys : IsEntry(evalCache'[k])
BY DEF EvalInv, Typed, PageTyped, ToldOK, EvalEventsInvalidate

\* requests that lose their callbacks
LEMMA UnboundFit ==
    ASSUME calls \subseteq Requests
    PROVE  {[c EXCEPT !.bound = FALSE] : c \in calls} \subseteq Requests
BY DEF Requests

LEMMA OpenEvalPageKeeps == ASSUME EvalInv, OpenEvalPage PROVE EvalInv'
<1>1. Counted
    BY StepCounts DEF OpenEvalPage, EvalInv, Typed
<1>2. /\ Kept /\ activeProject' = activeProject /\ evalSel' = 0 /\ page' = "eval"
      /\ live' \in LiveData
    <2>1. activeProject \in Projects \cup {NoProject} /\ 0 \in 0 .. NEvals
        BY DEF EvalInv, Typed, PageTyped, EvalAssumption
    <2> QED BY <1>1, <2>1, FollowKeeps DEF OpenEvalPage
<1>3. caseSel' = NoCase /\ form' = EmptyForm /\ calls' \subseteq Requests
    BY UnboundFit DEF OpenEvalPage, PageLeft, EvalInv, Typed, PageTyped
<1>4. UNCHANGED <<erow, evalCache, toldOf>>
    BY DEF OpenEvalPage
<1>5. NoCase \in (0 .. NEvals) \X (0 .. NCases) /\ EmptyForm \in Forms
    BY DEF NoCase, EmptyForm, Forms, EvalAssumption, FormAssumption
<1>6. PageTyped'
    BY <1>2, <1>3, <1>4, <1>5, CacheStays DEF EvalInv, Typed, PageTyped, EvalAssumption
<1>7. ShownIsOfSelectedRun'
    BY <1>2 DEF ShownIsOfSelectedRun
<1> QED BY <1>2, <1>4, <1>6, <1>7, CacheStays, PageLeaves DEF PageOK

LEMMA OpenRunsPageKeeps == ASSUME EvalInv, OpenRunsPage PROVE EvalInv'
<1>1. Counted
    BY StepCounts DEF OpenRunsPage, EvalInv, Typed
<1>2. Kept
    <2>1. StreamChannels \in SUBSET Channels
        BY DEF StreamChannels, ChannelAssumption
    <2>2. CASE activeProject # NoProject /\ Connect(activeProject, StreamChannels)
        <3>1. activeProject \in Projects
            BY <2>2 DEF EvalInv, Typed, PageTyped
        <3> QED BY <1>1, <2>1, <2>2, <3>1, ConnectKeeps DEF EvalInv, Typed
    <2>3. CASE UNCHANGED socketVars
        BY <1>1, <2>3, ApartKeeps DEF EvalInv, Typed
    <2> QED BY <2>2, <2>3 DEF OpenRunsPage
<1>3. /\ caseSel' = NoCase /\ form' = EmptyForm /\ calls' \subseteq Requests
      /\ page' = "runs" /\ evalSel' = 0 /\ live' = NoLive
      /\ UNCHANGED <<erow, activeProject, evalCache, toldOf>>
    BY UnboundFit DEF OpenRunsPage, PageLeft, EvalInv, Typed, PageTyped
<1>4. NoCase \in (0 .. NEvals) \X (0 .. NCases) /\ EmptyForm \in Forms
    BY DEF NoCase, EmptyForm, Forms, EvalAssumption, FormAssumption
<1>5. PageTyped'
    BY <1>3, <1>4, CacheStays, NothingLive
       DEF EvalInv, Typed, PageTyped, EvalAssumption
<1>6. ShownIsOfSelectedRun'
    BY <1>3 DEF ShownIsOfSelectedRun
<1> QED BY <1>2, <1>3, <1>5, <1>6, CacheStays, PageLeaves DEF PageOK

LEMMA SetActiveProjectKeeps ==
    ASSUME EvalInv, NEW p \in Projects, SetActiveProject(p) PROVE EvalInv'
<1>1. Counted
    BY StepCounts DEF SetActiveProject, EvalInv, Typed
<1>2. /\ Kept /\ activeProject' = p /\ evalSel' = evalSel /\ page' = "eval"
      /\ live' \in LiveData /\ (evalSel # 0 => LiveOf(live', evalSel))
    <2>1. evalSel \in 0 .. NEvals
        BY DEF EvalInv, Typed, PageTyped
    <2> QED BY <1>1, <2>1, FollowKeeps DEF SetActiveProject
<1>3. UNCHANGED <<erow, caseSel, form, calls, evalCache, toldOf>>
    BY DEF SetActiveProject
<1>4. PageTyped'
    BY <1>2, <1>3, CacheStays DEF EvalInv, Typed, PageTyped
<1>5. ShownIsOfSelectedRun'
    BY <1>2, <1>3 DEF EvalInv, ShownIsOfSelectedRun, LiveOf
<1> QED BY <1>2, <1>3, <1>4, <1>5, CacheStays, PageLeaves DEF PageOK

LEMMA HandleSelectEvalRunKeeps ==
    ASSUME EvalInv, NEW e \in Evals, HandleSelectEvalRun(e) PROVE EvalInv'
<1>1. Counted
    BY StepCounts DEF HandleSelectEvalRun, EvalInv, Typed
<1>2. /\ Kept /\ activeProject' = activeProject /\ evalSel' = e /\ page' = "eval"
      /\ live' \in LiveData /\ LiveOf(live', e)
    <2>1. activeProject \in Projects \cup {NoProject} /\ e \in 0 .. NEvals /\ e # 0
        BY DEF EvalInv, Typed, PageTyped, Evals
    <2> QED BY <1>1, <2>1, FollowKeeps DEF HandleSelectEvalRun
<1>3. caseSel' = NoCase /\ UNCHANGED <<erow, form, calls, evalCache, toldOf>>
    BY DEF HandleSelectEvalRun
<1>4. NoCase \in (0 .. NEvals) \X (0 .. NCases) /\ e \in 0 .. NEvals
    BY DEF NoCase, EvalAssumption, Evals
<1>5. PageTyped'
    BY <1>2, <1>3, <1>4, CacheStays DEF EvalInv, Typed, PageTyped
<1>6. ShownIsOfSelectedRun'
    BY <1>2, <1>3 DEF ShownIsOfSelectedRun, LiveOf
<1> QED BY <1>2, <1>3, <1>5, <1>6, CacheStays, PageLeaves DEF PageOK

\* the steps that leave the socket, the project, the selection and the live
\* data: the open case is of the selected run, or none
LEMMA ChoiceKeeps ==
    ASSUME EvalInv, Counted, UNCHANGED <<socketVars, erow, activeProject, page,
                                         evalSel, live, evalCache, toldOf>>,
           caseSel' \in (0 .. NEvals) \X (0 .. NCases), form' \in Forms,
           calls' \subseteq Requests,
           caseSel' \in {caseSel, NoCase} \/ caseSel'[1] = evalSel
    PROVE  EvalInv'
<1>1. Kept
    BY ApartKeeps DEF EvalInv, Typed
<1>2. PageTyped'
    BY CacheStays DEF EvalInv, Typed, PageTyped
<1>3. ShownIsOfSelectedRun'
    BY DEF EvalInv, ShownIsOfSelectedRun
<1> QED BY <1>1, <1>2, <1>3, CacheStays, PageLeaves DEF PageOK

LEMMA SelectCaseKeeps ==
    ASSUME EvalInv, NEW c \in 1 .. NCases, SelectCase(c) PROVE EvalInv'
<1>1. Counted
    BY StepCounts DEF SelectCase, EvalInv, Typed
<1>2. caseSel' = <<evalSel, c>> /\ caseSel' \in (0 .. NEvals) \X (0 .. NCases)
      /\ caseSel'[1] = evalSel
    BY DEF SelectCase, EvalInv, Typed, PageTyped, EvalAssumption
<1>3. /\ UNCHANGED <<socketVars, erow, activeProject, page, evalSel, live, evalCache, toldOf>>
      /\ form' = form /\ calls' = calls
    BY DEF SelectCase
<1>4. form \in Forms /\ calls \subseteq Requests
    BY DEF EvalInv, Typed, PageTyped
<1> QED BY <1>1, <1>2, <1>3, <1>4, ChoiceKeeps

LEMMA CloseCaseKeeps == ASSUME EvalInv, CloseCase PROVE EvalInv'
<1>1. Counted
    BY NoStepCounts DEF CloseCase, EvalInv, Typed
<1>2. caseSel' = NoCase /\ NoCase \in (0 .. NEvals) \X (0 .. NCases)
    BY DEF CloseCase, NoCase, EvalAssumption
<1>3. /\ UNCHANGED <<socketVars, erow, activeProject, page, evalSel, live, evalCache, toldOf>>
      /\ form' = form /\ calls' = calls
    BY DEF CloseCase
<1>4. form \in Forms /\ calls \subseteq Requests
    BY DEF EvalInv, Typed, PageTyped
<1> QED BY <1>1, <1>2, <1>3, <1>4, ChoiceKeeps

LEMMA EditFormKeeps == ASSUME EvalInv, EditForm PROVE EvalInv'
<1>1. Counted
    BY StepCounts DEF EditForm, EvalInv, Typed
<1>2. form \in Forms /\ calls \subseteq Requests
      /\ caseSel \in (0 .. NEvals) \X (0 .. NCases)
    BY DEF EvalInv, Typed, PageTyped
<1>3. form' \in Forms
    <2>1. ASSUME NEW v \in VisibleVersions, form' = [form EXCEPT !.versions = SymDiff(@, {v})]
          PROVE  form' \in Forms
        <3>1. v \in Versions
            BY <2>1 DEF VisibleVersions, FormAssumption
        <3>2. SymDiff(form.versions, {v}) \in SUBSET Versions
            BY <1>2, <3>1 DEF SymDiff, Forms
        <3> QED BY <1>2, <2>1, <3>2 DEF Forms
    <2>2. CASE form' = [form EXCEPT !.uncalibrated = ~@]
        BY <1>2, <2>2 DEF Forms
    <2>3. ASSUME NEW run \in {0} \cup (IF activeProject = Home THEN TrainingRuns ELSE {}),
                 form' = [form EXCEPT !.run = run]
          PROVE  form' \in Forms
        <3>1. run \in {0} \cup TrainingRuns
            OBVIOUS
        <3> QED BY <1>2, <2>3, <3>1 DEF Forms
    <2>4. ASSUME NEW cost \in CostInputs, form' = [form EXCEPT !.cost = cost]
          PROVE  form' \in Forms
        BY <1>2, <2>4 DEF Forms
    <2> QED BY <2>1, <2>2, <2>3, <2>4 DEF EditForm
<1>4. /\ UNCHANGED <<socketVars, erow, activeProject, page, evalSel, live, evalCache, toldOf>>
      /\ caseSel' = caseSel /\ calls' = calls
    BY DEF EditForm
<1> QED BY <1>1, <1>2, <1>3, <1>4, ChoiceKeeps

\* an answer of the moment shows at least what the page was told
LEMMA FetchEvalKeeps ==
    ASSUME EvalInv, NEW k \in EvalKeys, FetchEval(k) PROVE EvalInv'
<1> DEFINE answer == EvalAnswer(k)
           entry == [data |-> {answer}, stale |-> FALSE, flight |-> NoAnswer]
<1>1. Counted
    BY StepCounts, NoStepCounts DEF FetchEval, EvalInv, Typed
<1>2. /\ UNCHANGED <<socketVars, erow, activeProject, page, evalSel, caseSel, form,
                     live, calls, toldOf>>
      /\ evalCache' = [evalCache EXCEPT ![k] = entry]
    BY AnsweredEntry DEF FetchEval, EvalInv, Typed, PageTyped
<1>3. Kept
    BY <1>1, <1>2, ApartKeeps DEF EvalInv, Typed
<1>4. /\ IsEntry(entry) /\ evalCache'[k] = entry /\ DOMAIN evalCache' = EvalKeys
      /\ \A j \in EvalKeys \ {k} : evalCache'[j] = evalCache[j]
    BY <1>2 DEF EvalInv, Typed, PageTyped, IsEntry
<1>5. PageTyped'
    BY <1>2, <1>4 DEF EvalInv, Typed, PageTyped
<1>6. ToldOK'
    BY <1>2 DEF EvalInv, ToldOK
<1>7. EvalEventsInvalidate'
    <2> SUFFICES ASSUME NEW e \in Evals, NEW t \in toldOf[e],
                        NEW v \in evalCache'[IF t[1] THEN ListKey ELSE e].data,
                        ~evalCache'[IF t[1] THEN ListKey ELSE e].stale
                 PROVE  /\ ~t[1] => Len(v.calls) >= t[2]
                        /\ t[2] = 0 => (IF t[1] THEN v[e] ELSE v.status) \in EvalEnded
        BY <1>2 DEF EvalEventsInvalidate
    <2> DEFINE j == IF t[1] THEN ListKey ELSE e
    <2>1. t \in BOOLEAN \X Nat /\ e # ListKey /\ j \in EvalKeys
        BY DEF EvalInv, Typed, PageTyped, Evals, ListKey, EvalKeys
    <2>2. CASE j # k
        <3>1. evalCache'[j] = evalCache[j]
            BY <1>4, <2>1, <2>2
        <3> QED BY <3>1 DEF EvalInv, EvalEventsInvalidate
    <2>3. CASE j = k
        <3>1. v = answer
            BY <1>4, <2>3
        <3>2. t[2] <= Len(erow[e].calls) /\ (t[2] = 0 => erow[e].status \in EvalEnded)
            BY DEF EvalInv, ToldOK
        <3>3. CASE t[1]
            <4>1. k = ListKey
                BY <2>3, <3>3
            <4>2. v = [d \in {c \in Evals : erow[c].status # "absent"} |-> erow[d].status]
                BY <3>1, <4>1 DEF EvalAnswer
            <4>3. erow[e].status \in EvalEnded => v[e] = erow[e].status
                BY <4>2 DEF EvalEnded
            <4> QED BY <3>2, <3>3, <4>3
        <3>4. CASE ~t[1]
            <4>1. v = erow[e]
                BY <2>1, <2>3, <3>1, <3>4 DEF EvalAnswer
            <4>2. Len(erow[e].calls) \in Nat
                BY RowFacts
            <4> QED BY <2>1, <3>2, <3>4, <4>1, <4>2
        <3> QED BY <3>3, <3>4
    <2> QED BY <2>2, <2>3
<1>8. ShownIsOfSelectedRun'
    BY <1>2 DEF EvalInv, ShownIsOfSelectedRun
<1> QED BY <1>2, <1>3, <1>5, <1>6, <1>7, <1>8, PageLeaves DEF PageOK

LEMMA HandleTriggerEvalKeeps == ASSUME EvalInv, HandleTriggerEval PROVE EvalInv'
<1>1. Counted
    BY StepCounts DEF HandleTriggerEval, EvalInv, Typed
<1> DEFINE call == [form |-> form, bound |-> TRUE, id |-> steps, answer |-> "none", new |-> 0]
<1>2. /\ UNCHANGED <<socketVars, erow, activeProject, page, evalSel, live, evalCache, toldOf>>
      /\ caseSel' = caseSel /\ form' = form /\ calls' = calls \cup {call}
    BY DEF HandleTriggerEval
<1>3. form \in Forms /\ calls \subseteq Requests /\ steps \in Nat
      /\ caseSel \in (0 .. NEvals) \X (0 .. NCases)
    BY DEF EvalInv, Typed, PageTyped, SocketOK, SocketType, SocketAssumption
<1>4. call \in Requests
    BY <1>3 DEF Requests
<1> QED BY <1>1, <1>2, <1>3, <1>4, ChoiceKeeps

\* the body of the request lacks a field the schema requires
LEMMA TriggerRefused == \A versions, cost : ~CreateAccepted(TriggerFields, versions, cost)
BY DEF CreateAccepted, RequiredFields, TriggerFields

LEMMA HandleCreateKeeps ==
    ASSUME EvalInv, NEW c \in calls, HandleCreate(c) PROVE EvalInv'
<1> DEFINE answered == [c EXCEPT !.answer = "refused", !.new = 0]
<1>1. /\ UNCHANGED <<socketVars, erow, activeProject, page, evalSel, live, evalCache,
                     toldOf, steps>>
      /\ caseSel' = caseSel /\ form' = form /\ calls' = (calls \ {c}) \cup {answered}
    BY TriggerRefused DEF HandleCreate
<1>2. Counted
    BY <1>1, NoStepCounts DEF EvalInv, Typed
<1>3. form \in Forms /\ calls \subseteq Requests
      /\ caseSel \in (0 .. NEvals) \X (0 .. NCases)
    BY DEF EvalInv, Typed, PageTyped
<1>4. answered \in Requests
    BY <1>3 DEF Requests
<1> QED BY <1>1, <1>2, <1>3, <1>4, ChoiceKeeps

LEMMA RespondCreateKeeps ==
    ASSUME EvalInv, NEW c \in calls, RespondCreate(c) PROVE EvalInv'
<1>1. calls \subseteq Requests /\ form \in Forms
      /\ caseSel \in (0 .. NEvals) \X (0 .. NCases)
    BY DEF EvalInv, Typed, PageTyped
<1>2. c.answer # "ok"
    BY <1>1 DEF Requests
<1>3. /\ UNCHANGED <<socketVars, erow, activeProject, page, evalSel, live, evalCache,
                     toldOf, steps>>
      /\ caseSel' = caseSel /\ form' = form /\ calls' = calls \ {c}
    BY <1>2 DEF RespondCreate
<1>4. Counted
    BY <1>3, NoStepCounts DEF EvalInv, Typed
<1> QED BY <1>1, <1>3, <1>4, ChoiceKeeps

\* an event that the page takes: it is of the selected run, and of a kind it
\* parses
LEMMA HandledFits ==
    ASSUME NEW lv \in LiveData, NEW event \in Events, event.about \in Evals,
           event.event \in EvalEventKinds
    PROVE  /\ Handled(lv, event) \in LiveData
           /\ LiveOf(lv, event.about) => LiveOf(Handled(lv, event), event.about)
<1> DEFINE point == <<event.about, event.n>>
<1>1. point \in Evals \X Nat /\ lv.cases \in Seq(Evals \X Nat)
    BY DEF Events, LiveData
<1>2. CASE event.event = "case_completed"
    <2>1. Append(lv.cases, point) \in Seq(Evals \X Nat)
        BY <1>1
    <2>2. /\ Handled(lv, event) \in LiveData
          /\ Handled(lv, event).cases = Append(lv.cases, point)
          /\ Handled(lv, event).completion = lv.completion
          /\ Handled(lv, event).warning = lv.warning
        BY <1>2, <2>1 DEF Handled, LiveData
    <2>3. \A i \in DOMAIN Append(lv.cases, point) :
            Append(lv.cases, point)[i] = point
            \/ (i \in DOMAIN lv.cases /\ Append(lv.cases, point)[i] = lv.cases[i])
        BY <1>1
    <2>4. point[1] = event.about
        OBVIOUS
    <2> HIDE DEF point
    <2> QED BY <2>2, <2>3, <2>4 DEF LiveOf
<1>3. CASE event.event = "run_completed"
    <2>1. /\ Handled(lv, event) \in LiveData
          /\ Handled(lv, event).cases = lv.cases
          /\ Handled(lv, event).completion = {event.about}
          /\ Handled(lv, event).warning = lv.warning
        BY <1>3 DEF Handled, LiveData
    <2> QED BY <2>1 DEF LiveOf
<1>4. CASE event.event = "cost_warning"
    <2>1. /\ Handled(lv, event) \in LiveData
          /\ Handled(lv, event).cases = lv.cases
          /\ Handled(lv, event).completion = lv.completion
          /\ Handled(lv, event).warning = {point}
        BY <1>1, <1>4 DEF Handled, LiveData
    <2> QED BY <2>1 DEF LiveOf
<1> QED BY <1>2, <1>3, <1>4 DEF EvalEventKinds

LEMMA DeliverKeeps ==
    ASSUME EvalInv, NEW s \in Sockets, Deliver(s) PROVE EvalInv'
<1> DEFINE event == Head(sock[s].queue)
           keys == InvalidatedBy(event)
           shown == {k \in {ListKey, event.about} : /\ event.event # "cost_warning"
                                                   /\ evalCache[k].data # NoAnswer}
           more == {<<k = ListKey, event.n>> : k \in shown}
<1>1. Kept /\ event \in Queued(sock) /\ event \in Events
    BY ReceivedKeeps DEF Deliver, EvalInv, Typed
<1>2. UNCHANGED <<erow, activeProject, page, evalSel, caseSel, form, calls>>
    BY DEF Deliver
<1>3. TrueOf(event, erow)
    BY <1>1 DEF EvalInv, EventsOK
<1>4. CASE ~ListensTo(event)
    <2>1. UNCHANGED <<live, evalCache, toldOf>>
        BY <1>4 DEF Deliver
    <2>2. PageTyped'
        BY <1>2, <2>1 DEF EvalInv, Typed, PageTyped
    <2>3. ShownIsOfSelectedRun'
        BY <1>2, <2>1 DEF EvalInv, ShownIsOfSelectedRun
    <2> QED BY <1>1, <1>2, <2>1, <2>2, <2>3, CacheStays, PageLeaves DEF PageOK
<1>5. CASE ListensTo(event)
    <2>1. /\ live' = Handled(live, event)
          /\ evalCache' = InvalidatedAll(evalCache, keys, ActiveKeys)
          /\ toldOf' = [toldOf EXCEPT ![event.about] = @ \cup more]
        BY <1>5 DEF Deliver
    <2>2. event.about \in Evals /\ event.n \in Nat /\ event.event \in EvalEventKinds
          /\ (evalSel # 0 => event.about = evalSel)
        BY <1>1, <1>3, <1>5 DEF TrueOf, Events, ListensTo
    <2> HIDE DEF event
    <2>3. live' \in LiveData /\ (evalSel # 0 => LiveOf(live', evalSel))
        <3>1. live \in LiveData /\ (evalSel # 0 => LiveOf(live, evalSel))
            BY DEF EvalInv, Typed, PageTyped, ShownIsOfSelectedRun, LiveOf
        <3> QED BY <1>1, <2>1, <2>2, <3>1, HandledFits
    <2>4. ShownIsOfSelectedRun'
        BY <1>2, <2>3 DEF EvalInv, ShownIsOfSelectedRun, LiveOf
    <2>5. DOMAIN evalCache = EvalKeys /\ \A k \in EvalKeys : IsEntry(evalCache[k])
        BY DEF EvalInv, Typed, PageTyped
    <2>6. /\ DOMAIN evalCache' = EvalKeys
          /\ \A k \in EvalKeys :
                /\ IsEntry(evalCache'[k]) /\ evalCache'[k].data = evalCache[k].data
                /\ evalCache[k].stale => evalCache'[k].stale
                /\ k \in keys /\ evalCache[k].data # NoAnswer => evalCache'[k].stale
        <3>1. DOMAIN evalCache' = EvalKeys
            BY <2>1, <2>5 DEF InvalidatedAll
        <3> HIDE DEF keys
        <3> QED BY <2>1, <2>5, <3>1, InvalidatedEntries
    <2>7. more \subseteq BOOLEAN \X Nat
        <3> SUFFICES ASSUME NEW t \in more PROVE t \in BOOLEAN \X Nat
            OBVIOUS
        <3>1. PICK k \in shown : t = <<k = ListKey, event.n>>
            OBVIOUS
        <3>2. (k = ListKey) \in BOOLEAN
            OBVIOUS
        <3> QED BY <2>2, <3>1, <3>2
    <2>8. /\ toldOf' \in [Evals -> SUBSET (BOOLEAN \X Nat)]
          /\ toldOf'[event.about] = toldOf[event.about] \cup more
          /\ \A e \in Evals \ {event.about} : toldOf'[e] = toldOf[e]
        <3> HIDE DEF more
        <3> QED BY <2>1, <2>2, <2>7 DEF EvalInv, Typed, PageTyped
    <2>9. PageTyped'
        BY <1>2, <2>3, <2>6, <2>8 DEF EvalInv, Typed, PageTyped
    <2>10. ASSUME NEW t \in more
           PROVE  /\ t \in BOOLEAN \X Nat /\ t[2] = event.n /\ event.event # "cost_warning"
                  /\ evalCache[IF t[1] THEN ListKey ELSE event.about].data # NoAnswer
        <3>1. PICK k \in shown : t = <<k = ListKey, event.n>>
            OBVIOUS
        <3> QED BY <2>2, <3>1 DEF Evals, ListKey
    <2>11. ASSUME NEW t \in more
           PROVE  /\ t[2] <= Len(erow[event.about].calls)
                  /\ t[2] = 0 => erow[event.about].status \in EvalEnded
        <3>1. Len(erow[event.about].calls) \in Nat
            BY <2>2, RowFacts
        <3> QED BY <1>3, <2>2, <2>10, <3>1 DEF TrueOf, EvalEventKinds
    <2> HIDE DEF more, shown
    <2>12. ToldOK'
        BY <1>2, <2>8, <2>11 DEF EvalInv, ToldOK
    <2>13. EvalEventsInvalidate'
        <3> SUFFICES ASSUME NEW e \in Evals, NEW t \in toldOf'[e],
                            NEW v \in evalCache'[IF t[1] THEN ListKey ELSE e].data,
                            ~evalCache'[IF t[1] THEN ListKey ELSE e].stale
                     PROVE  /\ ~t[1] => Len(v.calls) >= t[2]
                            /\ t[2] = 0 => (IF t[1] THEN v[e] ELSE v.status) \in EvalEnded
            BY DEF EvalEventsInvalidate
        <3> DEFINE j == IF t[1] THEN ListKey ELSE e
        <3>1. j \in EvalKeys
            BY DEF EvalKeys
        <3>2. CASE t \in toldOf[e]
            <4>1. v \in evalCache[j].data /\ ~evalCache[j].stale
                BY <2>6, <3>1
            <4> QED BY <3>2, <4>1 DEF EvalInv, EvalEventsInvalidate
        <3>3. CASE t \notin toldOf[e]
            <4>1. e = event.about /\ t \in more
                BY <2>8, <3>3
            <4>2. j \in keys /\ evalCache[j].data # NoAnswer
                BY <2>10, <3>1, <4>1 DEF InvalidatedBy
            <4> QED BY <2>6, <3>1, <4>2
        <3> QED BY <3>2, <3>3
    <2> QED BY <1>1, <1>2, <2>4, <2>9, <2>12, <2>13, PageLeaves DEF PageOK
<1> QED BY <1>4, <1>5

-----------------------------------------------------------------------------

LEMMA EvalInvStarts == Init => EvalInv
<1> SUFFICES ASSUME Init PROVE EvalInv
    OBVIOUS
<1>1. SocketOK /\ Queued(sock) = {}
    BY SocketStarts DEF Init
<1>2. PICK n \in Evals, cap \in Caps :
        erow = [e \in Evals |->
                  IF e <= n THEN [NoEval EXCEPT !.status = "running", !.cap = cap]
                  ELSE NoEval]
    BY DEF Init, EvalInit
<1>3. cap \in 1 .. NoCap /\ NoCap \in Nat /\ NoCap \in 1 .. NoCap
    BY DEF EvalAssumption
<1>4. << >> \in Seq({0} \cup PairCosts) /\ Len(<< >>) = 0
    OBVIOUS
<1>5. NoEval \in EvalRows /\ CursorOK(NoEval)
    BY <1>3, <1>4 DEF NoEval, EvalRows, EvalStatuses, CursorOK, CapBreached
<1> DEFINE first == [NoEval EXCEPT !.status = "running", !.cap = cap]
<1>6. /\ first \in EvalRows /\ first.calls = << >> /\ first.spent = 0
       /\ first.status = "running" /\ first.cap = cap
    BY <1>3, <1>4 DEF NoEval, EvalRows, EvalStatuses
<1>7. CursorOK(first)
    <2> HIDE DEF first
    <2> QED BY <1>3, <1>6 DEF CursorOK, CapBreached
<1>8. EvalType /\ CursorsOK
    BY <1>2, <1>5, <1>6, <1>7 DEF EvalType, CursorsOK
<1>9. IsEntry(EmptyEntry)
    BY DEF IsEntry, EmptyEntry
<1>10. /\ NoCase \in (0 .. NEvals) \X (0 .. NCases) /\ EmptyForm \in Forms
      /\ 0 \in 0 .. NEvals /\ Home \in Projects
    BY DEF NoCase, EmptyForm, Forms, EvalAssumption, FormAssumption
<1>11. PageTyped
    BY <1>9, <1>10, NothingLive DEF Init, PageInit, PageTyped
<1>12. toldOf = [e \in Evals |-> {}] /\ evalSel = 0
    BY DEF Init, PageInit
<1>13. EventsOK /\ ToldOK /\ EvalEventsInvalidate /\ ShownIsOfSelectedRun
    BY <1>1, <1>12 DEF EventsOK, ToldOK, EvalEventsInvalidate, ShownIsOfSelectedRun
<1> QED BY <1>1, <1>8, <1>11, <1>13 DEF EvalInv, Typed

LEMMA EvalInvStays == EvalInv /\ [Next]_vars => EvalInv'
<1> SUFFICES ASSUME EvalInv, [Next]_vars PROVE EvalInv'
    OBVIOUS
<1>1. CASE Network
    BY <1>1, NetworkKeeps
<1>2. CASE Task
    BY <1>2, TaskStepKeeps
<1>3. CASE Browse
    BY <1>3, OpenEvalPageKeeps, OpenRunsPageKeeps, CloseCaseKeeps, EditFormKeeps,
       SetActiveProjectKeeps, HandleSelectEvalRunKeeps, SelectCaseKeeps, FetchEvalKeeps
       DEF Browse
<1>4. CASE Trigger
    BY <1>4, HandleTriggerEvalKeeps, HandleCreateKeeps, RespondCreateKeeps DEF Trigger
<1>5. ASSUME NEW s \in Sockets, Deliver(s) PROVE EvalInv'
    BY <1>5, DeliverKeeps
<1>6. CASE UNCHANGED vars
    <2>1. UNCHANGED <<socketVars, steps, erow, pageVars>>
        BY <1>6 DEF vars
    <2>2. Counted /\ SocketOK
        BY <2>1, NoStepCounts DEF EvalInv, Typed
    <2>3. Kept
        BY <2>1, <2>2, ApartKeeps
    <2>4. PageOK'
        BY <2>1 DEF EvalInv, Typed, PageTyped, ToldOK, EvalEventsInvalidate,
                    ShownIsOfSelectedRun, pageVars, PageOK
    <2> QED BY <2>1, <2>3, <2>4, PageLeaves
<1> QED BY <1>1, <1>2, <1>3, <1>4, <1>5, <1>6 DEF Next

\* the evaluation page, its socket and the task keep the invariant, whatever
\* the number of evaluation runs and sockets, and the order of steps
THEOREM EvalViewIsKept == Spec => []EvalInv
BY EvalInvStarts, EvalInvStays, PTL DEF Spec

\* every variable has its type (EvalView)
THEOREM EvalTypesAreKept == Spec => []TypeOK
BY EvalViewIsKept, TypesHold, PTL

\* what is live on the page is of the selected evaluation run
\* (hooks/useEvalStream.ts, pages/eval-page.tsx)
THEOREM OnlySelectedIsShown == Spec => []ShownIsOfSelectedRun
<1>1. EvalInv => ShownIsOfSelectedRun
    BY DEF EvalInv
<1> QED BY <1>1, EvalViewIsKept, PTL

\* a run passes its ceiling with its last call only, and was warned when the
\* ceiling stopped it (services/eval_runner.py)
THEOREM CapIsRespected == Spec => []CapRespected
<1>1. EvalInv => CapRespected
    BY DEF EvalInv, CursorsOK, CursorOK, CapRespected
<1> QED BY <1>1, EvalViewIsKept, PTL

\* an answer on show that is not marked for a new fetch has in it all that the
\* page was told (hooks/useEval.ts, hooks/useEvalStream.ts)
THEOREM EvalEventsReachThePage == Spec => []EvalEventsInvalidate
<1>1. EvalInv => EvalEventsInvalidate
    BY DEF EvalInv
<1> QED BY <1>1, EvalViewIsKept, PTL

\* no request to create an evaluation run that the page sends is ever accepted:
\* its body lacks the project's id (api/eval.ts, schemas/eval.py)
THEOREM NoTriggerIsAccepted == Spec => [](\A c \in calls : c.answer # "ok")
<1>1. EvalInv => \A c \in calls : c.answer # "ok"
    BY DEF EvalInv, Typed, PageTyped, Requests
<1> QED BY <1>1, EvalViewIsKept, PTL

-----------------------------------------------------------------------------
(* What the calls charged, added up. *)

\* a run spent what its calls charged, of which there is at most one for each
\* pair; the total of a completed run is what it spent
Accounted(r) ==
    /\ r \in EvalRows /\ Len(r.calls) <= NPairs
    /\ r.spent = SumFunction(r.calls)
    /\ r.status = "completed" => r.total = r.spent

\* the rows, and the details the page has
AllAccounted ==
    /\ \A e \in Evals : Accounted(erow[e])
    /\ \A k \in Evals : \A d \in evalCache[k].data : Accounted(d)

LEMMA Pairs == NPairs \in Nat /\ \A k \in 1 .. NPairs : CaseOf(k) \in 1 .. NCases
<1>1. NCases \in Nat /\ NRubrics \in Nat \ {0}
    BY DEF EvalAssumption
<1>2. NPairs = NCases * NRubrics /\ NPairs \in Nat
    BY <1>1 DEF NPairs
<1>3. ASSUME NEW k \in 1 .. NPairs PROVE CaseOf(k) \in 1 .. NCases
    <2> DEFINE q == (k - 1) \div NRubrics
    <2>1. k - 1 \in Nat /\ k - 1 < NCases * NRubrics
        BY <1>2
    <2>2. q \in Nat /\ NRubrics * q <= k - 1
        BY <1>1, <2>1
    <2>3. q < NCases
        <3> SUFFICES ASSUME q >= NCases PROVE FALSE
            BY <1>1, <2>2
        <3> HIDE DEF q
        <3>1. NRubrics * q >= NRubrics * NCases
            BY <1>1, <2>2
        <3>2. NRubrics * NCases = NCases * NRubrics
            BY <1>1
        <3>3. NRubrics * q \in Nat /\ NCases * NRubrics \in Nat
            BY <1>1, <2>2
        <3> QED BY <2>1, <2>2, <3>1, <3>2, <3>3
    <2> HIDE DEF q
    <2>4. q + 1 \in 1 .. NCases
        BY <1>1, <2>2, <2>3
    <2> QED BY <2>4 DEF q, CaseOf
<1> QED BY <1>2, <1>3

\* one more call
LEMMA CallAdded ==
    ASSUME NEW s \in Seq({0} \cup PairCosts), NEW c \in {0} \cup PairCosts
    PROVE  SumFunction(Append(s, c)) = SumFunction(s) + c
<1> DEFINE n == Len(s)
           t == Append(s, c)
<1>1. \A v \in {0} \cup PairCosts : v \in Nat
    BY DEF EvalAssumption
<1>2. /\ n \in Nat /\ DOMAIN s = 1 .. n /\ DOMAIN t = 1 .. n + 1 /\ t[n + 1] = c
      /\ \A i \in 1 .. n : t[i] = s[i] /\ s[i] \in {0} \cup PairCosts
      /\ \A i \in 1 .. n + 1 : t[i] \in {0} \cup PairCosts
    OBVIOUS
<1> HIDE DEF n, t
<1>3. \A i \in 1 .. n + 1 : t[i] \in Nat
    BY <1>1, <1>2
<1>4. SumFunctionOnSet(t, 1 .. n + 1) = SumFunctionOnSet(t, 1 .. n) + t[n + 1]
    BY <1>2, <1>3, SumNext
<1>5. \A i \in 1 .. n : s[i] \in Nat /\ s[i] = t[i]
    BY <1>1, <1>2
<1>6. SumFunctionOnSet(s, 1 .. n) = SumFunctionOnSet(t, 1 .. n)
    BY <1>2, <1>5, SumToSame
<1> QED BY <1>2, <1>4, <1>6 DEF SumFunction, t

LEMMA CallsOf ==
    ASSUME NEW r \in EvalRows
    PROVE  /\ r.calls \in Seq({0} \cup PairCosts) /\ r.spent \in Nat
           /\ DOMAIN r.calls = 1 .. Len(r.calls) /\ Len(r.calls) \in Nat
           /\ \A i \in DOMAIN r.calls : r.calls[i] \in Nat
<1>1. r.calls \in Seq({0} \cup PairCosts) /\ r.spent \in Nat
    BY DEF EvalRows
<1>2. \A v \in {0} \cup PairCosts : v \in Nat
    BY DEF EvalAssumption
<1> DEFINE s == r.calls
           T == {0} \cup PairCosts
<1>3. s \in Seq(T) /\ \A v \in T : v \in Nat
    BY <1>1, <1>2
<1> HIDE DEF s, T
<1>4. /\ DOMAIN s = 1 .. Len(s) /\ Len(s) \in Nat
      /\ \A i \in DOMAIN s : s[i] \in Nat
    BY <1>3
<1> QED BY <1>1, <1>4 DEF s

\* the costs of the cases add up to what a run spent
LEMMA CasesAddUp ==
    ASSUME NEW d, Accounted(d), d.status = "completed"
    PROVE  d.total = SumFunctionOnSet([c \in 1 .. NCases |-> CaseCost(d, c)],
                                      DetailCases(d))
<1> DEFINE S == DOMAIN d.calls
           part == [c \in 1 .. NCases |-> CaseCost(d, c)]
           of == [k \in S |-> CaseOf(k)]
           class == [c \in 1 .. NCases |-> CaseCalls(d, c)]
<1>1. d \in EvalRows /\ d.total = SumFunctionOnSet(d.calls, S) /\ Len(d.calls) <= NPairs
    BY DEF Accounted, SumFunction
<1>2. S = 1 .. Len(d.calls) /\ Len(d.calls) \in Nat /\ \A k \in S : d.calls[k] \in Nat
    BY <1>1, CallsOf
<1>3. IsFiniteSet(S)
    <2> DEFINE N == Len(d.calls)
    <2>1. N \in Nat /\ S = 1 .. N
        BY <1>2
    <2> HIDE DEF N, S
    <2>2. N \in Int /\ 1 \in Int
        BY <2>1
    <2>3. IsFiniteSet(1 .. N)
        BY <2>2, FS_Interval
    <2> QED BY <2>1, <2>3
<1>4. \A k \in S : of[k] = CaseOf(k) /\ of[k] \in 1 .. NCases
    <2>1. \A k \in S : k \in 1 .. NPairs
        BY <1>1, <1>2, Pairs
    <2> QED BY <2>1, Pairs
<1>5. \A c \in 1 .. NCases :
        /\ part[c] = SumFunctionOnSet(d.calls, class[c])
        /\ class[c] \subseteq S /\ \A k \in S : k \in class[c] <=> of[k] = c
    <2>1. \A c \in 1 .. NCases : part[c] = SumFunctionOnSet(d.calls, class[c])
        BY DEF CaseCost
    <2>2. \A c \in 1 .. NCases : CaseCalls(d, c) \subseteq S
                               /\ \A k \in S : k \in CaseCalls(d, c) <=> CaseOf(k) = c
        BY DEF CaseCalls
    <2> QED BY <2>1, <2>2
<1>6. NCases \in Nat
    BY DEF EvalAssumption
<1> HIDE DEF S, of, part, class
<1>7. SumFunctionOnSet(part, 1 .. NCases) = SumFunctionOnSet(d.calls, S)
    <2>1. Parts(part, class, of, NCases, d.calls, S)
        BY <1>2, <1>3, <1>4, <1>5, <1>6 DEF Parts
    <2> QED BY <2>1, SumOfParts
<1>8. DetailCases(d) = 1 .. NCases
    BY DEF DetailCases
<1> QED BY <1>1, <1>7, <1>8 DEF part

\* a step of the task keeps a run's account
LEMMA TaskAccounts ==
    ASSUME EvalInv, AllAccounted, EvalTask
    PROVE  \A e \in Evals : Accounted(erow'[e])
<1>1. erow \in [Evals -> EvalRows]
    BY DEF EvalInv, Typed, EvalType
<1>2. ASSUME NEW e \in Evals, NEW new, NEW socks, PublishEval(e, new, socks), Accounted(new)
      PROVE  \A d \in Evals : Accounted(erow'[d])
    <2>1. \A d \in Evals : erow'[d] = IF d = e THEN new ELSE erow[d]
        BY <1>1, <1>2 DEF PublishEval
    <2> QED BY <1>2, <2>1 DEF AllAccounted
<1>3. PICK e \in Evals :
        \/ \E cap \in Caps : CreateEval(e, cap)
        \/ StartEval(e)
        \/ \E charged \in PairCosts : PairJudged(e, charged)
        \/ PairFailed(e) \/ FinalizeSuccess(e) \/ FinalizeFailure(e)
    BY DEF EvalTask
<1>4. /\ erow[e] \in EvalRows /\ Accounted(erow[e])
      /\ erow[e].calls \in Seq({0} \cup PairCosts) /\ erow[e].spent \in Nat
      /\ Len(erow[e].calls) \in Nat
    BY <1>1, CallsOf DEF AllAccounted
<1>5. ASSUME NEW cap \in Caps, CreateEval(e, cap) PROVE \A d \in Evals : Accounted(erow'[d])
    <2> DEFINE new == [NoEval EXCEPT !.status = "pending", !.cap = cap]
    <2>1. PublishEval(e, new, sock)
        BY <1>5 DEF CreateEval
    <2>2. cap \in 1 .. NoCap
        BY DEF EvalAssumption
    <2>3. << >> \in Seq({0} \cup PairCosts) /\ Len(<< >>) = 0 /\ DOMAIN << >> = {}
        OBVIOUS
    <2>4. /\ new \in EvalRows /\ new.calls = << >> /\ new.spent = 0
          /\ new.status = "pending"
        BY <2>2, <2>3 DEF NoEval, EvalRows, EvalStatuses
    <2>5. SumFunction(<< >>) = 0
        BY <2>3, SumOfNone DEF SumFunction
    <2> HIDE DEF new
    <2>6. Accounted(new)
        BY <2>3, <2>4, <2>5, Pairs DEF Accounted
    <2> QED BY <1>2, <2>1, <2>6
<1>6. CASE StartEval(e)
    <2> DEFINE new == [erow[e] EXCEPT !.status = "running"]
    <2>1. PublishEval(e, new, sock)
        BY <1>6 DEF StartEval
    <2>2. /\ new \in EvalRows /\ new.calls = erow[e].calls /\ new.spent = erow[e].spent
          /\ new.status = "running"
        BY <1>4 DEF EvalRows, EvalStatuses
    <2> HIDE DEF new
    <2>3. Accounted(new)
        BY <1>4, <2>2 DEF Accounted
    <2> QED BY <1>2, <2>1, <2>3
<1>7. ASSUME NEW charged \in {0} \cup PairCosts, NEW new, NEW socks,
             PublishEval(e, new, socks), PairLeft(erow[e]), new \in EvalRows,
             new.status = "running", new.calls = Append(erow[e].calls, charged),
             new.spent = erow[e].spent + charged
      PROVE  \A d \in Evals : Accounted(erow'[d])
    <2>1. Len(erow[e].calls) < NPairs
        BY <1>7 DEF PairLeft
    <2>2. Len(new.calls) = Len(erow[e].calls) + 1
        BY <1>4, <1>7
    <2>3. SumFunction(new.calls) = SumFunction(erow[e].calls) + charged
        BY <1>4, <1>7, CallAdded
    <2>4. Accounted(new)
        BY <1>4, <1>7, <2>1, <2>2, <2>3, Pairs DEF Accounted
    <2> QED BY <1>2, <1>7, <2>4
<1>8. ASSUME NEW charged \in PairCosts, PairJudged(e, charged)
      PROVE  \A d \in Evals : Accounted(erow'[d])
    <2> DEFINE r == [erow[e] EXCEPT !.calls = Append(@, charged), !.spent = @ + charged]
               new == [r EXCEPT !.warned = @ \/ WarningDue(r)]
    <2>1. PairLeft(erow[e]) /\ \E socks : PublishEval(e, new, socks)
        BY <1>8 DEF PairJudged
    <2>2. /\ charged \in {0} \cup PairCosts /\ erow[e].spent + charged \in Nat
          /\ Append(erow[e].calls, charged) \in Seq({0} \cup PairCosts)
          /\ WarningDue(r) \in BOOLEAN /\ erow[e].status = "running"
        <3>1. charged \in {0} \cup PairCosts /\ charged \in Nat
            BY DEF EvalAssumption
        <3>2. WarningDue(r) \in BOOLEAN
            BY DEF WarningDue
        <3> HIDE DEF r
        <3> QED BY <1>4, <2>1, <3>1, <3>2 DEF PairLeft
    <2> DEFINE due == WarningDue(r)
    <2> HIDE DEF due
    <2>3. /\ new \in EvalRows /\ new.status = "running"
          /\ new.calls = Append(erow[e].calls, charged)
          /\ new.spent = erow[e].spent + charged
        <3>1. /\ r \in EvalRows /\ r.status = "running"
              /\ r.calls = Append(erow[e].calls, charged)
              /\ r.spent = erow[e].spent + charged
            BY <1>4, <2>2 DEF EvalRows
        <3> HIDE DEF r
        <3> QED BY <2>2, <3>1 DEF EvalRows
    <2> HIDE DEF new, r
    <2> QED BY <1>7, <2>1, <2>2, <2>3
<1>9. CASE PairFailed(e)
    <2> DEFINE new == [erow[e] EXCEPT !.calls = Append(@, 0)]
    <2>1. PairLeft(erow[e]) /\ \E socks : PublishEval(e, new, socks)
        BY <1>9 DEF PairFailed
    <2>2. /\ 0 \in {0} \cup PairCosts /\ erow[e].spent + 0 = erow[e].spent
          /\ Append(erow[e].calls, 0) \in Seq({0} \cup PairCosts)
        BY <1>4
    <2>3. /\ new \in EvalRows /\ new.status = "running"
          /\ new.calls = Append(erow[e].calls, 0) /\ new.spent = erow[e].spent + 0
        BY <1>4, <2>1, <2>2 DEF EvalRows, PairLeft
    <2> HIDE DEF new
    <2> QED BY <1>7, <2>1, <2>2, <2>3
<1>10. CASE FinalizeSuccess(e)
    <2> DEFINE status == IF CapBreached(erow[e]) THEN "cost_capped" ELSE "completed"
               new == [erow[e] EXCEPT !.status = status, !.total = erow[e].spent]
    <2>1. \E socks : PublishEval(e, new, socks)
        BY <1>10 DEF FinalizeSuccess
    <2>2. status \in {"cost_capped", "completed"}
        OBVIOUS
    <2> HIDE DEF status
    <2>3. /\ new \in EvalRows /\ new.calls = erow[e].calls
          /\ new.spent = erow[e].spent /\ new.total = erow[e].spent
        BY <1>4, <2>2 DEF EvalRows, EvalStatuses
    <2> HIDE DEF new
    <2>4. Accounted(new)
        BY <1>4, <2>3 DEF Accounted
    <2> QED BY <1>2, <2>1, <2>4
<1>11. CASE FinalizeFailure(e)
    <2> DEFINE new == [erow[e] EXCEPT !.status = "failed"]
    <2>1. \E socks : PublishEval(e, new, socks)
        BY <1>11 DEF FinalizeFailure
    <2>2. /\ new \in EvalRows /\ new.calls = erow[e].calls /\ new.status = "failed"
          /\ new.spent = erow[e].spent
        BY <1>4 DEF EvalRows, EvalStatuses
    <2> HIDE DEF new
    <2>3. Accounted(new)
        BY <1>4, <2>2 DEF Accounted
    <2> QED BY <1>2, <2>1, <2>3
<1> QED BY <1>3, <1>5, <1>6, <1>8, <1>9, <1>10, <1>11

LEMMA AccountsStart == Init => AllAccounted
<1> SUFFICES ASSUME Init PROVE AllAccounted
    OBVIOUS
<1>1. EvalInv
    BY EvalInvStarts
<1>2. PICK n \in Evals, cap \in Caps :
        erow = [e \in Evals |->
                  IF e <= n THEN [NoEval EXCEPT !.status = "running", !.cap = cap]
                  ELSE NoEval]
    BY DEF Init, EvalInit
<1>3. \A e \in Evals : /\ erow[e].calls = << >> /\ erow[e].spent = 0
                       /\ erow[e].status \in {"absent", "running"}
    BY <1>2 DEF NoEval
<1>4. SumFunction(<< >>) = 0 /\ Len(<< >>) = 0
    <2>1. DOMAIN << >> = {} /\ Len(<< >>) = 0
        OBVIOUS
    <2> QED BY <2>1, SumOfNone DEF SumFunction
<1>5. \A e \in Evals : Accounted(erow[e])
    BY <1>1, <1>3, <1>4, RowFacts, Pairs DEF Accounted
<1>6. \A k \in Evals : evalCache[k].data = {}
    BY DEF Init, PageInit, EvalKeys, EmptyEntry, NoAnswer
<1> QED BY <1>5, <1>6 DEF AllAccounted

LEMMA AccountsStay == EvalInv /\ AllAccounted /\ [Next]_vars => AllAccounted'
<1> SUFFICES ASSUME EvalInv, AllAccounted, [Next]_vars PROVE AllAccounted'
    OBVIOUS
<1>1. CASE UNCHANGED <<erow, evalCache>>
    BY <1>1 DEF AllAccounted
<1>2. CASE Task
    <2>1. EvalTask /\ evalCache' = evalCache
        BY <1>2 DEF Task, pageVars
    <2> QED BY <2>1, TaskAccounts DEF AllAccounted
<1>3. ASSUME NEW j \in EvalKeys, FetchEval(j) PROVE AllAccounted'
    <2>1. /\ erow' = erow
          /\ evalCache' = [evalCache EXCEPT ![j] = Answered(Asked(@, EvalAnswer(j)))]
        BY <1>3 DEF FetchEval
    <2>2. ASSUME NEW k \in Evals, NEW d \in evalCache'[k].data PROVE Accounted(d)
        <3>1. CASE k # j
            <4>1. evalCache'[k] = evalCache[k]
                BY <2>1, <3>1 DEF EvalInv, Typed, PageTyped, EvalKeys
            <4> QED BY <2>2, <4>1 DEF AllAccounted
        <3>2. CASE k = j
            <4>1. /\ evalCache'[k] = Answered(Asked(evalCache[k], EvalAnswer(k)))
                  /\ IsEntry(evalCache[k])
                BY <2>1, <3>2 DEF EvalInv, Typed, PageTyped, EvalKeys
            <4>2. evalCache'[k].data = {EvalAnswer(k)}
                BY <4>1 DEF Answered, Asked, IsEntry
            <4>3. EvalAnswer(k) = erow[k]
                BY DEF EvalAnswer, ListKey, Evals
            <4> QED BY <2>2, <4>2, <4>3 DEF AllAccounted
        <3> QED BY <3>1, <3>2
    <2> QED BY <2>1, <2>2 DEF AllAccounted
<1>4. ASSUME NEW keys, NEW active, erow' = erow,
             evalCache' = InvalidatedAll(evalCache, keys, active)
      PROVE  AllAccounted'
    <2>1. ASSUME NEW k \in Evals PROVE evalCache'[k].data = evalCache[k].data
        <3>1. k \in DOMAIN evalCache /\ IsEntry(evalCache[k])
            BY DEF EvalInv, Typed, PageTyped, EvalKeys
        <3>2. evalCache'[k] = IF k \in keys THEN Invalidated(evalCache[k], k \in active)
                              ELSE evalCache[k]
            BY <1>4, <3>1 DEF InvalidatedAll
        <3>3. Invalidated(evalCache[k], k \in active).data = evalCache[k].data
            BY <3>1 DEF Invalidated, IsEntry
        <3> QED BY <3>2, <3>3
    <2> QED BY <1>4, <2>1 DEF AllAccounted
<1>5. ASSUME NEW s \in Sockets, Deliver(s) PROVE AllAccounted'
    <2>1. /\ erow' = erow
          /\ \/ evalCache' = evalCache
             \/ \E keys, active : evalCache' = InvalidatedAll(evalCache, keys, active)
        BY <1>5 DEF Deliver
    <2> QED BY <1>1, <1>4, <2>1
<1>6. ASSUME NEW c \in calls, HandleCreate(c) \/ RespondCreate(c) PROVE AllAccounted'
    <2>1. c.answer # "ok"
        BY DEF EvalInv, Typed, PageTyped, Requests
    <2>2. UNCHANGED <<erow, evalCache>>
        BY <1>6, <2>1, TriggerRefused DEF HandleCreate, RespondCreate
    <2> QED BY <1>1, <2>2
<1>7. CASE Browse
    <2>1. (\E k \in EvalKeys : FetchEval(k)) \/ UNCHANGED <<erow, evalCache>>
        BY <1>7 DEF Browse, OpenEvalPage, OpenRunsPage, CloseCase, EditForm,
                    SetActiveProject, HandleSelectEvalRun, SelectCase
    <2> QED BY <1>1, <1>3, <2>1
<1>8. CASE Trigger
    <2>1. HandleTriggerEval \/ \E c \in calls : HandleCreate(c) \/ RespondCreate(c)
        BY <1>8 DEF Trigger
    <2>2. HandleTriggerEval => UNCHANGED <<erow, evalCache>>
        BY DEF HandleTriggerEval
    <2> QED BY <1>1, <1>6, <2>1, <2>2
<1>9. CASE Network \/ UNCHANGED vars
    <2>1. UNCHANGED <<erow, evalCache>>
        BY <1>9 DEF Network, pageVars, vars
    <2> QED BY <1>1, <2>1
<1> QED BY <1>2, <1>5, <1>7, <1>8, <1>9 DEF Next

\* the costs in the rows of the case table add up to the total in the header of a
\* completed run, however many cases, rubric versions and failed calls it has
\* (services/eval_runner.py, components/eval/eval-case-table.tsx)
THEOREM CostsAddUp == Spec => []RowsAddUp
<1>1. EvalInv /\ AllAccounted => RowsAddUp
    <2> SUFFICES ASSUME EvalInv, AllAccounted, NEW d \in Detail, d.status = "completed"
                 PROVE  d.total = SumFunctionOnSet([c \in 1 .. NCases |-> CaseCost(d, c)],
                                                   DetailCases(d))
        BY DEF RowsAddUp
    <2>1. evalSel \in 0 .. NEvals
        BY DEF EvalInv, Typed, PageTyped
    <2>2. evalSel \in Evals /\ d \in evalCache[evalSel].data
        <3>1. evalSel # 0
            BY DEF Detail, NoAnswer
        <3> QED BY <2>1, <3>1 DEF Detail, Evals, EvalAssumption
    <2>3. Accounted(d)
        BY <2>2 DEF AllAccounted
    <2> QED BY <2>3, CasesAddUp
<1>2. Init => EvalInv /\ AllAccounted
    BY EvalInvStarts, AccountsStart
<1>3. EvalInv /\ AllAccounted /\ [Next]_vars => EvalInv' /\ AllAccounted'
    BY EvalInvStays, AccountsStay
<1> QED BY <1>1, <1>2, <1>3, PTL DEF Spec
=============================================================================
