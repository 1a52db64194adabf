------------------------------ MODULE EvalRunner ------------------------------
(***************************************************************************)
(* The evaluation runs of services/eval_runner.py: a detached task judges  *)
(* every pair of a case and a rubric version in turn, adds up what the     *)
(* judge charged, warns once near the ceiling and stops at it, and         *)
(* publishes each outcome to the sockets of the run's project (Home).      *)
(* A pair's judge call, its row and its event are one step, as nothing     *)
(* else writes the rows of an evaluation run.                              *)
(*                                                                         *)
(* Left out: verdicts and the pass rate, which decide nothing.             *)
(***************************************************************************)
EXTENDS RunSocket, SequencesExt

CONSTANTS
    NEvals,     \* bound: evaluation runs 1..NEvals
    NCases,     \* cases of a run
    NRubrics,   \* rubric versions of a run
    PairCosts,  \* what a judge call may charge
    Caps,       \* max_cost_usd of the runs; NoCap: none
    NoCap,      \* above every cost
    Home        \* the project of the runs

ASSUME EvalAssumption ==
    /\ NEvals \in Nat \ {0} /\ NCases \in Nat \ {0} /\ NRubrics \in Nat \ {0}
    /\ PairCosts \subseteq Nat /\ IsFiniteSet(PairCosts)
    /\ NoCap \in Nat /\ Caps \subseteq (1 .. NoCap)
    /\ Home \in Projects

VARIABLE erow   \* per evaluation run: its row and its calls

Evals == 1 .. NEvals
NPairs == NCases * NRubrics
EvalStatuses == {"pending", "running", "completed", "failed", "cost_capped"}
EvalEnded == {"completed", "failed", "cost_capped"}

\* calls: what each call charged, 0 for a judge that failed; spent, warned: the
\* task's cursor (_EvaluationCursor); total: the row's cost, which is written at
\* the end only
NoEval == [status |-> "absent", calls |-> << >>, spent |-> 0, total |-> 0,
           cap |-> NoCap, warned |-> FALSE]

\* when the tab is opened, some runs are under way
EvalInit ==
    \E n \in Evals, cap \in Caps :
        erow = [e \in Evals |->
                  IF e <= n THEN [NoEval EXCEPT !.status = "running", !.cap = cap]
                  ELSE NoEval]

\* the cases are the outer loop
CaseOf(k) == ((k - 1) \div NRubrics) + 1

\* _publish: the envelope's runId is the evaluation run
EvalEvent(event, e, k) ==
    [channel |-> "eval", event |-> event, about |-> e, n |-> k]

Routing(socks, event) == Published(socks, Home, event)

\* a run's row and cursor change, and the sockets are those with its events
PublishEval(e, new, socks) ==
    /\ erow' = [erow EXCEPT ![e] = new]
    /\ sock' = socks
    /\ UNCHANGED <<socket, wsProject, wsChannels, reconnects>>

\* _is_cost_cap_breached
CapBreached(r) == r.cap # NoCap /\ r.spent >= r.cap

\* _maybe_emit_cost_warning: at eight tenths of the ceiling, once
WarningDue(r) == r.cap # NoCap /\ ~r.warned /\ 10 * r.spent >= 8 * r.cap

\* a client of the REST route creates the row and the task
CreateEval(e, cap) ==
    /\ Step
    /\ erow[e].status = "absent"
    /\ \A d \in 1 .. e - 1 : erow[d].status # "absent"
    /\ PublishEval(e, [NoEval EXCEPT !.status = "pending", !.cap = cap], sock)

\* _mark_running, _materialise_cases
StartEval(e) ==
    /\ erow[e].status = "pending"
    /\ PublishEval(e, [erow[e] EXCEPT !.status = "running"], sock)
    /\ UNCHANGED steps

\* mutant of PairLeft: the ceiling stops nothing
PairLeftUncapped(r) == r.status = "running" /\ Len(r.calls) < NPairs

\* the loops of _run_pairs go on to the next pair
PairLeft(r) ==
    /\ r.status = "running"
    /\ Len(r.calls) < NPairs
    /\ ~CapBreached(r)

\* _record_pair_success
PairJudged(e, charged) ==
    LET r == [erow[e] EXCEPT !.calls = Append(@, charged), !.spent = @ + charged]
        done == Routing(sock, EvalEvent("case_completed", e, Len(r.calls)))
        warned == Routing(done, EvalEvent("cost_warning", e, r.spent))
    IN  /\ Step
        /\ PairLeft(erow[e])
        /\ PublishEval(e, [r EXCEPT !.warned = @ \/ WarningDue(r)],
                       IF WarningDue(r) THEN warned ELSE done)

\* _handle_judge_failure: an error call, and an event no page parses
PairFailed(e) ==
    LET r == [erow[e] EXCEPT !.calls = Append(@, 0)]
    IN  /\ Step
        /\ PairLeft(erow[e])
        /\ PublishEval(e, r, Routing(sock, EvalEvent("case_failed", e, Len(r.calls))))

\* mutant of FinalizeSuccess: a status of its own for a capped run
FinalizeCancelled(e) ==
    LET r == erow[e]
        status == IF CapBreached(r) THEN "cancelled" ELSE "completed"
    IN  /\ r.status = "running" /\ ~PairLeft(r)
        /\ PublishEval(e, [r EXCEPT !.status = status, !.total = r.spent],
                       Routing(sock, EvalEvent("run_completed", e, 0)))
        /\ UNCHANGED steps

\* _finalize_success
FinalizeSuccess(e) ==
    LET r == erow[e]
        status == IF CapBreached(r) THEN "cost_capped" ELSE "completed"
    IN  /\ r.status = "running" /\ ~PairLeft(r)
        /\ PublishEval(e, [r EXCEPT !.status = status, !.total = r.spent],
                       Routing(sock, EvalEvent("run_completed", e, 0)))
        /\ UNCHANGED steps

\* _finalize_failure: an exception at any point of the task
FinalizeFailure(e) ==
    /\ Step
    /\ erow[e].status \in {"pending", "running"}
    /\ PublishEval(e, [erow[e] EXCEPT !.status = "failed"],
                   Routing(sock, EvalEvent("run_completed", e, 0)))

EvalTask ==
    \E e \in Evals :
        \/ \E cap \in Caps : CreateEval(e, cap)
        \/ StartEval(e)
        \/ \E charged \in PairCosts : PairJudged(e, charged)
        \/ PairFailed(e) \/ FinalizeSuccess(e) \/ FinalizeFailure(e)

(***************************************************************************)
(* POST /eval/runs, schemas/eval.py EvalRunCreate: the fields it requires, *)
(* and extra fields are forbidden.                                         *)
(***************************************************************************)
RequiredFields == {"project_id", "rubric_version_ids"}
AllowedFields == RequiredFields \cup {"training_run_id", "max_cost_usd"}

CreateAccepted(fields, versions, cost) ==
    /\ RequiredFields \subseteq fields
    /\ fields \subseteq AllowedFields
    /\ versions # {}
    /\ cost > 0

EvalRows == [status : EvalStatuses \cup {"absent"},
             calls : Seq({0} \cup PairCosts), spent : Nat, total : Nat,
             cap : 1 .. NoCap, warned : BOOLEAN]

EvalType == erow \in [Evals -> EvalRows]
=============================================================================
