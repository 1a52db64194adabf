-------------------------------- MODULE Tables --------------------------------
(***************************************************************************)
(* The lists of rows that the pages show and change: merged models, the    *)
(* registry, artifacts, projects, suggestions and so on.  Every hook of    *)
(* hooks/*.ts has the same shape: a query over a list, and mutations that  *)
(* add or remove a row and then invalidate the lists they touch.  A row is *)
(* its number; what else it holds the pages only draw.                     *)
(***************************************************************************)
EXTENDS Workbench, FiniteSetsExt

CONSTANT MaxRows   \* bound: rows a list ever has

ASSUME TableAssumption == MaxRows \in Nat /\ MaxRows >= 2

VARIABLES
    tables,  \* the rows the server has of each list
    lists,   \* the query cache of each list
    calls,   \* mutations that are not answered yet
    told     \* history: what an answer told the page, a row is made or gone,
             \* and the server did not change since

tableVars == <<tables, lists, calls, told>>

Rows == 1 .. MaxRows
Tabled == {"registry", "merged", "artifacts", "projects", "pending", "messages",
           "unread"}

\* the rows of a list at the start: one of each that has any
FirstRows == [t \in Tabled |-> CASE t = "artifacts" -> Rows
                                 [] t \in {"projects", "pending", "unread"} -> {1, 2}
                                 [] OTHER -> {}]

\* what a mutation adds a row to, and what it removes one from
AddsTo == [register |-> "registry", merge |-> "merged", generate |-> "pending",
           send |-> "messages", create |-> "projects"]
RemovesFrom == [unmerge |-> "merged", reject |-> "pending", erase |-> "artifacts",
                remove |-> "projects", markRead |-> "unread"]
Kinds == DOMAIN AddsTo \cup DOMAIN RemovesFrom \cup {"cleanup", "rules"}

Missing(t) == Rows \ tables[t]

\* a mutation of the page: it needs no project that is not there
Send(kind, row) ==
    /\ Step
    /\ calls' = calls \cup {[kind |-> kind, row |-> row, watched |-> TRUE,
                             phase |-> "sent"]}
    /\ UNCHANGED <<tables, lists, told>>

\* isPending of the hook the kind belongs to
Busy(kind) == \E c \in calls : c.watched /\ c.kind = kind

\* the server adds the first row that is free, or removes the one it is told;
\* a row that is not there is a 404, but any suggestion can be
\* rejected, and any notification read
CallHandled(c) ==
    LET done(row) == calls' = Replaced(calls, c, [c EXCEPT !.phase = "ok", !.row = row])
        set(t, row, rows) ==
            /\ tables' = [tables EXCEPT ![t] = rows]
            /\ told' = {n \in told : n[1] # t \/ n[3] # row}
            /\ done(row)
    IN  /\ c.phase = "sent" /\ c.kind \notin {"cleanup", "rules"}
        /\ \/ /\ c.kind \in DOMAIN AddsTo /\ Missing(AddsTo[c.kind]) # {}
              /\ LET t == AddsTo[c.kind]
                     row == Min(Missing(t))
                 IN  set(t, row, tables[t] \cup {row})
           \/ /\ c.kind \in DOMAIN RemovesFrom
              /\ LET t == RemovesFrom[c.kind]
                 IN  /\ c.row \in tables[t] \/ c.kind \in {"reject", "markRead"}
                     /\ set(t, c.row, tables[t] \ {c.row})
           \/ /\ calls' = Replaced(calls, c, [c EXCEPT !.phase = "failed"])
              /\ UNCHANGED <<tables, told>>
        /\ UNCHANGED lists

\* mutant of Touched: a removal leaves the list it removed from
TouchedByAdding(kind) == IF kind \in DOMAIN AddsTo THEN {AddsTo[kind]} ELSE {}

\* the lists a hook's onSuccess invalidates
Touched(kind) ==
    IF kind \in DOMAIN AddsTo THEN {AddsTo[kind]}
    ELSE IF kind \in DOMAIN RemovesFrom THEN {RemovesFrom[kind]}
    ELSE IF kind = "cleanup" THEN {"artifacts"} ELSE {}

\* what the answer of a call that worked says, if it still is the case, on a
\* page that shows the list
Told(c, shown) ==
    {n \in shown \X BOOLEAN \X {c.row} :
        /\ lists[n[1]].data # NoAnswer
        /\ n[2] = (c.row \in tables[n[1]])
        /\ \/ n[2] /\ c.kind \in DOMAIN AddsTo /\ AddsTo[c.kind] = n[1]
           \/ ~n[2] /\ c.kind \in DOMAIN RemovesFrom /\ RemovesFrom[c.kind] = n[1]}

CallAnswered(c, shown) ==
    /\ c.phase \in {"ok", "failed"}
    /\ calls' = calls \ {c}
    /\ IF c.phase = "failed" THEN UNCHANGED <<lists, told>>
       ELSE /\ lists' = InvalidatedAll(lists, Touched(c.kind), shown)
            /\ told' = told \cup Told(c, shown)
    /\ UNCHANGED tables

\* the query of a list a page shows
FetchList(t) ==
    /\ lists[t].flight = NoAnswer
    /\ IF lists[t].data = NoAnswer \/ lists[t].stale THEN UNCHANGED steps ELSE Step
    /\ lists' = [lists EXCEPT ![t] = Asked(@, tables[t])]
    /\ UNCHANGED <<tables, calls, told>>

ListAnswered(t) ==
    /\ lists[t].flight # NoAnswer
    /\ lists' = [lists EXCEPT ![t] = Answered(@)]
    /\ UNCHANGED <<tables, calls, told, steps>>

\* const { data = [] } = useQuery(...)
Listed(t) == DataOr(lists[t], {})

TableInit ==
    /\ tables = FirstRows /\ calls = {} /\ told = {}
    /\ lists = [t \in Tabled |-> EmptyEntry]

TableType ==
    /\ tables \in [Tabled -> SUBSET Rows]
    /\ \A t \in Tabled : \A v \in lists[t].data \cup lists[t].flight : v \subseteq Rows
    /\ \A c \in calls : c.kind \in Kinds /\ c.phase \in Phases /\ c.row \in 0 .. MaxRows
    /\ \A n \in told : n[1] \in Tabled /\ n[3] \in Rows
=============================================================================
