---------------------------- MODULE RunsViewProofs ----------------------------
(***************************************************************************)
(* The pages that follow runs, proved for any number of runs, training     *)
(* steps, GPUs, sockets and bounded steps.                                 *)
(*                                                                         *)
(* The argument: an event that waits in a queue says what is true of its   *)
(* run (EventsOK) and stays true until the run is deleted (Onward).  So    *)
(* the store and the charts show what was recorded; and an answer that was *)
(* asked for after the page was told of an end or a retention has it in    *)
(* it, even one that is still on its way (ToldOK), because an event marks  *)
(* the older answer and drops the older request in one step.               *)
(***************************************************************************)
EXTENDS RunsView, SocketProofs, DataInduction

USE SocketAssumption, ServerAssumption, StreamAssumption

-----------------------------------------------------------------------------
(* Sets in ascending order. *)

\* f lists a set S of n numbers in ascending order
Lists(f, n, S) == /\ f \in [1 .. n -> S]
                  /\ \A i, j \in 1 .. n : i < j => f[i] < f[j]

\* every finite set of numbers can be listed: the least one comes first
LEMMA ListExists ==
    ASSUME NEW S \in SUBSET Nat, IsFiniteSet(S)
    PROVE  Cardinality(S) \in Nat /\ \E f : Lists(f, Cardinality(S), S)
<1> DEFINE W == {n \in Nat : \A T \in SUBSET Nat :
                    IsFiniteSet(T) /\ Cardinality(T) = n => \E f : Lists(f, n, T)}
<1>1. 0 \in W
    <2> SUFFICES ASSUME NEW T \in SUBSET Nat PROVE \E f : Lists(f, 0, T)
        OBVIOUS
    <2>1. Lists([i \in 1 .. 0 |-> 0], 0, T)
        BY DEF Lists
    <2> QED BY <2>1
<1>2. ASSUME NEW n \in Nat, n \in W PROVE n + 1 \in W
    <2> SUFFICES ASSUME NEW T \in SUBSET Nat, IsFiniteSet(T), Cardinality(T) = n + 1
                 PROVE  \E f : Lists(f, n + 1, T)
        OBVIOUS
    <2>1. T # {}
        BY FS_EmptySet
    <2>2. PICK x \in T : \A y \in T : x <= y
        BY <2>1, LeastElement
    <2> DEFINE U == T \ {x}
    <2>3. IsFiniteSet(U) /\ Cardinality(U) = n
        <3> HIDE DEF W
        <3>1. IsFiniteSet(T \ {x}) /\ Cardinality(T \ {x}) = Cardinality(T) - 1
            BY FS_RemoveElement
        <3> QED BY <3>1
    <2>4. U \in SUBSET Nat
        OBVIOUS
    <2>5. PICK g : Lists(g, n, U)
        BY <1>2, <2>3, <2>4
    <2> HIDE DEF U
    <2> DEFINE f == [i \in 1 .. n + 1 |-> IF i = 1 THEN x ELSE g[i - 1]]
    <2>6. \A i \in 1 .. n + 1 : i # 1 => i - 1 \in 1 .. n
        OBVIOUS
    <2>7. \A i \in 1 .. n : g[i] \in U
        BY <2>5 DEF Lists
    <2>8. f \in [1 .. n + 1 -> T]
        <3>1. \A i \in 1 .. n + 1 : (IF i = 1 THEN x ELSE g[i - 1]) \in T
            BY <2>6, <2>7 DEF U
        <3> QED BY <3>1
    <2>9. \A i, j \in 1 .. n + 1 : i < j => f[i] < f[j]
        <3> SUFFICES ASSUME NEW i \in 1 .. n + 1, NEW j \in 1 .. n + 1, i < j
                     PROVE  f[i] < f[j]
            OBVIOUS
        <3>1. j # 1 /\ j - 1 \in 1 .. n /\ f[j] = g[j - 1] /\ g[j - 1] \in U
            BY <2>6, <2>7
        <3>2. CASE i = 1
            <4>1. f[i] = x /\ g[j - 1] \in T /\ g[j - 1] # x /\ x \in Nat
                  /\ g[j - 1] \in Nat
                BY <3>1, <3>2 DEF U
            <4> QED BY <2>2, <3>1, <4>1
        <3>3. CASE i # 1
            <4>1. i - 1 \in 1 .. n /\ f[i] = g[i - 1] /\ i - 1 < j - 1
                BY <2>6, <3>3
            <4> QED BY <2>5, <3>1, <4>1 DEF Lists
        <3> QED BY <3>2, <3>3
    <2> QED BY <2>8, <2>9 DEF Lists
<1>3. Nat \subseteq W
    <2> HIDE DEF W
    <2> QED BY <1>1, <1>2, SetInduction
<1>4. Cardinality(S) \in Nat
    BY FS_CardinalityType
<1> QED BY <1>3, <1>4

\* what Ascending gives for the sets the charts sort
LEMMA AscendingLists ==
    ASSUME NEW S \in SUBSET Nat, IsFiniteSet(S)
    PROVE  /\ Cardinality(S) \in Nat
           /\ Ascending(S) \in [1 .. Cardinality(S) -> S]
           /\ \A i, j \in 1 .. Cardinality(S) : Ascending(S)[i] = Ascending(S)[j] => i = j
<1>1. Cardinality(S) \in Nat /\ \E f : Lists(f, Cardinality(S), S)
    BY ListExists
<1> DEFINE n == Cardinality(S)
<1>2. Ascending(S) \in [1 .. n -> S]
      /\ \A i, j \in 1 .. n : i < j => Ascending(S)[i] < Ascending(S)[j]
    BY <1>1 DEF Lists, Ascending
<1> HIDE DEF n
<1>3. \A i, j \in 1 .. n : Ascending(S)[i] = Ascending(S)[j] => i = j
    <2> SUFFICES ASSUME NEW i \in 1 .. n, NEW j \in 1 .. n, i # j
                 PROVE  Ascending(S)[i] # Ascending(S)[j]
        OBVIOUS
    <2>1. n \in Nat /\ Ascending(S)[i] \in Nat /\ Ascending(S)[j] \in Nat
        BY <1>1, <1>2 DEF n
    <2>2. i < j \/ j < i
        BY <2>1
    <2> QED BY <1>2, <2>1, <2>2
<1> QED BY <1>1, <1>2, <1>3 DEF n

-----------------------------------------------------------------------------
(* The inductive invariant: the server's side. *)

\* nothing of the run can change its end
Final(rw) == rw.status = "deleted" \/ (rw.status \in Terminal /\ ~rw.alive)

\* a run whose GPU ran out has no trainer until someone decides
RowOK(rw) ==
    /\ rw.status = "absent" => rw = Absent
    /\ rw.status = "fallback_pending" => ~rw.alive

RowsOK == \A r \in Runs : RowOK(row[r])

\* an event says what is true of its run
TrueOf(e, rows) ==
    LET rw == rows[e.about]
    IN  /\ e.about \in Runs
        /\ e.event \in {"metric_recorded", "progress_update", "checkpoint_saved",
                        "retention_applied"} => e.n \in Steps
        /\ e.event = "metric_recorded" => rw.status = "deleted" \/ e.n \in rw.metrics
        /\ e.event \in {"checkpoint_saved", "retention_applied"} =>
                rw.status = "deleted" \/ e.n \in rw.kept \cup rw.pruned
        /\ e.event \in EndingEvents => Final(rw)
        /\ e.event = "fallback_proposed" => e.n \in 1 .. NGpus /\ ProposedGpus(e.n) # {}

EventsOK == \A e \in Queued(sock) : TrueOf(e, row)

ServerOK == SocketOK /\ ServerType /\ RowsOK /\ EventsOK

(* The page's side. *)

CallKinds == {"save", "create", "delete", "cancel", "pause", "resume", "accept", "decline"}

Requests == [kind : CallKinds, project : Projects, run : 0 .. NRuns,
             gpu : 0 .. NGpus, bound : BOOLEAN, selected : 0 .. NRuns, id : Nat,
             answer : {"none", "ok", "refused"}, new : 0 .. NRuns]

RequestOK(c) ==
    /\ c \in Requests
    /\ c.kind \notin {"save", "create"} => c.run \in Runs
    /\ c.kind = "accept" => c.gpu \in 1 .. NGpus

\* a project is always active once the tab was opened on one
ViewTyped ==
    /\ activeProject \in Projects /\ page \in Pages /\ selected \in 0 .. NRuns
    /\ resumeOpen \in BOOLEAN /\ gpuChoice \in 0 .. NGpus
    /\ told \in [Runs -> SUBSET (0 .. NSteps)]
    /\ StreamType
    /\ \A k \in Keys : IsEntry(cache[k])
    /\ \A c \in calls : RequestOK(c)

\* live metrics and checkpoints are of their run and were recorded
StoreOK ==
    /\ OwnEventsOnly
    /\ \A r \in Runs : \A i \in DOMAIN store[r].metrics :
            row[r].status = "deleted" \/ store[r].metrics[i].step \in row[r].metrics
    /\ \A r \in Runs : \A i \in DOMAIN store[r].ckpts :
            \/ row[r].status = "deleted"
            \/ store[r].ckpts[i].step \in row[r].kept \cup row[r].pruned

\* what an answer may say of the metrics and the checkpoints of a run
TrueMetrics(v, rw) ==
    v \in SUBSET Steps /\ (rw.status = "deleted" \/ v \subseteq rw.metrics)

TrueCheckpoints(v, rw) ==
    rw.status = "deleted" \/ v.kept \cup v.pruned \subseteq rw.kept \cup rw.pruned

\* every answer says it, whether it is taken or on its way
AnswersOK ==
    \A r \in Runs :
        /\ \A v \in cache[<<"metrics", r>>].data \cup cache[<<"metrics", r>>].flight :
                TrueMetrics(v, row[r])
        /\ \A v \in cache[<<"checkpoints", r>>].data \cup cache[<<"checkpoints", r>>].flight :
                TrueCheckpoints(v, row[r])

\* what the page was told is true
ToldOK ==
    \A r \in Runs : \A k \in told[r] :
        /\ k # Ended => row[r].status = "deleted" \/ k \in row[r].kept \cup row[r].pruned
        /\ k = Ended => Final(row[r])

\* and is in every answer that is still on its way
FlightsOK ==
    \A r \in Runs :
        /\ \A k \in told[r] \ {Ended} : \A v \in cache[<<"checkpoints", r>>].flight :
                k \in v.kept \cup v.pruned \/ row[r].status = "deleted"
        /\ Ended \in told[r] =>
                \A v \in cache[ListKey].flight : v[r] \in Terminal \cup NoRow

CacheOK == AnswersOK /\ ToldOK /\ FlightsOK /\ EventsInvalidate

\* only the runs page selects, opens dialogs and keeps its callbacks
ChoiceOK ==
    /\ \A r \in Runs : proposals[r] # 0 => ProposedGpus(proposals[r]) # {}
    /\ GpuChosenIsCandidate
    /\ page = "dashboard" => selected = 0
    /\ resumeOpen => page = "runs"
    /\ \A c \in calls : c.bound => page = "runs"

ViewOK == ViewTyped /\ StoreOK /\ CacheOK /\ ChoiceOK

RunsInv == ServerOK /\ ViewOK

-----------------------------------------------------------------------------
(* What a step of the server does to a run. *)

\* what was recorded stays until the run is deleted, and an end is final
Grown(old, new) ==
    /\ old.status = "deleted" => new.status = "deleted"
    /\ \/ new.status = "deleted"
       \/ /\ old.metrics \subseteq new.metrics
          /\ old.kept \cup old.pruned \subseteq new.kept \cup new.pruned
    /\ Final(old) => Final(new)

Onward == \A r \in Runs : Grown(row[r], row'[r])

LEMMA SameIsGrown == \A rw : Grown(rw, rw)
BY DEF Grown

LEMMA TruthLasts ==
    ASSUME Onward, NEW e, TrueOf(e, row) PROVE TrueOf(e, row')
<1>1. e.about \in Runs /\ Grown(row[e.about], row'[e.about])
    BY DEF TrueOf, Onward
<1> QED BY <1>1 DEF TrueOf, Grown

\* rows and queues of a step of the server
ServerKeeps == ServerOK' /\ Onward

\* one row changes, and some events are published
LEMMA ServerLeaves ==
    ASSUME ServerOK, NEW r \in Runs, NEW new \in Rows, RowOK(new), Grown(row[r], new),
           row' = [row EXCEPT ![r] = new],
           sock' \in [Sockets -> Connections],
           \A e \in Queued(sock') : e \in Queued(sock) \/ TrueOf(e, row'),
           UNCHANGED <<socket, wsProject, wsChannels, reconnects>>, Counted
    PROVE  ServerKeeps
<1>1. SocketOK'
    BY PublishKeeps DEF ServerOK
<1>2. row'[r] = new /\ (\A q \in Runs \ {r} : row'[q] = row[q]) /\ ServerType'
    BY DEF ServerOK, ServerType
<1>3. RowsOK'
    BY <1>2 DEF ServerOK, RowsOK
<1>4. Onward
    BY <1>2, SameIsGrown DEF Onward
<1>5. EventsOK'
    BY <1>4, TruthLasts DEF ServerOK, EventsOK
<1> QED BY <1>1, <1>2, <1>3, <1>4, <1>5 DEF ServerKeeps, ServerOK

LEMMA ServerStays ==
    ASSUME ServerOK, Kept, UNCHANGED row PROVE ServerOK'
BY DEF ServerOK, Kept, ServerType, RowsOK, EventsOK

LEMMA RowFacts ==
    ASSUME ServerOK, NEW r \in Runs
    PROVE  /\ row[r] \in Rows /\ RowOK(row[r]) /\ SocketOK
           /\ sock \in [Sockets -> Connections]
BY DEF ServerOK, ServerType, RowsOK, SocketOK, SocketType

LEMMA EventFits ==
    ASSUME NEW channel \in {"run_state", "metrics", "logs", "system"},
           NEW kind \in EventNames, NEW r \in Runs, NEW n \in Nat
    PROVE  /\ Event(channel, kind, r, n) \in Events
           /\ Event(channel, kind, r, n).about = r
           /\ Event(channel, kind, r, n).event = kind
           /\ Event(channel, kind, r, n).n = n
BY DEF Event, Events, StreamAssumption, Runs

\* a trainer event: one event or two, each true of the row it leaves
LEMMA EmitKeeps ==
    ASSUME ServerOK, NEW r \in Runs, NEW new \in Rows, NEW events,
           Emit(r, new, events), RowOK(new), Grown(row[r], new) \/ row[r].status = "deleted",
           Len(events) \in {1, 2},
           \A i \in 1 .. Len(events) : events[i] \in Events /\ TrueOf(events[i], row')
    PROVE  ServerKeeps
<1> DEFINE old == row[r]
           left == IF old.status = "deleted" THEN [old EXCEPT !.alive = new.alive] ELSE new
<1>1. left \in Rows /\ RowOK(left) /\ Grown(old, left)
    <2>1. CASE old.status = "deleted"
        <3>1. /\ left \in Rows /\ left.status = "deleted"
            BY <2>1, RowFacts DEF Rows
        <3> HIDE DEF left
        <3> QED BY <2>1, <3>1 DEF RowOK, Grown, Final
    <2>2. CASE old.status # "deleted"
        BY <2>2
    <2> QED BY <2>1, <2>2
<1>2. row' = [row EXCEPT ![r] = left]
    BY DEF Emit
<1>3. sock' \in [Sockets -> Connections]
      /\ \A e \in Queued(sock') : e \in Queued(sock) \/ TrueOf(e, row')
    <2>1. sock \in [Sockets -> Connections]
        BY RowFacts
    <2>2. CASE Len(events) = 1
        <3>1. sock' = Published(sock, Home, events[1]) /\ events[1] \in Events
              /\ TrueOf(events[1], row')
            BY <2>2 DEF Emit
        <3> QED BY <2>1, <3>1, PublishedOnce
    <2>3. CASE Len(events) = 2
        <3> DEFINE first == Published(sock, Home, events[1])
        <3>1. /\ sock' = Published(first, Home, events[2])
              /\ events[1] \in Events /\ TrueOf(events[1], row')
              /\ events[2] \in Events /\ TrueOf(events[2], row')
            BY <2>3 DEF Emit
        <3>2. first \in [Sockets -> Connections] /\ Queued(first) \subseteq Queued(sock) \cup {events[1]}
            BY <2>1, <3>1, PublishedOnce
        <3> HIDE DEF first
        <3> QED BY <3>1, <3>2, PublishedOnce
    <2> QED BY <2>2, <2>3
<1>4. Counted /\ UNCHANGED <<socket, wsProject, wsChannels, reconnects>>
    BY RowFacts, StepCounts DEF Emit
<1> HIDE DEF left
<1> QED BY <1>1, <1>2, <1>3, <1>4, ServerLeaves

\* an event that is alone
LEMMA EmitOneKeeps ==
    ASSUME ServerOK, NEW r \in Runs, NEW new \in Rows, NEW e \in Events,
           Emit(r, new, <<e>>), RowOK(new),
           Grown(row[r], new) \/ row[r].status = "deleted", TrueOf(e, row')
    PROVE  ServerKeeps
<1> DEFINE events == <<e>>
<1>1. Len(events) = 1 /\ events[1] = e
    OBVIOUS
<1>2. Len(events) \in {1, 2}
    BY <1>1
<1>3. \A i \in 1 .. Len(events) : events[i] \in Events /\ TrueOf(events[i], row')
    BY <1>1
<1>4. Emit(r, new, events)
    OBVIOUS
<1> HIDE DEF events
<1> QED BY <1>2, <1>3, <1>4, EmitKeeps

\* the row that a trainer event leaves
LEMMA EmittedRow ==
    ASSUME ServerOK, NEW r \in Runs, NEW new, NEW events, Emit(r, new, events)
    PROVE  /\ row[r].alive
           /\ row'[r].status = "deleted" \/ row'[r] = new
<1>1. row[r] \in Rows /\ row \in [Runs -> Rows]
    BY DEF ServerOK, ServerType
<1>2. CASE row[r].status = "deleted"
    <2>1. row'[r] = [row[r] EXCEPT !.alive = new.alive]
        BY <1>1, <1>2 DEF Emit
    <2> QED BY <1>1, <1>2, <2>1 DEF Emit, Rows
<1>3. CASE row[r].status # "deleted"
    BY <1>1, <1>3 DEF Emit
<1> QED BY <1>2, <1>3

LEMMA NamesAreNames ==
    /\ "metric_recorded" \in EventNames /\ "progress_update" \in EventNames
    /\ "checkpoint_saved" \in EventNames /\ "retention_applied" \in EventNames
    /\ "run_completed" \in EventNames /\ "run_failed" \in EventNames
    /\ "run_cancelled" \in EventNames /\ "fallback_proposed" \in EventNames
BY DEF EventNames

LEMMA MetricRecordedKeeps ==
    ASSUME ServerOK, NEW r \in Runs, NEW k \in Steps, MetricRecorded(r, k)
    PROVE  ServerKeeps
<1> DEFINE new == [row[r] EXCEPT !.metrics = @ \cup {k}]
           e == Event("metrics", "metric_recorded", r, k)
<1>1. Emit(r, new, <<e>>)
    BY DEF MetricRecorded
<1>2. /\ new \in Rows /\ new.metrics = row[r].metrics \cup {k}
      /\ new.status = row[r].status /\ new.alive = row[r].alive
      /\ new.kept = row[r].kept /\ new.pruned = row[r].pruned
    BY RowFacts DEF Rows
<1>3. e \in Events /\ e.about = r /\ e.event = "metric_recorded" /\ e.n = k
    BY EventFits, NamesAreNames DEF Steps
<1> HIDE DEF new, e
<1>4. row[r].alive /\ (row'[r].status = "deleted" \/ row'[r] = new)
    BY <1>1, EmittedRow
<1>5. RowOK(new)
    <2>1. row[r].status # "absent"
        BY <1>4, RowFacts DEF RowOK, Absent
    <2> QED BY <1>2, <2>1, RowFacts DEF RowOK
<1>6. Grown(row[r], new)
    BY <1>2 DEF Grown, Final
<1>7. TrueOf(e, row')
    BY <1>2, <1>3, <1>4 DEF TrueOf, EndingEvents
<1> QED BY <1>1, <1>2, <1>3, <1>5, <1>6, <1>7, EmitOneKeeps

LEMMA ProgressUpdateKeeps ==
    ASSUME ServerOK, NEW r \in Runs, NEW k \in Steps, ProgressUpdate(r, k)
    PROVE  ServerKeeps
<1> DEFINE new == [row[r] EXCEPT !.status = "running"]
           e == Event("run_state", "progress_update", r, k)
<1>1. Emit(r, new, <<e>>)
    BY DEF ProgressUpdate
<1>2. /\ new \in Rows /\ new.metrics = row[r].metrics
      /\ new.status = "running" /\ new.alive = row[r].alive
      /\ new.kept = row[r].kept /\ new.pruned = row[r].pruned
    BY RowFacts DEF Rows, RunStatuses
<1>3. e \in Events /\ e.about = r /\ e.event = "progress_update" /\ e.n = k
    BY EventFits, NamesAreNames DEF Steps
<1> HIDE DEF new, e
<1>4. row[r].alive /\ (row'[r].status = "deleted" \/ row'[r] = new)
    BY <1>1, EmittedRow
<1>5. RowOK(new)
    BY <1>2 DEF RowOK
<1>6. Grown(row[r], new) \/ row[r].status = "deleted"
    BY <1>2, <1>4 DEF Grown, Final
<1>7. TrueOf(e, row')
    BY <1>3 DEF TrueOf, EndingEvents
<1> QED BY <1>1, <1>2, <1>3, <1>5, <1>6, <1>7, EmitOneKeeps

LEMMA CheckpointSavedKeeps ==
    ASSUME ServerOK, NEW r \in Runs, NEW k \in Steps, NEW P \in SUBSET Steps,
           CheckpointSaved(r, k, P)
    PROVE  ServerKeeps
<1> DEFINE new == [row[r] EXCEPT !.status = "running", !.kept = (@ \ P) \cup {k},
                                 !.pruned = @ \cup P]
           first == Event("system", "checkpoint_saved", r, k)
           second == Event("system", "retention_applied", r, k)
<1>1. Emit(r, new, <<first, second>>)
    BY DEF CheckpointSaved
<1>2. /\ new \in Rows /\ new.metrics = row[r].metrics
      /\ new.status = "running" /\ new.alive = row[r].alive
      /\ new.kept = (row[r].kept \ P) \cup {k} /\ new.pruned = row[r].pruned \cup P
    BY RowFacts DEF Rows, RunStatuses
<1>3. /\ first \in Events /\ first.about = r /\ first.event = "checkpoint_saved" /\ first.n = k
      /\ second \in Events /\ second.about = r /\ second.event = "retention_applied"
      /\ second.n = k
    BY EventFits, NamesAreNames DEF Steps
<1> HIDE DEF new, first, second
<1>4. row[r].alive /\ (row'[r].status = "deleted" \/ row'[r] = new)
    BY <1>1, EmittedRow
<1>5. RowOK(new)
    BY <1>2 DEF RowOK
<1>6. Grown(row[r], new) \/ row[r].status = "deleted"
    BY <1>2, <1>4 DEF Grown, Final
<1>7. TrueOf(first, row') /\ TrueOf(second, row')
    BY <1>2, <1>3, <1>4 DEF TrueOf, EndingEvents
<1>8. /\ Len(<<first, second>>) = 2
      /\ \A i \in 1 .. 2 : <<first, second>>[i] \in Events /\ TrueOf(<<first, second>>[i], row')
    BY <1>3, <1>7
<1> QED BY <1>1, <1>2, <1>5, <1>6, <1>8, EmitKeeps

LEMMA RunEndedKeeps ==
    ASSUME ServerOK, NEW r \in Runs, NEW status \in Endings, RunEnded(r, status)
    PROVE  ServerKeeps
<1> DEFINE new == [row[r] EXCEPT !.status = status, !.alive = FALSE]
           kind == CASE status = "completed" -> "run_completed"
                     [] status = "failed" -> "run_failed"
                     [] OTHER -> "run_cancelled"
           e == Event("run_state", kind, r, 0)
<1>1. Emit(r, new, <<e>>)
    BY DEF RunEnded
<1>2. status \in Terminal
    BY DEF ServerAssumption, Terminal
<1>3. /\ new \in Rows /\ new.metrics = row[r].metrics
      /\ new.status = status /\ new.alive = FALSE
      /\ new.kept = row[r].kept /\ new.pruned = row[r].pruned
    BY <1>2, RowFacts DEF Rows, RunStatuses, Terminal
<1>4. kind \in EndingEvents /\ kind \in EventNames
    BY NamesAreNames DEF EndingEvents
<1> HIDE DEF kind
<1>5. e \in Events /\ e.about = r /\ e.event = kind
    BY <1>4, EventFits
<1> HIDE DEF new, e
<1>6. row[r].alive /\ (row'[r].status = "deleted" \/ row'[r] = new)
    BY <1>1, EmittedRow
<1>7. RowOK(new)
    BY <1>2, <1>3 DEF RowOK, Terminal
<1>8. Grown(row[r], new) \/ row[r].status = "deleted"
    BY <1>3, <1>6 DEF Grown, Final
<1>9. TrueOf(e, row')
    BY <1>2, <1>3, <1>4, <1>5, <1>6 DEF TrueOf, EndingEvents, Final
<1> QED BY <1>1, <1>3, <1>5, <1>7, <1>8, <1>9, EmitOneKeeps

LEMMA FallbackProposedKeeps ==
    ASSUME ServerOK, NEW r \in Runs, FallbackProposed(r)
    PROVE  ServerKeeps
<1> DEFINE new == [row[r] EXCEPT !.status = "fallback_pending", !.alive = FALSE]
           e == Event("run_state", "fallback_proposed", r, row[r].gpu)
<1>1. Emit(r, new, <<e>>) /\ row[r].gpu # 0 /\ ProposedGpus(row[r].gpu) # {}
    BY DEF FallbackProposed, NoGpu
<1>2. /\ new \in Rows /\ new.metrics = row[r].metrics
      /\ new.status = "fallback_pending" /\ new.alive = FALSE
      /\ new.kept = row[r].kept /\ new.pruned = row[r].pruned
      /\ row[r].gpu \in 1 .. NGpus
    <2>1. row[r] \in Rows
        BY RowFacts
    <2>2. row[r].gpu \in 0 .. NGpus
        BY <2>1 DEF Rows
    <2>3. row[r].gpu \in 1 .. NGpus
        BY <1>1, <2>2, ServerAssumption
    <2> QED BY <2>1, <2>3 DEF Rows, RunStatuses
<1>3. e \in Events /\ e.about = r /\ e.event = "fallback_proposed" /\ e.n = row[r].gpu
    BY <1>2, EventFits, NamesAreNames
<1> HIDE DEF new, e
<1>4. row[r].alive /\ (row'[r].status = "deleted" \/ row'[r] = new)
    BY <1>1, EmittedRow
<1>5. RowOK(new)
    BY <1>2 DEF RowOK
<1>6. Grown(row[r], new) \/ row[r].status = "deleted"
    BY <1>2, <1>4 DEF Grown, Final
<1>7. TrueOf(e, row')
    BY <1>1, <1>2, <1>3 DEF TrueOf, EndingEvents
<1> QED BY <1>1, <1>2, <1>3, <1>5, <1>6, <1>7, EmitOneKeeps

LEMMA TrainerKeeps == ASSUME ServerOK, TrainerStep PROVE ServerKeeps
BY MetricRecordedKeeps, ProgressUpdateKeeps, CheckpointSavedKeeps, RunEndedKeeps,
   FallbackProposedKeeps DEF TrainerStep

-----------------------------------------------------------------------------
(* What the server's handling of a request does to a run. *)

\* the number of a new run is one that no row has
LEMMA LeastNewIsNew ==
    ASSUME ServerOK, NewRun(row) # {}
    PROVE  LeastNew(row) \in Runs /\ row[LeastNew(row)].status = "absent"
<1>1. NewRun(row) \in SUBSET Nat
    BY DEF NewRun, Runs
<1>2. \E r \in NewRun(row) : \A q \in NewRun(row) : r <= q
    BY <1>1, LeastElement
<1>3. LeastNew(row) \in NewRun(row)
    BY <1>2 DEF LeastNew
<1> QED BY <1>3 DEF NewRun, Runs, ServerAssumption

\* a row changes without an event
LEMMA QuietRow ==
    ASSUME ServerOK, NEW r \in Runs, NEW new \in Rows, RowOK(new), Grown(row[r], new),
           row' = [row EXCEPT ![r] = new],
           UNCHANGED <<sock, socket, wsProject, wsChannels, reconnects, steps>>
    PROVE  ServerKeeps
<1>1. Counted
    BY RowFacts, NoStepCounts
<1> QED BY <1>1, RowFacts, ServerLeaves

LEMMA AbsentFacts ==
    /\ Absent \in Rows /\ Absent.status = "absent" /\ Absent.alive = FALSE
    /\ Absent.metrics = {} /\ Absent.kept = {} /\ Absent.pruned = {}
BY DEF Absent, Rows, NoRow, NoGpu, ServerAssumption

\* a new run: nothing was said of it yet
LEMMA NewRowKeeps ==
    ASSUME ServerOK, NewRun(row) # {}, NEW new \in Rows, new.status = "pending",
           new.metrics = {}, new.kept = {}, new.pruned = {},
           row' = [row EXCEPT ![LeastNew(row)] = new],
           UNCHANGED <<sock, socket, wsProject, wsChannels, reconnects, steps>>
    PROVE  ServerKeeps
<1> DEFINE r == LeastNew(row)
<1>1. r \in Runs /\ row[r].status = "absent"
    BY LeastNewIsNew
<1>2. row[r] = Absent
    BY <1>1, RowFacts DEF RowOK
<1>3. RowOK(new) /\ Grown(Absent, new)
    <2>1. Absent.metrics = {} /\ Absent.kept = {} /\ Absent.pruned = {}
          /\ Absent.status = "absent"
        BY DEF Absent
    <2> QED BY <2>1 DEF RowOK, Grown, Final, Terminal
<1> HIDE DEF r
<1> QED BY <1>1, <1>2, <1>3, QuietRow DEF r

LEMMA RequestKeeps ==
    ASSUME ServerOK, NEW c, RequestOK(c), Accepted(c.kind, c.run, c.gpu), Room(c.kind),
           row' = AfterRequest(c.kind, c.run, c.gpu),
           sock' = AfterPublish(c.kind, c.run),
           UNCHANGED <<socket, wsProject, wsChannels, reconnects, steps>>
    PROVE  ServerKeeps
<1> DEFINE r == c.run
<1>1. c.kind \in CallKinds
    BY DEF RequestOK, Requests
<1>2. c.kind \notin {"save", "create"} => r \in Runs
    BY DEF RequestOK
<1>3. c.kind # "decline" => sock' = sock
    BY DEF AfterPublish
<1>4. CASE c.kind = "create"
    <2> DEFINE new == [Absent EXCEPT !.status = "pending", !.alive = TRUE, !.gpu = c.gpu]
    <2>1. c.gpu \in 0 .. NGpus /\ NewRun(row) # {}
        BY <1>4 DEF RequestOK, Requests, Room
    <2>2. /\ new \in Rows /\ new.status = "pending" /\ new.metrics = {}
          /\ new.kept = {} /\ new.pruned = {}
        BY <2>1, AbsentFacts DEF Rows, RunStatuses
    <2>3. row' = [row EXCEPT ![LeastNew(row)] = new]
        BY <1>4 DEF AfterRequest
    <2> HIDE DEF new
    <2> QED BY <1>3, <1>4, <2>1, <2>2, <2>3, NewRowKeeps
<1>5. CASE c.kind = "resume"
    <2> DEFINE new == [Absent EXCEPT !.status = "pending"]
    <2>1. NewRun(row) # {}
        BY <1>5 DEF Room
    <2>2. /\ new \in Rows /\ new.status = "pending" /\ new.metrics = {}
          /\ new.kept = {} /\ new.pruned = {}
        BY AbsentFacts DEF Rows, RunStatuses
    <2>3. row' = [row EXCEPT ![LeastNew(row)] = new]
        BY <1>5 DEF AfterRequest
    <2> HIDE DEF new
    <2> QED BY <1>3, <1>5, <2>1, <2>2, <2>3, NewRowKeeps
<1>6. CASE c.kind = "delete"
    <2> DEFINE new == [Absent EXCEPT !.status = "deleted", !.alive = row[r].alive]
    <2>1. row' = [row EXCEPT ![r] = new] /\ r \in Runs
        BY <1>2, <1>6 DEF AfterRequest
    <2>2. row[r].alive \in BOOLEAN
        BY <2>1, RowFacts DEF Rows
    <2>3. new \in Rows /\ new.status = "deleted"
        BY <2>2, AbsentFacts DEF Rows, NoRow
    <2> HIDE DEF new
    <2>4. RowOK(new) /\ Grown(row[r], new)
        BY <2>3 DEF RowOK, Grown, Final
    <2> QED BY <1>3, <1>6, <2>1, <2>3, <2>4, QuietRow
<1>7. CASE c.kind = "cancel"
    <2> DEFINE new == [row[r] EXCEPT !.status = "cancelled"]
    <2>1. row' = [row EXCEPT ![r] = new] /\ r \in Runs /\ row[r].status \in CancellableStatuses
        BY <1>2, <1>7 DEF AfterRequest, Accepted
    <2>2. /\ new \in Rows /\ new.status = "cancelled" /\ new.metrics = row[r].metrics
          /\ new.kept = row[r].kept /\ new.pruned = row[r].pruned
        BY <2>1, RowFacts DEF Rows, RunStatuses
    <2> HIDE DEF new
    <2>3. RowOK(new) /\ Grown(row[r], new)
        BY <2>1, <2>2 DEF RowOK, Grown, Final, Terminal, CancellableStatuses
    <2> QED BY <1>3, <1>7, <2>1, <2>2, <2>3, QuietRow
<1>8. CASE c.kind = "pause"
    <2> DEFINE new == [row[r] EXCEPT !.status = "paused"]
    <2>1. row' = [row EXCEPT ![r] = new] /\ r \in Runs /\ row[r].status \in PausableStatuses
        BY <1>2, <1>8 DEF AfterRequest, Accepted
    <2>2. /\ new \in Rows /\ new.status = "paused" /\ new.metrics = row[r].metrics
          /\ new.kept = row[r].kept /\ new.pruned = row[r].pruned
        BY <2>1, RowFacts DEF Rows, RunStatuses
    <2> HIDE DEF new
    <2>3. RowOK(new) /\ Grown(row[r], new)
        BY <2>1, <2>2 DEF RowOK, Grown, Final, Terminal, PausableStatuses
    <2> QED BY <1>3, <1>8, <2>1, <2>2, <2>3, QuietRow
<1>9. CASE c.kind = "accept"
    <2> DEFINE new == [row[r] EXCEPT !.status = "running", !.alive = TRUE, !.gpu = c.gpu]
    <2>1. r \in Runs /\ row[r].status = "fallback_pending" /\ c.gpu \in 1 .. NGpus
        BY <1>2, <1>9 DEF Accepted, RequestOK
    <2>2. row[r] \in Rows /\ row \in [Runs -> Rows]
        BY <2>1 DEF ServerOK, ServerType
    <2>3. row' = [row EXCEPT ![r] = new]
        BY <1>9, <2>1, <2>2 DEF AfterRequest, Rows
    <2>4. /\ new \in Rows /\ new.status = "running" /\ new.metrics = row[r].metrics
          /\ new.kept = row[r].kept /\ new.pruned = row[r].pruned
        <3>1. c.gpu \in 0 .. NGpus
            BY <2>1, ServerAssumption
        <3> QED BY <2>2, <3>1 DEF Rows, RunStatuses
    <2> HIDE DEF new
    <2>5. RowOK(new) /\ Grown(row[r], new)
        BY <2>1, <2>4 DEF RowOK, Grown, Final, Terminal
    <2> QED BY <1>3, <1>9, <2>1, <2>3, <2>4, <2>5, QuietRow
<1>10. CASE c.kind = "decline"
    <2> DEFINE new == [row[r] EXCEPT !.status = "failed"]
               e == Event("run_state", "run_failed", r, 0)
    <2>1. row' = [row EXCEPT ![r] = new] /\ r \in Runs /\ row[r].status = "fallback_pending"
        BY <1>2, <1>10 DEF AfterRequest, Accepted
    <2>2. ~row[r].alive
        BY <2>1, RowFacts DEF RowOK
    <2>3. /\ new \in Rows /\ new.status = "failed" /\ new.metrics = row[r].metrics
          /\ new.kept = row[r].kept /\ new.pruned = row[r].pruned /\ new.alive = row[r].alive
        BY <2>1, RowFacts DEF Rows, RunStatuses
    <2>4. row'[r] = new
        BY <2>1 DEF ServerOK, ServerType
    <2> HIDE DEF new
    <2>5. RowOK(new) /\ Grown(row[r], new) /\ Final(new)
        BY <2>1, <2>2, <2>3 DEF RowOK, Grown, Final, Terminal
    <2>6. e \in Events /\ e.about = r /\ e.event = "run_failed"
        BY <2>1, EventFits, NamesAreNames
    <2>7. sock' = Published(sock, Home, e)
        BY <1>10 DEF AfterPublish
    <2> HIDE DEF e
    <2>8. TrueOf(e, row')
        BY <2>1, <2>4, <2>5, <2>6 DEF TrueOf, EndingEvents
    <2>9. sock' \in [Sockets -> Connections]
          /\ \A d \in Queued(sock') : d \in Queued(sock) \/ TrueOf(d, row')
        BY <2>1, <2>6, <2>7, <2>8, RowFacts, PublishedOnce
    <2>10. Counted
        BY <2>1, RowFacts, NoStepCounts
    <2> QED BY <2>1, <2>3, <2>5, <2>9, <2>10, ServerLeaves
<1>11. CASE c.kind = "save"
    <2>1. UNCHANGED <<row, socketVars, steps>>
        BY <1>3, <1>11 DEF AfterRequest, socketVars
    <2>2. Kept
        BY <2>1, RowFacts, NoStepCounts, ApartKeeps DEF ServerOK
    <2> QED BY <2>1, <2>2, ServerStays, SameIsGrown DEF ServerKeeps, Onward
<1> QED BY <1>1, <1>4, <1>5, <1>6, <1>7, <1>8, <1>9, <1>10, <1>11 DEF CallKinds

-----------------------------------------------------------------------------
(* What a step of the page does to what it keeps of the runs. *)

\* the entries of the query cache have their kind
CacheTyped ==
    /\ DOMAIN cache = Keys
    /\ \A k \in Keys : IsEntry(cache[k]) /\ (cache[k].stale => cache[k].data # NoAnswer)

LEMMA CacheIsTyped == ViewTyped => CacheTyped
BY DEF ViewTyped, StreamType, CacheTyped

LEMMA KeyFacts ==
    /\ ListKey \in Keys
    /\ \A r \in Runs : <<"metrics", r>> \in Keys /\ <<"checkpoints", r>> \in Keys
BY DEF Keys, ListKey

\* each of the four parts of CacheOK is about the data and the flight of an
\* entry, so what has no more of either is as good
LEMMA CacheShrinks ==
    ASSUME ViewOK, UNCHANGED <<row, told>>,
           \A k \in Keys : /\ cache'[k].data = cache[k].data
                           /\ cache'[k].flight \subseteq cache[k].flight
                           /\ cache[k].stale => cache'[k].stale
    PROVE  CacheOK'
<1>1. AnswersOK'
    BY KeyFacts DEF ViewOK, CacheOK, AnswersOK
<1>2. ToldOK'
    BY DEF ViewOK, CacheOK, ToldOK
<1>3. FlightsOK'
    <2> SUFFICES ASSUME NEW r \in Runs
                 PROVE  /\ \A k \in told[r] \ {Ended} : \A v \in cache'[<<"checkpoints", r>>].flight :
                                k \in v.kept \cup v.pruned \/ row[r].status = "deleted"
                        /\ Ended \in told[r] =>
                                \A v \in cache'[ListKey].flight : v[r] \in Terminal \cup NoRow
        BY DEF FlightsOK
    <2> QED BY KeyFacts DEF ViewOK, CacheOK, FlightsOK
<1>4. EventsInvalidate'
    <2> SUFFICES ASSUME NEW r \in Runs
                 PROVE  /\ \A k \in told[r] \ {Ended} :
                            \/ cache'[<<"checkpoints", r>>].stale
                            \/ \A v \in cache'[<<"checkpoints", r>>].data :
                                k \in v.kept \cup v.pruned \/ row[r].status = "deleted"
                        /\ Ended \in told[r] =>
                            \/ cache'[ListKey].stale
                            \/ \A v \in cache'[ListKey].data : v[r] \in Terminal \cup NoRow
        BY DEF EventsInvalidate
    <2> QED BY KeyFacts DEF ViewOK, CacheOK, EventsInvalidate
<1> QED BY <1>1, <1>2, <1>3, <1>4 DEF CacheOK

LEMMA CacheStays ==
    ASSUME ViewOK, UNCHANGED <<row, told, cache>> PROVE CacheOK' /\ CacheTyped'
<1>1. CacheTyped'
    BY CacheIsTyped DEF ViewOK, CacheTyped
<1> QED BY <1>1, CacheShrinks

LEMMA CacheInvalidated ==
    ASSUME ViewOK, UNCHANGED <<row, told>>, NEW keys, NEW active,
           cache' = InvalidatedAll(cache, keys, active)
    PROVE  CacheOK' /\ CacheTyped'
<1>1. CacheTyped
    BY CacheIsTyped DEF ViewOK
<1>2. DOMAIN cache' = Keys
    BY <1>1 DEF InvalidatedAll, CacheTyped
<1>3. \A k \in Keys :
        /\ IsEntry(cache'[k])
        /\ cache'[k].data = cache[k].data /\ cache'[k].flight \subseteq cache[k].flight
        /\ cache[k].stale => cache'[k].stale
        /\ cache[k].data = NoAnswer => cache'[k] = cache[k]
    BY <1>1, InvalidatedEntries DEF CacheTyped
<1>4. CacheTyped'
    BY <1>1, <1>2, <1>3 DEF CacheTyped
<1> QED BY <1>3, <1>4, CacheShrinks

\* an answer of the moment, and an answer asked for before, are both true
TrueAnswer(k, v) ==
    /\ \A r \in Runs : k = <<"metrics", r>> => TrueMetrics(v, row[r])
    /\ \A r \in Runs : k = <<"checkpoints", r>> =>
            /\ TrueCheckpoints(v, row[r])
            /\ \A n \in told[r] \ {Ended} :
                    n \in v.kept \cup v.pruned \/ row[r].status = "deleted"
    /\ \A r \in Runs : k = ListKey /\ Ended \in told[r] => v[r] \in Terminal \cup NoRow

LEMMA AnswerIsTrue ==
    ASSUME ServerOK, ViewOK, NEW k \in Keys PROVE TrueAnswer(k, Answer(k))
<1>1. ASSUME NEW r \in Runs, k = <<"metrics", r>>
      PROVE  TrueMetrics(Answer(k), row[r])
    <2>1. k[1] = "metrics" /\ k[2] = r
        BY <1>1
    <2>2. Answer(k) = row[r].metrics
        BY <2>1 DEF Answer
    <2> QED BY <2>2, RowFacts DEF Rows, TrueMetrics
<1>2. ASSUME NEW r \in Runs, k = <<"checkpoints", r>>
      PROVE  /\ TrueCheckpoints(Answer(k), row[r])
             /\ \A n \in told[r] \ {Ended} :
                    n \in Answer(k).kept \cup Answer(k).pruned \/ row[r].status = "deleted"
    <2>1. k[1] = "checkpoints" /\ k[2] = r
        BY <1>2
    <2>2. Answer(k) = [kept |-> row[r].kept, pruned |-> row[r].pruned]
        BY <2>1 DEF Answer
    <2> QED BY <2>2 DEF ViewOK, CacheOK, ToldOK, TrueCheckpoints
<1>3. ASSUME NEW r \in Runs, k = ListKey, Ended \in told[r]
      PROVE  Answer(k)[r] \in Terminal \cup NoRow
    <2>1. k[1] = "list"
        BY <1>3 DEF ListKey
    <2>2. Answer(k)[r] = row[r].status
        BY <2>1 DEF Answer
    <2> QED BY <1>3, <2>2 DEF ViewOK, CacheOK, ToldOK, Final, NoRow
<1> QED BY <1>1, <1>2, <1>3 DEF TrueAnswer

LEMMA FlightIsTrue ==
    ASSUME ViewOK, NEW k \in Keys, NEW v \in cache[k].flight PROVE TrueAnswer(k, v)
BY DEF ViewOK, CacheOK, AnswersOK, FlightsOK, TrueAnswer

\* one entry gets a true answer, on its way or taken
LEMMA CacheAnswered ==
    ASSUME ViewOK, UNCHANGED <<row, told>>, NEW k \in Keys, NEW entry,
           cache' = [cache EXCEPT ![k] = entry], IsEntry(entry),
           \A v \in entry.flight : TrueAnswer(k, v),
           \/ \A v \in entry.data : TrueAnswer(k, v)
           \/ entry.data = cache[k].data /\ entry.stale = cache[k].stale,
           entry.stale => entry.data # NoAnswer
    PROVE  CacheOK' /\ CacheTyped'
<1>1. CacheTyped
    BY CacheIsTyped DEF ViewOK
<1>2. cache'[k] = entry /\ \A j \in Keys \ {k} : cache'[j] = cache[j]
    BY <1>1 DEF CacheTyped
<1>3. CacheTyped'
    BY <1>1, <1>2 DEF CacheTyped
<1>4. AnswersOK'
    <2> SUFFICES ASSUME NEW r \in Runs,
                        NEW j \in {<<"metrics", r>>, <<"checkpoints", r>>},
                        NEW v \in cache'[j].data \cup cache'[j].flight
                 PROVE  /\ j = <<"metrics", r>> => TrueMetrics(v, row[r])
                        /\ j = <<"checkpoints", r>> => TrueCheckpoints(v, row[r])
        BY DEF AnswersOK
    <2>1. CASE k = j
        <3>1. TrueAnswer(k, v) \/ v \in cache[k].data
            BY <1>2, <2>1
        <3> QED BY <2>1, <3>1 DEF TrueAnswer, ViewOK, CacheOK, AnswersOK
    <2>2. CASE k # j
        <3>1. cache'[j] = cache[j]
            BY <1>2, <2>2, KeyFacts
        <3> QED BY <3>1 DEF ViewOK, CacheOK, AnswersOK
    <2> QED BY <2>1, <2>2
<1>5. ToldOK'
    BY DEF ViewOK, CacheOK, ToldOK
<1>6. FlightsOK'
    <2> SUFFICES ASSUME NEW r \in Runs
                 PROVE  /\ \A n \in told[r] \ {Ended} : \A v \in cache'[<<"checkpoints", r>>].flight :
                                n \in v.kept \cup v.pruned \/ row[r].status = "deleted"
                        /\ Ended \in told[r] =>
                                \A v \in cache'[ListKey].flight : v[r] \in Terminal \cup NoRow
        BY DEF FlightsOK
    <2>1. \A v \in cache'[<<"checkpoints", r>>].flight : \A n \in told[r] \ {Ended} :
                n \in v.kept \cup v.pruned \/ row[r].status = "deleted"
        <3>1. CASE k = <<"checkpoints", r>>
            BY <1>2, <3>1 DEF TrueAnswer
        <3>2. CASE k # <<"checkpoints", r>>
            BY <1>2, <3>2, KeyFacts DEF ViewOK, CacheOK, FlightsOK
        <3> QED BY <3>1, <3>2
    <2>2. Ended \in told[r] => \A v \in cache'[ListKey].flight : v[r] \in Terminal \cup NoRow
        <3>1. CASE k = ListKey
            BY <1>2, <3>1 DEF TrueAnswer
        <3>2. CASE k # ListKey
            BY <1>2, <3>2, KeyFacts DEF ViewOK, CacheOK, FlightsOK
        <3> QED BY <3>1, <3>2
    <2> QED BY <2>1, <2>2
<1>7. EventsInvalidate'
    <2> SUFFICES ASSUME NEW r \in Runs
                 PROVE  /\ \A n \in told[r] \ {Ended} :
                            \/ cache'[<<"checkpoints", r>>].stale
                            \/ \A v \in cache'[<<"checkpoints", r>>].data :
                                n \in v.kept \cup v.pruned \/ row[r].status = "deleted"
                        /\ Ended \in told[r] =>
                            \/ cache'[ListKey].stale
                            \/ \A v \in cache'[ListKey].data : v[r] \in Terminal \cup NoRow
        BY DEF EventsInvalidate
    <2>1. ASSUME NEW n \in told[r] \ {Ended}
          PROVE  \/ cache'[<<"checkpoints", r>>].stale
                 \/ \A v \in cache'[<<"checkpoints", r>>].data :
                        n \in v.kept \cup v.pruned \/ row[r].status = "deleted"
        <3>1. CASE k = <<"checkpoints", r>>
            <4>1. CASE \A v \in entry.data : TrueAnswer(k, v)
                <5>1. \A v \in entry.data : n \in v.kept \cup v.pruned
                                              \/ row[r].status = "deleted"
                    BY <3>1, <4>1 DEF TrueAnswer
                <5> QED BY <1>2, <3>1, <5>1
            <4>2. CASE entry.data = cache[k].data /\ entry.stale = cache[k].stale
                <5>1. \/ cache[k].stale
                      \/ \A v \in cache[k].data :
                            n \in v.kept \cup v.pruned \/ row[r].status = "deleted"
                    BY <3>1 DEF ViewOK, CacheOK, EventsInvalidate
                <5> QED BY <1>2, <3>1, <4>2, <5>1
            <4> QED BY <4>1, <4>2
        <3>2. CASE k # <<"checkpoints", r>>
            BY <1>2, <3>2, KeyFacts DEF ViewOK, CacheOK, EventsInvalidate
        <3> QED BY <3>1, <3>2
    <2>2. ASSUME Ended \in told[r]
          PROVE  \/ cache'[ListKey].stale
                 \/ \A v \in cache'[ListKey].data : v[r] \in Terminal \cup NoRow
        <3>1. CASE k = ListKey
            BY <1>2, <2>2, <3>1 DEF TrueAnswer, ViewOK, CacheOK, EventsInvalidate
        <3>2. CASE k # ListKey
            BY <1>2, <2>2, <3>2, KeyFacts DEF ViewOK, CacheOK, EventsInvalidate
        <3> QED BY <3>1, <3>2
    <2> QED BY <2>1, <2>2
<1> QED BY <1>3, <1>4, <1>5, <1>6, <1>7 DEF CacheOK

-----------------------------------------------------------------------------
(* The two frames of a step: the server's rows go on, or the page moves.     *)

\* rows and queues may change; of the page only its requests
LEMMA RowsGo ==
    ASSUME RunsInv, ServerKeeps, UNCHANGED streamVars,
           UNCHANGED <<activeProject, page, selected, resumeOpen, gpuChoice, told>>,
           \A c \in calls' : RequestOK(c) /\ (c.bound => page = "runs")
    PROVE  RunsInv'
<1> USE DEF streamVars
<1>1. ServerOK' /\ Onward
    BY DEF ServerKeeps
<1>2. ViewTyped'
    BY DEF RunsInv, ViewOK, ViewTyped, StreamType, RequestOK
<1>3. StoreOK'
    BY <1>1 DEF RunsInv, ViewOK, StoreOK, OwnEventsOnly, Onward, Grown
<1>4. AnswersOK'
    BY <1>1 DEF RunsInv, ViewOK, CacheOK, AnswersOK, TrueMetrics, TrueCheckpoints, Onward, Grown
<1>5. ToldOK'
    BY <1>1 DEF RunsInv, ViewOK, CacheOK, ToldOK, Onward, Grown
<1>6. FlightsOK'
    BY <1>1 DEF RunsInv, ViewOK, CacheOK, FlightsOK, Onward, Grown
<1>7. EventsInvalidate'
    BY <1>1 DEF RunsInv, ViewOK, CacheOK, EventsInvalidate, Onward, Grown
<1>8. ChoiceOK'
    BY DEF RunsInv, ViewOK, ChoiceOK, GpuChosenIsCandidate, DialogOpen
<1> QED BY <1>1, <1>2, <1>3, <1>4, <1>5, <1>6, <1>7, <1>8
        DEF RunsInv, ViewOK, CacheOK

\* rows stay as they are; what the page keeps of them is true of them
LEMMA PageGoes ==
    ASSUME RunsInv, Kept, UNCHANGED <<row, store, proposals, told>>,
           CacheOK', CacheTyped',
           activeProject' \in Projects, page' \in Pages, selected' \in 0 .. NRuns,
           resumeOpen' \in BOOLEAN, gpuChoice' \in 0 .. NGpus,
           GpuChosenIsCandidate', page' = "dashboard" => selected' = 0,
           resumeOpen' => page' = "runs",
           \A c \in calls' : RequestOK(c) /\ (c.bound => page' = "runs")
    PROVE  RunsInv'
<1>1. ServerOK'
    BY ServerStays DEF RunsInv
<1>2. ViewTyped'
    BY DEF RunsInv, ViewOK, ViewTyped, StreamType, RequestOK, CacheTyped
<1>3. StoreOK'
    BY DEF RunsInv, ViewOK, StoreOK, OwnEventsOnly
<1>4. ChoiceOK'
    BY DEF RunsInv, ViewOK, ChoiceOK
<1> QED BY <1>1, <1>2, <1>3, <1>4 DEF RunsInv, ViewOK

-----------------------------------------------------------------------------
(* The choice of a run, and the effects that follow it. *)

LEMMA LatestIsOne ==
    ASSUME NEW R \in SUBSET Runs
    PROVE  /\ R = {} => Latest(R) = 0
           /\ R # {} => Latest(R) \in R
           /\ Latest(R) \in 0 .. NRuns
<1>1. R \in SUBSET (0 .. NRuns) /\ NRuns \in Nat
    BY DEF Runs, ServerAssumption
<1>2. CASE R # {}
    <2>1. \E r \in R : \A q \in R : q <= r
        BY <1>1, <1>2, GreatestElement
    <2>2. Latest(R) \in R
        BY <1>2, <2>1 DEF Latest
    <2> QED BY <1>1, <1>2, <2>2
<1>3. CASE R = {}
    BY <1>1, <1>3 DEF Latest
<1> QED BY <1>2, <1>3

LEMMA PicksAreRuns ==
    ASSUME NEW list
    PROVE  PickLiveRun(list) \in 0 .. NRuns /\ PickActiveRun(list) \in 0 .. NRuns
BY LatestIsOne DEF PickLiveRun, PickActiveRun

LEMMA AutoSelectIsRun ==
    ASSUME NEW sel \in 0 .. NRuns, NEW list PROVE AutoSelect(sel, list) \in 0 .. NRuns
<1>1. Listed(list) \in SUBSET Runs
    BY DEF Listed
<1>2. Latest(Listed(list)) \in 0 .. NRuns
    BY <1>1, LatestIsOne
<1> QED BY <1>2, PicksAreRuns DEF AutoSelect

\* the listener is registered for the selected run, or for the active one
LEMMA ListenerIsRun ==
    ASSUME ViewTyped
    PROVE  Listener \in 0 .. NRuns /\ (page = "runs" => Listener = selected)
<1>1. activeProject # NoProject /\ page \in {"runs", "dashboard"}
    BY DEF ViewTyped, Pages, SocketAssumption
<1> QED BY <1>1, PicksAreRuns DEF Listener, Followed, ViewTyped

LEMMA SelectionFits ==
    ASSUME ViewTyped, NEW c
    PROVE  SelectionOn(c) \in 0 .. NRuns /\ (page = "dashboard" => SelectionOn(c) = 0)
BY AutoSelectIsRun DEF ViewTyped, SelectionOn, ServerAssumption

\* the first of the proposed GPUs, in the order of the chain, is one of them
LEMMA FirstIsProposed ==
    ASSUME NEW gpu, ProposedGpus(gpu) # {}
    PROVE  /\ Chain[First(Candidates(Chain, Affordable, gpu))] \in ProposedGpus(gpu)
           /\ ProposedGpus(gpu) \subseteq 1 .. NGpus
<1> DEFINE ks == Candidates(Chain, Affordable, gpu)
<1>1. ks \in SUBSET Nat /\ ks # {} /\ ks \subseteq DOMAIN Chain
    BY DEF ProposedGpus, Candidates, ServerAssumption
<1>2. \E k \in ks : \A l \in ks : k <= l
    <2> HIDE DEF ks
    <2> QED BY <1>1, LeastElement
<1>3. First(ks) \in ks
    <2> HIDE DEF ks
    <2> QED BY <1>2 DEF First
<1>4. \A k \in DOMAIN Chain : Chain[k] \in 1 .. NGpus
    BY DEF ServerAssumption
<1> QED BY <1>1, <1>3, <1>4 DEF ProposedGpus

LEMMA FollowKeeps ==
    ASSUME RunsInv, Counted, UNCHANGED proposals,
           NEW pg \in Pages, NEW p \in Projects, NEW sel \in 0 .. NRuns, NEW c,
           pg = "dashboard" => sel = 0, Follow(pg, p, sel, c)
    PROVE  /\ Kept
           /\ page' = pg /\ activeProject' = p /\ selected' = sel /\ cache' = c
           /\ gpuChoice' \in 0 .. NGpus
           /\ GpuChosenIsCandidate'
<1>1. page' = pg /\ activeProject' = p /\ selected' = sel /\ cache' = c
    BY DEF Follow
<1>2. Kept
    <2>1. SocketOK
        BY DEF RunsInv, ServerOK
    <2>2. StreamChannels \in SUBSET Channels
        BY DEF StreamAssumption, StreamChannels
    <2>3. Connect(p, StreamChannels) \/ UNCHANGED socketVars
        BY DEF Follow
    <2> QED BY <2>1, <2>2, <2>3, ConnectKeeps, ApartKeeps
<1>3. p # NoProject /\ activeProject # NoProject /\ NRuns \in Nat /\ NGpus \in Nat
    BY DEF RunsInv, ViewOK, ViewTyped, SocketAssumption, ServerAssumption
<1>4. proposals \in [Runs -> 0 .. NGpus]
      /\ \A r \in Runs : proposals[r] # 0 => ProposedGpus(proposals[r]) # {}
    BY DEF RunsInv, ViewOK, ViewTyped, StreamType, ChoiceOK
<1>5. sel = selected => gpuChoice' = gpuChoice
    BY DEF Follow
<1>6. sel # selected => gpuChoice' = FirstCandidate(sel, proposals)
    BY DEF Follow
<1>7. CASE sel = selected
    <2>1. sel # 0 => pg = "runs" /\ page = "runs"
        BY <1>7 DEF RunsInv, ViewOK, ViewTyped, ChoiceOK, Pages
    <2>2. DialogOpen' <=> DialogOpen
        BY <1>1, <1>3, <1>7, <2>1 DEF DialogOpen
    <2> QED BY <1>1, <1>2, <1>5, <1>7, <2>2
            DEF RunsInv, ViewOK, ViewTyped, ChoiceOK, GpuChosenIsCandidate, DialogOpen
<1>8. CASE sel # selected
    <2>1. CASE sel = 0
        <3>1. gpuChoice' = 0
            BY <1>6, <1>8, <2>1 DEF FirstCandidate
        <3>2. ~DialogOpen'
            BY <1>1, <2>1 DEF DialogOpen
        <3> QED BY <1>1, <1>2, <1>3, <3>1, <3>2 DEF GpuChosenIsCandidate
    <2>2. CASE sel # 0
        <3>1. sel \in Runs /\ pg = "runs"
            BY <1>3, <2>2 DEF Runs, Pages
        <3>2. DialogOpen' <=> proposals[sel] # 0
            BY <1>1, <1>3, <2>2, <3>1 DEF DialogOpen
        <3>3. CASE proposals[sel] = 0
            <4>1. gpuChoice' = 0
                BY <1>6, <1>8, <3>3 DEF FirstCandidate
            <4> QED BY <1>1, <1>2, <1>3, <3>2, <3>3, <4>1 DEF GpuChosenIsCandidate
        <3>4. CASE proposals[sel] # 0
            <4>1. ProposedGpus(proposals[sel]) # {}
                BY <1>4, <3>1, <3>4
            <4>2. gpuChoice' = Chain[First(Candidates(Chain, Affordable, proposals[sel]))]
                BY <1>6, <1>8, <2>2, <3>4, <4>1 DEF FirstCandidate
            <4>3. gpuChoice' \in ProposedGpus(proposals[sel]) /\ gpuChoice' \in 0 .. NGpus
                BY <1>3, <4>1, <4>2, FirstIsProposed
            <4> QED BY <1>1, <1>2, <3>2, <3>4, <4>3 DEF GpuChosenIsCandidate
        <3> QED BY <3>3, <3>4
    <2> QED BY <2>1, <2>2
<1> QED BY <1>7, <1>8

-----------------------------------------------------------------------------
(* The user's navigation, and the queries of the pages. *)

LEMMA InvFacts ==
    ASSUME RunsInv
    PROVE  /\ SocketOK /\ ServerOK /\ ViewOK /\ ViewTyped /\ CacheTyped
           /\ activeProject \in Projects /\ page \in Pages /\ selected \in 0 .. NRuns
           /\ resumeOpen \in BOOLEAN /\ gpuChoice \in 0 .. NGpus
           /\ GpuChosenIsCandidate /\ 0 \in 0 .. NRuns
           /\ page = "dashboard" => selected = 0
           /\ resumeOpen => page = "runs"
           /\ \A c \in calls : RequestOK(c) /\ (c.bound => page = "runs")
BY CacheIsTyped
   DEF RunsInv, ServerOK, ViewOK, ViewTyped, ChoiceOK, ServerAssumption

\* a request that loses its callbacks is a request
LEMMA UnboundRequest ==
    ASSUME NEW c, RequestOK(c), NEW bound \in BOOLEAN
    PROVE  /\ RequestOK([c EXCEPT !.bound = bound])
           /\ [c EXCEPT !.bound = bound].bound = bound
BY DEF RequestOK, Requests

LEMMA NavigateKeeps ==
    ASSUME RunsInv, NEW pg \in Pages, Navigate(pg) PROVE RunsInv'
<1> DEFINE sel == IF pg = "runs" /\ activeProject # NoProject
                  THEN AutoSelect(0, List) ELSE 0
<1>1. Follow(pg, activeProject, sel, cache) /\ Step
      /\ UNCHANGED <<row, store, proposals, told>> /\ resumeOpen' = FALSE
    BY DEF Navigate, serverVars
<1>2. sel \in 0 .. NRuns /\ (pg = "dashboard" => sel = 0)
    BY InvFacts, AutoSelectIsRun
<1> HIDE DEF sel
<1>3. Counted
    BY <1>1, InvFacts, StepCounts
<1>4. /\ Kept /\ page' = pg /\ activeProject' = activeProject /\ selected' = sel
      /\ cache' = cache /\ gpuChoice' \in 0 .. NGpus /\ GpuChosenIsCandidate'
    BY <1>1, <1>2, <1>3, InvFacts, FollowKeeps
<1>5. CacheOK' /\ CacheTyped'
    BY <1>1, <1>4, InvFacts, CacheStays
<1>6. \A c \in calls' : RequestOK(c) /\ ~c.bound
    <2>1. calls' = {[c EXCEPT !.bound = FALSE] : c \in calls}
        BY DEF Navigate
    <2> QED BY <2>1, InvFacts, UnboundRequest
<1> QED BY <1>1, <1>2, <1>4, <1>5, <1>6, InvFacts, PageGoes

LEMMA SetActiveProjectKeeps ==
    ASSUME RunsInv, NEW p \in Projects, SetActiveProject(p) PROVE RunsInv'
<1> DEFINE sel == IF page = "runs" THEN AutoSelect(selected, ListIn(cache, p)) ELSE 0
<1>1. Follow(page, p, sel, cache) /\ Step
      /\ UNCHANGED <<row, store, proposals, told, resumeOpen, calls>>
    BY DEF SetActiveProject, serverVars
<1>2. sel \in 0 .. NRuns /\ (page = "dashboard" => sel = 0)
    BY InvFacts, AutoSelectIsRun
<1> HIDE DEF sel
<1>3. Counted
    BY <1>1, InvFacts, StepCounts
<1>4. /\ Kept /\ page' = page /\ activeProject' = p /\ selected' = sel
      /\ cache' = cache /\ gpuChoice' \in 0 .. NGpus /\ GpuChosenIsCandidate'
    BY <1>1, <1>2, <1>3, InvFacts, FollowKeeps
<1>5. CacheOK' /\ CacheTyped'
    BY <1>1, <1>4, InvFacts, CacheStays
<1> QED BY <1>1, <1>2, <1>4, <1>5, InvFacts, PageGoes

LEMMA SelectRunKeeps ==
    ASSUME RunsInv, NEW r \in Runs, SelectRun(r) PROVE RunsInv'
<1>1. Follow(page, activeProject, r, cache) /\ Step /\ page = "runs"
      /\ UNCHANGED <<row, store, proposals, told, resumeOpen, calls>>
    BY DEF SelectRun, serverVars
<1>2. r \in 0 .. NRuns
    BY DEF Runs, ServerAssumption
<1>3. Counted
    BY <1>1, InvFacts, StepCounts
<1>4. /\ Kept /\ page' = page /\ activeProject' = activeProject /\ selected' = r
      /\ cache' = cache /\ gpuChoice' \in 0 .. NGpus /\ GpuChosenIsCandidate'
    BY <1>1, <1>2, <1>3, InvFacts, FollowKeeps
<1>5. CacheOK' /\ CacheTyped'
    BY <1>1, <1>4, InvFacts, CacheStays
<1> QED BY <1>1, <1>2, <1>4, <1>5, InvFacts, PageGoes

\* an entry gets the answer of the moment, or the one that was on its way
LEMMA EntriesAnswered ==
    ASSUME RunsInv, NEW k \in Keys
    PROVE  LET sent == Asked(cache[k], Answer(k))
           IN  /\ IsEntry(sent) /\ sent.data = cache[k].data /\ sent.stale = cache[k].stale
               /\ sent.flight = {Answer(k)}
               /\ IsEntry(Answered(sent)) /\ Answered(sent).data = {Answer(k)}
               /\ ~Answered(sent).stale /\ Answered(sent).flight = {}
               /\ IsEntry(Answered(cache[k])) /\ Answered(cache[k]).data = cache[k].flight
               /\ ~Answered(cache[k]).stale /\ Answered(cache[k]).flight = {}
<1>1. IsEntry(cache[k])
    BY InvFacts DEF CacheTyped
<1>2. Asked(cache[k], Answer(k)) =
        [data |-> cache[k].data, stale |-> cache[k].stale, flight |-> {Answer(k)}]
    BY <1>1, AnsweredEntry
<1> QED BY <1>1, <1>2 DEF IsEntry, Answered, NoAnswer

LEMMA FetchKeeps ==
    ASSUME RunsInv, NEW k \in Keys, Fetch(k) PROVE RunsInv'
<1> DEFINE sent == Asked(cache[k], Answer(k))
           whole == cache[k].data = NoAnswer \/ k[1] = "metrics"
           c == [cache EXCEPT ![k] = Answered(sent)]
<1>1. UNCHANGED <<row, store, proposals, told, resumeOpen, calls>>
    BY DEF Fetch, serverVars
<1>2. Counted
    <2>1. Step \/ UNCHANGED steps
        BY DEF Fetch
    <2> QED BY <2>1, InvFacts, StepCounts, NoStepCounts
<1>3. TrueAnswer(k, Answer(k))
    BY InvFacts, AnswerIsTrue
<1>4. CASE whole
    <2>1. Follow(page, activeProject, SelectionOn(c), c)
        BY <1>4 DEF Fetch
    <2>2. SelectionOn(c) \in 0 .. NRuns /\ (page = "dashboard" => SelectionOn(c) = 0)
        BY InvFacts, SelectionFits
    <2> HIDE DEF c
    <2>3. /\ Kept /\ page' = page /\ activeProject' = activeProject
          /\ selected' = SelectionOn(c) /\ cache' = c
          /\ gpuChoice' \in 0 .. NGpus /\ GpuChosenIsCandidate'
        BY <1>1, <1>2, <2>1, <2>2, InvFacts, FollowKeeps
    <2>4. CacheOK' /\ CacheTyped'
        <3>1. cache' = [cache EXCEPT ![k] = Answered(sent)]
            BY <2>3 DEF c
        <3>2. /\ IsEntry(Answered(sent)) /\ Answered(sent).data = {Answer(k)}
              /\ ~Answered(sent).stale /\ Answered(sent).flight = {}
            BY EntriesAnswered
        <3> HIDE DEF sent
        <3> QED BY <1>1, <1>3, <3>1, <3>2, InvFacts, CacheAnswered
    <2> QED BY <1>1, <2>2, <2>3, <2>4, InvFacts, PageGoes
<1>5. CASE ~whole
    <2>1. /\ cache' = [cache EXCEPT ![k] = sent]
          /\ UNCHANGED <<socketVars, activeProject, page, selected, gpuChoice>>
        BY <1>5 DEF Fetch
    <2>2. Kept
        BY <1>2, <2>1, InvFacts, ApartKeeps
    <2>3. CacheOK' /\ CacheTyped'
        <3>1. /\ IsEntry(sent) /\ sent.data = cache[k].data /\ sent.stale = cache[k].stale
              /\ sent.flight = {Answer(k)}
            BY EntriesAnswered
        <3>2. sent.stale => sent.data # NoAnswer
            BY <3>1, InvFacts DEF CacheTyped
        <3> HIDE DEF sent
        <3> QED BY <1>1, <1>3, <2>1, <3>1, <3>2, InvFacts, CacheAnswered
    <2>4. GpuChosenIsCandidate'
        BY <1>1, <2>1, InvFacts DEF GpuChosenIsCandidate, DialogOpen
    <2> QED BY <1>1, <2>1, <2>2, <2>3, <2>4, InvFacts, PageGoes
<1> QED BY <1>4, <1>5

LEMMA FetchAnsweredKeeps ==
    ASSUME RunsInv, NEW k \in Keys, FetchAnswered(k) PROVE RunsInv'
<1> DEFINE c == [cache EXCEPT ![k] = Answered(@)]
<1>1. /\ Follow(page, activeProject, SelectionOn(c), c)
      /\ UNCHANGED <<row, store, proposals, told, resumeOpen, calls, steps>>
    BY DEF FetchAnswered, serverVars
<1>2. SelectionOn(c) \in 0 .. NRuns /\ (page = "dashboard" => SelectionOn(c) = 0)
    BY InvFacts, SelectionFits
<1>3. c = [cache EXCEPT ![k] = Answered(cache[k])]
    OBVIOUS
<1> HIDE DEF c
<1>4. Counted
    BY <1>1, InvFacts, NoStepCounts
<1>5. /\ Kept /\ page' = page /\ activeProject' = activeProject
      /\ selected' = SelectionOn(c) /\ cache' = c
      /\ gpuChoice' \in 0 .. NGpus /\ GpuChosenIsCandidate'
    BY <1>1, <1>2, <1>4, InvFacts, FollowKeeps
<1>6. CacheOK' /\ CacheTyped'
    <2>1. /\ IsEntry(Answered(cache[k])) /\ Answered(cache[k]).data = cache[k].flight
          /\ ~Answered(cache[k]).stale /\ Answered(cache[k]).flight = {}
        BY EntriesAnswered
    <2>2. \A v \in cache[k].flight : TrueAnswer(k, v)
        BY InvFacts, FlightIsTrue
    <2> QED BY <1>1, <1>3, <1>5, <2>1, <2>2, InvFacts, CacheAnswered
<1> QED BY <1>1, <1>2, <1>5, <1>6, InvFacts, PageGoes

LEMMA BrowseKeeps == ASSUME RunsInv, Browse PROVE RunsInv'
BY NavigateKeeps, SetActiveProjectKeeps, SelectRunKeeps, FetchKeeps, FetchAnsweredKeeps
   DEF Browse

-----------------------------------------------------------------------------
(* Clicks. *)

\* a step that changes the page's requests and its dialogs
LEMMA DialogGoes ==
    ASSUME RunsInv, UNCHANGED <<socketVars, serverVars, streamVars, activeProject, page,
                                selected, told>>,
           Counted, resumeOpen' \in BOOLEAN, resumeOpen' => page = "runs",
           gpuChoice' \in 0 .. NGpus, GpuChosenIsCandidate',
           \A c \in calls' : RequestOK(c) /\ (c.bound => page = "runs")
    PROVE  RunsInv'
<1>1. Kept
    BY InvFacts, ApartKeeps
<1>2. CacheOK' /\ CacheTyped'
    BY InvFacts, CacheStays DEF serverVars, streamVars
<1> QED BY <1>1, <1>2, InvFacts, PageGoes DEF serverVars, streamVars

\* a request is sent by the runs page, about a run unless it creates one
LEMMA SendKeeps ==
    ASSUME RunsInv, page = "runs", resumeOpen' \in BOOLEAN,
           NEW kind \in CallKinds, NEW r \in 0 .. NRuns, NEW gpu \in 0 .. NGpus,
           kind \notin {"save", "create"} => r \in Runs, kind = "accept" => gpu \in 1 .. NGpus,
           Send(kind, r, gpu)
    PROVE  RunsInv'
<1> DEFINE new == [kind |-> kind, project |-> activeProject, run |-> r, gpu |-> gpu,
                   bound |-> TRUE, selected |-> selected, id |-> steps,
                   answer |-> "none", new |-> 0]
<1>1. /\ UNCHANGED <<socketVars, serverVars, streamVars, activeProject, page,
                     selected, gpuChoice, told>>
      /\ Step
      /\ calls' = {[c EXCEPT !.bound = c.bound /\ c.kind # kind] : c \in calls} \cup {new}
    BY DEF Send
<1>2. RequestOK(new)
    <2>1. steps \in Nat
        BY InvFacts DEF SocketOK, SocketType, SocketAssumption
    <2> QED BY <2>1, InvFacts DEF RequestOK, Requests
<1>3. \A c \in calls : RequestOK([c EXCEPT !.bound = c.bound /\ c.kind # kind])
    <2> TAKE c \in calls
    <2>1. RequestOK(c) /\ (c.bound /\ c.kind # kind) \in BOOLEAN
        BY InvFacts
    <2> QED BY <2>1, UnboundRequest
<1> HIDE DEF new
<1>4. \A c \in calls' : RequestOK(c)
    BY <1>1, <1>2, <1>3
<1>5. Counted
    BY <1>1, InvFacts, StepCounts
<1>6. GpuChosenIsCandidate'
    BY <1>1, InvFacts DEF GpuChosenIsCandidate, DialogOpen, streamVars
<1> QED BY <1>1, <1>4, <1>5, <1>6, InvFacts, DialogGoes

LEMMA SelectedIsRun ==
    ASSUME RunsInv, selected # 0 PROVE selected \in Runs
BY InvFacts DEF Runs, ServerAssumption

\* the dialog is open for a proposal of the run in front
LEMMA DialogFacts ==
    ASSUME RunsInv, DialogOpen
    PROVE  /\ page = "runs" /\ selected \in Runs
           /\ ProposedGpus(proposals[selected]) \subseteq 1 .. NGpus
<1>1. page = "runs" /\ selected \in Runs
    BY SelectedIsRun DEF DialogOpen
<1>2. proposals[selected] \in 0 .. NGpus
    BY <1>1, InvFacts DEF ViewTyped, StreamType
<1>3. CASE ProposedGpus(proposals[selected]) = {}
    BY <1>1, <1>3
<1> QED BY <1>1, <1>2, <1>3, FirstIsProposed

\* a proposal is dropped, with what was chosen for it
LEMMA ProposalGone ==
    ASSUME RunsInv, Kept, UNCHANGED <<row, store, told, activeProject, page, selected,
                                      resumeOpen>>,
           CacheOK', CacheTyped', calls' \subseteq calls,
           NEW r \in Runs, proposals' = [proposals EXCEPT ![r] = 0],
           gpuChoice' = IF r = selected THEN 0 ELSE gpuChoice
    PROVE  RunsInv'
<1>1. /\ proposals \in [Runs -> 0 .. NGpus] /\ NGpus \in Nat
      /\ \A q \in Runs : proposals[q] # 0 => ProposedGpus(proposals[q]) # {}
    BY DEF RunsInv, ViewOK, ViewTyped, StreamType, ChoiceOK, ServerAssumption
<1>2. /\ proposals' \in [Runs -> 0 .. NGpus]
      /\ \A q \in Runs : proposals'[q] # 0 => ProposedGpus(proposals'[q]) # {}
      /\ proposals'[r] = 0 /\ \A q \in Runs \ {r} : proposals'[q] = proposals[q]
    BY <1>1
<1>3. GpuChosenIsCandidate' /\ gpuChoice' \in 0 .. NGpus
    <2>1. CASE r = selected
        BY <1>1, <1>2, <2>1 DEF GpuChosenIsCandidate, DialogOpen
    <2>2. CASE r # selected
        <3>1. selected # 0 => selected \in Runs \ {r}
            BY <2>2, SelectedIsRun
        <3>2. DialogOpen' <=> DialogOpen
            BY <1>2, <3>1 DEF DialogOpen
        <3>3. DialogOpen => proposals'[selected] = proposals[selected]
            BY <1>2, <3>1 DEF DialogOpen
        <3>4. gpuChoice' = gpuChoice
            BY <2>2
        <3>5. GpuChosenIsCandidate /\ gpuChoice \in 0 .. NGpus
            BY InvFacts
        <3> QED BY <3>2, <3>3, <3>4, <3>5 DEF GpuChosenIsCandidate
    <2> QED BY <2>1, <2>2
<1>4. ServerOK'
    BY InvFacts, ServerStays
<1>5. ViewTyped'
    BY <1>2, <1>3, InvFacts DEF ViewTyped, StreamType, RequestOK, CacheTyped
<1>6. StoreOK'
    BY DEF RunsInv, ViewOK, StoreOK, OwnEventsOnly
<1>7. ChoiceOK'
    BY <1>2, <1>3 DEF RunsInv, ViewOK, ChoiceOK
<1> QED BY <1>4, <1>5, <1>6, <1>7 DEF RunsInv, ViewOK

LEMMA ClickKeeps == ASSUME RunsInv, Click PROVE RunsInv'
<1> DEFINE Rest == UNCHANGED <<socketVars, serverVars, streamVars, activeProject, page,
                               selected, told>>
<1>1. CASE HandleStartRun
    <2>1. PICK gpu \in StartGpus, kind \in {"save", "create"} : Send(kind, 0, gpu)
        BY <1>1 DEF HandleStartRun
    <2>2. page = "runs" /\ resumeOpen' = resumeOpen
        BY <1>1 DEF HandleStartRun
    <2>3. kind \in CallKinds /\ 0 \in 0 .. NRuns /\ gpu \in 0 .. NGpus
        BY DEF CallKinds, ServerAssumption
    <2> QED BY <2>1, <2>2, <2>3, InvFacts, SendKeeps
<1>2. ASSUME NEW r \in Runs, HandleDeleteRun(r) PROVE RunsInv'
    <2>1. Send("delete", r, 0) /\ page = "runs" /\ resumeOpen' = resumeOpen
        BY <1>2 DEF HandleDeleteRun, OffersDelete
    <2>2. "delete" \in CallKinds /\ r \in 0 .. NRuns /\ 0 \in 0 .. NGpus
        BY DEF CallKinds, ServerAssumption, Runs
    <2> QED BY <2>1, <2>2, InvFacts, SendKeeps
<1>3. ASSUME NEW kind \in {"cancel", "pause", "resume"}, Offers(kind),
             Send(kind, selected, 0), resumeOpen' = resumeOpen
      PROVE  RunsInv'
    <2>1. page = "runs" /\ selected \in Runs
        BY <1>3 DEF Offers, Listed
    <2>2. kind \in CallKinds /\ kind # "accept" /\ 0 \in 0 .. NGpus
        BY DEF CallKinds, ServerAssumption
    <2> QED BY <1>3, <2>1, <2>2, InvFacts, SendKeeps
<1>4. CASE HandleCancelSelected
    BY <1>3, <1>4 DEF HandleCancelSelected
<1>5. CASE HandlePauseSelected
    BY <1>3, <1>5 DEF HandlePauseSelected
<1>6. ASSUME Rest, UNCHANGED <<steps, calls, gpuChoice>>, resumeOpen' \in BOOLEAN,
             page = "runs"
      PROVE  RunsInv'
    <2>1. Counted
        BY <1>6, InvFacts, NoStepCounts
    <2>2. GpuChosenIsCandidate'
        BY <1>6, InvFacts DEF GpuChosenIsCandidate, DialogOpen, streamVars
    <2> QED BY <1>6, <2>1, <2>2, InvFacts, DialogGoes
<1>7. CASE HandleResumeSelected
    <2>1. CASE AllCheckpoints = 0
        BY <1>3, <1>7, <2>1 DEF HandleResumeSelected
    <2>2. CASE AllCheckpoints # 0
        BY <1>6, <1>7, <2>2 DEF HandleResumeSelected, Offers
    <2> QED BY <2>1, <2>2
<1>8. CASE SelectCheckpoint
    BY <1>6, <1>8 DEF SelectCheckpoint
<1>9. CASE HandleResumeFromCheckpoint
    <2>1. /\ Send("resume", selected, 0) /\ page = "runs" /\ resumeOpen' = resumeOpen
          /\ selected \in Runs
        BY <1>9, InvFacts, SelectedIsRun DEF HandleResumeFromCheckpoint
    <2>2. "resume" \in CallKinds /\ 0 \in 0 .. NGpus
        BY DEF CallKinds, ServerAssumption
    <2> QED BY <2>1, <2>2, InvFacts, SendKeeps
<1>10. CASE CloseResumeDialog
    BY <1>6, <1>10, InvFacts DEF CloseResumeDialog
<1>11. CASE HandleAccept
    <2>1. /\ Send("accept", selected, gpuChoice) /\ page = "runs"
          /\ resumeOpen' = resumeOpen /\ selected \in Runs
        BY <1>11, DialogFacts DEF HandleAccept
    <2>2. gpuChoice \in 1 .. NGpus
        BY <1>11, InvFacts DEF HandleAccept, ServerAssumption
    <2>3. "accept" \in CallKinds
        BY DEF CallKinds
    <2> QED BY <2>1, <2>2, <2>3, InvFacts, SendKeeps
<1>12. CASE HandleDecline
    <2>1. /\ Send("decline", selected, 0) /\ page = "runs"
          /\ resumeOpen' = resumeOpen /\ selected \in Runs
        BY <1>12, DialogFacts DEF HandleDecline
    <2>2. "decline" \in CallKinds /\ 0 \in 0 .. NGpus
        BY DEF CallKinds, ServerAssumption
    <2> QED BY <2>1, <2>2, InvFacts, SendKeeps
<1>13. ASSUME NEW gpu \in 1 .. NGpus, ChooseGpu(gpu) PROVE RunsInv'
    <2>1. /\ DialogOpen /\ gpu \in ProposedGpus(proposals[selected]) /\ gpuChoice' = gpu
          /\ Rest /\ UNCHANGED <<steps, calls, resumeOpen>>
        BY <1>13 DEF ChooseGpu
    <2>2. Counted
        BY <2>1, InvFacts, NoStepCounts
    <2>3. GpuChosenIsCandidate'
        BY <2>1 DEF GpuChosenIsCandidate, DialogOpen, streamVars
    <2>4. gpuChoice' \in 0 .. NGpus
        BY <2>1 DEF ServerAssumption
    <2> QED BY <2>1, <2>2, <2>3, <2>4, InvFacts, DialogGoes
<1>14. CASE CloseFallbackDialog
    <2>1. /\ proposals' = [proposals EXCEPT ![selected] = 0] /\ gpuChoice' = 0
          /\ UNCHANGED <<socketVars, row, store, cache, activeProject, page,
                         selected, resumeOpen, calls, told, steps>>
        BY <1>14 DEF CloseFallbackDialog, ClearFallbackProposal, serverVars
    <2>2. CacheOK' /\ CacheTyped' /\ Kept
        BY <2>1, InvFacts, CacheStays, NoStepCounts, ApartKeeps
    <2>3. DialogOpen /\ selected \in Runs /\ calls' \subseteq calls
        BY <1>14, <2>1, DialogFacts DEF CloseFallbackDialog
    <2>4. gpuChoice' = IF selected = selected THEN 0 ELSE gpuChoice
        BY <2>1
    <2> QED BY <2>1, <2>2, <2>3, <2>4, ProposalGone
<1> QED BY <1>1, <1>2, <1>4, <1>5, <1>7, <1>8, <1>9, <1>10, <1>11, <1>12, <1>13, <1>14
        DEF Click

-----------------------------------------------------------------------------
(* Requests and their answers. *)

LEMMA HandleKeeps ==
    ASSUME RunsInv, NEW c \in calls, Handle(c) PROVE RunsInv'
<1> DEFINE ok == c.project = Home /\ Accepted(c.kind, c.run, c.gpu)
           new == IF ok /\ c.kind = "create" THEN LeastNew(row) ELSE 0
           answered == [c EXCEPT !.answer = IF ok THEN "ok" ELSE "refused", !.new = new]
<1>1. /\ row' = IF ok THEN AfterRequest(c.kind, c.run, c.gpu) ELSE row
      /\ sock' = IF ok THEN AfterPublish(c.kind, c.run) ELSE sock
      /\ calls' = (calls \ {c}) \cup {answered} /\ Room(c.kind)
      /\ UNCHANGED <<socket, wsProject, wsChannels, reconnects, steps, streamVars,
                     activeProject, page, selected, resumeOpen, gpuChoice, told>>
    BY DEF Handle
<1>2. RequestOK(c) /\ (c.bound => page = "runs")
    BY InvFacts
<1>3. ServerKeeps
    <2>1. CASE ok
        BY <1>1, <1>2, <2>1, InvFacts, RequestKeeps
    <2>2. CASE ~ok
        <3>1. UNCHANGED <<row, socketVars>>
            BY <1>1, <2>2 DEF socketVars
        <3>2. Kept
            BY <1>1, <3>1, InvFacts, NoStepCounts, ApartKeeps
        <3> QED BY <3>1, <3>2, InvFacts, ServerStays, SameIsGrown DEF ServerKeeps, Onward
    <2> QED BY <2>1, <2>2
<1>4. new \in 0 .. NRuns
    <2>1. ok /\ c.kind = "create" => NewRun(row) # {}
        BY <1>1 DEF Room
    <2> QED BY <2>1, InvFacts, LeastNewIsNew DEF Runs, ServerAssumption
<1> HIDE DEF new, ok
<1>5. RequestOK(answered) /\ (answered.bound => page = "runs")
    BY <1>2, <1>4 DEF RequestOK, Requests
<1> HIDE DEF answered
<1>6. \A d \in calls' : RequestOK(d) /\ (d.bound => page = "runs")
    BY <1>1, <1>5, InvFacts
<1> QED BY <1>1, <1>3, <1>6, RowsGo

LEMMA RespondKeeps ==
    ASSUME RunsInv, NEW c \in calls, Respond(c) PROVE RunsInv'
<1> DEFINE ok == c.answer = "ok"
           invalid == IF ok THEN InvalidatedAll(cache, Keys, ActiveKeys) ELSE cache
           sel == AutoSelect(SelectionAfter(c), ListIn(invalid, activeProject))
<1>1. calls' \subseteq calls /\ UNCHANGED <<row, store, proposals, told, steps>>
    BY DEF Respond, serverVars
<1>2. Counted
    BY <1>1, InvFacts, NoStepCounts
<1>3. RequestOK(c) /\ (c.bound => page = "runs")
    BY InvFacts
<1>4. cache' = invalid
    BY DEF Respond, Follow
<1>5. CacheOK' /\ CacheTyped'
    BY <1>1, <1>4, InvFacts, CacheStays, CacheInvalidated
<1>6. CASE ok /\ c.bound
    <2>1. Follow(page, activeProject, sel, invalid)
          /\ resumeOpen' = (resumeOpen /\ c.kind # "resume")
        BY <1>6 DEF Respond
    <2>2. SelectionAfter(c) \in 0 .. NRuns
        BY <1>3, InvFacts DEF SelectionAfter, RequestOK, Requests
    <2>3. sel \in 0 .. NRuns
        BY <2>2, AutoSelectIsRun
    <2> HIDE DEF sel, invalid
    <2>4. page # "dashboard"
        BY <1>3, <1>6
    <2>5. /\ Kept /\ page' = page /\ activeProject' = activeProject /\ selected' = sel
          /\ gpuChoice' \in 0 .. NGpus /\ GpuChosenIsCandidate'
        BY <1>1, <1>2, <2>1, <2>3, <2>4, InvFacts, FollowKeeps
    <2> QED BY <1>1, <1>5, <2>1, <2>3, <2>4, <2>5, InvFacts, PageGoes
<1>7. CASE ~(ok /\ c.bound)
    <2>1. UNCHANGED <<socketVars, activeProject, page, selected, resumeOpen, gpuChoice>>
        BY <1>7 DEF Respond
    <2>2. Kept
        BY <1>2, <2>1, InvFacts, ApartKeeps
    <2>3. GpuChosenIsCandidate'
        BY <1>1, <2>1, InvFacts DEF GpuChosenIsCandidate, DialogOpen
    <2> QED BY <1>1, <1>5, <2>1, <2>2, <2>3, InvFacts, PageGoes
<1> QED BY <1>6, <1>7

LEMMA RespondFallbackKeeps ==
    ASSUME RunsInv, NEW c \in calls, c.kind \in {"accept", "decline"}, RespondFallback(c)
    PROVE  RunsInv'
<1> DEFINE ok == c.answer = "ok"
<1>1. /\ calls' \subseteq calls
      /\ cache' = IF ok THEN InvalidatedAll(cache, Keys, ActiveKeys) ELSE cache
      /\ proposals' = IF ok /\ c.bound THEN [proposals EXCEPT ![c.run] = 0] ELSE proposals
      /\ gpuChoice' = IF proposals' # proposals /\ c.run = selected THEN 0 ELSE gpuChoice
      /\ UNCHANGED <<socketVars, row, store, activeProject, page, selected, resumeOpen,
                     told, steps>>
    BY DEF RespondFallback, ClearFallbackProposal, serverVars
<1>2. c.run \in Runs
    BY InvFacts DEF RequestOK
<1>3. CacheOK' /\ CacheTyped'
    BY <1>1, InvFacts, CacheStays, CacheInvalidated
<1>4. Kept
    BY <1>1, InvFacts, NoStepCounts, ApartKeeps
<1> HIDE DEF ok
<1>5. CASE proposals' = proposals
    <2>1. gpuChoice' = gpuChoice
        BY <1>1, <1>5
    <2>2. GpuChosenIsCandidate'
        BY <1>1, <1>5, <2>1, InvFacts DEF GpuChosenIsCandidate, DialogOpen
    <2> QED BY <1>1, <1>3, <1>4, <1>5, <2>1, <2>2, InvFacts, PageGoes
<1>6. CASE proposals' # proposals
    <2>1. /\ proposals' = [proposals EXCEPT ![c.run] = 0]
          /\ gpuChoice' = IF c.run = selected THEN 0 ELSE gpuChoice
        BY <1>1, <1>6
    <2> QED BY <1>1, <1>2, <1>3, <1>4, <2>1, InvFacts, ProposalGone
<1> QED BY <1>5, <1>6

\* a saved configuration is followed by the create
LEMMA RespondSaveKeeps ==
    ASSUME RunsInv, NEW c \in calls, c.kind = "save", RespondSave(c) PROVE RunsInv'
<1> DEFINE create == [c EXCEPT !.kind = "create", !.answer = "none"]
           Unbound(d) == [d EXCEPT !.bound = d.bound /\ d.kind # "create"]
<1>1. /\ \/ calls' = {Unbound(d) : d \in calls \ {c}} \cup {create}
         \/ calls' = calls \ {c}
      /\ UNCHANGED <<socketVars, serverVars, streamVars, activeProject, page, selected,
                     resumeOpen, gpuChoice, told, steps>>
    BY DEF RespondSave
<1>2. \A d \in calls : RequestOK(d) /\ (d.bound => page = "runs") /\ d.bound \in BOOLEAN
    BY InvFacts DEF RequestOK, Requests
<1>3. RequestOK(create) /\ create.bound = c.bound
    BY <1>2 DEF RequestOK, Requests, CallKinds
<1> HIDE DEF create
<1>4. \A d \in calls \ {c} : RequestOK(Unbound(d)) /\ (Unbound(d).bound => page = "runs")
    BY <1>2, UnboundRequest
<1> HIDE DEF Unbound
<1>5. \A d \in calls' : RequestOK(d) /\ (d.bound => page = "runs")
    BY <1>1, <1>2, <1>3, <1>4
<1>6. Counted
    BY <1>1, InvFacts, NoStepCounts
<1>7. GpuChosenIsCandidate'
    BY <1>1, InvFacts DEF GpuChosenIsCandidate, DialogOpen, streamVars
<1> QED BY <1>1, <1>5, <1>6, <1>7, InvFacts, DialogGoes

LEMMA ClientRequestKeeps == ASSUME RunsInv, Request PROVE RunsInv'
BY HandleKeeps, RespondKeeps, RespondFallbackKeeps, RespondSaveKeeps DEF Request

-----------------------------------------------------------------------------
(* A frame arrives. *)

\* the latest n of a sequence are some of it
LEMMA LastOnes ==
    ASSUME NEW S, NEW q \in Seq(S), NEW n \in Nat
    PROVE  /\ LastN(q, n) \in Seq(S)
           /\ \A i \in DOMAIN LastN(q, n) : \E j \in DOMAIN q : LastN(q, n)[i] = q[j]
<1>1. CASE Len(q) > n
    <2> DEFINE a == Len(q) - n + 1
    <2>1. a \in 1 .. Len(q) + 1 /\ Len(q) \in Nat
        BY <1>1
    <2>2. LastN(q, n) = SubSeq(q, a, Len(q))
        BY <1>1 DEF LastN
    <2> HIDE DEF a
    <2>3. a \in Int /\ Len(q) \in Int /\ \A i \in a .. Len(q) : i \in DOMAIN q /\ q[i] \in S
        BY <2>1
    <2>4. /\ LastN(q, n) \in Seq(S)
          /\ Len(LastN(q, n)) = IF a <= Len(q) THEN Len(q) - a + 1 ELSE 0
          /\ \A i \in 1 .. Len(q) - a + 1 : LastN(q, n)[i] = q[a + i - 1]
        BY <2>2, <2>3, SubSeqProperties
    <2>5. \A i \in DOMAIN LastN(q, n) : /\ i \in 1 .. Len(q) - a + 1
                                       /\ a + i - 1 \in DOMAIN q
        BY <2>1, <2>4
    <2> QED BY <2>4, <2>5
<1>2. CASE ~(Len(q) > n)
    BY <1>2 DEF LastN
<1> QED BY <1>1, <1>2

\* an event of the run in front is stored with that run, and is true of it
LEMMA StoreHandled ==
    ASSUME RunsInv, NEW r \in Runs, NEW e \in Events, TrueOf(e, row), e.about = r,
           UNCHANGED row, store' = HandledStore(store, r, e)
    PROVE  /\ store' \in [Runs -> [metrics : Seq(Points), ckpts : Seq(Points),
                                   progress : 0 .. NSteps]]
           /\ StoreOK'
<1> DEFINE Data == [metrics : Seq(Points), ckpts : Seq(Points), progress : 0 .. NSteps]
           point == [run |-> e.about, step |-> e.n]
<1> SUFFICES store' \in [Runs -> Data] /\ StoreOK'
    OBVIOUS
<1>1. store \in [Runs -> Data]
    BY DEF RunsInv, ViewOK, ViewTyped, StreamType
<1>2. StoreOK
    BY DEF RunsInv, ViewOK
<1>3. ASSUME NEW new \in Data, store' = [store EXCEPT ![r] = new],
             \A i \in DOMAIN new.metrics :
                /\ new.metrics[i].run = r
                /\ row[r].status = "deleted" \/ new.metrics[i].step \in row[r].metrics,
             \A i \in DOMAIN new.ckpts :
                /\ new.ckpts[i].run = r
                /\ \/ row[r].status = "deleted"
                   \/ new.ckpts[i].step \in row[r].kept \cup row[r].pruned
      PROVE  store' \in [Runs -> Data] /\ StoreOK'
    <2> HIDE DEF Data
    <2>1. store'[r] = new /\ \A q \in Runs \ {r} : store'[q] = store[q]
        BY <1>1, <1>3
    <2>2. store' \in [Runs -> Data]
        BY <1>1, <1>3
    <2> QED BY <1>2, <1>3, <2>1, <2>2 DEF StoreOK, OwnEventsOnly
<1>4. store[r] \in Data
    BY <1>1
<1>5. \A i \in DOMAIN store[r].metrics :
        /\ store[r].metrics[i].run = r
        /\ row[r].status = "deleted" \/ store[r].metrics[i].step \in row[r].metrics
    BY <1>2 DEF StoreOK, OwnEventsOnly
<1>6. \A i \in DOMAIN store[r].ckpts :
        /\ store[r].ckpts[i].run = r
        /\ \/ row[r].status = "deleted"
           \/ store[r].ckpts[i].step \in row[r].kept \cup row[r].pruned
    BY <1>2 DEF StoreOK, OwnEventsOnly
<1>7. CASE e.event = "metric_recorded"
    <2> DEFINE q == Append(store[r].metrics, point)
               new == [store[r] EXCEPT !.metrics = LastN(q, MaxLive)]
    <2>1. store' = [store EXCEPT ![r] = new]
        BY <1>1, <1>7 DEF HandledStore, AppendMetricPoints
    <2>2. point \in Points /\ point.run = r /\ point.step = e.n
        BY <1>7 DEF TrueOf, Points
    <2>3. store[r].metrics \in Seq(Points)
        BY <1>4
    <2> HIDE DEF point
    <2>4. q \in Seq(Points) /\ MaxLive \in Nat
        BY <2>2, <2>3 DEF StreamAssumption
    <2>5. \A i \in DOMAIN q : q[i] = point \/ (i \in DOMAIN store[r].metrics
                                               /\ q[i] = store[r].metrics[i])
        BY <2>2, <2>3
    <2>6. row[r].status = "deleted" \/ e.n \in row[r].metrics
        BY <1>7 DEF TrueOf
    <2>7. \A i \in DOMAIN q :
            /\ q[i].run = r
            /\ row[r].status = "deleted" \/ q[i].step \in row[r].metrics
        BY <1>5, <2>2, <2>5, <2>6
    <2> HIDE DEF q
    <2>8. /\ LastN(q, MaxLive) \in Seq(Points)
          /\ \A i \in DOMAIN LastN(q, MaxLive) :
                \E j \in DOMAIN q : LastN(q, MaxLive)[i] = q[j]
        BY <2>4, LastOnes
    <2>9. /\ new \in Data /\ new.metrics = LastN(q, MaxLive)
          /\ new.ckpts = store[r].ckpts
        BY <1>4, <2>8
    <2> HIDE DEF new, Data
    <2>10. \A i \in DOMAIN new.metrics :
            /\ new.metrics[i].run = r
            /\ row[r].status = "deleted" \/ new.metrics[i].step \in row[r].metrics
        BY <2>7, <2>8, <2>9
    <2>11. \A i \in DOMAIN new.ckpts :
            /\ new.ckpts[i].run = r
            /\ \/ row[r].status = "deleted"
               \/ new.ckpts[i].step \in row[r].kept \cup row[r].pruned
        BY <1>6, <2>9
    <2> QED BY <1>3, <2>1, <2>9, <2>10, <2>11
<1>8. CASE e.event = "checkpoint_saved"
    <2> DEFINE q == Append(store[r].ckpts, point)
               new == [store[r] EXCEPT !.ckpts = q]
    <2>1. store' = [store EXCEPT ![r] = new]
        BY <1>1, <1>8 DEF HandledStore, AppendCheckpoint
    <2>2. /\ point \in Points /\ point.run = r
          /\ row[r].status = "deleted" \/ point.step \in row[r].kept \cup row[r].pruned
        BY <1>8 DEF TrueOf, Points
    <2>3. store[r].ckpts \in Seq(Points)
        BY <1>4
    <2> HIDE DEF point
    <2>4. q \in Seq(Points)
        BY <2>2, <2>3
    <2>5. \A i \in DOMAIN q : q[i] = point \/ (i \in DOMAIN store[r].ckpts
                                               /\ q[i] = store[r].ckpts[i])
        BY <2>2, <2>3
    <2>6. \A i \in DOMAIN q :
            /\ q[i].run = r
            /\ \/ row[r].status = "deleted"
               \/ q[i].step \in row[r].kept \cup row[r].pruned
        BY <1>6, <2>2, <2>5
    <2> HIDE DEF q
    <2>7. new \in Data /\ new.ckpts = q /\ new.metrics = store[r].metrics
        BY <1>4, <2>4
    <2> HIDE DEF new, Data
    <2> QED BY <1>3, <1>5, <2>1, <2>6, <2>7
<1>9. CASE e.event = "progress_update"
    <2> DEFINE new == [store[r] EXCEPT !.progress = e.n]
    <2>1. store' = [store EXCEPT ![r] = new]
        BY <1>1, <1>9 DEF HandledStore, SetProgress
    <2>2. e.n \in 0 .. NSteps
        BY <1>9 DEF TrueOf, Steps, ServerAssumption
    <2>3. new \in Data /\ new.ckpts = store[r].ckpts /\ new.metrics = store[r].metrics
        BY <1>4, <2>2
    <2> HIDE DEF new, Data
    <2> QED BY <1>3, <1>5, <1>6, <2>1, <2>3
<1>10. CASE e.event \notin {"metric_recorded", "checkpoint_saved", "progress_update"}
    <2>1. store' = store
        BY <1>10 DEF HandledStore
    <2> QED BY <1>1, <1>2, <2>1 DEF StoreOK, OwnEventsOnly
<1> QED BY <1>7, <1>8, <1>9, <1>10

\* what the page is told, it is told with its answers marked and its requests
\* dropped
LEMMA CacheTold ==
    ASSUME ViewOK, UNCHANGED row, NEW r \in Runs, NEW N \in SUBSET (0 .. NSteps),
           told' = [told EXCEPT ![r] = @ \cup N],
           \A k \in Keys : /\ cache'[k].data = cache[k].data
                           /\ cache'[k].flight \subseteq cache[k].flight
                           /\ cache[k].stale => cache'[k].stale,
           \A n \in N \ {Ended} :
                /\ row[r].status = "deleted" \/ n \in row[r].kept \cup row[r].pruned
                /\ cache'[<<"checkpoints", r>>].stale
                /\ cache'[<<"checkpoints", r>>].flight = {},
           Ended \in N => /\ Final(row[r])
                          /\ cache'[ListKey].stale /\ cache'[ListKey].flight = {}
    PROVE  CacheOK' /\ told' \in [Runs -> SUBSET (0 .. NSteps)]
<1>1. told \in [Runs -> SUBSET (0 .. NSteps)]
    BY DEF ViewOK, ViewTyped
<1>2. told' \in [Runs -> SUBSET (0 .. NSteps)]
      /\ \A q \in Runs : told'[q] = IF q = r THEN told[q] \cup N ELSE told[q]
    BY <1>1
<1>3. \A q \in Runs : \A k \in told'[q] : k \in told[q] \/ (q = r /\ k \in N)
    BY <1>2
<1>4. AnswersOK'
    BY KeyFacts DEF ViewOK, CacheOK, AnswersOK
<1>5. ToldOK'
    BY <1>3 DEF ViewOK, CacheOK, ToldOK
<1>6. FlightsOK'
    <2> SUFFICES ASSUME NEW q \in Runs
                 PROVE  /\ \A k \in told'[q] \ {Ended} : \A v \in cache'[<<"checkpoints", q>>].flight :
                                k \in v.kept \cup v.pruned \/ row[q].status = "deleted"
                        /\ Ended \in told'[q] =>
                                \A v \in cache'[ListKey].flight : v[q] \in Terminal \cup NoRow
        BY DEF FlightsOK
    <2> QED BY <1>3, KeyFacts DEF ViewOK, CacheOK, FlightsOK
<1>7. EventsInvalidate'
    <2> SUFFICES ASSUME NEW q \in Runs
                 PROVE  /\ \A k \in told'[q] \ {Ended} :
                            \/ cache'[<<"checkpoints", q>>].stale
                            \/ \A v \in cache'[<<"checkpoints", q>>].data :
                                k \in v.kept \cup v.pruned \/ row[q].status = "deleted"
                        /\ Ended \in told'[q] =>
                            \/ cache'[ListKey].stale
                            \/ \A v \in cache'[ListKey].data : v[q] \in Terminal \cup NoRow
        BY DEF EventsInvalidate
    <2> QED BY <1>3, KeyFacts DEF ViewOK, CacheOK, EventsInvalidate
<1> QED BY <1>2, <1>4, <1>5, <1>6, <1>7 DEF CacheOK

\* the handler of an event of run r, which the page follows
LEMMA HandledCache ==
    ASSUME RunsInv, NEW r \in Runs, NEW e \in Events, TrueOf(e, row), e.about = r,
           UNCHANGED row,
           cache' = InvalidatedAll(cache, IF activeProject = Home THEN HandledKeys(r, e)
                                          ELSE {}, ActiveKeys),
           told' = [told EXCEPT ![r] = @ \cup ToldBy(e, r)]
    PROVE  /\ CacheOK' /\ CacheTyped' /\ told' \in [Runs -> SUBSET (0 .. NSteps)]
<1> DEFINE keys == IF activeProject = Home THEN HandledKeys(r, e) ELSE {}
<1>1. CacheTyped
    BY InvFacts
<1>2. \A k \in Keys :
        /\ IsEntry(cache'[k])
        /\ cache'[k].data = cache[k].data /\ cache'[k].flight \subseteq cache[k].flight
        /\ cache[k].stale => cache'[k].stale
        /\ cache[k].data = NoAnswer => cache'[k] = cache[k]
        /\ k \in keys /\ cache[k].data # NoAnswer => cache'[k].stale
        /\ k \in keys /\ k \in ActiveKeys /\ cache[k].data # NoAnswer =>
                cache'[k].flight = NoAnswer
    BY <1>1, InvalidatedEntries DEF CacheTyped
<1>3. DOMAIN cache' = Keys
    BY <1>1 DEF InvalidatedAll, CacheTyped
<1>4. CacheTyped'
    BY <1>1, <1>2, <1>3 DEF CacheTyped
<1>5. ToldBy(e, r) \in SUBSET (0 .. NSteps)
    BY DEF ToldBy
<1>6. \A n \in ToldBy(e, r) \ {Ended} :
        /\ row[r].status = "deleted" \/ n \in row[r].kept \cup row[r].pruned
        /\ cache'[<<"checkpoints", r>>].stale
        /\ cache'[<<"checkpoints", r>>].flight = {}
    <2> TAKE n \in ToldBy(e, r) \ {Ended}
    <2> DEFINE k == <<"checkpoints", r>>
    <2>1. /\ e.event = "retention_applied" /\ n = e.n
          /\ activeProject = Home /\ k \in ActiveKeys /\ cache[k].data # NoAnswer
        BY DEF ToldBy, Ended
    <2>2. k \in keys /\ k \in Keys
        BY <2>1, KeyFacts DEF HandledKeys, EndingEvents, InvalidatingEvents
    <2> HIDE DEF k, keys
    <2>3. cache'[k].stale /\ cache'[k].flight = {}
        BY <1>2, <2>1, <2>2 DEF NoAnswer
    <2> QED BY <2>1, <2>3 DEF TrueOf, k
<1>7. Ended \in ToldBy(e, r) => /\ Final(row[r])
                                /\ cache'[ListKey].stale /\ cache'[ListKey].flight = {}
    <2> SUFFICES ASSUME Ended \in ToldBy(e, r)
                 PROVE  Final(row[r]) /\ cache'[ListKey].stale /\ cache'[ListKey].flight = {}
        OBVIOUS
    <2>1. /\ e.event \in EndingEvents
          /\ activeProject = Home /\ ListKey \in ActiveKeys /\ cache[ListKey].data # NoAnswer
        <3>1. ~(e.event = "retention_applied" /\ e.n = Ended)
            BY DEF TrueOf, Ended, Steps
        <3> QED BY <3>1 DEF ToldBy, Ended
    <2>2. ListKey \in keys /\ ListKey \in Keys
        BY <2>1, KeyFacts DEF HandledKeys, EndingEvents, InvalidatingEvents
    <2> HIDE DEF keys
    <2>3. cache'[ListKey].stale /\ cache'[ListKey].flight = {}
        BY <1>2, <2>1, <2>2 DEF NoAnswer
    <2> QED BY <2>1, <2>3 DEF TrueOf
<1>9. \A k \in Keys : /\ cache'[k].data = cache[k].data
                      /\ cache'[k].flight \subseteq cache[k].flight
                      /\ cache[k].stale => cache'[k].stale
    BY <1>2
<1> HIDE DEF keys
<1>8. CacheOK' /\ told' \in [Runs -> SUBSET (0 .. NSteps)]
    BY <1>5, <1>6, <1>7, <1>9, InvFacts, CacheTold
<1> QED BY <1>4, <1>8

LEMMA DeliverKeeps ==
    ASSUME RunsInv, NEW s \in Sockets, Deliver(s) PROVE RunsInv'
<1> DEFINE e == Head(sock[s].queue)
           r == Listener
<1>1. Received(s)
      /\ UNCHANGED <<row, activeProject, page, selected, resumeOpen, calls>>
    BY DEF Deliver, serverVars
<1>2. Kept /\ e \in Queued(sock) \cap Events
    BY <1>1, InvFacts, ReceivedKeeps
<1>3. TrueOf(e, row) /\ e.about \in Runs
    BY <1>2, InvFacts DEF ServerOK, EventsOK, TrueOf
<1>4. r \in 0 .. NRuns /\ (page = "runs" => r = selected)
    BY InvFacts, ListenerIsRun
<1>5. CASE r = 0 \/ ~Passes(e, r)
    <2>1. UNCHANGED <<streamVars, gpuChoice, told>>
        BY <1>5 DEF Deliver
    <2>2. CacheOK' /\ CacheTyped'
        BY <1>1, <2>1, InvFacts, CacheStays DEF streamVars
    <2>3. GpuChosenIsCandidate'
        BY <1>1, <2>1, InvFacts DEF GpuChosenIsCandidate, DialogOpen, streamVars
    <2> QED BY <1>1, <1>2, <2>1, <2>2, <2>3, InvFacts, PageGoes DEF streamVars
<1>6. CASE ~(r = 0 \/ ~Passes(e, r))
    <2>1. /\ store' = HandledStore(store, r, e)
          /\ proposals' = HandledProposals(proposals, r, e)
          /\ cache' = InvalidatedAll(cache, IF activeProject = Home THEN HandledKeys(r, e)
                                            ELSE {}, ActiveKeys)
          /\ gpuChoice' = IF e.event = "fallback_proposed" /\ page = "runs"
                          THEN FirstCandidate(r, proposals') ELSE gpuChoice
          /\ told' = [told EXCEPT ![r] = @ \cup ToldBy(e, r)]
        BY <1>6 DEF Deliver
    <2>2. r \in Runs /\ e.about = r
        BY <1>3, <1>4, <1>6 DEF Runs, Passes, ServerAssumption
    <2> HIDE DEF e, r
    <2>3. e \in Events
        BY <1>2
    <2>4. /\ store' \in [Runs -> [metrics : Seq(Points), ckpts : Seq(Points),
                                  progress : 0 .. NSteps]]
          /\ StoreOK'
        BY <1>1, <1>3, <2>1, <2>2, <2>3, StoreHandled
    <2>5. CacheOK' /\ CacheTyped' /\ told' \in [Runs -> SUBSET (0 .. NSteps)]
        BY <1>1, <1>3, <2>1, <2>2, <2>3, HandledCache
    <2>6. /\ proposals \in [Runs -> 0 .. NGpus] /\ NGpus \in Nat
          /\ \A q \in Runs : proposals[q] # 0 => ProposedGpus(proposals[q]) # {}
        BY DEF RunsInv, ViewOK, ViewTyped, StreamType, ChoiceOK, ServerAssumption
    <2>7. /\ proposals' \in [Runs -> 0 .. NGpus]
          /\ \A q \in Runs : proposals'[q] # 0 => ProposedGpus(proposals'[q]) # {}
          /\ gpuChoice' \in 0 .. NGpus /\ GpuChosenIsCandidate'
        <3>1. CASE e.event = "fallback_proposed"
            <4>1. e.n \in 1 .. NGpus /\ ProposedGpus(e.n) # {}
                BY <1>3, <3>1 DEF TrueOf
            <4>2. proposals' = [proposals EXCEPT ![r] = e.n]
                BY <2>1, <3>1 DEF HandledProposals
            <4>3. /\ proposals' \in [Runs -> 0 .. NGpus] /\ proposals'[r] = e.n
                  /\ \A q \in Runs : proposals'[q] # 0 => ProposedGpus(proposals'[q]) # {}
                <5>1. e.n \in 0 .. NGpus
                    BY <4>1, <2>6
                <5>2. /\ \A q \in Runs : proposals'[q] = IF q = r THEN e.n ELSE proposals[q]
                      /\ proposals' \in [Runs -> 0 .. NGpus]
                    BY <2>6, <4>2, <5>1
                <5> QED BY <2>2, <2>6, <4>1, <5>2
            <4>4. CASE page = "runs"
                <5>1. r = selected /\ r # 0
                    BY <1>4, <1>6, <4>4 DEF r
                <5>2. gpuChoice' = Chain[First(Candidates(Chain, Affordable, e.n))]
                    BY <2>1, <3>1, <4>1, <4>3, <4>4, <5>1 DEF FirstCandidate
                <5>3. gpuChoice' \in ProposedGpus(e.n) /\ gpuChoice' \in 0 .. NGpus
                    BY <2>6, <4>1, <5>2, FirstIsProposed
                <5>4. DialogOpen'
                    BY <1>1, <4>1, <4>3, <4>4, <5>1, InvFacts DEF DialogOpen, SocketAssumption
                <5>5. proposals'[selected'] = e.n
                    BY <1>1, <4>3, <5>1
                <5> QED BY <4>3, <5>3, <5>4, <5>5 DEF GpuChosenIsCandidate
            <4>5. CASE page # "runs"
                <5>1. gpuChoice' = gpuChoice /\ ~DialogOpen' /\ ~DialogOpen
                    BY <1>1, <2>1, <4>5 DEF DialogOpen
                <5> QED BY <4>3, <5>1, InvFacts DEF GpuChosenIsCandidate
            <4> QED BY <4>4, <4>5
        <3>2. CASE e.event # "fallback_proposed"
            <4>1. proposals' = proposals /\ gpuChoice' = gpuChoice
                BY <2>1, <3>2 DEF HandledProposals
            <4> QED BY <1>1, <2>6, <4>1, InvFacts DEF GpuChosenIsCandidate, DialogOpen
        <3> QED BY <3>1, <3>2
    <2>8. ServerOK'
        BY <1>1, <1>2, InvFacts, ServerStays
    <2>9. ViewTyped'
        BY <1>1, <2>4, <2>5, <2>7, InvFacts DEF ViewTyped, StreamType, RequestOK, CacheTyped
    <2>10. ChoiceOK'
        BY <1>1, <2>7 DEF RunsInv, ViewOK, ChoiceOK
    <2> QED BY <2>4, <2>5, <2>8, <2>9, <2>10 DEF RunsInv, ViewOK
<1> QED BY <1>5, <1>6

-----------------------------------------------------------------------------
(* The invariant of the composition. *)

LEMMA NetworkKeeps == ASSUME RunsInv, Network PROVE RunsInv'
<1>1. UNCHANGED <<row, store, proposals, cache, pageVars>>
    BY DEF Network, serverVars, streamVars
<1>2. Kept
    BY InvFacts, OpenedKeeps, HandleSubscribeKeeps, LostKeeps, ReconnectKeeps DEF Network
<1>3. CacheOK' /\ CacheTyped'
    BY <1>1, InvFacts, CacheStays DEF pageVars
<1>4. GpuChosenIsCandidate'
    BY <1>1, InvFacts DEF GpuChosenIsCandidate, DialogOpen, pageVars
<1> QED BY <1>1, <1>2, <1>3, <1>4, InvFacts, PageGoes DEF pageVars

LEMMA StutterKeeps == ASSUME RunsInv, UNCHANGED vars PROVE RunsInv'
<1>1. UNCHANGED <<socketVars, row, store, proposals, cache, pageVars, steps>>
    BY DEF vars, serverVars, streamVars
<1>2. Kept
    BY <1>1, InvFacts, NoStepCounts, ApartKeeps
<1>3. CacheOK' /\ CacheTyped'
    BY <1>1, InvFacts, CacheStays DEF pageVars
<1>4. GpuChosenIsCandidate'
    BY <1>1, InvFacts DEF GpuChosenIsCandidate, DialogOpen, pageVars
<1> QED BY <1>1, <1>2, <1>3, <1>4, InvFacts, PageGoes DEF pageVars

LEMMA RunningGpus == \A r \in Runs : Running[r] \in 0 .. NGpus
<1> SUFFICES ASSUME NEW r \in Runs PROVE Running[r] \in 0 .. NGpus
    OBVIOUS
<1>1. Running[r] \in {0} \cup Affordable
    BY DEF ServerAssumption, Runs
<1>2. Affordable \subseteq 1 .. NGpus /\ NGpus \in Nat
    BY DEF ServerAssumption
<1>3. CASE Running[r] = 0
    BY <1>2, <1>3
<1>4. CASE Running[r] \in Affordable
    <2>1. Running[r] \in 1 .. NGpus
        BY <1>2, <1>4, Zenon
    <2> QED BY <1>2, <2>1
<1> QED BY <1>1, <1>3, <1>4

LEMMA RunsStart == ASSUME Init PROVE RunsInv
<1>1. SocketOK /\ Queued(sock) = {}
    BY SocketStarts DEF Init
<1>2. ServerOK
    <2>1. PICK n \in Runs : row = [r \in Runs |->
                IF r <= n THEN [Absent EXCEPT !.status = "running", !.alive = TRUE,
                                              !.gpu = Running[r]]
                ELSE Absent]
        BY DEF Init, ServerInit
    <2> DEFINE live(r) == [Absent EXCEPT !.status = "running", !.alive = TRUE,
                                         !.gpu = Running[r]]
    <2>2. \A r \in Runs : live(r) \in Rows /\ live(r).status = "running"
        BY RunningGpus, AbsentFacts DEF Rows, RunStatuses
    <2> HIDE DEF live
    <2>3. \A r \in Runs : row[r] \in {live(r), Absent} /\ row \in [Runs -> Rows]
        BY <2>1, <2>2, AbsentFacts DEF live
    <2>4. RowOK(Absent) /\ \A r \in Runs : RowOK(live(r))
        BY <2>2, AbsentFacts DEF RowOK
    <2>5. ServerType /\ RowsOK
        BY <2>1, <2>3, <2>4 DEF ServerType, RowsOK, Runs, ServerAssumption
    <2> QED BY <1>1, <2>5 DEF ServerOK, EventsOK
<1>3. /\ store = [r \in Runs |-> EmptyRunData] /\ proposals = [r \in Runs |-> 0]
      /\ cache = [k \in Keys |-> EmptyEntry]
      /\ activeProject = Home /\ page = "runs" /\ selected = 0 /\ resumeOpen = FALSE
      /\ gpuChoice = 0 /\ calls = {} /\ told = [r \in Runs |-> {}]
    BY DEF Init, StreamInit, PageInit
<1>4. \A k \in Keys : /\ cache[k].data = {} /\ cache[k].flight = {} /\ ~cache[k].stale
                      /\ IsEntry(cache[k])
    BY <1>3 DEF EmptyEntry, NoAnswer, IsEntry
<1>5. EmptyRunData \in [metrics : Seq(Points), ckpts : Seq(Points), progress : 0 .. NSteps]
      /\ DOMAIN EmptyRunData.metrics = {} /\ DOMAIN EmptyRunData.ckpts = {}
    BY DEF EmptyRunData, ServerAssumption
<1>6. ViewTyped
    <2>1. StreamType
        <3> DEFINE Data == [metrics : Seq(Points), ckpts : Seq(Points), progress : 0 .. NSteps]
        <3>1. store \in [Runs -> Data]
            <4> HIDE DEF Data
            <4> QED BY <1>3, <1>5 DEF Data
        <3>2. proposals \in [Runs -> 0 .. NGpus] /\ DOMAIN cache = Keys
            BY <1>3 DEF ServerAssumption
        <3> QED BY <1>4, <3>1, <3>2 DEF StreamType
    <2>2. told \in [Runs -> SUBSET (0 .. NSteps)] /\ 0 \in 0 .. NRuns /\ 0 \in 0 .. NGpus
        BY <1>3 DEF ServerAssumption
    <2> QED BY <1>3, <1>4, <2>1, <2>2 DEF ViewTyped, Pages, ServerAssumption
<1>7. StoreOK
    BY <1>3, <1>5 DEF StoreOK, OwnEventsOnly
<1>8. CacheOK
    BY <1>3, <1>4, KeyFacts DEF CacheOK, AnswersOK, ToldOK, FlightsOK, EventsInvalidate
<1>9. ChoiceOK
    BY <1>3 DEF ChoiceOK, GpuChosenIsCandidate, DialogOpen
<1> QED BY <1>2, <1>6, <1>7, <1>8, <1>9 DEF RunsInv, ViewOK

LEMMA RunsStep == ASSUME RunsInv, [Next]_vars PROVE RunsInv'
<1>1. CASE Trainer
    <2>1. ServerKeeps
        BY <1>1, InvFacts, TrainerKeeps DEF Trainer
    <2> QED BY <1>1, <2>1, InvFacts, RowsGo DEF Trainer, pageVars
<1> QED BY <1>1, NetworkKeeps, BrowseKeeps, ClickKeeps, ClientRequestKeeps, DeliverKeeps,
        StutterKeeps DEF Next

\* the pages that follow runs, their socket and the server's runs keep the
\* invariant, whatever the number of runs and the order of steps
THEOREM RunsViewIsKept == Spec => []RunsInv
BY RunsStart, RunsStep, PTL DEF Spec

-----------------------------------------------------------------------------
(* What follows from it. *)

\* every variable has its type (RunsView)
THEOREM RunsTypesAreKept == Spec => []TypeOK
<1>1. RunsInv => TypeOK
    BY DEF RunsInv, ServerOK, SocketOK, ViewOK, ViewTyped, TypeOK
<1> QED BY <1>1, RunsViewIsKept, PTL

\* what is stored under a run is of that run (stores/run-stream-store.ts,
\* hooks/useRunStream.ts)
THEOREM RunsKeepTheirEvents == Spec => []OwnEventsOnly
<1>1. RunsInv => OwnEventsOnly
    BY DEF RunsInv, ViewOK, StoreOK
<1> QED BY <1>1, RunsViewIsKept, PTL

\* the end of a run and the removal of a checkpoint reach the answers of a page
\* that was told of them (hooks/useRunStream.ts)
THEOREM RunEventsReachThePage == Spec => []EventsInvalidate
<1>1. RunsInv => EventsInvalidate
    BY DEF RunsInv, ViewOK, CacheOK
<1> QED BY <1>1, RunsViewIsKept, PTL

\* the fallback dialog never offers to send a GPU it does not show, whatever the
\* chain and the cost cap let the server propose
\* (components/runs/run-fallback-dialog.tsx)
THEOREM DialogOffersItsChoice == Spec => []GpuChosenIsCandidate
<1>1. RunsInv => GpuChosenIsCandidate
    BY DEF RunsInv, ViewOK, ChoiceOK
<1> QED BY <1>1, RunsViewIsKept, PTL

\* a page that knows a checkpoint of a run knows one that was recorded
LEMMA KnownCheckpoints ==
    ASSUME RunsInv, selected \in Runs, row[selected].status # "deleted", AllCheckpoints # 0
    PROVE  row[selected].kept \cup row[selected].pruned # {}
<1> DEFINE nothing == [kept |-> {}, pruned |-> {}]
           data == cache[<<"checkpoints", selected>>].data
           fetched == Loaded("checkpoints", nothing)
<1> SUFFICES ASSUME row[selected].kept \cup row[selected].pruned = {} PROVE FALSE
    OBVIOUS
<1>1. fetched.kept \cup fetched.pruned = {}
    <2>1. CASE activeProject = Home /\ data # {}
        <3>1. fetched = CHOOSE v \in data : TRUE
            BY <2>1 DEF Loaded, DataOr, NoAnswer
        <3>2. fetched \in data
            BY <2>1, <3>1
        <3> QED BY <3>2 DEF RunsInv, ViewOK, CacheOK, AnswersOK, TrueCheckpoints
    <2>2. CASE ~(activeProject = Home /\ data # {})
        <3>1. fetched = nothing
            BY <2>2 DEF Loaded, DataOr, NoAnswer
        <3> QED BY <3>1
    <2> QED BY <2>1, <2>2
<1>2. store[selected].ckpts \in Seq(Points) /\ DOMAIN store[selected].ckpts = {}
    BY DEF RunsInv, ViewOK, ViewTyped, StreamType, StoreOK
<1>3. Len(store[selected].ckpts) = 0
    <2>1. /\ Len(store[selected].ckpts) \in Nat
          /\ DOMAIN store[selected].ckpts = 1 .. Len(store[selected].ckpts)
        BY <1>2, LenProperties
    <2>2. 1 \notin 1 .. Len(store[selected].ckpts)
        BY <1>2, <2>1
    <2> QED BY <2>1, <2>2
<1>4. Cardinality(fetched.kept \cup fetched.pruned) = 0
    BY <1>1, FS_EmptySet
<1>5. AllCheckpoints = Cardinality(fetched.kept \cup fetched.pruned) + Len(store[selected].ckpts)
    BY DEF AllCheckpoints
<1> QED BY <1>3, <1>4, <1>5

\* what an up-to-date list lets the page offer, the server accepts
LEMMA OffersAreAccepted == ASSUME RunsInv PROVE OfferedIsAccepted
<1> SUFFICES ASSUME activeProject = Home, List = Answer(ListKey)
             PROVE  /\ Offers("cancel") => \/ Accepted("cancel", selected, NoGpu)
                                           \/ row[selected].status = "fallback_pending"
                    /\ Offers("pause") => Accepted("pause", selected, NoGpu)
                    /\ Offers("resume") =>
                        /\ row[selected].status \in ResumableStatuses
                        /\ \/ row[selected].gpu # NoGpu \/ AllCheckpoints = 0
                           \/ Accepted("resume", selected, NoGpu)
                    /\ \A r \in Runs : OffersDelete(r) => Accepted("delete", r, NoGpu)
                    /\ DialogOpen /\ row[selected].status = "fallback_pending"
                       /\ proposals[selected] = row[selected].gpu
                       => Accepted("accept", selected, gpuChoice)
    BY DEF OfferedIsAccepted
<1>1. \A r \in Runs : List[r] = row[r].status
    BY DEF Answer, ListKey
<1>2. \A r \in Runs : OffersDelete(r) => Accepted("delete", r, NoGpu)
    BY <1>1 DEF OffersDelete, DELETABLE_STATUSES, DeletableStatuses, Accepted
<1>3. PickLiveRun(List) = selected /\ selected \in Runs =>
        List[selected] \in {"running", "pending", "paused", "fallback_pending"}
    <2> DEFINE live == {r \in Runs : List[r] \in {"running", "pending", "paused",
                                                  "fallback_pending"}}
    <2> SUFFICES ASSUME Latest(live) = selected, selected \in Runs PROVE selected \in live
        BY DEF PickLiveRun
    <2>1. live \in SUBSET Runs /\ selected # 0
        BY DEF Runs
    <2> QED BY <2>1, LatestIsOne
<1>4. ASSUME NEW kind, Offers(kind)
      PROVE  /\ selected \in Runs
             /\ \/ kind \in ActionsOffered(List[selected])
                \/ PickLiveRun(List) = selected /\ kind \in BannerOffers(List[selected])
    BY <1>4 DEF Offers, Listed
<1>5. Offers("cancel") => \/ Accepted("cancel", selected, NoGpu)
                          \/ row[selected].status = "fallback_pending"
    BY <1>1, <1>3, <1>4 DEF ActionsOffered, BannerOffers, CancellableStatuses, Accepted
<1>6. Offers("pause") => Accepted("pause", selected, NoGpu)
    BY <1>1, <1>4 DEF ActionsOffered, BannerOffers, PausableStatuses, Accepted
<1>7. Offers("resume") =>
        /\ row[selected].status \in ResumableStatuses
        /\ \/ row[selected].gpu # NoGpu \/ AllCheckpoints = 0
           \/ Accepted("resume", selected, NoGpu)
    <2> SUFFICES ASSUME Offers("resume")
                 PROVE  /\ row[selected].status \in ResumableStatuses
                        /\ \/ row[selected].gpu # NoGpu \/ AllCheckpoints = 0
                           \/ Accepted("resume", selected, NoGpu)
        OBVIOUS
    <2>1. selected \in Runs /\ row[selected].status \in ResumableStatuses
        BY <1>1, <1>4 DEF ActionsOffered, BannerOffers, ResumableStatuses
    <2>2. AllCheckpoints # 0 => row[selected].kept \cup row[selected].pruned # {}
        BY <2>1, KnownCheckpoints DEF ResumableStatuses
    <2> QED BY <2>1, <2>2 DEF Accepted
<1>8. ASSUME DialogOpen, row[selected].status = "fallback_pending",
             proposals[selected] = row[selected].gpu
      PROVE  Accepted("accept", selected, gpuChoice)
    <2>1. gpuChoice \in ProposedGpus(row[selected].gpu)
        BY <1>8, InvFacts DEF GpuChosenIsCandidate
    <2>2. gpuChoice # row[selected].gpu /\ gpuChoice \in Affordable
        BY <2>1 DEF ProposedGpus, Candidates
    <2> QED BY <1>8, <2>2 DEF Accepted, WithinBudget
<1> QED BY <1>2, <1>5, <1>6, <1>7, <1>8

\* an action offered on an up-to-date list is one the server accepts, and so is
\* the GPU a current dialog would send, but for the cases the property names
\* (components/runs/run-actions.tsx, services/run_service.py)
THEOREM OffersAreTrue == Spec => []OfferedIsAccepted
<1>1. RunsInv => OfferedIsAccepted
    BY OffersAreAccepted
<1> QED BY <1>1, RunsViewIsKept, PTL

\* the metrics a query answered are steps that were recorded
LEMMA LoadedMetrics ==
    ASSUME RunsInv, selected \in Runs
    PROVE  /\ Loaded("metrics", {}) \in SUBSET Steps
           /\ \/ row[selected].status = "deleted"
              \/ Loaded("metrics", {}) \subseteq row[selected].metrics
<1> DEFINE data == cache[<<"metrics", selected>>].data
<1>1. CASE activeProject = Home /\ data # {}
    <2>1. Loaded("metrics", {}) = CHOOSE v \in data : TRUE
        BY <1>1 DEF Loaded, DataOr, NoAnswer
    <2>2. Loaded("metrics", {}) \in data
        BY <1>1, <2>1
    <2> QED BY <2>2 DEF RunsInv, ViewOK, CacheOK, AnswersOK, TrueMetrics
<1>2. CASE ~(activeProject = Home /\ data # {})
    <2>1. Loaded("metrics", {}) = {}
        BY <1>2 DEF Loaded, DataOr, NoAnswer
    <2> QED BY <2>1
<1> QED BY <1>1, <1>2

LEMMA AscendingIsSeq ==
    ASSUME NEW N \in Nat, NEW S \in SUBSET (1 .. N)
    PROVE  /\ Cardinality(S) \in Nat
           /\ Ascending(S) \in Seq(S) /\ DOMAIN Ascending(S) = 1 .. Cardinality(S)
           /\ \A i \in DOMAIN Ascending(S) : Ascending(S)[i] \in S
           /\ \A i, j \in DOMAIN Ascending(S) : Ascending(S)[i] = Ascending(S)[j] => i = j
<1>1. S \in SUBSET Nat /\ IsFiniteSet(S)
    <2>1. IsFiniteSet(1 .. N)
        BY FS_Interval
    <2>2. IsFiniteSet(S)
        BY <2>1, FS_Subset
    <2> QED BY <2>2
<1>2. /\ Cardinality(S) \in Nat
      /\ Ascending(S) \in [1 .. Cardinality(S) -> S]
      /\ \A i, j \in 1 .. Cardinality(S) : Ascending(S)[i] = Ascending(S)[j] => i = j
    BY <1>1, AscendingLists
<1> DEFINE n == Cardinality(S)
           f == Ascending(S)
<1>3. n \in Nat /\ f \in [1 .. n -> S]
    BY <1>2
<1>4. f \in Seq(S) /\ DOMAIN f = 1 .. n
    <2> HIDE DEF n, f
    <2> QED BY <1>3
<1> QED BY <1>2, <1>4

LEMMA MetricsAreShownOnce == ASSUME RunsInv PROVE MetricsShownOnce
<1> SUFFICES ASSUME page = "runs", selected # 0
             PROVE  /\ \A i, j \in DOMAIN MergedMetrics :
                        MergedMetrics[i] = MergedMetrics[j] => i = j
                    /\ \A i \in DOMAIN MergedMetrics :
                        row[selected].status # "deleted"
                            => MergedMetrics[i] \in row[selected].metrics
    BY DEF MetricsShownOnce
<1> DEFINE live == store[selected].metrics
           loaded == Loaded("metrics", {})
           lives == [i \in DOMAIN live |-> live[i].step]
           all == Ascending(loaded) \o lives
           IsFirst(i) == \A j \in 1 .. i - 1 : all[j] # all[i]
           K == {i \in DOMAIN all : IsFirst(i)}
           kept == Ascending(K)
<1>1. MergedMetrics = [n \in DOMAIN kept |-> all[kept[n]]]
    BY DEF MergedMetrics
<1>2. selected \in Runs
    BY SelectedIsRun
<1> DEFINE True(k) == row[selected].status # "deleted" => k \in row[selected].metrics
<1>3. loaded \in SUBSET Steps /\ \A k \in loaded : True(k)
    BY <1>2, LoadedMetrics
<1>4. /\ live \in Seq(Points)
      /\ \A i \in DOMAIN live : True(live[i].step)
    BY <1>2 DEF RunsInv, ViewOK, ViewTyped, StreamType, StoreOK
<1> HIDE DEF live, loaded, True
<1>5. lives \in Seq(Steps) /\ DOMAIN lives = DOMAIN live
    <2>1. Len(live) \in Nat /\ DOMAIN live = 1 .. Len(live)
        BY <1>4
    <2>2. \A i \in 1 .. Len(live) : live[i] \in Points
        BY <1>4, ElementOfSeq
    <2>3. \A i \in 1 .. Len(live) : live[i].step \in Steps
        BY <2>2 DEF Points
    <2> QED BY <2>1, <2>3
<1>6. \A i \in DOMAIN lives : True(lives[i])
    BY <1>4
<1> HIDE DEF lives
<1>7. /\ Ascending(loaded) \in Seq(Steps)
      /\ \A i \in DOMAIN Ascending(loaded) : True(Ascending(loaded)[i])
    <2>1. NSteps \in Nat /\ loaded \in SUBSET (1 .. NSteps)
        BY <1>3 DEF Steps, ServerAssumption
    <2>2. /\ Ascending(loaded) \in Seq(loaded)
          /\ \A i \in DOMAIN Ascending(loaded) : Ascending(loaded)[i] \in loaded
        BY <2>1, AscendingIsSeq
    <2>3. Ascending(loaded) \in Seq(Steps)
        <3> HIDE DEF loaded
        <3>1. Len(Ascending(loaded)) \in Nat
              /\ Ascending(loaded) \in [1 .. Len(Ascending(loaded)) -> Steps]
            BY <1>3, <2>2
        <3> QED BY <3>1
    <2> QED BY <1>3, <2>2, <2>3
<1>8. /\ all \in Seq(Steps) /\ Len(all) \in Nat /\ DOMAIN all = 1 .. Len(all)
      /\ \A i \in DOMAIN all : True(all[i])
    <2> DEFINE a == Ascending(loaded)
    <2>1. a \in Seq(Steps) /\ Len(a) \in Nat /\ Len(lives) \in Nat
          /\ DOMAIN a = 1 .. Len(a) /\ DOMAIN lives = 1 .. Len(lives)
        BY <1>5, <1>7
    <2> HIDE DEF a
    <2>2. /\ a \o lives \in Seq(Steps) /\ Len(a \o lives) = Len(a) + Len(lives)
          /\ DOMAIN (a \o lives) = 1 .. Len(a) + Len(lives)
          /\ \A i \in 1 .. Len(a) + Len(lives) :
                (a \o lives)[i] = IF i <= Len(a) THEN a[i] ELSE lives[i - Len(a)]
        BY <1>5, <2>1
    <2>3. \A i \in 1 .. Len(a) + Len(lives) : i > Len(a) => i - Len(a) \in 1 .. Len(lives)
        BY <2>1
    <2>4. \A i \in 1 .. Len(a) : True(a[i])
        BY <1>7, <2>1 DEF a
    <2>5. \A i \in 1 .. Len(a) + Len(lives) : True((a \o lives)[i])
        <3> TAKE i \in 1 .. Len(a) + Len(lives)
        <3>1. CASE i <= Len(a)
            <4>1. i \in 1 .. Len(a) /\ (a \o lives)[i] = a[i]
                BY <2>1, <2>2, <3>1
            <4> QED BY <2>4, <4>1
        <3>2. CASE ~(i <= Len(a))
            <4>1. i - Len(a) \in DOMAIN lives /\ (a \o lives)[i] = lives[i - Len(a)]
                BY <2>1, <2>2, <2>3, <3>2
            <4> QED BY <1>6, <4>1
        <3> QED BY <3>1, <3>2
    <2> QED BY <2>1, <2>2, <2>5 DEF a
<1> HIDE DEF all
<1>9. /\ \A n \in DOMAIN kept : kept[n] \in K
      /\ \A i, j \in DOMAIN kept : kept[i] = kept[j] => i = j
    BY <1>8, AscendingIsSeq
<1> HIDE DEF kept
<1>10. ASSUME NEW i \in DOMAIN kept, NEW j \in DOMAIN kept, all[kept[i]] = all[kept[j]]
       PROVE  i = j
    <2>1. kept[i] \in K /\ kept[j] \in K /\ kept[i] \in Nat \ {0} /\ kept[j] \in Nat \ {0}
        BY <1>8, <1>9
    <2>2. kept[i] = kept[j]
        <3>1. CASE kept[i] < kept[j]
            <4>1. kept[i] \in 1 .. kept[j] - 1
                BY <2>1, <3>1
            <4> QED BY <1>10, <2>1, <4>1
        <3>2. CASE kept[j] < kept[i]
            <4>1. kept[j] \in 1 .. kept[i] - 1
                BY <2>1, <3>2
            <4> QED BY <1>10, <2>1, <4>1
        <3> QED BY <2>1, <3>1, <3>2
    <2> QED BY <1>9, <2>2
<1>11. \A n \in DOMAIN kept : True(all[kept[n]])
    BY <1>8, <1>9
<1> QED BY <1>1, <1>10, <1>11 DEF True

\* a step of a run is drawn once, and only if it was recorded
\* (pages/runs-page.tsx, mergedMetrics)
THEOREM ChartsShowEachStepOnce == Spec => []MetricsShownOnce
<1>1. RunsInv => MetricsShownOnce
    BY MetricsAreShownOnce
<1> QED BY <1>1, RunsViewIsKept, PTL
=============================================================================
