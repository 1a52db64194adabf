----------------------------- MODULE SocketProofs -----------------------------
(***************************************************************************)
(* What every step of the WebSocket of module RunSocket keeps, whatever    *)
(* page and server are composed with it: the types of its state, and that  *)
(* no event comes to a queue that was not published; and what the          *)
(* operations of the query cache do to an entry.                           *)
(***************************************************************************)
EXTENDS RunSocket, QueryCache, TLAPS

\* the events that wait in the queues of the connections
Queued(socks) ==
    UNION {{socks[s].queue[i] : i \in DOMAIN socks[s].queue} : s \in Sockets}

\* a reconnect timer is set by a lost connection, which is a bounded step
SocketOK == SocketType /\ reconnects <= steps

\* steps are counted by those who take them
Counted == steps' \in {steps, steps + 1} /\ steps' \in 0 .. MaxSteps

\* the state of the socket that is left after a step
Kept == SocketOK' /\ Queued(sock') \subseteq Queued(sock)

-----------------------------------------------------------------------------

\* an event waits iff it is in some queue
LEMMA QueuedIff ==
    ASSUME NEW socks, NEW event
    PROVE  event \in Queued(socks) <=>
           \E s \in Sockets : \E i \in DOMAIN socks[s].queue :
                event = socks[s].queue[i]
BY DEF Queued

\* a connection that takes an event keeps its type, and nothing else comes to
\* its queue
LEMMA RoutedOnce ==
    ASSUME NEW conn \in Connections, NEW p, NEW event \in Events
    PROVE  /\ Routed(conn, p, event) \in Connections
           /\ \A i \in DOMAIN Routed(conn, p, event).queue :
                \/ Routed(conn, p, event).queue[i] = event
                \/ /\ i \in DOMAIN conn.queue
                   /\ Routed(conn, p, event).queue[i] = conn.queue[i]
<1>1. CASE /\ conn.phase = "open" /\ conn.project = p
           /\ event.channel \in conn.subs /\ Len(conn.queue) < MaxQueue
    <2> DEFINE q == Append(conn.queue, event)
    <2>1. Routed(conn, p, event) = [conn EXCEPT !.queue = q]
        BY <1>1 DEF Routed
    <2>2. conn.queue \in Seq(Events)
        BY DEF Connections
    <2>3. q \in Seq(Events)
        BY <2>2
    <2>4. Routed(conn, p, event) \in Connections /\ Routed(conn, p, event).queue = q
        BY <2>1, <2>3 DEF Connections
    <2>5. \A i \in DOMAIN q : q[i] = event \/ (i \in DOMAIN conn.queue /\ q[i] = conn.queue[i])
        BY <2>2
    <2> QED BY <2>4, <2>5
<1>2. CASE ~(/\ conn.phase = "open" /\ conn.project = p
             /\ event.channel \in conn.subs /\ Len(conn.queue) < MaxQueue)
    BY <1>2 DEF Routed
<1> QED BY <1>1, <1>2

\* publishing keeps the connections' types and adds at most the event
LEMMA PublishedOnce ==
    ASSUME NEW socks \in [Sockets -> Connections], NEW p, NEW event \in Events
    PROVE  /\ Published(socks, p, event) \in [Sockets -> Connections]
           /\ Queued(Published(socks, p, event)) \subseteq Queued(socks) \cup {event}
<1>1. \A s \in Sockets : Published(socks, p, event)[s] = Routed(socks[s], p, event)
    BY DEF Published
<1>2. \A s \in Sockets : socks[s] \in Connections
    OBVIOUS
<1>3. Published(socks, p, event) \in [Sockets -> Connections]
    BY <1>2, RoutedOnce DEF Published
<1>4. ASSUME NEW e \in Queued(Published(socks, p, event)) PROVE e \in Queued(socks) \cup {event}
    <2>1. PICK s \in Sockets : \E i \in DOMAIN Published(socks, p, event)[s].queue :
                e = Published(socks, p, event)[s].queue[i]
        BY <1>4, QueuedIff
    <2>2. PICK i \in DOMAIN Routed(socks[s], p, event).queue :
                e = Routed(socks[s], p, event).queue[i]
        BY <1>1, <2>1
    <2>3. e = event \/ (i \in DOMAIN socks[s].queue /\ e = socks[s].queue[i])
        BY <1>2, <2>2, RoutedOnce
    <2> QED BY <2>3, QueuedIff
<1> QED BY <1>3, <1>4

\* a connection whose queue is a part of what it was brings no event
LEMMA QueuesShrink ==
    ASSUME NEW socks, NEW socks2,
           \A s \in Sockets : \A i \in DOMAIN socks2[s].queue :
                socks2[s].queue[i] \in Queued(socks)
    PROVE  Queued(socks2) \subseteq Queued(socks)
BY QueuedIff

LEMMA QueueIsQueued ==
    ASSUME NEW socks, NEW s \in Sockets, NEW i \in DOMAIN socks[s].queue
    PROVE  socks[s].queue[i] \in Queued(socks)
BY QueuedIff

\* one connection changes: its type is kept, and its queue grows by nothing
LEMMA OneChanges ==
    ASSUME NEW socks \in [Sockets -> Connections], NEW s \in Sockets,
           NEW conn \in Connections,
           \A i \in DOMAIN conn.queue : conn.queue[i] \in Queued(socks)
    PROVE  /\ [socks EXCEPT ![s] = conn] \in [Sockets -> Connections]
           /\ Queued([socks EXCEPT ![s] = conn]) \subseteq Queued(socks)
<1> DEFINE new == [socks EXCEPT ![s] = conn]
<1>1. new \in [Sockets -> Connections]
    OBVIOUS
<1>2. \A t \in Sockets : \A i \in DOMAIN new[t].queue : new[t].queue[i] \in Queued(socks)
    <2> TAKE t \in Sockets
    <2> TAKE i \in DOMAIN new[t].queue
    <2>1. CASE t = s
        BY <2>1
    <2>2. CASE t # s
        <3>1. new[t] = socks[t]
            BY <2>2
        <3> QED BY <3>1, QueueIsQueued
    <2> QED BY <2>1, <2>2
<1>3. Queued(new) \subseteq Queued(socks)
    BY <1>2, QueuesShrink
<1> QED BY <1>1, <1>3

\* a connection that changes but for its queue is such a connection
LEMMA QueueStays ==
    ASSUME NEW socks \in [Sockets -> Connections], NEW s \in Sockets,
           NEW conn \in Connections, conn.queue = socks[s].queue
    PROVE  /\ [socks EXCEPT ![s] = conn] \in [Sockets -> Connections]
           /\ Queued([socks EXCEPT ![s] = conn]) \subseteq Queued(socks)
<1>1. \A i \in DOMAIN conn.queue : conn.queue[i] \in Queued(socks)
    BY QueueIsQueued
<1> QED BY <1>1, OneChanges

LEMMA ClosedFits ==
    Closed \in Connections /\ Closed.queue = << >> /\ DOMAIN Closed.queue = {}
BY DEF Closed, Connections

\* onopen's frame
LEMMA SubscribeKeeps ==
    ASSUME NEW socks \in [Sockets -> Connections], SocketType
    PROVE  /\ SubscribeOnOpen(socks) \in [Sockets -> Connections]
           /\ Queued(SubscribeOnOpen(socks)) \subseteq Queued(socks)
<1>1. CASE ~(wsChannels # {} /\ IsOpenIn(socks, socket))
    BY <1>1 DEF SubscribeOnOpen
<1>2. CASE wsChannels # {} /\ IsOpenIn(socks, socket)
    <2> DEFINE conn == [socks[socket] EXCEPT !.asked = wsChannels]
    <2>1. socket \in Sockets
        BY <1>2 DEF SocketType, IsOpenIn
    <2>2. conn \in Connections /\ conn.queue = socks[socket].queue
        BY <2>1 DEF SocketType, Connections
    <2>3. SubscribeOnOpen(socks) = [socks EXCEPT ![socket] = conn]
        BY <1>2 DEF SubscribeOnOpen
    <2> QED BY <2>1, <2>2, <2>3, QueueStays
<1> QED BY <1>1, <1>2

LEMMA OpenedKeeps ==
    ASSUME SocketOK, NEW s \in Sockets, Opened(s) PROVE Kept
<1> DEFINE conn == [sock[s] EXCEPT !.phase = "open"]
           socks == [sock EXCEPT ![s] = conn]
<1>1. sock \in [Sockets -> Connections] /\ SocketType
    BY DEF SocketOK, SocketType
<1>2. conn \in Connections /\ conn.queue = sock[s].queue
    BY <1>1 DEF Connections
<1>3. socks \in [Sockets -> Connections] /\ Queued(socks) \subseteq Queued(sock)
    BY <1>1, <1>2, QueueStays
<1>4. sock' = SubscribeOnOpen(socks)
    BY DEF Opened
<1>5. sock' \in [Sockets -> Connections] /\ Queued(sock') \subseteq Queued(sock)
    BY <1>1, <1>3, <1>4, SubscribeKeeps
<1> QED BY <1>5 DEF Kept, SocketOK, SocketType, Opened

LEMMA HandleSubscribeKeeps ==
    ASSUME SocketOK, NEW s \in Sockets, HandleSubscribe(s) PROVE Kept
<1> DEFINE conn == [sock[s] EXCEPT !.subs = @ \cup sock[s].asked, !.asked = {}]
<1>1. sock \in [Sockets -> Connections]
    BY DEF SocketOK, SocketType
<1>2. conn \in Connections /\ conn.queue = sock[s].queue
    BY <1>1 DEF Connections
<1>3. sock' = [sock EXCEPT ![s] = conn]
    BY <1>1 DEF HandleSubscribe, Connections
<1>4. sock' \in [Sockets -> Connections] /\ Queued(sock') \subseteq Queued(sock)
    BY <1>1, <1>2, <1>3, QueueStays
<1> QED BY <1>4 DEF Kept, SocketOK, SocketType, HandleSubscribe

LEMMA LostKeeps ==
    ASSUME SocketOK, NEW s \in Sockets, Lost(s), SocketAssumption PROVE Kept
<1>1. sock \in [Sockets -> Connections]
    BY DEF SocketOK, SocketType
<1>2. sock' = [sock EXCEPT ![s] = Closed]
    BY DEF Lost
<1>3. sock' \in [Sockets -> Connections] /\ Queued(sock') \subseteq Queued(sock)
    BY <1>1, <1>2, ClosedFits, OneChanges
<1>4. steps' = steps + 1 /\ steps < MaxSteps /\ reconnects' = reconnects + 1
    BY DEF Lost, Step
<1>5. steps' \in 0 .. MaxSteps /\ reconnects' \in 0 .. MaxSteps /\ reconnects' <= steps'
    BY <1>4 DEF SocketOK, SocketType, SocketAssumption
<1> QED BY <1>3, <1>5 DEF Kept, SocketOK, SocketType, Lost

\* a new socket of the client starts without an event
LEMMA OpenSocketKeeps ==
    ASSUME SocketType, NEW p \in Projects, OpenSocket(p)
    PROVE  /\ sock' \in [Sockets -> Connections]
           /\ Queued(sock') \subseteq Queued(sock)
           /\ socket' \in Sockets
<1>1. PICK s \in Sockets :
        /\ sock' = [sock EXCEPT ![s] = [Closed EXCEPT !.phase = "connecting", !.project = p]]
        /\ socket' = s
    BY DEF OpenSocket
<1> DEFINE conn == [Closed EXCEPT !.phase = "connecting", !.project = p]
<1>2. conn \in Connections /\ conn.queue = << >> /\ DOMAIN conn.queue = {}
    BY ClosedFits DEF Connections
<1>3. sock \in [Sockets -> Connections]
    BY DEF SocketType
<1> QED BY <1>1, <1>2, <1>3, OneChanges

LEMMA ReconnectKeeps ==
    ASSUME SocketOK, Reconnect, SocketAssumption PROVE Kept
<1>1. wsProject \in Projects
    BY DEF Reconnect, SocketOK, SocketType
<1>2. /\ sock' \in [Sockets -> Connections] /\ Queued(sock') \subseteq Queued(sock)
      /\ socket' \in Sockets
    BY <1>1, OpenSocketKeeps DEF Reconnect, SocketOK
<1>3. reconnects' \in 0 .. MaxSteps /\ reconnects' <= steps' /\ steps' = steps
    BY DEF Reconnect, SocketOK, SocketType, SocketAssumption
<1> QED BY <1>2, <1>3 DEF Kept, SocketOK, SocketType, Reconnect

LEMMA ReceivedKeeps ==
    ASSUME SocketOK, NEW s \in Sockets, Received(s)
    PROVE  Kept /\ Head(sock[s].queue) \in Queued(sock) \cap Events
<1> DEFINE conn == [sock[s] EXCEPT !.queue = Tail(@)]
<1>1. sock \in [Sockets -> Connections]
    BY DEF SocketOK, SocketType
<1>2. sock[s].queue \in Seq(Events) /\ sock[s].queue # << >>
    BY <1>1 DEF Connections, Received
<1>3. conn \in Connections /\ conn.queue = Tail(sock[s].queue)
    <2>1. Tail(sock[s].queue) \in Seq(Events) /\ sock[s] \in Connections
        BY <1>1, <1>2
    <2> QED BY <2>1 DEF Connections
<1>4. \A i \in DOMAIN conn.queue : i + 1 \in DOMAIN sock[s].queue
                                   /\ conn.queue[i] = sock[s].queue[i + 1]
    BY <1>2, <1>3
<1>5. \A i \in DOMAIN conn.queue : conn.queue[i] \in Queued(sock)
    BY <1>4, QueueIsQueued
<1>6. sock' = [sock EXCEPT ![s] = conn]
    BY DEF Received
<1>7. sock' \in [Sockets -> Connections] /\ Queued(sock') \subseteq Queued(sock)
    BY <1>1, <1>3, <1>5, <1>6, OneChanges
<1>8. 1 \in DOMAIN sock[s].queue /\ Head(sock[s].queue) = sock[s].queue[1]
      /\ Head(sock[s].queue) \in Events
    BY <1>2
<1>9. Head(sock[s].queue) \in Queued(sock)
    BY <1>8, QueueIsQueued
<1> QED BY <1>7, <1>8, <1>9 DEF Kept, SocketOK, SocketType, Received

\* an effect's call of connect, in a step that may be one of those counted
LEMMA ConnectKeeps ==
    ASSUME SocketOK, NEW p \in Projects, NEW channels \in SUBSET Channels,
           Connect(p, channels), Counted, SocketAssumption
    PROVE  Kept
<1>1. CASE IsConnected /\ wsProject = p
    BY <1>1 DEF Connect, Kept, SocketOK, SocketType, socketVars, Counted, SocketAssumption
<1>2. CASE ~(IsConnected /\ wsProject = p)
    <2>1. /\ sock' \in [Sockets -> Connections] /\ Queued(sock') \subseteq Queued(sock)
          /\ socket' \in Sockets
        BY <1>2, OpenSocketKeeps DEF Connect, SocketOK
    <2>2. wsProject' = p /\ wsChannels' = channels /\ reconnects' = reconnects
        BY <1>2 DEF Connect
    <2> QED BY <2>1, <2>2 DEF Kept, SocketOK, SocketType, Counted, SocketAssumption
<1> QED BY <1>1, <1>2

\* a step that leaves the socket alone
LEMMA ApartKeeps ==
    ASSUME SocketOK, UNCHANGED socketVars, Counted, SocketAssumption PROVE Kept
BY DEF Kept, SocketOK, SocketType, socketVars, Counted, SocketAssumption

\* the server publishes: what is queued more is of the events published
LEMMA PublishKeeps ==
    ASSUME SocketOK, Counted, SocketAssumption,
           sock' \in [Sockets -> Connections],
           UNCHANGED <<socket, wsProject, wsChannels, reconnects>>
    PROVE  SocketOK'
BY DEF SocketOK, SocketType, Counted, SocketAssumption

LEMMA StepCounts == ASSUME SocketOK, Step, SocketAssumption PROVE Counted
BY DEF SocketOK, SocketType, Step, Counted, SocketAssumption

LEMMA NoStepCounts == ASSUME SocketOK, UNCHANGED steps PROVE Counted
BY DEF SocketOK, SocketType, Counted

LEMMA SocketStarts ==
    ASSUME SocketInit, SocketAssumption PROVE SocketOK /\ Queued(sock) = {}
<1>1. sock = [s \in Sockets |-> Closed]
    BY DEF SocketInit
<1>2. \A s \in Sockets : sock[s].queue = << >>
    BY <1>1, ClosedFits
<1>3. Queued(sock) = {}
    BY <1>2, QueuedIff
<1> QED BY <1>1, <1>3, ClosedFits
        DEF SocketInit, SocketOK, SocketType, SocketAssumption

-----------------------------------------------------------------------------

\* an entry of the query cache, as far as its kind goes
IsEntry(entry) ==
    /\ entry = [data |-> entry.data, stale |-> entry.stale, flight |-> entry.flight]
    /\ entry.stale \in BOOLEAN

\* an invalidation keeps the data, and marks it if there is any
LEMMA InvalidatedEntry ==
    ASSUME NEW entry, IsEntry(entry), NEW shown
    PROVE  /\ IsEntry(Invalidated(entry, shown))
           /\ Invalidated(entry, shown).data = entry.data
           /\ entry.data # NoAnswer => Invalidated(entry, shown).stale
           /\ entry.stale => Invalidated(entry, shown).stale
           /\ Invalidated(entry, shown).flight \subseteq entry.flight
           /\ entry.data = NoAnswer => Invalidated(entry, shown) = entry
           /\ entry.data # NoAnswer /\ shown =>
                Invalidated(entry, shown).flight = NoAnswer
<1>1. CASE entry.data = NoAnswer
    BY <1>1 DEF Invalidated
<1>2. CASE entry.data # NoAnswer
    <2> DEFINE flight == IF shown THEN NoAnswer ELSE entry.flight
    <2>1. Invalidated(entry, shown) = [data |-> entry.data, stale |-> TRUE, flight |-> flight]
        BY <1>2 DEF Invalidated, IsEntry
    <2>2. flight \subseteq entry.flight /\ (shown => flight = NoAnswer)
        BY DEF NoAnswer
    <2> HIDE DEF flight
    <2> QED BY <1>2, <2>1, <2>2 DEF IsEntry
<1> QED BY <1>1, <1>2

\* the same of all entries of a key set
LEMMA InvalidatedEntries ==
    ASSUME NEW cache, NEW keys, NEW active, NEW k \in DOMAIN cache, IsEntry(cache[k])
    PROVE  LET new == InvalidatedAll(cache, keys, active)[k]
           IN  /\ IsEntry(new) /\ new.data = cache[k].data
               /\ cache[k].stale => new.stale
               /\ k \in keys /\ cache[k].data # NoAnswer => new.stale
               /\ new.flight \subseteq cache[k].flight
               /\ k \notin keys => new = cache[k]
               /\ cache[k].data = NoAnswer => new = cache[k]
               /\ k \in keys /\ k \in active /\ cache[k].data # NoAnswer =>
                    new.flight = NoAnswer
BY InvalidatedEntry DEF InvalidatedAll

\* an answer at once
LEMMA AnsweredEntry ==
    ASSUME NEW entry, IsEntry(entry), NEW answer
    PROVE  /\ Answered(Asked(entry, answer)) =
                [data |-> {answer}, stale |-> FALSE, flight |-> NoAnswer]
           /\ Asked(entry, answer) =
                [data |-> entry.data, stale |-> entry.stale, flight |-> {answer}]
           /\ IsEntry(Asked(entry, answer)) /\ IsEntry(Answered(entry))
<1>1. Asked(entry, answer) =
        [data |-> entry.data, stale |-> entry.stale, flight |-> {answer}]
    BY DEF Asked, IsEntry
<1> QED BY <1>1 DEF Answered, IsEntry
=============================================================================
