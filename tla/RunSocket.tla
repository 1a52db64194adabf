------------------------------ MODULE RunSocket ------------------------------
(***************************************************************************)
(* The WebSocket between the workbench's browser client (ws/client.ts,     *)
(* class RunWebSocketClient, one instance per tab) and the server's        *)
(* ConnectionManager (api/websocket/stream.py).  A socket is one browser   *)
(* WebSocket object; the client points at the latest (socket) but never    *)
(* closes an earlier one, whose callbacks stay attached.                   *)
(*                                                                         *)
(* Left out: the delay of a reconnect (a timer that is set fires at any    *)
(* later moment), the ping interval (a ping changes no state on either     *)
(* side), and disconnect, subscribe and unsubscribe, which nothing calls.  *)
(***************************************************************************)
EXTENDS Naturals, Sequences, FiniteSets

CONSTANTS
    Projects,   \* project ids
    NoProject,  \* the client's null
    Sockets,    \* bound: WebSocket objects that exist at one time
    NoSocket,   \* the client's null
    MaxQueue,   \* bound: the server's queue per connection (256 in the code)
    Channels,   \* the channels a frame may be sent on
    MaxSteps    \* bound: clicks, refetches, trainer events, lost connections

ASSUME SocketAssumption ==
    /\ NoProject \notin Projects
    /\ NoSocket \notin Sockets
    /\ MaxQueue \in Nat \ {0}
    /\ MaxSteps \in Nat

VARIABLES
    sock,        \* per socket: phase, project, asked, subs, queue
    socket,      \* this.socket
    wsProject,   \* this.projectId
    wsChannels,  \* this.subscribedChannels
    reconnects,  \* reconnect timers that have not fired
    steps        \* how many of the bounded steps were taken

socketVars == <<sock, socket, wsProject, wsChannels, reconnects>>

\* one of the steps that are bounded
Step == steps < MaxSteps /\ steps' = steps + 1

Closed == [phase |-> "closed", project |-> NoProject, asked |-> {},
           subs |-> {}, queue |-> << >>]

SocketInit ==
    /\ sock = [s \in Sockets |-> Closed]
    /\ socket = NoSocket
    /\ wsProject = NoProject
    /\ wsChannels = {}
    /\ reconnects = 0
    /\ steps = 0

IsOpenIn(socks, s) == s # NoSocket /\ socks[s].phase = "open"

\* the client's isConnected: only the latest socket counts
IsConnected == IsOpenIn(sock, socket)

\* new WebSocket(url): the earlier socket, if any, is only forgotten
OpenSocket(p) ==
    \E s \in Sockets :
        /\ sock[s].phase = "closed"
        /\ sock' = [sock EXCEPT ![s] =
                        [Closed EXCEPT !.phase = "connecting", !.project = p]]
        /\ socket' = s

\* a call of connect by an effect; it returns early only on an open socket of
\* the same project, whatever the channels
Connect(p, channels) ==
    IF IsConnected /\ wsProject = p
    THEN UNCHANGED socketVars
    ELSE /\ wsProject' = p
         /\ wsChannels' = channels
         /\ OpenSocket(p)
         /\ UNCHANGED reconnects

\* onopen: the subscribe frame goes out on this.socket, if that one is open
SubscribeOnOpen(socks) ==
    IF wsChannels # {} /\ IsOpenIn(socks, socket)
    THEN [socks EXCEPT ![socket].asked = wsChannels]
    ELSE socks

\* the server accepted: it registers the connection with no channel
Opened(s) ==
    /\ sock[s].phase = "connecting"
    /\ sock' = SubscribeOnOpen([sock EXCEPT ![s].phase = "open"])
    /\ UNCHANGED <<steps, socket, wsProject, wsChannels, reconnects>>

\* the server reads the subscribe frame
HandleSubscribe(s) ==
    /\ sock[s].phase = "open"
    /\ sock[s].asked # {}
    /\ sock' = [sock EXCEPT ![s].subs = @ \cup sock[s].asked, ![s].asked = {}]
    /\ UNCHANGED <<steps, socket, wsProject, wsChannels, reconnects>>

\* mutant of Lost: no reconnect is scheduled
LostForGood(s) ==
    /\ sock[s].phase \in {"connecting", "open"}
    /\ Step
    /\ sock' = [sock EXCEPT ![s] = Closed]
    /\ UNCHANGED <<reconnects, socket, wsProject, wsChannels>>

\* a connection is lost with what its queue holds: onclose sets a timer,
\* whichever socket it was
Lost(s) ==
    /\ sock[s].phase \in {"connecting", "open"}
    /\ Step
    /\ sock' = [sock EXCEPT ![s] = Closed]
    /\ reconnects' = reconnects + 1
    /\ UNCHANGED <<socket, wsProject, wsChannels>>

\* the timer's callback: a new socket for the project of the moment
Reconnect ==
    /\ reconnects > 0
    /\ wsProject # NoProject
    /\ OpenSocket(wsProject)
    /\ reconnects' = reconnects - 1
    /\ UNCHANGED <<steps, wsProject, wsChannels>>

\* _route_event for one connection: dropped unless subscribed, and dropped
\* with a warning when the queue is full
Routed(conn, p, event) ==
    IF /\ conn.phase = "open"
       /\ conn.project = p
       /\ event.channel \in conn.subs
       /\ Len(conn.queue) < MaxQueue
    THEN [conn EXCEPT !.queue = Append(@, event)]
    ELSE conn

\* event_bus.publish: every connection of the project routes the event
Published(socks, p, event) == [s \in Sockets |-> Routed(socks[s], p, event)]

\* the sender task and the browser: the oldest event reaches the handlers
Received(s) ==
    /\ sock[s].phase = "open"
    /\ sock[s].queue # << >>
    /\ sock' = [sock EXCEPT ![s].queue = Tail(@)]
    /\ UNCHANGED <<steps, socket, wsProject, wsChannels, reconnects>>

\* the names of the events that are published to the pages of runs and of
\* evaluation runs
EventNames ==
    {"metric_recorded", "progress_update", "checkpoint_saved", "retention_applied",
     "run_completed", "run_failed", "run_cancelled", "fallback_proposed",
     "case_completed", "case_failed", "cost_warning"}

\* about: the run an event is about; n: its number, where it has one
Events == [channel : Channels, event : EventNames, about : Nat, n : Nat]

Connections == [phase : {"closed", "connecting", "open"},
                project : Projects \cup {NoProject},
                asked : SUBSET Channels, subs : SUBSET Channels,
                queue : Seq(Events)]

SocketType ==
    /\ sock \in [Sockets -> Connections]
    /\ socket \in Sockets \cup {NoSocket}
    /\ wsProject \in Projects \cup {NoProject}
    /\ wsChannels \subseteq Channels
    /\ reconnects \in 0 .. MaxSteps
    /\ steps \in 0 .. MaxSteps
=============================================================================
