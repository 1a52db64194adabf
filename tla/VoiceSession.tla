----------------------------- MODULE VoiceSession -----------------------------
(***************************************************************************)
(* The voice demo: hooks/use-voice-session.ts and ws/voice-client.ts in    *)
(* the browser, services/voice/voice_service.py and its WebSocket route on *)
(* the server.  A start is a chain of awaits (create the session, open the *)
(* socket, take the microphone) that neither Stop nor leaving the page     *)
(* interrupts; the server has one lock for one session.                    *)
(*                                                                         *)
(* Left out: the audio, what is said, and a second client of the same      *)
(* session, which the browser never opens.                                 *)
(***************************************************************************)
EXTENDS Workbench

CONSTANT MaxVoice   \* bound: starts, and so sessions, of a behaviour

ASSUME VoiceAssumption == MaxVoice \in Nat

VARIABLES
    voiceLock,  \* _active_session_id; 0: None
    sessions,   \* what the server has of each session
    sockets,    \* the WebSocket of each session
    starts      \* start() calls that have not returned

voiceVars == <<voiceLock, sessions, sockets, starts>>

Sessions == 1 .. MaxVoice
MaxEntries == 3   \* bound: entries of a transcript

\* pending: in _pending_configs; booting: popped, its handle not yet stored
SessionStates == {"none", "pending", "booting", "running", "ended"}
Alive == {"booting", "running"}

\* ws: wsClientRef's session; capture: captureRef's session, 0 is null; mine: the
\* sessions whose sockets call this page's handlers
VoiceUi == [status |-> "idle", transcript |-> <<>>, cursor |-> 0, ws |-> 0,
            capture |-> 0, mine |-> {}]

OnVoice == page = "voice"
VoiceRest == UNCHANGED <<configVars, tour, activeProject, page, cfg, requestVars, followed>>
VoiceKeep == VoiceRest /\ UNCHANGED steps

\* setState({ ...INITIAL_STATE, status })
Reset(u, status) == [u EXCEPT !.status = status, !.transcript = <<>>]

(***************************************************************************)
(* The browser.                                                            *)
(***************************************************************************)
\* client.close(): only a socket that is open is closed; one that is still
\* opening is forgotten, and opens
ClosedSocket(S, s) == IF s # 0 /\ S[s] = "open" THEN [S EXCEPT ![s] = "closed"] ELSE S

\* start: the button is there unless the status is active or connecting
StartVoice ==
    /\ OnVoice /\ ui.status \notin {"active", "connecting"} /\ Step
    /\ ui' = [Reset(ui, "connecting") EXCEPT !.cursor = 0]
    /\ starts' = starts \cup {[phase |-> "creating", session |-> 0, watched |-> TRUE]}
    /\ VoiceRest /\ UNCHANGED <<voiceLock, sessions, sockets>>

\* a start goes on to its next await, or fails and says so on its page
StartMoves(a, phase, session) ==
    starts' = Replaced(starts, a, [a EXCEPT !.phase = phase, !.session = session])
StartReturns(a, u) ==
    /\ starts' = starts \ {a}
    /\ ui' = IF a.watched THEN u ELSE ui

SessionCreated(a) ==
    /\ a.phase = "created"
    /\ StartMoves(a, "connecting", a.session)
    /\ sockets' = [sockets EXCEPT ![a.session] = "opening"]
    /\ ui' = IF a.watched THEN [ui EXCEPT !.ws = a.session, !.mine = @ \cup {a.session}]
             ELSE ui
    /\ VoiceKeep /\ UNCHANGED <<voiceLock, sessions>>

SessionRefused(a) ==
    /\ a.phase = "refused"
    /\ StartReturns(a, Reset(ui, "failed"))
    /\ VoiceKeep /\ UNCHANGED <<voiceLock, sessions, sockets>>

\* connect() resolves, and the microphone is asked for; or the socket failed
Connected(a) ==
    /\ a.phase = "connecting" /\ sockets[a.session] \in {"open", "closed", "failed"}
    /\ IF sockets[a.session] = "failed"
       THEN StartReturns(a, [Reset(ui, "failed") EXCEPT !.ws = 0])
       ELSE StartMoves(a, "capturing", a.session) /\ UNCHANGED ui
    /\ VoiceKeep /\ UNCHANGED <<voiceLock, sessions, sockets>>

\* whatever happened while the user was asked: Stop, or the socket's close
CaptureGranted(a) ==
    /\ a.phase = "capturing"
    /\ StartReturns(a, [Reset(ui, "active") EXCEPT !.capture = a.session])
    /\ VoiceKeep /\ UNCHANGED <<voiceLock, sessions, sockets>>

CaptureDenied(a) ==
    /\ a.phase = "capturing"
    /\ StartReturns(a, [Reset(ui, "failed") EXCEPT !.ws = 0])
    /\ sockets' = ClosedSocket(sockets, a.session)
    /\ VoiceKeep /\ UNCHANGED <<voiceLock, sessions>>

StopVoice ==
    /\ OnVoice /\ ui.status \in {"active", "connecting"} /\ Step
    /\ ui' = [ui EXCEPT !.status = "finalized", !.ws = 0, !.capture = 0]
    /\ sockets' = ClosedSocket(sockets, ui.ws)
    /\ VoiceRest /\ UNCHANGED <<voiceLock, sessions, starts>>

\* the effect's cleanup, when another page is opened (part of Navigate)
VoiceLeft ==
    /\ sockets' = IF OnVoice THEN ClosedSocket(sockets, ui.ws) ELSE sockets
    /\ starts' = Unwatched(starts)
    /\ UNCHANGED <<voiceLock, sessions>>

\* onclose, which close() does not detach: the end of a session that was
\* stopped ends the one that is active by then
SocketClosed(s) ==
    /\ OnVoice /\ s \in ui.mine /\ sockets[s] = "closed"
    /\ \A a \in starts : a.session = s => a.phase # "connecting"
    /\ ui' = [ui EXCEPT !.mine = @ \ {s},
                        !.status = IF @ = "active" THEN "finalized" ELSE @]
    /\ VoiceKeep /\ UNCHANGED voiceVars

\* mutant of AppendTranscriptEntry: the entry that takes the place of the
\* interim one keeps the index it was made with
AppendWithOwnIndex(u, entry) ==
    IF u.transcript # <<>> /\ u.transcript[Len(u.transcript)].role = entry.role
                           /\ u.transcript[Len(u.transcript)].interim
    THEN [u EXCEPT !.transcript[Len(u.transcript)] = entry]
    ELSE [u EXCEPT !.transcript = Append(@, entry), !.cursor = @ + 1]

\* an interim entry of the same role at the end is replaced
AppendTranscriptEntry(u, entry) ==
    LET n == Len(u.transcript)
    IN  IF n > 0 /\ u.transcript[n].role = entry.role /\ u.transcript[n].interim
        THEN [u EXCEPT !.transcript[n] = [entry EXCEPT !.index = u.transcript[n].index]]
        ELSE [u EXCEPT !.transcript = Append(@, entry), !.cursor = @ + 1]

\* handleControl, for whatever socket of this page still delivers
VoiceEvent(s) ==
    /\ OnVoice /\ s \in ui.mine /\ sockets[s] = "open" /\ sessions[s] = "running"
    /\ \A a \in starts : a.session = s => a.phase # "connecting"
    /\ \/ \E role \in {"user", "assistant"}, interim \in BOOLEAN :
            /\ Len(ui.transcript) < MaxEntries /\ ui.cursor < MaxEntries /\ Step
            /\ ui' = AppendTranscriptEntry(ui,
                        [index |-> ui.cursor, role |-> role, interim |-> interim])
       \/ /\ ui.status # "failed" /\ ui' = [ui EXCEPT !.status = "failed"] /\ Step
       \/ /\ ui.status # "finalized" /\ ui' = [ui EXCEPT !.status = "finalized"] /\ Step
    /\ VoiceRest /\ UNCHANGED voiceVars

(***************************************************************************)
(* The server.                                                             *)
(***************************************************************************)
\* create_session: an abandoned one, never connected, may have expired
CreateSession(a) ==
    LET expired == voiceLock # 0 /\ sessions[voiceLock] = "pending"
        new == CHOOSE s \in Sessions : /\ sessions[s] = "none"
                                       /\ \A t \in 1 .. s - 1 : sessions[t] # "none"
    IN  /\ a.phase = "creating"
        /\ \/ /\ voiceLock = 0 \/ expired
              /\ \E s \in Sessions : sessions[s] = "none"
              /\ sessions' = [s \in Sessions |->
                    IF s = new THEN "pending"
                    ELSE IF expired /\ s = voiceLock THEN "ended" ELSE sessions[s]]
              /\ voiceLock' = new
              /\ \E answer \in {"created", "refused"} : StartMoves(a, answer, new)
           \* the lock is taken, a key of a provider is missing; above, no answer
           \/ /\ StartMoves(a, "refused", 0) /\ UNCHANGED <<voiceLock, sessions>>
        /\ VoiceKeep /\ UNCHANGED <<ui, sockets>>

\* mutant of Released: the lock is given up whoever holds it
ReleasedByAnyone(lock, s) == 0

\* release_active_session: only the holder's own
Released(lock, s) == IF lock = s THEN 0 ELSE lock

\* the route accepts; a session that is not pending is not found, and finalized
SocketAccepted(s) ==
    /\ sockets[s] = "opening"
    /\ IF sessions[s] = "pending"
       THEN /\ sessions' = [sessions EXCEPT ![s] = "booting"]
            /\ sockets' = [sockets EXCEPT ![s] = "open"]
            /\ UNCHANGED voiceLock
       ELSE /\ sockets' = [sockets EXCEPT ![s] = "closed"]
            /\ voiceLock' = Released(voiceLock, s)
            /\ UNCHANGED sessions
    /\ VoiceKeep /\ UNCHANGED <<ui, starts>>

SocketFailed(s) ==
    /\ sockets[s] = "opening"
    /\ sockets' = [sockets EXCEPT ![s] = "failed"]
    /\ VoiceKeep /\ UNCHANGED <<ui, voiceLock, sessions, starts>>

\* start_voice_session returned its handle
Booted(s) ==
    /\ sessions[s] = "booting"
    /\ sessions' = [sessions EXCEPT ![s] = "running"]
    /\ VoiceKeep /\ UNCHANGED <<ui, voiceLock, sockets, starts>>

\* the boot failed, the client went, or the pipeline came to its end
FinalizeSession(s) ==
    /\ sessions[s] \in Alive
    /\ sessions' = [sessions EXCEPT ![s] = "ended"]
    /\ voiceLock' = Released(voiceLock, s)
    /\ sockets' = ClosedSocket(sockets, s)
    /\ VoiceKeep /\ UNCHANGED <<ui, starts>>

VoiceInit ==
    /\ voiceLock = 0 /\ starts = {}
    /\ sessions = [s \in Sessions |-> "none"]
    /\ sockets = [s \in Sessions |-> "none"]

VoiceNext ==
    \/ StartVoice \/ StopVoice
    \/ \E a \in starts : \/ CreateSession(a) \/ SessionCreated(a) \/ SessionRefused(a)
                         \/ Connected(a) \/ CaptureGranted(a) \/ CaptureDenied(a)
    \/ \E s \in Sessions : \/ SocketClosed(s) \/ VoiceEvent(s) \/ SocketAccepted(s)
                           \/ SocketFailed(s) \/ Booted(s) \/ FinalizeSession(s)

VoiceType ==
    /\ voiceLock \in 0 .. MaxVoice /\ sessions \in [Sessions -> SessionStates]
    /\ sockets \in [Sessions -> {"none", "opening", "open", "closed", "failed"}]
    /\ \A a \in starts : a.session \in 0 .. MaxVoice
=============================================================================
