------------------------------ MODULE LiveView -------------------------------
(***************************************************************************)
(* The window's copy of the running meeting: the store of                  *)
(* meetingStore.ts, fed by the answers of its requests (engineClient.ts)   *)
(* and by the events of the websocket (engineSocket.ts, WSHub), two        *)
(* connections without an order between them.  The engine is what its      *)
(* handlers emit and answer.                                               *)
(*                                                                         *)
(* The page sends one request at a time (busyAction), and marks besides:   *)
(* their button does not wait for the answer.  An event carries no meeting,*)
(* the socket's first message ("snapshot") is ignored.  The first chunk    *)
(* takes chunk_seconds, an answer and a connection on the loopback do not: *)
(* it comes after both.                                                    *)
(***************************************************************************)
EXTENDS Naturals, Sequences

CONSTANTS
    MaxMeetings, \* bound on the clicks on Start
    MaxChunks,   \* bound on the chunks of one
    MaxClicks,   \* bound on all the clicks
    MaxAttempts, \* maxAttempts of requestWithRetry()
    MaxFaults,   \* bound on sockets and answers that are lost
    MaxReloads,  \* bound on reloads of the window
    SlowEvents   \* TRUE: an event may take longer than it takes to start another meeting

ASSUME LiveViewAssumption ==
    /\ MaxMeetings \in Nat /\ MaxChunks \in Nat /\ MaxClicks \in Nat
    /\ MaxAttempts \in Nat \ {0} /\ MaxFaults \in Nat /\ MaxReloads \in Nat
    /\ SlowEvents \in BOOLEAN

VARIABLES
    meeting,  \* the engine's active meeting, 0 for none
    phase,    \* its state
    created,  \* meetings so far
    stored,   \* chunks on disk, by meeting
    marked,   \* markers on disk, by meeting
    call,     \* the request under way: "none", or what the page asked for
    leg,      \* it is on its way to the engine, or back
    answer,   \* what the handler answered
    attempt,
    asked,    \* marks that are on their way to the engine
    acked,    \* marks that it has taken, whose answer is on its way back
    socket,   \* the websocket: "off", "opening", "open", "waiting" to be opened again
    wire,     \* events that were sent and are not handled yet
    shown,    \* meetingId of the store, 0 for null
    state, chunks, markers, \* and the rest of it
    page,     \* "meeting": the live page is displayed, "home": a page that leads to Start
    missed,   \* history: an event of the meeting that is shown did not reach the store
    counts    \* clicks on start, on anything, faults and reloads so far

engine == <<meeting, phase, created, stored, marked>>
request == <<call, leg, answer, attempt>>
marks == <<asked, acked>>
store == <<shown, state, chunks, markers, page>>
vars == <<engine, request, marks, socket, wire, store, missed, counts>>

Meetings == 1 .. MaxMeetings
Phases == {"idle", "recording", "paused", "finalizing", "generating_notes", "completed"}
Buttons == {"start", "pause", "resume", "stop"}
Calls == Buttons \cup {"current", "detail"}

Event(type, value) == [type |-> type, value |-> value]

TypeOK ==
    /\ meeting \in 0 .. created /\ created \in 0 .. MaxMeetings
    /\ phase \in Phases
    /\ stored \in [Meetings -> 0 .. MaxChunks] /\ marked \in [Meetings -> Nat]
    /\ call \in Calls \cup {"none"} /\ leg \in {"request", "answer"}
    /\ attempt \in 0 .. MaxAttempts
    /\ asked \in Nat /\ acked \in Nat /\ page \in {"home", "meeting"}
    /\ socket \in {"off", "opening", "open", "waiting"}
    /\ socket # "open" => wire = <<>>
    /\ shown \in 0 .. MaxMeetings /\ state \in Phases
    /\ chunks \subseteq Meetings \X (1 .. MaxChunks) /\ markers \in Nat
    /\ missed \in BOOLEAN
    /\ counts \in [{"starts", "clicks", "faults", "reloads"} -> Nat]

NoAnswer == [ok |-> FALSE, meeting |-> 0, state |-> "idle", chunks |-> {}, markers |-> 0]

Init ==
    /\ meeting = 0 /\ phase = "idle" /\ created = 0
    /\ stored = [m \in Meetings |-> 0] /\ marked = [m \in Meetings |-> 0]
    /\ call = "none" /\ leg = "request" /\ answer = NoAnswer /\ attempt = 0
    /\ asked = 0 /\ acked = 0 /\ page = "home"
    /\ socket = "off" /\ wire = <<>>
    /\ shown = 0 /\ state = "idle" /\ chunks = {} /\ markers = 0
    /\ missed = FALSE
    /\ counts = [c \in {"starts", "clicks", "faults", "reloads"} |-> 0]

Count(c, max) == counts[c] < max /\ counts' = [counts EXCEPT ![c] = @ + 1]

\* WSHub.broadcast(): to whom is connected.
Emit(events) ==
    IF socket = "open" THEN wire' = wire \o events /\ UNCHANGED missed
    ELSE missed' = TRUE /\ UNCHANGED wire

-----------------------------------------------------------------------------
(* The engine                                                               *)

\* The worker's result: written, then broadcast.
Chunk ==
    /\ phase = "recording" /\ stored[meeting] < MaxChunks
    /\ stored[meeting] = 0 => call # "start" /\ socket # "opening"
    /\ stored' = [stored EXCEPT ![meeting] = @ + 1]
    /\ Emit(<<Event("transcript_chunk", <<meeting, stored'[meeting]>>)>>)
    /\ UNCHANGED <<meeting, phase, created, marked, request, marks, socket, store, counts>>

\* The notes task ends and frees the slot.
NotesDone ==
    /\ phase = "generating_notes"
    /\ phase' = "completed" /\ meeting' = 0
    /\ Emit(<<Event("state_changed", "completed")>>)
    /\ UNCHANGED <<created, stored, marked, request, marks, socket, store, counts>>

Arrives(op) == call = op /\ leg = "request"

Answers(ok, value) ==
    /\ answer' = [NoAnswer EXCEPT !.ok = ok, !.state = value, !.meeting = meeting']
    /\ leg' = "answer"
    /\ UNCHANGED <<call, attempt, marks, socket, store, counts>>

\* Mutant: the slot is not looked at.
HandleStart_Twice ==
    /\ Arrives("start")
    /\ IF created < MaxMeetings
       THEN /\ created' = created + 1 /\ meeting' = created' /\ phase' = "recording"
            /\ Emit(<<Event("state_changed", "recording")>>) /\ Answers(TRUE, "recording")
       ELSE UNCHANGED <<meeting, phase, created, wire, missed>> /\ Answers(FALSE, phase)
    /\ UNCHANGED <<stored, marked>>

HandleStart ==
    /\ Arrives("start")
    /\ IF meeting = 0
       THEN /\ created' = created + 1 /\ meeting' = created' /\ phase' = "recording"
            /\ Emit(<<Event("state_changed", "recording")>>) /\ Answers(TRUE, "recording")
       ELSE UNCHANGED <<meeting, phase, created, wire, missed>> /\ Answers(FALSE, phase)
    /\ UNCHANGED <<stored, marked>>

\* pause() and resume(): a transition that is not allowed is an error.
HandleMove(op, from, to) ==
    /\ Arrives(op)
    /\ UNCHANGED <<meeting, created, stored, marked>>
    /\ IF meeting # 0 /\ phase = from
       THEN phase' = to /\ Emit(<<Event("state_changed", to)>>) /\ Answers(TRUE, to)
       ELSE UNCHANGED <<phase, wire, missed>> /\ Answers(FALSE, phase)

\* The handler drains the pipeline: a last chunk may come before its answer.
HandleStop ==
    /\ Arrives("stop")
    /\ UNCHANGED <<meeting, created, marked>>
    /\ IF meeting # 0 /\ phase \in {"recording", "paused"}
       THEN \E last \in {stored[meeting], stored[meeting] + 1} \cap 0 .. MaxChunks :
              /\ phase' = "generating_notes" /\ stored' = [stored EXCEPT ![meeting] = last]
              /\ Emit(<<Event("state_changed", "finalizing")>>
                      \o [i \in 1 .. last - stored[meeting] |->
                           Event("transcript_chunk", <<meeting, last>>)]
                      \o <<Event("state_changed", "generating_notes")>>)
              /\ Answers(TRUE, "finalizing")
       ELSE UNCHANGED <<phase, stored, wire, missed>> /\ Answers(FALSE, phase)

\* A mark: the answer of one that is refused changes nothing.
HandleMark ==
    /\ asked > 0 /\ asked' = asked - 1
    /\ IF meeting # 0
       THEN /\ marked' = [marked EXCEPT ![meeting] = @ + 1]
            /\ Emit(<<Event("marker_added", meeting)>>) /\ acked' = acked + 1
       ELSE UNCHANGED <<marked, wire, missed, acked>>
    /\ UNCHANGED <<meeting, phase, created, stored, request, socket, store, counts>>

\* GET /meeting/current, and GET /meetings/{id} for what is on disk.
HandleCurrent ==
    /\ Arrives("current")
    /\ UNCHANGED <<engine, wire, missed>> /\ Answers(meeting # 0, phase)

HandleDetail ==
    /\ Arrives("detail")
    /\ answer' = [answer EXCEPT
         !.chunks = {<<answer.meeting, i>> : i \in 1 .. stored[answer.meeting]},
         !.markers = marked[answer.meeting]]
    /\ leg' = "answer" /\ missed' = FALSE
    /\ UNCHANGED <<engine, call, attempt, marks, socket, wire, store, counts>>

Handle ==
    \/ HandleStart \/ HandleStop \/ HandleMark \/ HandleCurrent \/ HandleDetail
    \/ HandleMove("pause", "recording", "paused") \/ HandleMove("resume", "paused", "recording")

-----------------------------------------------------------------------------
(* The requests of the page                                                 *)

\* The buttons of the pages that lead to Start and of the live page, which shows
\* Resume in every state but "recording".
Offered(op) ==
    \/ op = "start" /\ page = "home" /\ (SlowEvents \/ wire = <<>>)
    \/ op = "pause" /\ page = "meeting" /\ state = "recording"
    \/ op = "resume" /\ page = "meeting" /\ state # "recording"
    \/ op = "stop" /\ page = "meeting"

Click(op) ==
    /\ call = "none" /\ Offered(op) /\ counts["clicks"] < MaxClicks
    /\ op = "start" => counts["starts"] < MaxMeetings
    /\ counts' = [counts EXCEPT !["clicks"] = @ + 1,
                                !["starts"] = IF op = "start" THEN @ + 1 ELSE @]
    /\ call' = op /\ leg' = "request" /\ answer' = NoAnswer /\ attempt' = 0
    /\ UNCHANGED <<engine, marks, socket, wire, store, missed>>

\* "Mark Important" waits for the other buttons, not for itself.
ClickMark ==
    /\ call = "none" /\ page = "meeting" /\ Count("clicks", MaxClicks)
    /\ asked' = asked + 1
    /\ UNCHANGED <<engine, request, acked, socket, wire, store, missed>>

\* fetch() fails before or after the handler ran; requestWithRetry() sends the
\* request again, whatever it is, and gives up after the last attempt.
Fails ==
    /\ call # "none"
    /\ Count("faults", MaxFaults)
    /\ attempt' = attempt + 1 /\ leg' = "request"
    /\ call' = IF attempt' < MaxAttempts THEN call ELSE "none"
    /\ UNCHANGED <<engine, answer, marks, socket, wire, store, missed>>

\* The same of a mark; its attempts are not counted.
MarkFails ==
    /\ Count("faults", MaxFaults)
    /\ \/ asked > 0 /\ asked' \in {asked, asked - 1} /\ UNCHANGED acked
       \/ acked > 0 /\ acked' = acked - 1 /\ asked' \in {asked, asked + 1}
    /\ UNCHANGED <<engine, request, socket, wire, store, missed>>

Applies(op) == call = op /\ leg = "answer"

Done(to) == call' = to /\ leg' = "request" /\ attempt' = 0

\* ensureLiveSubscriptions()
Subscribed == socket' = IF socket = "off" THEN "opening" ELSE socket

\* Mutant: the chunks of the meeting before are kept.
ApplyStart_KeepChunks ==
    /\ Applies("start")
    /\ IF answer.ok
       THEN /\ shown' = answer.meeting /\ state' = "recording" /\ markers' = 0
            /\ page' = "meeting" /\ Subscribed /\ missed' = FALSE
       ELSE UNCHANGED <<shown, state, markers, page, socket, missed>>
    /\ Done("none")
    /\ UNCHANGED <<engine, answer, marks, chunks, wire, counts>>

ApplyStart ==
    /\ Applies("start")
    /\ IF answer.ok
       THEN /\ shown' = answer.meeting /\ state' = "recording" /\ chunks' = {} /\ markers' = 0
            /\ page' = "meeting" /\ Subscribed /\ missed' = FALSE
       ELSE UNCHANGED <<store, socket, missed>>
    /\ Done("none")
    /\ UNCHANGED <<engine, answer, marks, wire, counts>>

\* pause(), resume() and stop(): the engine's state, or "finalizing"; a stop that
\* was answered leads to the completion page.
ApplyState ==
    /\ call \in {"pause", "resume", "stop"} /\ leg = "answer"
    /\ state' = IF answer.ok THEN answer.state ELSE state
    /\ page' = IF answer.ok /\ call = "stop" THEN "home" ELSE page
    /\ Done("none")
    /\ UNCHANGED <<engine, answer, marks, socket, wire, shown, chunks, markers, missed, counts>>

\* markImportant() adds the marker, as its event will.
ApplyMark ==
    /\ acked > 0 /\ acked' = acked - 1
    /\ markers' = markers + 1
    /\ UNCHANGED <<engine, request, asked, socket, wire, shown, state, chunks, page, missed, counts>>

\* hydrateFromCurrent(): the meeting, then what is on disk of it.
ApplyCurrent ==
    /\ Applies("current")
    /\ Done(IF answer.ok THEN "detail" ELSE "none")
    /\ UNCHANGED <<engine, answer, marks, socket, wire, store, missed, counts>>

ApplyDetail ==
    /\ Applies("detail")
    /\ shown' = answer.meeting /\ state' = answer.state
    /\ chunks' = answer.chunks /\ markers' = answer.markers
    /\ page' = "meeting" /\ Subscribed
    /\ Done("none")
    /\ UNCHANGED <<engine, answer, marks, wire, missed, counts>>

Apply == ApplyStart \/ ApplyState \/ ApplyMark \/ ApplyCurrent \/ ApplyDetail

-----------------------------------------------------------------------------
(* The websocket                                                            *)

Opens ==
    /\ socket \in {"opening", "waiting"} /\ socket' = "open"
    /\ UNCHANGED <<engine, request, marks, wire, store, missed, counts>>

\* What is on the wire is lost; onclose connects again, and asks for nothing.
Drops ==
    /\ socket = "open" /\ Count("faults", MaxFaults)
    /\ socket' = "waiting" /\ wire' = <<>>
    /\ missed' = (missed \/ wire # <<>>)
    /\ UNCHANGED <<engine, request, marks, store>>

\* Mutant: state_changed is left to the answers.
Deliver_NoState ==
    /\ wire # <<>> /\ wire' = Tail(wire)
    /\ LET event == Head(wire) IN
       /\ UNCHANGED state
       /\ chunks' = IF event.type = "transcript_chunk"
                    THEN {c \in chunks : c[2] # event.value[2]} \cup {event.value} ELSE chunks
       /\ markers' = IF event.type = "marker_added" THEN markers + 1 ELSE markers
    /\ UNCHANGED <<engine, request, marks, socket, shown, page, missed, counts>>

\* handleMessage(): a chunk takes the place of the one with its index.
Deliver ==
    /\ wire # <<>> /\ wire' = Tail(wire)
    /\ LET event == Head(wire) IN
       /\ state' = IF event.type = "state_changed" THEN event.value ELSE state
       /\ chunks' = IF event.type = "transcript_chunk"
                    THEN {c \in chunks : c[2] # event.value[2]} \cup {event.value} ELSE chunks
       /\ markers' = IF event.type = "marker_added" THEN markers + 1 ELSE markers
    /\ UNCHANGED <<engine, request, marks, socket, shown, page, missed, counts>>

\* The window is reloaded (App.tsx) and its request with it.
Reload ==
    /\ Count("reloads", MaxReloads)
    /\ socket' = "off" /\ wire' = <<>> /\ missed' = TRUE
    /\ shown' = 0 /\ state' = "idle" /\ chunks' = {} /\ markers' = 0
    /\ page' = "home" /\ asked' = 0 /\ acked' = 0
    /\ call' = "current" /\ leg' = "request" /\ answer' = NoAnswer /\ attempt' = 0
    /\ UNCHANGED engine

Next ==
    \/ Chunk \/ NotesDone \/ Handle
    \/ (\E op \in Buttons : Click(op)) \/ ClickMark
    \/ Fails \/ MarkFails \/ Apply
    \/ Opens \/ Drops \/ Deliver \/ Reload

Spec == Init /\ [][Next]_vars

-----------------------------------------------------------------------------
(* Properties                                                               *)

\* Nothing is under way between the engine and the window that shows its meeting.
Quiet ==
    call = "none" /\ wire = <<>> /\ socket = "open" /\ meeting # 0 /\ shown = meeting

\* Each chunk on disk is on the screen, and none of another meeting, however the
\* answers, the events, the meetings and the reloads came; provided that no
\* event was lost.
ChunksShown ==
    Quiet /\ ~missed => chunks = {<<meeting, i>> : i \in 1 .. stored[meeting]}

\* The page offers Pause or Resume as the engine would take it, also when the
\* answer to the last click was lost.
StateShown ==
    Quiet /\ ~missed /\ phase \in {"recording", "paused"} => state = phase

\* requestWithRetry() sends a POST again that may have been served: one click on
\* Start starts at most one meeting.
OneMeetingPerClick ==
    created <= counts["starts"]

\* engineSocket.ts:1-3: "a dropped socket must not require the user to reload the
\* app".  Once the socket is open again the page shows what there is.
ViewCatchesUp ==
    Quiet /\ phase = "recording" => {<<meeting, i>> : i \in 1 .. stored[meeting]} \subseteq chunks

\* Each important moment is on the screen once.
MarkersShown ==
    Quiet /\ ~missed /\ asked + acked = 0 => markers = marked[meeting]

\* A start that is refused has started nothing.
RefusedStartsNothing ==
    Applies("start") /\ ~answer.ok => meeting = 0 \/ meeting = shown \/ attempt = 0

\* One click marks one moment.
OneMarkerPerClick ==
    \A m \in Meetings : marked[m] <= counts["clicks"] - counts["starts"]
=============================================================================
