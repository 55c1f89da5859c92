---------------------------- MODULE AudioCapture ----------------------------
(***************************************************************************)
(* The capture threads of engine/audio/soundcard_common.py under the       *)
(* session that starts, pauses, resumes and stops them: one recorder per   *)
(* source, the assembler that mixes what they recorded into chunks, the    *)
(* stop event they all poll, and the joins that give up after five         *)
(* seconds.                                                                *)
(*                                                                         *)
(* Time is counted in blocks, the unit a device delivers (BLOCK_SIZE); the *)
(* device buffers for a recorder that is behind.  A block is named by the  *)
(* start it was recorded under and the time it was recorded at; samples    *)
(* and their sum are left out.  A recorder tests the stop event in the     *)
(* step that brings it to the test, and the assembler drains both sources, *)
(* who share nothing, in one step.  The growing delay of the retries is    *)
(* some delay.                                                             *)
(***************************************************************************)
EXTENDS Integers, Sequences

CONSTANTS
    Sources,      \* the sources: the microphone and the system audio
    ChunkLength,  \* chunk_seconds, in blocks
    MaxTime,      \* bound on the time during which a command may be given
    MaxStarts,    \* bound on the starts of the capture
    MaxFlips,     \* bound on devices being plugged and unplugged
    MaxSlack,     \* bound, in blocks, on how late a thread does what is due
    Hangs         \* TRUE: a device may block its recorder for five seconds

ASSUME CaptureAssumption ==
    /\ ChunkLength \in Nat \ {0} /\ MaxTime \in Nat /\ MaxStarts \in Nat
    /\ MaxFlips \in Nat /\ MaxSlack \in Nat /\ Hangs \in BOOLEAN

Starts == 1 .. MaxStarts

VARIABLES
    now,        \* time.monotonic()
    plugged,    \* plugged[s]: the device of source s is there
    flips,      \* how often one was plugged or unplugged
    session,    \* the session: idle, starting, capturing, pausing, joining, paused, stopped
    final,      \* the stop in progress is stop(), not pause()
    elapsed,    \* _elapsed_at_last_pause
    segment,    \* _segment_start_wall, Unset outside a segment
    stopEvent,  \* _stop_event
    started,    \* how often start() was called
    recorder,   \* recorder[g][s]: the recorder of source s of the g-th start, and
                \* the time of the next block it gets
    assembler,  \* the assembler of the latest start
    connected,  \* connected[s]: _SourceState.connected
    frames,     \* frames[s]: _SourceState.frames
    chunks,     \* the start offsets of the chunks given to on_chunk
    last,       \* history: last[s], the last block of s in them
    skew,       \* history: time spent inside start() and between a pause's two readings
    orphans     \* history: the recorders a join gave up on

world == <<now, plugged, flips>>
control == <<session, final, elapsed, segment, stopEvent, started>>
output == <<frames, chunks, last>>
history == <<skew, orphans>>
vars == <<world, control, recorder, assembler, connected, output, history>>

Unset == -1   \* no segment is running
NoBlock == 0  \* the mark of a recorder that is not recording

Init ==
    /\ now = 0 /\ plugged \in [Sources -> BOOLEAN] /\ flips = 0
    /\ session = "idle" /\ final = FALSE /\ elapsed = 0 /\ segment = Unset
    /\ stopEvent = FALSE /\ started = 0
    /\ recorder = [g \in Starts |-> [s \in Sources |-> [pc |-> "none", mark |-> NoBlock]]]
    /\ assembler = [pc |-> "none", boundary |-> 0, offset |-> 0]
    /\ connected = [s \in Sources |-> FALSE]
    /\ frames = [s \in Sources |-> <<>>]
    /\ chunks = <<>>
    /\ last = [s \in Sources |-> <<0, 0>>]
    /\ skew = 0
    /\ orphans = {}

-----------------------------------------------------------------------------
(* The session: start_recording, pause, resume, stop.                      *)

\* Mutant: resume() starts the capture without its offset.
InitialOffset_Zero == 0

\* initial_offset_seconds; zero before the first pause.
InitialOffset == elapsed

\* audio_capture.start(): the event is cleared and three threads start.
StartCapture ==
    /\ session \in {"idle", "paused"} /\ started < MaxStarts /\ now < MaxTime
    /\ session' = "starting"
    /\ started' = started + 1
    /\ stopEvent' = FALSE
    /\ recorder' = [recorder EXCEPT ![started + 1] =
                      [s \in Sources |-> [pc |-> "opening", mark |-> NoBlock]]]
    /\ assembler' = [pc |-> "wait", boundary |-> now + ChunkLength, offset |-> InitialOffset]
    /\ UNCHANGED <<world, final, elapsed, segment, connected, output, history>>

\* start() has returned: the session notes when its segment began.
BeginSegment ==
    /\ session = "starting"
    /\ session' = "capturing"
    /\ segment' = now
    /\ UNCHANGED <<world, final, elapsed, stopEvent, started, recorder, assembler,
                   connected, output, history>>

\* _current_segment_elapsed()
SegmentElapsed == IF segment = Unset THEN 0 ELSE now - segment

\* pause() reads the clock before it stops the capture.
Pause ==
    /\ session = "capturing" /\ now < MaxTime
    /\ session' = "pausing"
    /\ final' = FALSE
    /\ elapsed' = elapsed + SegmentElapsed
    /\ segment' = Unset
    /\ UNCHANGED <<world, stopEvent, started, recorder, assembler,
                   connected, output, history>>

\* audio_capture.stop() of a pause, or at once of stop(), which may come while
\* the session is paused.
SignalStop ==
    /\ \/ session = "pausing" /\ final' = FALSE
       \/ session \in {"capturing", "paused"} /\ now < MaxTime /\ final' = TRUE
    /\ session' = "joining"
    /\ stopEvent' = TRUE
    /\ UNCHANGED <<world, elapsed, segment, started, recorder, assembler,
                   connected, output, history>>

StillRunning == {s \in Sources : recorder[started][s].pc # "done"}

\* The joins return.  The assembler is always through in time, its waits end
\* with the event; a recorder inside a blocked device may not be.  stop()
\* reads the clock afterwards.
Join ==
    /\ session = "joining"
    /\ assembler.pc = "done"
    /\ StillRunning = {} \/ Hangs
    /\ orphans' = orphans \cup {<<started, s>> : s \in StillRunning}
    /\ session' = IF final THEN "stopped" ELSE "paused"
    /\ elapsed' = IF final THEN elapsed + SegmentElapsed ELSE elapsed
    /\ segment' = Unset
    /\ UNCHANGED <<world, final, stopEvent, started, recorder, assembler,
                   connected, output, skew>>

-----------------------------------------------------------------------------
(* _record_loop of source s, started by the g-th start.                    *)

Ended == [pc |-> "done", mark |-> NoBlock]

\* "while not _stop_event.is_set()"
OrEnded(place, mark) == IF stopEvent THEN Ended ELSE [pc |-> place, mark |-> mark]

\* The device is resolved and opened.
OpenDevice(g, s) ==
    /\ recorder[g][s].pc = "opening" /\ plugged[s]
    /\ recorder' = [recorder EXCEPT ![g][s] = OrEnded("reading", now)]
    /\ connected' = [connected EXCEPT ![s] = TRUE]
    /\ UNCHANGED <<world, control, assembler, output, history>>

\* record() returns a block, which is pushed.
PushBlock(g, s) ==
    LET mark == recorder[g][s].mark IN
    /\ recorder[g][s].pc = "reading" /\ plugged[s] /\ mark < now
    /\ frames' = [frames EXCEPT ![s] = Append(@, <<g, mark>>)]
    /\ recorder' = [recorder EXCEPT ![g][s] = OrEnded("reading", mark + 1)]
    /\ UNCHANGED <<world, control, assembler, connected, chunks, last, history>>

\* Mutant: a failure ends the recorder.
LoseDevice_GivesUp(g, s) ==
    /\ recorder[g][s].pc \in {"opening", "reading"} /\ ~plugged[s]
    /\ recorder' = [recorder EXCEPT ![g][s] = Ended]
    /\ connected' = [connected EXCEPT ![s] = FALSE]
    /\ UNCHANGED <<world, control, assembler, output, history>>

\* Opening or recording raises: the source is marked disconnected and the
\* recorder waits.
LoseDevice(g, s) ==
    /\ recorder[g][s].pc \in {"opening", "reading"} /\ ~plugged[s]
    /\ recorder' = [recorder EXCEPT ![g][s] = [pc |-> "backoff", mark |-> NoBlock]]
    /\ connected' = [connected EXCEPT ![s] = FALSE]
    /\ UNCHANGED <<world, control, assembler, output, history>>

\* _stop_event.wait(backoff) ends.
Retry(g, s) ==
    /\ recorder[g][s].pc = "backoff"
    /\ recorder' = [recorder EXCEPT ![g][s] = OrEnded("opening", NoBlock)]
    /\ UNCHANGED <<world, control, assembler, connected, output, history>>

-----------------------------------------------------------------------------
(* _assembler_loop                                                         *)

\* Mutants: draining leaves the frames; a window is cut one block short.
Drained_Kept == frames
Fitting_OneShort(blocks) ==
    SubSeq(blocks, 1, IF Len(blocks) < ChunkLength THEN Len(blocks) ELSE ChunkLength - 1)

\* _SourceState.drain(), under the lock of each source.
Drained == [s \in Sources |-> <<>>]

\* What _pad_or_trim leaves of a window's blocks; silence is no block.
Fitting(blocks) ==
    SubSeq(blocks, 1, IF Len(blocks) < ChunkLength THEN Len(blocks) ELSE ChunkLength)

\* The last block of s after blocks are given to on_chunk.
Shipped(s, blocks) == IF blocks = <<>> THEN last[s] ELSE blocks[Len(blocks)]

\* The wait ends at the boundary with the event not set.  The event may be
\* set from here on without keeping the chunk from being shipped.
Due ==
    /\ assembler.pc = "wait" /\ ~stopEvent /\ now >= assembler.boundary
    /\ assembler' = [assembler EXCEPT !.pc = "due"]
    /\ UNCHANGED <<world, control, recorder, connected, output, history>>

\* Mutant: a chunk waits until every source is connected.
Ship_AllConnected ==
    /\ assembler.pc = "due"
    /\ \A s \in Sources : connected[s]
    /\ frames' = Drained
    /\ chunks' = Append(chunks, assembler.offset)
    /\ last' = [s \in Sources |-> Shipped(s, Fitting(frames[s]))]
    /\ assembler' = [pc |-> "wait", boundary |-> assembler.boundary + ChunkLength,
                     offset |-> assembler.offset + ChunkLength]
    /\ UNCHANGED <<world, control, recorder, connected, history>>

\* The sources are drained, cut to the length of a chunk and handed to
\* on_chunk.
Ship ==
    /\ assembler.pc = "due"
    /\ frames' = Drained
    /\ chunks' = Append(chunks, assembler.offset)
    /\ last' = [s \in Sources |-> Shipped(s, Fitting(frames[s]))]
    /\ assembler' = [pc |-> "wait", boundary |-> assembler.boundary + ChunkLength,
                     offset |-> assembler.offset + ChunkLength]
    /\ UNCHANGED <<world, control, recorder, connected, history>>

\* Mutant: the assembler ends without flushing the tail.
ShipTail_Dropped ==
    /\ assembler.pc = "wait" /\ stopEvent
    /\ assembler' = [assembler EXCEPT !.pc = "done"]
    /\ UNCHANGED <<world, control, recorder, connected, output, history>>

\* The event is set: what is left is shipped uncut, if it is anything at all.
ShipTail ==
    /\ assembler.pc = "wait" /\ stopEvent
    /\ frames' = Drained
    /\ chunks' = IF \A s \in Sources : frames[s] = <<>>
                 THEN chunks ELSE Append(chunks, assembler.offset)
    /\ last' = [s \in Sources |-> Shipped(s, frames[s])]
    /\ assembler' = [assembler EXCEPT !.pc = "done"]
    /\ UNCHANGED <<world, control, recorder, connected, history>>

-----------------------------------------------------------------------------
(* The world: time, and devices that come and go.                          *)

\* Every thread that is not blocked is at most MaxSlack behind, so time cannot
\* pass beyond that.
InTime ==
    /\ session \in {"starting", "pausing"} => skew < MaxSlack
    /\ assembler.pc = "due" \/ (assembler.pc = "wait" /\ ~stopEvent) =>
         now < assembler.boundary + MaxSlack
    /\ \A g \in Starts, s \in Sources :
         recorder[g][s].pc = "reading" /\ plugged[s] /\ <<g, s>> \notin orphans =>
             now <= recorder[g][s].mark + MaxSlack

\* A join in progress leaves the blocks being recorded time to complete.
Tick ==
    /\ session \notin {"idle", "stopped"}
    /\ now < (IF session = "joining" THEN MaxTime + 1 ELSE MaxTime)
    /\ InTime
    /\ now' = now + 1
    /\ skew' = IF session \in {"starting", "pausing"} THEN skew + 1 ELSE skew
    /\ UNCHANGED <<plugged, flips, control, recorder, assembler, connected, output, orphans>>

Flip(s) ==
    /\ flips < MaxFlips
    /\ flips' = flips + 1
    /\ plugged' = [plugged EXCEPT ![s] = ~@]
    /\ UNCHANGED <<now, control, recorder, assembler, connected, output, history>>

-----------------------------------------------------------------------------
Session == StartCapture \/ BeginSegment \/ Pause \/ SignalStop \/ Join

Reconnecting(g, s) == OpenDevice(g, s) \/ LoseDevice(g, s) \/ Retry(g, s)

Assembler == Due \/ Ship \/ ShipTail

Next ==
    \/ Session
    \/ Assembler
    \/ \E g \in Starts, s \in Sources : Reconnecting(g, s) \/ PushBlock(g, s)
    \/ Tick
    \/ \E s \in Sources : Flip(s)

Spec == Init /\ [][Next]_vars

\* The threads are scheduled; nothing obliges a device to deliver its next
\* block, nor the user to give a command.
FairSpec ==
    /\ Spec
    /\ WF_vars(Assembler)
    /\ \A g \in Starts, s \in Sources : WF_vars(Reconnecting(g, s))

-----------------------------------------------------------------------------
(* Properties                                                              *)

Block == (0 .. MaxStarts) \X Nat

\* Every variable keeps its type.
TypeOK ==
    /\ now \in 0 .. MaxTime + 1 /\ flips \in 0 .. MaxFlips
    /\ plugged \in [Sources -> BOOLEAN]
    /\ session \in {"idle", "starting", "capturing", "pausing", "joining", "paused", "stopped"}
    /\ final \in BOOLEAN /\ elapsed \in 0 .. now /\ segment \in {Unset} \cup (0 .. now)
    /\ stopEvent \in BOOLEAN /\ started \in 0 .. MaxStarts
    /\ recorder \in [Starts -> [Sources ->
         [pc : {"none", "opening", "reading", "backoff", "done"}, mark : 0 .. now]]]
    /\ assembler \in [pc : {"none", "wait", "due", "done"}, boundary : Nat, offset : Nat]
    /\ connected \in [Sources -> BOOLEAN]
    /\ frames \in [Sources -> Seq(Block)]
    /\ chunks \in Seq(Nat)
    /\ last \in [Sources -> Block]
    /\ skew \in Nat
    /\ orphans \subseteq Starts \X Sources

\* Recorders g and h of source s take turns: they are one recorder, or the
\* join that waited for each saw it end.
InTurn(s, g, h) == g = h \/ {<<g, s>>, <<h, s>>} \cap orphans = {}

\* Block b of source s was recorded later than block a, where their recorders
\* took turns.
Follows(s, a, b) == a[1] # 0 /\ InTurn(s, a[1], b[1]) => a[2] < b[2]

\* soundcard_common.py:194-225: what was drained and shipped is not shipped
\* again, and no audio overtakes other audio of its source, across chunks,
\* pauses and starts.  Nothing is said of a recorder that outlived its stop
\* against another one: Released is the property that fails there.
BlocksInOrder ==
    \A s \in Sources :
        /\ \A i, j \in 1 .. Len(frames[s]) : i < j => Follows(s, frames[s][i], frames[s][j])
        /\ \A i \in 1 .. Len(frames[s]) : Follows(s, last[s], frames[s][i])

\* base.py:76: "Stop capture and release all devices."  When stop() has
\* returned, no recorder holds a device, nor does one of an earlier start
\* beside those of the next.
Released ==
    \A g \in Starts, s \in Sources :
        recorder[g][s].pc = "reading" => g = started /\ session \notin {"paused", "stopped"}

\* No moment of a source waits twice to be shipped, in the blocks of two
\* recorders.
AudioOnce ==
    \A s \in Sources : \A i, j \in 1 .. Len(frames[s]) :
        i < j => frames[s][i][2] # frames[s][j][2]

\* The blocks of source s that the chunk being shipped is not made of: they
\* came before its window began, or after its boundary.
OffSchedule(s) ==
    {i \in 1 .. Len(frames[s]) :
        \/ frames[s][i][1] # started
        \/ frames[s][i][2] \notin (assembler.boundary - ChunkLength) .. (assembler.boundary - 1)}

\* Audio is only cut away when some thread was off schedule: a source whose
\* blocks were all recorded within the window loses none of them.
CutsOnlyOffSchedule ==
    [][Len(chunks') > Len(chunks) =>
         \A s \in Sources : OffSchedule(s) = {} /\ frames[s] # <<>> /\ orphans = {} =>
             last'[s] = frames[s][Len(frames[s])]]_vars

\* soundcard_common.py:225 flushes the tail when the capture stops.  A block
\* that a recorder completes after the assembler's last drain stays behind:
\* never more than one per source.
TailLeftBound ==
    session \in {"paused", "stopped"} /\ orphans = {} =>
        \A s \in Sources : Len(frames[s]) <= 1

\* base.py:69-72: a capture resumed after a pause continues the timestamps.
\* The chunks' own clock and the session's disagree by the time spent inside
\* start() and pause(), and by no more.
StartsInOrder ==
    \A i, j \in 1 .. Len(chunks) : i < j => chunks[i] <= chunks[j] + skew

\* soundcard_common.py:16-21: a due chunk ships and the next boundary is set,
\* whatever the devices do.
ShipsOnSchedule ==
    (session = "capturing" /\ now >= assembler.boundary)
    ~> (session # "capturing" \/ now < assembler.boundary)

\* soundcard_common.py:22-25: a source whose device is there again is
\* recorded again.
Reconnects ==
    \A s \in Sources :
        (session = "capturing" /\ plugged[s])
        ~> (session # "capturing" \/ ~plugged[s] \/ recorder[started][s].pc = "reading")

=============================================================================
