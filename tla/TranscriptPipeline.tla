------------------------- MODULE TranscriptPipeline -------------------------
(***************************************************************************)
(* From captured audio to the transcript on disk, for one meeting: the     *)
(* queue and the worker thread of engine/transcription/pipeline.py, the    *)
(* three writes of MeetingStore.append_chunk_record, the draining stop of  *)
(* a session, crashes, and the resume after a restart.                     *)
(*                                                                         *)
(* Threads: the audio assembler (Count, Put), the worker (Take ...         *)
(* Account) and the thread that stops the session (StopCapture ... Join).  *)
(* Time is counted in chunks: a chunk starts at the session's chunk offset *)
(* and is one unit long (AudioCapture has the clock the offsets come from).*)
(***************************************************************************)
EXTENDS Integers, Sequences

CONSTANTS
    MaxChunks,    \* bound on the chunks captured over the whole behaviour
    MaxCrashes,   \* bound on crashes
    SlowDrain,    \* TRUE: the backlog may outlast the 60 s that stop() waits for it
    WriteFaults   \* TRUE: a write of append_chunk_record may raise

ASSUME PipelineAssumption ==
    /\ MaxChunks \in Nat /\ MaxCrashes \in Nat
    /\ SlowDrain \in BOOLEAN /\ WriteFaults \in BOOLEAN

VARIABLES
    phase,       \* the session: recording, paused, draining, joining, finalized, down
    captured,    \* how many chunks the assembler has produced
    offset,      \* where the next chunk starts (chunk_start_offset)
    elapsed,     \* the session's own clock of recorded time
    handing,     \* the chunk inside submit(), counted but not yet queued
    queue,       \* the queue of chunks
    sentinel,    \* stop() has queued None behind them
    pending,     \* _pending_chunks
    nextIndex,   \* _next_index
    worker,      \* the worker: idle, transcribing, text, checkpoint, account, gone
    hand,        \* the chunk in the worker's hands and its index
    json,        \* transcript.json
    text,        \* transcript.txt, as the indices of its entries
    checkpoint,  \* metadata.json's last_completed_chunk
    firstOfRun,  \* history: chunks captured before this run of the engine
    spoiled,     \* history: a write raised, or a stop gave up on its backlog
    crashes      \* crashes so far

session == <<phase, captured, offset, elapsed, handing, firstOfRun, spoiled>>
channel == <<queue, sentinel, pending>>
working == <<nextIndex, worker, hand>>
files == <<json, text, checkpoint>>
vars == <<session, channel, working, files, crashes>>

\* A chunk of audio: its number in order of capture and its start offset.
Chunk == [id : 1 .. MaxChunks, start : Nat]
Record == [chunk : Chunk, index : Nat, ok : BOOLEAN]
Held == [chunk : Chunk, index : Nat]

Nothing == <<>>  \* no chunk is being handed over, the worker holds none

Init ==
    /\ phase = "recording"
    /\ captured = 0 /\ offset = 0 /\ elapsed = 0 /\ handing = Nothing
    /\ firstOfRun = 0 /\ spoiled = FALSE
    /\ queue = <<>> /\ sentinel = FALSE /\ pending = 0
    /\ nextIndex = 0 /\ worker = "idle" /\ hand = Nothing
    /\ json = <<>> /\ text = <<>> /\ checkpoint = -1
    /\ crashes = 0

-----------------------------------------------------------------------------
(* The assembler thread: on_chunk -> submit().                             *)

\* Mutant: submit() queues the chunk without counting it.
Count_Uncounted ==
    /\ phase = "recording" /\ handing = Nothing /\ captured < MaxChunks
    /\ captured' = captured + 1
    /\ handing' = <<[id |-> captured + 1, start |-> offset]>>
    /\ offset' = offset + 1 /\ elapsed' = elapsed + 1
    /\ UNCHANGED <<phase, firstOfRun, spoiled, queue, sentinel, pending, working, files, crashes>>

\* A chunk is complete (or the tail is flushed): submit() counts it ...
Count ==
    /\ phase = "recording" /\ handing = Nothing /\ captured < MaxChunks
    /\ captured' = captured + 1
    /\ handing' = <<[id |-> captured + 1, start |-> offset]>>
    /\ offset' = offset + 1 /\ elapsed' = elapsed + 1
    /\ pending' = pending + 1
    /\ UNCHANGED <<phase, firstOfRun, spoiled, queue, sentinel, working, files, crashes>>

\* ... and then queues it.
Put ==
    /\ handing # Nothing
    /\ queue' = Append(queue, handing[1])
    /\ handing' = Nothing
    /\ UNCHANGED <<phase, captured, offset, elapsed, firstOfRun, spoiled, sentinel, pending,
                   working, files, crashes>>

-----------------------------------------------------------------------------
(* The worker thread: _run and _process.                                   *)

\* queue.get() of a chunk, which receives the next index.
Take ==
    /\ worker = "idle" /\ queue # <<>>
    /\ hand' = [chunk |-> Head(queue), index |-> nextIndex]
    /\ queue' = Tail(queue)
    /\ nextIndex' = nextIndex + 1
    /\ worker' = "transcribing"
    /\ UNCHANGED <<session, sentinel, pending, files, crashes>>

\* queue.get() of the sentinel: the worker thread ends.
Exit ==
    /\ worker = "idle" /\ queue = <<>> /\ sentinel
    /\ worker' = "gone"
    /\ sentinel' = FALSE
    /\ UNCHANGED <<session, queue, pending, nextIndex, hand, files, crashes>>

\* Mutant: an unreadable transcript.json is taken for an empty one.
CommitJson_Overwrites ==
    /\ worker = "transcribing"
    /\ json' = <<[chunk |-> hand.chunk, index |-> hand.index, ok |-> TRUE]>>
    /\ worker' = "text"
    /\ UNCHANGED <<session, channel, nextIndex, hand, text, checkpoint, crashes>>

\* transcribe_chunk() succeeds or gives up, and the record is appended to
\* transcript.json atomically.  A file that is no JSON would be taken for an
\* empty list: the worker is its only writer and replaces it whole (AtomicFile),
\* so there is none.
CommitJson ==
    /\ worker = "transcribing"
    /\ \E ok \in BOOLEAN :
         json' = Append(json, [chunk |-> hand.chunk, index |-> hand.index, ok |-> ok])
    /\ worker' = "text"
    /\ UNCHANGED <<session, channel, nextIndex, hand, text, checkpoint, crashes>>

\* Mutant: failed chunks get no entry in transcript.txt.
AppendText_OkOnly ==
    /\ worker = "text"
    /\ text' = IF json[Len(json)].ok THEN Append(text, hand.index) ELSE text
    /\ worker' = "checkpoint"
    /\ UNCHANGED <<session, channel, nextIndex, hand, json, checkpoint, crashes>>

\* The entry is appended to transcript.txt.
AppendText ==
    /\ worker = "text"
    /\ text' = Append(text, hand.index)
    /\ worker' = "checkpoint"
    /\ UNCHANGED <<session, channel, nextIndex, hand, json, checkpoint, crashes>>

\* metadata.json records the index as last_completed_chunk, failed or not.
Checkpoint ==
    /\ worker = "checkpoint"
    /\ checkpoint' = hand.index
    /\ worker' = "account"
    /\ UNCHANGED <<session, channel, nextIndex, hand, json, text, crashes>>

\* Mutants: a failed write is swallowed and the next one goes on; _run counts
\* the chunk as done only when it succeeded.
FailWrite_Swallowed ==
    /\ WriteFaults /\ worker \in {"transcribing", "text", "checkpoint"}
    /\ worker' = IF worker = "transcribing" THEN "text" ELSE "account"
    /\ spoiled' = TRUE
    /\ UNCHANGED <<phase, captured, offset, elapsed, handing, firstOfRun, channel, nextIndex,
                   hand, files, crashes>>
FailWrite_NoFinally ==
    /\ WriteFaults /\ worker \in {"transcribing", "text", "checkpoint"}
    /\ worker' = "idle" /\ hand' = Nothing
    /\ spoiled' = TRUE
    /\ UNCHANGED <<phase, captured, offset, elapsed, handing, firstOfRun, channel, nextIndex,
                   files, crashes>>

\* One of the three writes raises; _run logs it.
FailWrite ==
    /\ WriteFaults /\ worker \in {"transcribing", "text", "checkpoint"}
    /\ worker' = "account"
    /\ spoiled' = TRUE
    /\ UNCHANGED <<phase, captured, offset, elapsed, handing, firstOfRun, channel, nextIndex,
                   hand, files, crashes>>

\* The "finally" of _run.
Account ==
    /\ worker = "account"
    /\ pending' = IF pending = 0 THEN 0 ELSE pending - 1
    /\ worker' = "idle"
    /\ hand' = Nothing
    /\ UNCHANGED <<session, queue, sentinel, nextIndex, files, crashes>>

-----------------------------------------------------------------------------
(* Commands on the session.                                                *)

\* audio_capture.stop() joins the assembler, so no submit() is in progress.
Pause ==
    /\ phase = "recording" /\ handing = Nothing
    /\ phase' = "paused"
    /\ UNCHANGED <<captured, offset, elapsed, handing, firstOfRun, spoiled, channel, working,
                   files, crashes>>

\* resume() restarts the capture at the elapsed time.
Unpause ==
    /\ phase = "paused"
    /\ phase' = "recording"
    /\ offset' = elapsed
    /\ UNCHANGED <<captured, elapsed, handing, firstOfRun, spoiled, channel, working,
                   files, crashes>>

StopCapture ==
    /\ phase \in {"recording", "paused"} /\ handing = Nothing
    /\ phase' = "draining"
    /\ UNCHANGED <<captured, offset, elapsed, handing, firstOfRun, spoiled, channel, working,
                   files, crashes>>

\* Mutant: stop(drain=False).
Drained_NoWait ==
    /\ phase = "draining"
    /\ phase' = "joining"
    /\ sentinel' = TRUE
    /\ UNCHANGED spoiled
    /\ UNCHANGED <<captured, offset, elapsed, handing, firstOfRun, queue, pending,
                   working, files, crashes>>

\* pipeline.stop(drain): once nothing is pending, or when 60 s have passed,
\* the sentinel is queued.
Drained ==
    /\ phase = "draining"
    /\ pending = 0 \/ SlowDrain
    /\ phase' = "joining"
    /\ sentinel' = TRUE
    /\ spoiled' = (spoiled \/ pending > 0)
    /\ UNCHANGED <<captured, offset, elapsed, handing, firstOfRun, queue, pending,
                   working, files, crashes>>

\* The join of the worker returns when it ended, or after 10 s; the store is
\* finalized.
Join ==
    /\ phase = "joining"
    /\ worker = "gone" \/ pending > 0
    /\ phase' = "finalized"
    /\ UNCHANGED <<captured, offset, elapsed, handing, firstOfRun, spoiled, channel, working,
                   files, crashes>>

-----------------------------------------------------------------------------
(* Crash and resume.                                                       *)

\* The process dies with its queue and its threads.
Crash ==
    /\ phase # "down" /\ crashes < MaxCrashes
    /\ phase' = "down"
    /\ crashes' = crashes + 1
    /\ handing' = Nothing /\ queue' = <<>> /\ sentinel' = FALSE /\ pending' = 0
    /\ worker' = "gone" /\ hand' = Nothing
    /\ UNCHANGED <<captured, offset, elapsed, firstOfRun, spoiled, nextIndex, files>>

\* Mutant: the index comes from last_completed_chunk.
NextIndexOf_Checkpoint(records) == checkpoint + 1

\* One past the largest chunk_index of the records.
NextIndexOf(records) ==
    CHOOSE n \in {0} \cup {records[i].index + 1 : i \in 1 .. Len(records)} :
        \A i \in 1 .. Len(records) : records[i].index < n

\* last_end_offset: the largest end of the records.
IsLastEnd(end, records) ==
    /\ \A i \in 1 .. Len(records) : records[i].chunk.start + 1 <= end
    /\ end = 0 \/ \E i \in 1 .. Len(records) : records[i].chunk.start + 1 = end

\* resume_after_restart(): a new pipeline and a session clock seeded from
\* transcript.json; the capture is started without an offset.
ResumeAfterRestart ==
    /\ phase = "down"
    /\ phase' = "recording"
    /\ nextIndex' = NextIndexOf(json)
    /\ worker' = "idle"
    /\ offset' = 0
    /\ \E end \in 0 .. MaxChunks : IsLastEnd(end, json) /\ elapsed' = end
    /\ firstOfRun' = captured
    /\ UNCHANGED <<captured, handing, spoiled, channel, hand, files, crashes>>

-----------------------------------------------------------------------------
Submitting == Count \/ Put
Working == Take \/ Exit \/ CommitJson \/ AppendText \/ Checkpoint \/ FailWrite \/ Account
Stopping == Drained \/ Join

Next ==
    \/ Submitting \/ Working \/ Stopping
    \/ Pause \/ Unpause \/ StopCapture
    \/ Crash \/ ResumeAfterRestart

Spec == Init /\ [][Next]_vars

\* The worker thread and the stopping thread are scheduled; a transcription
\* returns and a queue put does not block.
FairSpec == Spec /\ WF_vars(Working) /\ WF_vars(Stopping) /\ WF_vars(Put)

-----------------------------------------------------------------------------
(* Properties                                                              *)

\* Every variable keeps its type.
TypeOK ==
    /\ phase \in {"recording", "paused", "draining", "joining", "finalized", "down"}
    /\ captured \in 0 .. MaxChunks
    /\ offset \in Nat /\ elapsed \in Nat
    /\ handing \in Seq(Chunk) /\ Len(handing) <= 1
    /\ firstOfRun \in 0 .. MaxChunks /\ spoiled \in BOOLEAN
    /\ queue \in Seq(Chunk)
    /\ sentinel \in BOOLEAN
    /\ pending \in Nat
    /\ nextIndex \in Nat
    /\ worker \in {"idle", "transcribing", "text", "checkpoint", "account", "gone"}
    /\ hand \in {Nothing} \cup Held
    /\ json \in Seq(Record)
    /\ text \in Seq(Nat)
    /\ checkpoint \in Nat \cup {-1}
    /\ crashes \in 0 .. MaxCrashes

Busy == worker \notin {"idle", "gone"}

\* transcript.json never numbers two chunks alike nor out of order, across
\* write failures, crashes and resumes: an index is consumed by _process even
\* if its record is lost, and a resume continues past the largest on disk.
IndicesIncrease ==
    \A i, j \in 1 .. Len(json) : i < j => json[i].index < json[j].index

\* The drain loop of pipeline.stop() polls _pending_chunks: the counter is
\* exactly the chunks queued, being handed over or in the worker's hands, so
\* it is zero only when nothing is on its way.
PendingCountsInFlight ==
    pending = Len(queue) + (IF Busy THEN 1 ELSE 0) + (IF handing # Nothing THEN 1 ELSE 0)

\* session.py:93-96: when stop() returns, the transcript is complete and on
\* disk: every chunk captured by this run of the engine has its record.
StopLosesNothing ==
    phase = "finalized" =>
        \A c \in (firstOfRun + 1) .. captured :
            \E i \in 1 .. Len(json) : json[i].chunk.id = c

\* That is so unless a write raised or the drain ran into its 60 s: no race of
\* the three threads, no pause, crash or resume alone makes a stop lose a chunk.
StopIsComplete == ~spoiled => StopLosesNothing

\* metadata.json never points at a chunk that transcript.json does not hold.
CheckpointIsDurable ==
    checkpoint = -1 \/ \E i \in 1 .. Len(json) : json[i].index = checkpoint

\* The notes are generated from transcript.txt: a crash between the write of
\* transcript.json and the append costs it one chunk, and nothing else does
\* as long as no write raises.
TextMissesOnePerCrash ==
    ~spoiled => Len(json) - Len(text) <= crashes + (IF worker = "text" THEN 1 ELSE 0)

\* meeting_store.py:141-145: last_completed_chunk only advances for chunks
\* that were transcribed.
CheckpointOnlySuccess ==
    \A i \in 1 .. Len(json) : json[i].index = checkpoint => json[i].ok

\* main.py:777-779: a resumed meeting continues its timestamps.
OffsetsContinue ==
    \A i, j \in 1 .. Len(json) : i < j => json[i].chunk.start < json[j].chunk.start

\* Once a stop has begun, every chunk on its way is accounted for, however
\* many writes fail and even if stop() has given up waiting: the drain never
\* waits for a chunk that nobody works on.
BacklogDrains == phase = "draining" ~> (pending = 0 \/ phase = "down")

-----------------------------------------------------------------------------
(* Refinement.                                                             *)

\* The chunks that DurableTranscript calls waiting.
Waiting ==
    (IF worker = "transcribing" THEN <<hand.chunk>> ELSE <<>>) \o queue \o handing

Durable == INSTANCE DurableTranscript WITH
    log <- json, waiting <- Waiting, MayDrop <- WriteFaults

\* The pipeline and the store keep the promise of DurableTranscript.
RefinesDurable == Durable!Spec

\* docs/TECH_STACK.md:91: an interrupted meeting never loses more than the
\* chunk in flight.
CrashLosesOnlyInFlight ==
    [][phase # "down" /\ phase' = "down" => Len(Waiting) <= 1]_vars

=============================================================================
