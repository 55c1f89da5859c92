# MeetNote: TLA+ models and proofs

MeetNote records a meeting, transcribes it locally and writes notes about it with
an AI provider.  A Tauri desktop client talks over HTTP and a websocket to a
Python engine (FastAPI), which owns the audio devices, the Whisper model and the
files of every meeting.  A launcher starts the engine and the client and stops
both.  This directory holds TLA+ modules that model the parts where threads,
processes, crashes and files meet, TLC configurations that model-check them, and
theorems that TLAPS proves about them.

    tlc -config MCLifecycleRaces.cfg MCMeetingLifecycle   # check one run
    tlapm TranscriptPipeline_proofs.tla                   # check one proof module

`PROJECT.json` is the machine-readable index: components, runs, mutants, the map
from definitions to source lines, findings, hazards and theorems.  Paths below
are relative to `src/`.

## 1. Inventory

### Components, their state and their operations

| component | source | state | operations |
|---|---|---|---|
| control plane | `engine/main.py`, `engine/session.py`, `engine/state/machine.py` | `active_session`, `session_lock`, `unfinished_on_startup`; per session the state machine, its clock, a store, a capture, a pipeline | start, pause, resume, stop, mark-important, retry notes, abandon, resume after restart, delete; the background task of a stop; startup and shutdown |
| meeting store | `engine/storage/meeting_store.py` | one directory per meeting: `metadata.json`, `transcript.json`, `transcript.txt`, notes; a copy of the metadata in every `MeetingStore` object | create, load, the setters (reload, change, write back), append a record, finalize |
| atomic files | `engine/storage/atomic.py` | a file and its `.tmp` | write text or JSON atomically; append |
| meeting index | `engine/storage/db.py` | a SQLite row per meeting | upsert, get, list, delete |
| crash recovery | `engine/recovery/checkpoint.py` | none of its own | scan the directories at startup, heal the rows, list the unfinished |
| transcription pipeline | `engine/transcription/pipeline.py` | queue, `_pending_chunks`, `_next_index`, worker thread | start, submit, process, stop with drain |
| Whisper | `engine/transcription/whisper_engine.py` | the loaded model | load with a fallback to the CPU, transcribe a chunk |
| audio capture | `engine/audio/soundcard_common.py` (+ `windows.py`, `linux.py`) | frames per source, connection flags, stop event, three threads | start, stop, status, refresh |
| audio health | `engine/audio/health.py` | health and failure streak of each device, monitor thread | probe while nothing records, start, stop |
| notes pipeline | `engine/ai_pipeline.py`, `engine/intelligence/analysis`, `validation`, `export` | none beyond the store | analysis, notes, rewrite; checks; the two files; the report |
| AI router | `engine/intelligence/router.py`, `providers/*` | `_connectivity` of each provider | refresh; complete with retries and fallback |
| configuration | `engine/storage/config.py`, `paths.py` | `config.json` | load, merge, save |
| hardware selection | `engine/hardware/*` | none | detect, choose a model |
| launcher | `run_meetnote.py` | the engine's handle, its state, the restarts | start and wait until ready, watch, restart, stop; diagnostics |
| desktop shell | `desktop/src-tauri/src/lib.rs` | the engine child, if it was started without the launcher | spawn and kill the engine, restart the application |
| live view | `desktop/src/stores`, `services` | the client's copy of the live meeting, the websocket | actions with retried requests, events, reconnection |
| pages | `desktop/src/pages` | none | which requests are offered; settings; history |
| packaging | `setup.py` | none | install dependencies |

### How they interact

* The client's pages call HTTP handlers.  `def` handlers run on a thread pool,
  `async def` handlers (`/meeting/stop`, retry) on the event loop.
* `start_meeting` and `resume_after_restart` create a `MeetingSession` under
  `session_lock` and publish it in `active_session`; pause, resume and stop read
  `active_session`, twice, and act on the session without a lock.
* The session starts the capture, whose assembler thread calls
  `pipeline.submit`; the pipeline's worker calls back into the session, which
  appends to the store.  Every session method ends by writing the metadata and
  mirroring it into the SQLite row.
* After a stop, a background task runs the notes pipeline over its *own*
  `MeetingStore` object, marks the session completed and clears
  `active_session`.
* After a crash, `lifespan()` scans the directories; the client offers what it
  found for resuming or abandoning.
* At boot a background thread loads the model, another one asks the AI providers,
  and the health monitor probes the devices while no session holds them; a start
  may load the model itself.  `/health` shows what the three of them found.
* The launcher waits for `/health`, opens the application, watches both processes
  and restarts the engine.  The shell leaves the engine to the launcher if there
  is one.
* The websocket carries events without the meeting they belong to; the answers of
  the client's own requests come over other connections, in no order with them.

### What is hard

Unlocked state shared between pool threads, the event loop and the background
task; three files and a row that are written one after the other and must tell
one story after a crash; a drain that polls a counter with a timeout; joins with
timeouts; several objects caching one `metadata.json`; devices that vanish; two
processes and a port watched by one loop; statuses of services that are out of
date when they are read; requests sent twice.  The list with source lines is
`hazards` in `PROJECT.json`.

## 2. The modules

| module | models | abstracts |
|---|---|---|
| `MeetingStates` | `state/machine.py`: the states and the transition table | |
| `MeetingLifecycle` | the handlers of `main.py`, the session methods, `run_ai_pipeline`, `delete_meeting`, the startup scan: slot, lock, event loop, state machine, metadata, row, devices | transcript content; the providers; a metadata update is one step |
| `DurableTranscript` | abstract specification: what the transcription component promises | queue, threads, files, crashes in between |
| `TranscriptPipeline` | `pipeline.py`, `append_chunk_record`, session stop/pause/resume, crash, resume after restart | audio and text; a chunk is one unit long |
| `AudioCapture` | `soundcard_common.py`: recorders, assembler, stop event, joins; the session's clock | samples; time in blocks; the growth of the back-off |
| `AtomicFile` | `atomic_write_text` over a small file system: inodes, handles, fsync, rename, power failure | text; a version is a number |
| `MetadataStore` | the setters' reload, change, write back over several store objects and one temporary file | values; a field per writer |
| `NotesPipeline` | `ai_pipeline.py`, the three passes of `analysis/service.py`, `checks.py`, the template, the two files of `export/` | prompts and wording; a text is its headings, the names it keeps and its flaws |
| `AIRouter` | `router.py`, `providers/*`: connectivity, refreshes, retries, fallback | requests and answers; one caller |
| `Readiness` | `hardware/*`, the loading of Whisper, `audio/health.py`, and what reads them: `/health`, `/config`, start and resume after a restart | the model's size; error texts; the time between probes |
| `Launcher` | `run_meetnote.py`, the engine's side of the shell's `lib.rs` | console output; durations |
| `LiveView` | `meetingStore.ts`, `engineClient.ts`, `engineSocket.ts`, the hub that feeds them | the elapsed time, device lights, errors shown |
| `MC*` | the instances for TLC | |
| `MeetingLifecycle_proofs`, `TranscriptPipeline_proofs`, `AudioCapture_proofs`, `Readiness_proofs`, `Launcher_proofs`, `LiveView_proofs` | theorems about the module of that name | |
| `Storage_proofs` | theorems about `AtomicFile` and `MetadataStore` | |
| `AINotes_proofs` | theorems about `NotesPipeline` and `AIRouter` | |

**`MeetingLifecycle`.**  A process is a request thread or the background task of a
meeting.  `op[p]` is the operation it executes and `at[p]` the place in its code;
a step is one access to shared state, named after the code: `CheckTransition` and
`SetState` are the two halves of `MeetingStateMachine.transition` (which takes no
lock), `SetStatus` the store, `SyncDb` the row, `StartCapture` and
`ReleaseDevices` the capture.  The tables `Aim`, `Entered` and `Synced` say, for
every session method, which state it goes to and what follows, so the methods
share their steps as they share their code.  `/meeting/stop` and the tail of the
background task occupy the event loop (`loop`); handlers already on the pool go
on.  `held[m]` is the metadata in the memory of the session's store, which
`_sync_db` mirrors; it may differ from the file when the file is missing.  A
directory whose purge failed half-way is "gutted": it is there, without
`metadata.json`.  The slot is tested in one step and read or cleared in another,
as everywhere in `main.py`; with `Faults` a write of metadata or row may raise.  A
crash may tear the transcript of every meeting that has a session, also after its
devices were released, for the worker still appends while `stop()` drains.  What
the clients send is `Offered`, translated from the pages:
retry only for pending or failed notes, recover and abandon only for a listed
meeting, deletion for anything with a row.

**`TranscriptPipeline`.**  Three threads.  The two halves of `submit` (count, put),
the worker's take, the three writes of a record (JSON, text, checkpoint) and the
accounting are separate steps, so a crash or a failing write can fall between
any two.  `SlowDrain` lets the 60 s of `stop()` run out at any moment.  The history
variable `spoiled` says that a write raised or a stop gave up, so that the
promises that hold only otherwise are checked in the same, hostile instance.  A
`transcript.json` that is no JSON would be taken for an empty list; the worker is
its only writer and writes it atomically, so there is none, and the branch is left
out.

**`AudioCapture`.**  Per start: a recorder for each source and an assembler.
Recorders poll the event after each block; a block is `<<start, time>>`.  The
assembler finds a chunk due in one step and ships it in the next, so the event may be
set in between.  With `Hangs`, a join may give up on a recorder, which then lives on,
and is revived when the next start clears the event (`Released` and `AudioOnce`,
section 5); the properties about blocks speak of recorders that were seen to end
(`InTurn`, or no `orphans` at all).  `elapsed` and `segment` are the session's clock, which is read before the capture stops and set after it started.

**`AtomicFile`, `MetadataStore`.**  In `AtomicFile`, `Overlap` says whether two writes may
be in progress at once; without it the file is always complete.  `MetadataStore` lets
the setters overlap as the code does.  The second writer of the shared temporary file
decides what the first one's rename publishes (`Publish`), the first one may go on
writing to what has become the file (`Spill`), or its rename raises (`PublishFails`).
`exposed` is history: the fields that were not written alone since the last overlap.

**`NotesPipeline`.**  A job is a thread in `run_ai_pipeline()`, in its head, at one of its
passes or at a write (`place`); any of them may raise, and a crash may tear the file
that is being written.  What is raised inside the `try` ends in a report (`Fail`); the
head and the writes of the handlers have no handler, and the job ends there
(`Escape`).  `cut` is history: what cut the last run off.  `RunChecks` is `run_checks()`: headings that the template asks for,
owners and deadlines of the analysis that the text lost, flaws of wording.
`wanted` is the template as it was when the job looked, because templates may be
edited under it.  The history variable `basis` keeps what the report was made from.

**`AIRouter`.**  `known` is `_connectivity`, `health` what a service is really like;
`Verdicts` gives the statuses a probe of each provider may come to.  A provider whose SDK
cannot be imported ("nosdk", for the `MissingSdks`) ends the request with an exception
that is no `ProviderError`.  `confirmed`,
`steady` and `trusted` are history: which providers were checked since they changed,
and which of them were up during the whole of a request.

**`Readiness`.**  `Decide` is the outcome of `detect_hardware` and
`select_transcription_mode`; the two loaders meet at the lock of `load()`; the monitor
visits the devices one by one unless a session holds them.  A session's states
are `MeetingLifecycle`'s, reduced to whether the devices are held.

**`Launcher`.**  One process, in one of three modes: the launcher, its diagnostics, or
the shell alone.  `at` is its place, `then` where `Call` returns to.  The engine,
the application, other programs on the port and signals are the environment.
`UnhandledSignals`, `LateIntruder`, `ShellRestarts` and `Stubborn` switch on what the code
has no protection against (section 5).  The last is about processes that do not end
when they are killed, where the second `wait()` raises, and in `--dev` about an
application that does not end with npm (`stray`).

**`LiveView`.**  A request has two legs, either of which may be lost; a retry sends it
again.  "Mark Important" waits for the other buttons but not for itself, so marks are
counted (`asked`, `acked`) beside the one other request.  `page` decides which buttons
there are: the live page shows Resume in every state but "recording".  `wire` holds events in the order of the socket.  `missed` is history: an
event was emitted that no socket carried.  An event takes less time than it takes
to start another meeting, unless `SlowEvents`.

**How they compose.**  `TranscriptPipeline` implements `DurableTranscript`
(`Durable == INSTANCE ... WITH log <- json, waiting <- Waiting`).
`MeetingLifecycle` takes a metadata write as one step: `MetadataStore` and
`AtomicFile` are what that rests on.  `TranscriptPipeline` takes the chunks as
given: `AudioCapture` is where they and their offsets come from.  The
nondeterministic outcome of the notes in `MeetingLifecycle` is what `NotesPipeline`
computes, whose answers are those of `AIRouter`.  `LiveView`'s engine and `Readiness`'
session are `MeetingLifecycle` as their components see it.

## 3. The runs

"Deadlock" is not checked: every client may stop asking and every bound may be
reached, and then the program has nothing left to do, as it may.

| run | question and bounds | states |
|---|---|---|
| `MCLifecycleSerial` | One client, two meetings, all requests but retry, two crashes.  Do row, metadata, state machine, devices and the recovery list agree whenever nothing is in progress, and does a deletion, even one that fails half-way, ever take a directory from under a capture? | 2.9 M |
| `MCLifecycleRaces` | Two overlapping clients start, stop, recover and retry a meeting, a crash that may tear the transcript, fair scheduling.  Is the live session ever replaced, and does a stop always free the slot? | 146 k |
| `MCPipelineHostile` | Four chunks, two crashes, failing writes, expired drains, fair threads.  Numbering, counter, checkpoint, refinement; what do a stop and a crash cost; is a backlog always worked off? | 1.4 M |
| `MCAudioCapture` | One source, chunks of two blocks, three blocks of time, two starts, one plug or unplug, recorders that hang.  Is the audio of recorders that take turns shipped once, in order, on time? | 603 k |
| `MCAtomicCrash` | Two writers in turn, seven versions, three kills or power failures | 78 k |
| `MCMetadataStore` | Three setters over two store objects, overlapping as they like, one crash.  Does anything but an overlap lose an update? | 55 k |
| `MCNotesPipeline` | Two runs of the pipeline with two providers, a heading, an owner, one edit of the template, one crash, exceptions anywhere.  Are notes, their two files and their report of one piece, and does all that the handlers cover settle the meeting? | 4.4 M |
| `MCAIRouter` | None, one or two keys, two refreshers, two retries, one change of a service.  Is a provider that works ever passed over, or a check lost? | 226 k |
| `MCReadiness` | Two preferences, one plug or unplug, one start, one restart, fair threads.  Do the lights follow the probes, does the CPU preference hold, does every load end? | 505 k |
| `MCLauncher` | Three modes, three checks, two engine restarts, four polls; three crashes, two signals, one reopening, one other program.  Is anything left behind, and is every end answered? | 76 k |
| `MCLiveView` | Two meetings of two chunks, five clicks, one retry, one lost answer or socket, one reload.  Does the screen show the engine's meeting once things are quiet? | 1.6 M |
| `MCRetryUnlocksDelete` | what the code does against what it says, section 5 | |

What the properties say:

* *StoresAgree*, *DevicesFollowState*, *NothingStranded*: between commands, row and
  metadata and state machine agree, the devices are held by the active meeting
  exactly while it records, and an unfinished meeting is the active one or is
  offered.  *NeverDeletesRecording*: the status guard of `delete_meeting` is enough,
  as long as nobody retries (section 5).
* *SlotNeverOverwritten*: the lock and the 409 do their work under any
  interleaving; whatever is published finds the slot empty.  *StopFreesSlot*: so does the `finally` of the background task.
* *IndicesIncrease*: chunk numbers on disk increase strictly over write failures,
  crashes and resumes.  *PendingCountsInFlight*: the counter that the drain polls
  is exact at every step of three threads, which is why *StopIsComplete* holds:
  unless a write raised or a drain gave up, a stop loses nothing.
  *CheckpointIsDurable*: `last_completed_chunk` never runs ahead of the transcript.
  *TextMissesOnePerCrash*: the notes' input lacks at most one chunk per crash.
  *RefinesDurable*: nothing recorded is ever lost, and chunks become records in
  order.  *BacklogDrains*: no failing write leaves the drain waiting.
* *BlocksInOrder*: no block of audio is shipped twice or overtakes another, over
  chunks and pauses; it relates the blocks of one recorder and of two that were both
  seen to end, and leaves a recorder that outlived its join against another one to
  *Released* (section 5).  *TailLeftBound*: the flush of the tail
  misses at most the one block per source that a recorder was in the middle of.
  *CutsOnlyOffSchedule*: `_pad_or_trim` only cuts when a drain was late, a
  recorder behind, or a block left over from before a pause.  *StartsInOrder*:
  across pauses, chunk offsets go back by no more than the time spent inside
  `start()` and `pause()`.  *ShipsOnSchedule* and *Reconnects*: a lost device holds
  back no chunk and is found again.
* *AlwaysComplete*: the file is the old or the new version.  *LostOnlyInOverlap*: an
  update of `metadata.json` that overlapped no other is in the file from then on,
  until two updates overlap again; that those lose updates is *NoLostUpdate*
  (section 5).
* *NotesMatchReport*: completed notes are whole, equal in both files, and reported
  with the warnings that the checks give for *them*, whatever earlier runs, crashes
  and template edits left.  *FlawsWereRewritten*: a hard flaw is kept only after the
  rewrite.  *NotStranded*: whatever the passes, checks and files raise, the run settles
  the meeting; only a crash, the head of the run and the writes of the handlers
  themselves can cut it off, and when they do it stays unsettled (*NotesSettle*,
  section 5).
* *ServedIfChecked*: a request fails only if no provider that was known, or not yet
  known not, to work did so all through it.  *CheckSticks*: after a refresh, a
  status is what its service is.  *CheckingEnds*: "checking" ends.
* *HealthFollowsProbes*: a light goes off after two failures in a row or one at
  first sight, and on after any success, over sessions and restarts.
  *CpuMeansCpu*, *ModelKept*: the preference for the CPU holds, whoever loads, and a
  loaded model is never replaced.  *LoadingEnds*, *RecoveryIsSeen*: a load ends; a
  device that is back is seen.
* *NothingLeftBehind*: no engine and no window outlives what started it.
  *DesktopGoneFirst*: the engine stops after the window.  *ReadyIsOurs*: what was
  found ready is what was started.  *ClosingEnds*, *DeathIsAnswered*: a closed window
  ends the launcher, a dead engine is replaced or given up.
* *ChunksShown*, *StateShown*: in quiet, and when no event was lost, the screen shows
  the chunks and the state of the engine's meeting and of no other.
  *OneMeetingPerClick*: retried requests start one meeting per click.

Each module states one type invariant, `TypeOK` (`StoreTypeOK`, `RouterTypeOK`).  All of them are proved (section 4;
those of `AtomicFile` and `MetadataStore` as a part of their inductive invariants),
and were checked with TLC during the development; the runs are kept for the
properties above.

Why the bounds are enough.  Two meetings and two crashes let a meeting start while
another waits to be recovered, and be recovered twice; two request threads give
every pairwise race of handlers, with the background task as a third process.  In
`MCLifecycleRaces` the race for the slot is between two recoveries of one meeting;
`MCLifecycleOverlap` (section 5) has the one between two starts, and the theorem
any number of both.
In the pipeline three chunks put one in the worker's hands, one in the queue and
one in `submit`; a fourth comes after a stop or a crash.  Two blocks per chunk give
full, partial and late windows, and two starts a pause with something left over;
the sources share nothing but the event and the assembler, so one stands for both
(the instance with both, without hanging devices, passes as well: about 1.2 M
states).  `MaxSlack` keeps a thread that is not blocked within one block of its due
time.  Two runs of the notes pipeline are a run and its retry; what its checks see
of a text are sets, of which one heading and one name tell the cases apart.  Two
retries give a first, a middle and a last attempt.  One change of a service falls
before, between and after the probes and the attempts.  Three engine crashes exhaust
the two restarts.  Two meetings and five clicks let events of one meeting meet the
page of the next.  All bounds are constants that appear in guards.

Fairness.  `MeetingLifecycle!Fairness`: the operating system schedules pool
threads, and asyncio runs ready callbacks in FIFO order, hence strong fairness
for the two steps that wait for the event loop.  `TranscriptPipeline!FairSpec`:
the worker, the stopping thread and `put` (the queue is unbounded) are
scheduled; transcription returns.  `AudioCapture!FairSpec`: the assembler and the
recorders' opening and retrying are scheduled; *no* fairness is assumed of a
device delivering its next block, nor of any user.  `AIRouter!FairSpec`: threads are
scheduled and every request to a service has a timeout.  `Readiness!FairSpec`: the
threads are scheduled, and a load and a probe end.  `Launcher!FairSpec`: the
launcher is scheduled; its sleeps, polls and joins all have timeouts.  Nothing is
assumed of the engine, the window or signals.

Each property of a passing run has a mutant in `PROJECT.json`: a plausible wrong
version of one definition (in the module, just before it) under which TLC finds
the property violated.

## 4. What is proved

For all values of the constants, that is any number of meetings, threads, chunks,
restarts and crashes, under the named `ASSUME`s of the modules and the conditions
given:

| theorem | statement |
|---|---|
| `MeetingLifecycle_proofs!TypeCorrect` | `[]TypeOK` |
| `MeetingLifecycle_proofs!SlotIsNeverOverwritten` | `SlotNeverOverwritten`, for any number of request threads |
| `MeetingLifecycle_proofs!StoresTellOneStory`, `DevicesAreReleased`, `NoMeetingIsStranded`, `RecordingIsNeverDeleted` | if `Serial`: `[]StoresAgree`, `[]DevicesFollowState`, `[]NothingStranded`, `[]NeverDeletesRecording` |
| `TranscriptPipeline_proofs!TypeCorrect`, `IndicesAlwaysIncrease`, `PendingIsExact`, `CheckpointNeverAhead`, `StopLosesNoChunk`, `TextLosesOnePerCrash` | `[]TypeOK` and all invariants of `MCPipelineHostile` |
| `TranscriptPipeline_proofs!Refinement` | `RefinesDurable` |
| `AudioCapture_proofs!TypeCorrect`, `BlocksKeepTheirOrder`, `TailIsFlushed`, `OffsetsContinue` | `[]TypeOK`, `[]BlocksInOrder`, `[]TailLeftBound`, `[]StartsInOrder` |
| `AudioCapture_proofs!CutsAreOffSchedule` | the action property `CutsOnlyOffSchedule` |
| `AINotes_proofs!TypeCorrect`, `FlawsAreRewritten`, `NobodyStranded` | `[]TypeOK`, `[]FlawsWereRewritten`, `[]NotStranded`, for any number of overlapping jobs |
| `AINotes_proofs!ReportIsTrue` | without overlapping jobs, `[]NotesMatchReport` |
| `AINotes_proofs!RouterTypeCorrect`, `OnlyWithKeys` | `[]RouterTypeOK`; only a provider with a key is called |
| `AINotes_proofs!ChecksStick`, `NoneWorkingRefused` | without overlapping refreshes, `[]CheckSticks` and `[]ServedIfChecked` |
| `Storage_proofs!FileAlwaysComplete` | without overlapping writes, `[]AlwaysComplete` through kills and power failures |
| `Storage_proofs!UpdatesKept` | `[]LostOnlyInOverlap`, for any number of setters that overlap as they like |
| `Readiness_proofs!TypeCorrect`, `HealthIsHonest`, `CpuOnly`, `OneModel` | `[]TypeOK`, `[]HealthFollowsProbes`, `[]CpuMeansCpu`, `ModelKept` |
| `Launcher_proofs!TypeCorrect`, `WindowBeforeEngine` | `[]TypeOK`, `[]DesktopGoneFirst` |
| `Launcher_proofs!LeavesNothingBehind` | without `UnhandledSignals`, `ShellRestarts` and `Stubborn`, `[]NothingLeftBehind` |
| `Launcher_proofs!ReadyMeansOurs` | without `LateIntruder`, `[]ReadyIsOurs` |
| `LiveView_proofs!TypeCorrect`, `OneMeeting` | `[]TypeOK`, `[]OneMeetingPerClick` |
| `LiveView_proofs!ChunksAreShown`, `StateIsShown` | without `SlowEvents`, `[]ChunksShown`, `[]StateShown` |

Where two components share a proof module, the names that both would have carry a
prefix in one of them (`StoreSpec`, `RouterSpec`).  The conditions in the table are
those under which the runs pass; section 5 says what TLC finds without them.

*The slot.*  `SlotNeverOverwritten` is about the step `Publish`, which happens long
after the check of the slot.  The invariant has two halves.  `Control`: which
operation can be at which place (`Routing`), and that a thread past the 409 holds
`session_lock` over an empty slot (`OpeningHoldsLock`): nobody else can publish
meanwhile, and nothing but `Publish` fills the slot.  `Data`: the types of the
stores, which the control part does not need.

*The serial story.*  `Serial` says: one request at a time, no storage write that
raises, no retry of notes.  With any one of the three dropped, TLC refutes all four
invariants.  The background task still interleaves with the requests, and
the engine may crash anywhere.  `Settled` is what the four
invariants say of a meeting in one; it holds of every meeting that no handler and
no task is at work on (`Resting`).  For a meeting that somebody works on there is a
story per kind of work: `Session` gives, for every session method and every place
in it, the state machine, the metadata, the row and the devices, in the order in
which the code moves them; `Asking` and `Granted` are a command before and after the
transition is checked; `Task`, `Deleting` and `Abandoning` are the others.  That
only one of them is at work on a meeting at a time is what has to be shown:
commands find the session in the slot at both reads, a task that has tested the slot
clears its own meeting or nothing (`Vacating`), the task's own meeting is refused by the
transition table while it writes notes, and a deletion is kept away from it by the
row.  `Listed` and `Deleted` keep the recovery list and the deleted meetings apart
from all of them.

*The pipeline.*  `IndicesIncrease` is not inductive: the record being written must
come after those on disk (`HandIsNew`), because the next index is above all on
disk (`IndicesBelowNext`), which a resume re-establishes (`NextIndexAbove`); the
checkpoint is right because the record in hand is the last one (`HandIsLast`).
The counter needs that a dead process holds nothing (`DownIsEmpty`).  For the stop,
every chunk of this run that was captured is on disk, in hand or on its way
(`Covered`), and an unspoiled stop has seen a counter of zero (`StopDrained`).  For
the refinement every step is an `Accept`, `Commit`, `Drop` or `Lose` of the abstract
specification or leaves log and waiting chunks alone.

*The capture.*  Each block is older than whatever its recorder records next, or any other
that takes turns with it (`Past`): such a recorder was done before the next one
began.  So order is kept from recorder to queue to chunk (`Recorded`).  `Recorders` and `Stopping` say
who may still run when, and `Leftover` that only a recorder that ended after the tail
was taken can have left a block.  For the offsets, `Clocks` relates the assembler's
window to the session's clock: they differ by the time spent in `start()` and
`pause()`.  A cut needs more blocks in a window than fit; blocks of one recorder
have different times, so the pigeonhole principle gives that a window without a
late block or drain cannot be cut.

*The notes.*  A job carries what its passes established from place to place: the
draft was checked (`Checked`), a hard flaw brought the second pass (`Revised`), the
report is about the draft (`Reported`).  A run that reaches its last write leaves both a
report and a status, and `cut` names the place where any other one ended.  All this is the job's own and holds whether jobs overlap
or not.  That the files are the draft (`Delivered`), and stay so until the status says
"completed" (`Matches`), needs that one job runs at a time.

*The file.*  The temporary name never refers to the inode that readers see
(`Apart`), and `Progress` says what has reached it, and stable storage, at each
place of the protocol.

*The metadata.*  While an update overlaps no other, its copies are the file at each place
(`Current`), and the file has every field that is not exposed (`UpToDate`).  Once two
overlap, every field is exposed and nothing is claimed, until a setter that is alone
again (`Overlaps`) has written its own field back.

*The launcher.*  `Routing` says which places each mode can be at, and where it returns
to; `WindowPlaces` at which of them a window can run.  `EnginePlaces` says that
the handle is empty or dead wherever a new engine is spawned and wherever the
launcher ends; it needs that no signal falls where the handler does not yet know
the engine.  `Answers` says that while we wait nobody else has the port, so that all
checks counted so far were answered by our engine.

*The router.*  A refresh runs alone (`OneRefresh`), and what it has seen of a provider is
so, or the provider is known to have changed since (`Refreshed`).  A trusted
provider stays usable (`Usable`) and remains among those still to be tried (`Kept`),
so a request cannot run out of providers before it.

*Readiness.*  The streak counts the failures that the last two probes show
(`Streaks`).  One thread is inside `load()`, only while there is no model, and what
it may come to is what was decided or the CPU (`ModelInv`).

*The view.*  A click on Start that has started a meeting finds it in the slot for as
long as it is sent again (`Served`): the second attempt gets the 409.  What is
shown follows from what will be: every chunk on disk is on the screen or on the wire
and every chunk on the wire is on disk, and once the wire has been read
the state shown is the engine's (`Followed`, `Settles`).  This has to be carried
through answers that are older than the events that overtook them: a start's
answer clears the chunks, so none may be on its way by then (`Starting`); a command's
answer may still be the state (`Commanding`); a window that reads what there is has
no socket yet (`Reading`).

Every invariant and every action property of the passing runs is stated by a theorem.
Out of the prover's reach, and left to TLC, are the liveness properties, which
need fairness and ENABLED: `StopFreesSlot`, `BacklogDrains`, `ShipsOnSchedule`,
`Reconnects`, `CheckingEnds`, `LoadingEnds`, `RecoveryIsSeen`, `ClosingEnds`,
`DeathIsAnswered`.  No module uses a recursive operator.

## 5. Where the code and its documentation disagree

`MCRetryUnlocksDelete` is a regular violation run: a retry is accepted in any state.
On a meeting that was resumed after a crash it rewrites the row to "completed"
while the meeting records, and the deletion guard lets the directory go.

Further configurations reproduce disagreements, or show where a condition above is
needed.  They are not part of the regular runs; each names one property, which TLC
refutes (but for the last, which passes):

| configuration | module | what it shows |
|---|---|---|
| `MCAbandonReoffered` | `MCMeetingLifecycle` | `abandon_meeting` writes "error", which `TERMINAL_STATUSES` does not contain, so the next startup offers it again (against `main.py:760-762`) |
| `MCNotesStuck` | `MCMeetingLifecycle` | a transcript torn by a crash raises before the pipeline's `try`: the notes stay "not_started" (against `ai_pipeline.py:84-92`) |
| `MCDeleteUnderRetry` | `MCMeetingLifecycle` | a deletion that checked its row before a retry announced itself removes the directory under the pipeline (against `main.py:456-464`) |
| `MCPauseResumeRace` | `MCMeetingLifecycle` | a pause inside a resume: RECORDING with a stopped capture (against `main.py:266-268`) |
| `MCResumedOffsets` | `MCTranscriptPipeline` | the resume after a restart starts the capture without an offset; timestamps start at zero again, until a pause puts them right (against `main.py:777-779`, `docs/TECH_STACK.md:91`, `docs/ARCHITECTURE.md:112`) |
| `MCDrainTimeout` | `MCTranscriptPipeline` | `stop()` gives up after 60 s with chunks queued (against `session.py:93-96`) |
| `MCDevicesHeld` | `MCAudioCapture` | *Released*: a recorder outlives the join, and goes on beside the next start's when that clears the stop event (against `base.py:76`) |
| `MCNotesEscape` | `MCNotesPipeline` | *NotesSettle*: the head of `run_ai_pipeline()` and the handlers' own writes raise where nothing catches, and the meeting waits for its notes without a crash (against `ai_pipeline.py:85-87`); *NotStranded* says what does hold |
| `MCGpuFallback` | `MCReadiness` | the preference "gpu" falls back to the CPU in `load()` (against `README.md:69`, `Settings.tsx:348`, `docs/TECH_STACK.md:87`) |
| `MCProbeContention` | `MCReadiness` | a probe that meets our own capture turns a working device's light off |
| `MCOrphanCapture` | `MCReadiness` | a storage error inside `start_recording()` leaves a capture without a session |
| `MCSocketDrop` | `MCLiveView` | chunks whose events fell into a gap of the socket are not on the screen until the page is opened again (against `engineSocket.ts:1-3`) |
| `MCStaleVerdict` | `MCAIRouter` | a provider that was found unavailable and recovered is not tried before a recheck (against `service.py:39-43`) |
| `MCShellRestartOrphan` | `MCLauncher` | `restart_app` without the launcher leaves the engine running (against `lib.rs:10-11`, `lib.rs:265-268`, `docs/TECH_STACK.md:15`) |
| `MCLifecycleOverlap` | `MCMeetingLifecycle` | passes: `SlotNeverOverwritten` for two meetings, two clients, two crashes and storage writes that raise |

The same can be had by changing one thing in a configuration:

| take | change | TLC refutes |
|---|---|---|
| `MCRetryUnlocksDelete` | property `DeletedStaysDeleted` | an upsert after a deletion brings the row back without a directory |
| `MCLifecycleSerial` | property `FailedDeleteRemovesNothing` | a deletion answers 500, "has not been removed", and `metadata.json` is gone |
| `MCPipelineHostile` | invariant `CheckpointOnlySuccess`, no faults | `last_completed_chunk` advances for failed chunks (against `meeting_store.py:141-145`) |
| `MCPipelineHostile` | property `CrashLosesOnlyInFlight` | a crash loses the whole queue, not one chunk (against `docs/TECH_STACK.md:91`) |
| `MCAtomicCrash` | `Overlap = TRUE` | `AlwaysComplete`: two overlapping writes share one `.tmp`; a reader sees an empty file |
| `MCMetadataStore` | invariant `NoLostUpdate` | two setters at once; the second write undoes the first (against `meeting_store.py:103-105`); *LostOnlyInOverlap* says what does hold |
| `MCAudioCapture` | invariant `AudioOnce` | a recorder that was revived and the new one record the same moment, and both of its blocks wait to be shipped |
| `MCAIRouter` | invariant `FallsBack` | a provider's SDK is imported in front of the `try`; its `ImportError` ends the request that the other provider would serve (against `providers/base.py:70`, `router.py:1`) |
| `MCAIRouter` | `OverlapRefresh = TRUE` | `CheckSticks`: the older of two refreshes wins |
| `MCNotesPipeline` | `Jobs = {j1, j2}`, `Overlap = TRUE`, no edits and crashes | `NotesMatchReport`: a retry during a run mixes the files of two drafts (`main.py:737-755` does not exclude it) |
| `MCReadiness` | invariant `ErrorIsCurrent` | `whisper_load_error` outlives a later success |
| `MCReadiness` | invariant `NoFalseGreen` | a start passes on a light that no probe has confirmed (against `health.py:138-149`) |
| `MCReadiness` | invariant `HealthAnswers` | `/health` answers 500 if the session ends between two reads of `active_session` (`main.py:287`) |
| `MCLiveView` | invariant `MarkersShown` | a marker is added by its answer and by its event |
| `MCLiveView` | invariant `OneMarkerPerClick` or `RefusedStartsNothing` | a request sent again marks twice, or meets the 409 of its own first attempt |
| `MCLiveView` | `SlowEvents = TRUE` | `ChunksShown`: a late event shows a chunk under the next meeting |
| `MCLauncher` | `UnhandledSignals = TRUE` | `NothingLeftBehind`: a signal before the handler knows the engine |
| `MCLauncher` | `Stubborn = TRUE` | `NothingLeftBehind`: the engine outlives `kill()` by more than ten seconds, the second `wait()` raises and the launcher ends before it |
| `MCLauncher` | `LateIntruder = TRUE` | `ReadyIsOurs`: another engine answers for ours, which could not bind (against `run_meetnote.py:600-608`) |

Known limits that no line promises otherwise: a storage error inside
`mark_completed()` leaves `active_session` set (with `Faults`, `StopFreesSlot` fails);
so may a pause that meets a stop on the unlocked state machine, for two clients; a
deletion that read its row before a recovery removes the directory of a meeting that
records, for two clients; `mark_error()` is never called.  `base.py:3-5` and
`service.py:4-5` call Groq the primary provider; `router.py:75-76` tries Gemini first,
and so does `AIRouter`.

## 6. Not modelled

* Packaging (`setup.py`): installation steps without a protocol.
* Wording: prompts, the layout of the exported notes, the patterns behind the flaws
  that the checks look for, the texts behind the classes of errors.
* The schema, listing and search of the index; `append_text` beyond being one step.
* A change of `storage_root`, and the merge of nested settings.
* `status()`, `refresh_devices()` and the choice of devices of the capture.
* Whisper's transcription itself, and the thresholds that choose a model's size.
* The elapsed time and the error line of the live view; the settings and history
  pages; the shell's commands that open files.
* The network between client and engine, except in `LiveView`: elsewhere a request
  is answered or the engine dies.

## 7. What is left

1. The four serial theorems for more than one request thread: which pairs of
   handlers they survive, stated as a condition weaker than `Serial`.
2. The configuration as a component of its own: concurrent patches, a change of
   `storage_root` under a session and under the deletion's containment check.
3. `NotesPipeline` as the implementation of the step that `MeetingLifecycle` takes for
   the notes, and the engine of `LiveView` as an abstraction of `MeetingLifecycle`, by
   refinement instead of by argument.
