-------------------------- MODULE MeetingLifecycle --------------------------
(***************************************************************************)
(* The engine's meeting control plane: the HTTP handlers of engine/main.py *)
(* that create, control, finish, recover and delete meetings, the          *)
(* MeetingSession methods they call, the post-meeting AI pipeline, and the *)
(* crash-recovery scan.                                                    *)
(*                                                                         *)
(* Processes.  A thread of Threads runs one request handler at a time.     *)
(* The process named after a meeting m is the background task              *)
(* finish_and_generate_notes of m's session.  "def" handlers run on the    *)
(* server's thread pool; /meeting/stop and the tail of the background task *)
(* run on the event loop and occupy it (variable loop): no request is      *)
(* dispatched meanwhile, while handlers already dispatched go on.          *)
(*                                                                         *)
(* Granularity.  A step is one access to shared state: one check or one    *)
(* assignment of the state machine, one metadata.json update, one SQLite   *)
(* write, one start or stop of the audio capture, one read or write of     *)
(* active_session.  A metadata update is a single step here; what its      *)
(* read-modify-write can lose is the subject of MetadataStore.             *)
(*                                                                         *)
(* A session object is named by its meeting: an engine run creates at most *)
(* one session that is published per meeting.                              *)
(***************************************************************************)
EXTENDS MeetingStates, Naturals

CONSTANTS
    Meetings,    \* meeting ids; each is used by at most one start
    Threads,     \* request handlers that can be in flight at once
    None,        \* no meeting, no thread
    Requests,    \* the kinds of request the clients send
    MaxCrashes,  \* bound on engine crashes
    TornAppends, \* TRUE: a crash may tear the append to transcript.txt
    Faults       \* TRUE: a storage write inside a session method may raise (those
                 \* of the notes pipeline are the subject of NotesPipeline)

AllRequests == {"start", "pause", "resume", "stop", "recover",
                "abandon", "retry", "delete"}

ASSUME LifecycleAssumption ==
    /\ Requests \subseteq AllRequests
    /\ MaxCrashes \in Nat
    /\ TornAppends \in BOOLEAN
    /\ Faults \in BOOLEAN
    /\ None \notin Meetings /\ None \notin Threads
    /\ Meetings \cap Threads = {}

VARIABLES
    up,          \* the engine process is running
    crashes,     \* crashes so far (bounded by MaxCrashes)
    slot,        \* engine_state.active_session, named by its meeting
    lock,        \* holder of engine_state.session_lock
    loop,        \* who occupies the event loop
    state,       \* state[m]: the state machine of m's session, "none" without one
    held,        \* held[m]: the session store's in-memory metadata: status and notes_status
    capture,     \* capture[m]: the session's capture threads are told to run
    unfinished,  \* engine_state.unfinished_on_startup
    status,      \* status[m]: metadata.json's status; without one, the directory
                 \* is "absent" (no meeting yet), "gutted" (still there) or "deleted"
    notes,       \* notes[m]: metadata.json's notes_status
    torn,        \* meetings whose transcript.txt was torn by a crash, or removed
    row,         \* row[m]: the status in the SQLite row, "none" without a row
    op,          \* op[p]: what process p is executing
    at,          \* at[p]: where in it
    arg,         \* arg[t]: the meeting thread t works on
    abandoned    \* history: meetings the user chose to abandon

memory == <<slot, lock, loop, state, held, capture, unfinished>>
disk == <<status, notes, torn>>
control == <<op, at, arg>>
vars == <<up, crashes, memory, disk, row, control, abandoned>>

Procs == Threads \cup Meetings
Target(p) == IF p \in Meetings THEN p ELSE arg[p]

\* Mutants: the delete guard forgets a live recording; recovery takes a paused
\* meeting for a finished one.
GuardedStatuses_NotRecording == {"preparing", "finalizing", "generating_notes"}
TerminalStatuses_Paused == {"completed", "notes_pending", "paused"}

\* The statuses of a meeting in progress, main.py's _ACTIVE_MEETING_STATUSES
\* (the same set) and checkpoint.py's TERMINAL_STATUSES.
ActiveStatuses == {"preparing", "recording", "paused", "finalizing", "generating_notes"}
GuardedStatuses == ActiveStatuses
TerminalStatuses == {"completed", "notes_pending"}
Persisted == ActiveStatuses \cup TerminalStatuses \cup {"error"}
OnDisk(m) == status[m] \in Persisted
Writable(m) == OnDisk(m) \/ status[m] = "gutted"

\* The metadata attribute of m's session store after _reload_from_disk(),
\* which keeps what is in memory when the file is missing.
Reloaded(m) == IF OnDisk(m) THEN [status |-> status[m], notes |-> notes[m]] ELSE held[m]

\* The metadata of a new meeting (and of a store that does not exist yet).
Fresh == [status |-> "preparing", notes |-> "not_started"]

-----------------------------------------------------------------------------
(* Control flow of a handler.                                              *)

Goto(p, place) == at' = [at EXCEPT ![p] = place]

\* A handler answers (or raises): its thread is free, and "with session_lock"
\* and the event loop are released.  For the background task, it ends.
Return(p) ==
    /\ op' = [op EXCEPT ![p] = "none"]
    /\ at' = [at EXCEPT ![p] = "idle"]
    /\ arg' = IF p \in Threads THEN [arg EXCEPT ![p] = None] ELSE arg
    /\ lock' = IF lock = p THEN None ELSE lock
    /\ loop' = IF loop = p THEN None ELSE loop

\* The state that the transition of each session method goes to.
Aim == [start |-> "recording", recover |-> "recording", pause |-> "paused",
        resume |-> "resumed", rearm |-> "recording", stop |-> "finalizing",
        notes |-> "generating_notes", finish |-> "completed"]

\* Mutant: pause() keeps the devices.
Entered_PauseKeepsDevices ==
    [start |-> "status", recover |-> "status", pause |-> "status",
     resume |-> "capture", rearm |-> "status", stop |-> "status",
     notes |-> "status", finish |-> "status"]

\* What a session method does next once the state machine has moved.
Entered == [start |-> "status", recover |-> "status", pause |-> "release",
            resume |-> "capture", rearm |-> "status", stop |-> "status",
            notes |-> "status", finish |-> "status"]

\* Mutant: the background task ends without clearing active_session.
Synced_FinishKeepsSlot ==
    [start |-> "publish", recover |-> "publish", pause |-> "return",
     rearm |-> "return", stop |-> "release", tail |-> "notes",
     notes |-> "spawn", finish |-> "return"]

\* What follows _sync_db() in each session method and its handler.
Synced == [start |-> "publish", recover |-> "publish", pause |-> "return",
           rearm |-> "return", stop |-> "release", tail |-> "notes",
           notes |-> "spawn", finish |-> "clear"]

-----------------------------------------------------------------------------
Init ==
    /\ up = TRUE
    /\ crashes = 0
    /\ slot = None
    /\ lock = None
    /\ loop = None
    /\ state = [m \in Meetings |-> "none"]
    /\ held = [m \in Meetings |-> Fresh]
    /\ capture = [m \in Meetings |-> FALSE]
    /\ unfinished = {}
    /\ status = [m \in Meetings |-> "absent"]
    /\ notes = [m \in Meetings |-> "not_started"]
    /\ torn = {}
    /\ row = [m \in Meetings |-> "none"]
    /\ op = [p \in Procs |-> "none"]
    /\ at = [p \in Procs |-> "idle"]
    /\ arg = [t \in Threads |-> None]
    /\ abandoned = {}

\* What each page of the client offers.  The live page: pause, resume, stop.
OffersCommand(m) == m = None /\ slot # None
\* The new-meeting page.
OffersStart(m) == m = None
\* The recovery modal: resume a listed meeting, or leave it for a new one.
OffersRecovery(m) == m \in unfinished
\* The completion page: another try at notes that could not be generated ...
OffersRetry(m) == m # None /\ notes[m] \in {"pending", "failed"}
\* ... and, like a card, the deletion of a meeting; it leaves the refusal of
\* an active one to the engine.
OffersDelete(m) == m # None /\ row[m] # "none"

Offered(request, m) ==
    \/ request \in {"pause", "resume", "stop"} /\ OffersCommand(m)
    \/ request = "start" /\ OffersStart(m)
    \/ request \in {"recover", "abandon"} /\ OffersRecovery(m)
    \/ request = "retry" /\ OffersRetry(m)
    \/ request = "delete" /\ OffersDelete(m)

\* The event loop takes a request: async handlers keep it, the others go to
\* the thread pool.
Dispatch(t) ==
    /\ up /\ loop = None /\ at[t] = "idle"
    /\ \E request \in Requests, m \in Meetings \cup {None} :
         /\ Offered(request, m)
         /\ op' = [op EXCEPT ![t] = request]
         /\ arg' = [arg EXCEPT ![t] = m]
         /\ loop' = IF request = "stop" THEN t ELSE loop
    /\ Goto(t, "begin")
    /\ UNCHANGED <<up, crashes, slot, lock, state, held, capture, unfinished,
                   disk, row, abandoned>>

-----------------------------------------------------------------------------
(* /meeting/start and /meetings/{id}/resume-after-restart, under the lock.  *)

\* Mutant: the handlers forget their 409.
SlotFree_Unchecked == TRUE

\* The check of active_session in both handlers.
SlotFree == slot = None

\* 409 (a meeting is active), 503 (model or devices unavailable), 404, or a
\* directory that no longer loads.
Refuse(t) ==
    /\ at[t] = "begin" /\ op[t] \in {"start", "recover"} /\ lock = None
    /\ Return(t)
    /\ UNCHANGED <<up, crashes, slot, state, held, capture, unfinished, disk,
                   row, abandoned>>

\* MeetingStore.create and a new session in PREPARING.
CreateMeeting(t) ==
    /\ at[t] = "begin" /\ op[t] = "start" /\ lock = None
    /\ SlotFree
    /\ \E m \in Meetings :
         /\ status[m] = "absent"
         /\ lock' = t
         /\ arg' = [arg EXCEPT ![t] = m]
         /\ status' = [status EXCEPT ![m] = Fresh.status]
         /\ state' = [state EXCEPT ![m] = "preparing"]
         /\ held' = [held EXCEPT ![m] = Fresh]
    /\ Goto(t, "capture")
    /\ UNCHANGED <<up, crashes, slot, loop, capture, unfinished, notes, torn,
                   row, op, abandoned>>

\* MeetingStore.load and a new session in RECOVERY.
ReattachMeeting(t) ==
    LET m == arg[t] IN
    /\ at[t] = "begin" /\ op[t] = "recover" /\ lock = None
    /\ SlotFree
    /\ row[m] # "none" /\ OnDisk(m)
    /\ lock' = t
    /\ state' = [state EXCEPT ![m] = "recovery"]
    /\ held' = [held EXCEPT ![m] = Reloaded(m)]
    /\ Goto(t, "capture")
    /\ UNCHANGED <<up, crashes, slot, loop, capture, unfinished, disk, row,
                   op, arg, abandoned>>

\* audio_capture.start() in start_recording() and in resume().
StartCapture(t) ==
    LET m == arg[t] IN
    /\ at[t] = "capture"
    /\ capture' = [capture EXCEPT ![m] = TRUE]
    /\ op' = [op EXCEPT ![t] = IF @ = "resume" THEN "rearm" ELSE @]
    /\ Goto(t, "check")
    /\ UNCHANGED <<up, crashes, slot, lock, loop, state, held, unfinished,
                   disk, row, arg, abandoned>>

\* active_session := session, and the meeting leaves the recovery list.
Publish(t) ==
    /\ at[t] = "publish"
    /\ slot' = arg[t]
    /\ unfinished' = unfinished \ {arg[t]}
    /\ Return(t)
    /\ UNCHANGED <<up, crashes, state, held, capture, disk, row, abandoned>>

-----------------------------------------------------------------------------
(* The session methods: transition, metadata, SQLite.                      *)

\* _require_session() in pause, resume and stop: 404 without a session ...
RequireSession(t) ==
    /\ at[t] = "begin" /\ op[t] \in {"pause", "resume", "stop"}
    /\ IF slot = None
       THEN Return(t)
       ELSE Goto(t, "take") /\ UNCHANGED <<op, arg, lock, loop>>
    /\ UNCHANGED <<up, crashes, slot, state, held, capture, unfinished, disk,
                   row, abandoned>>

\* ... and the session is what a second read finds: another one, or none, which
\* the handler trips over (500).
TakeSession(t) ==
    /\ at[t] = "take"
    /\ IF slot = None
       THEN Return(t)
       ELSE /\ arg' = [arg EXCEPT ![t] = slot]
            /\ Goto(t, "check")
            /\ UNCHANGED <<op, lock, loop>>
    /\ UNCHANGED <<up, crashes, slot, state, held, capture, unfinished, disk,
                   row, abandoned>>

\* can_transition() of the state machine; IllegalStateTransition otherwise.
CheckTransition(p) ==
    /\ at[p] = "check"
    /\ IF CanTransition(state[Target(p)], Aim[op[p]])
       THEN Goto(p, "set") /\ UNCHANGED <<op, arg, lock, loop>>
       ELSE Return(p)
    /\ UNCHANGED <<up, crashes, slot, state, held, capture, unfinished, disk,
                   row, abandoned>>

\* The assignment of the state machine, unlocked, after its check.
SetState(p) ==
    /\ at[p] = "set"
    /\ state' = [state EXCEPT ![Target(p)] = Aim[op[p]]]
    /\ Goto(p, Entered[op[p]])
    /\ UNCHANGED <<up, crashes, slot, lock, loop, held, capture, unfinished,
                   disk, row, op, arg, abandoned>>

\* store.set_status() and store.finalize() write the whole metadata back.
Write(m, metadata) ==
    /\ status' = [status EXCEPT ![m] = metadata.status]
    /\ notes' = [notes EXCEPT ![m] = metadata.notes]
    /\ held' = [held EXCEPT ![m] = metadata]

\* store.set_status() of the session's store: it raises once the directory is
\* gone, and, with Faults, whenever the disk refuses the write.
SetStatus(p) ==
    LET m == Target(p) IN
    /\ at[p] = "status"
    /\ \/ /\ Writable(m)
          /\ Write(m, [Reloaded(m) EXCEPT !.status = Aim[op[p]]])
          /\ Goto(p, "sync")
          /\ UNCHANGED <<op, arg, lock, loop>>
       \/ /\ Faults \/ ~Writable(m)
          /\ Return(p)
          /\ UNCHANGED <<status, notes, held>>
    /\ UNCHANGED <<up, crashes, slot, state, capture, unfinished, torn, row,
                   abandoned>>

\* _sync_db(): the row gets the status of the in-memory metadata; with Faults
\* the upsert may raise.
SyncDb(p) ==
    LET m == Target(p) IN
    /\ at[p] = "sync"
    /\ \/ /\ row' = [row EXCEPT ![m] = held[m].status]
          /\ IF Synced[op[p]] = "return"
             THEN Return(p)
             ELSE /\ at' = [at EXCEPT ![p] = IF op[p] = "tail" THEN "check" ELSE Synced[op[p]]]
                  /\ op' = [op EXCEPT ![p] = IF @ = "tail" THEN "notes" ELSE @]
                  /\ UNCHANGED <<arg, lock, loop>>
       \/ Faults /\ Return(p) /\ UNCHANGED row
    /\ UNCHANGED <<up, crashes, slot, state, held, capture, unfinished, disk,
                   abandoned>>

\* audio_capture.stop() in pause() and in stop().
ReleaseDevices(t) ==
    /\ at[t] = "release"
    /\ capture' = [capture EXCEPT ![arg[t]] = FALSE]
    /\ Goto(t, IF op[t] = "pause" THEN "status" ELSE "finalize")
    /\ UNCHANGED <<up, crashes, slot, lock, loop, state, held, unfinished,
                   disk, row, op, arg, abandoned>>

\* pipeline.stop(drain) and store.finalize() in stop(): the store reloads
\* the metadata before the row is written again.
Finalize(t) ==
    LET m == arg[t] IN
    /\ at[t] = "finalize"
    /\ \/ /\ Writable(m)
          /\ Write(m, Reloaded(m))
          /\ op' = [op EXCEPT ![t] = "tail"]
          /\ Goto(t, "sync")
          /\ UNCHANGED <<arg, lock, loop>>
       \/ /\ Faults \/ ~Writable(m)
          /\ Return(t)
          /\ UNCHANGED <<status, notes, held>>
    /\ UNCHANGED <<up, crashes, slot, state, capture, unfinished, torn, row,
                   abandoned>>

\* stop_meeting() creates the background task and answers.
SpawnNotesTask(t) ==
    LET m == arg[t] IN
    /\ at[t] = "spawn"
    /\ op' = [op EXCEPT ![m] = "finish", ![t] = "none"]
    /\ at' = [at EXCEPT ![m] = "lookup", ![t] = "idle"]
    /\ arg' = [arg EXCEPT ![t] = None]
    /\ loop' = None
    /\ UNCHANGED <<up, crashes, slot, lock, state, held, capture, unfinished,
                   disk, row, abandoned>>

-----------------------------------------------------------------------------
(* run_ai_pipeline, run for the background task and for retries.           *)

\* The pipeline returns or raises: the retry handler answers, the background
\* task goes on to its "finally".
LeavePipeline(p) ==
    IF p \in Meetings
    THEN Goto(p, "mark") /\ UNCHANGED <<op, arg, lock, loop>>
    ELSE Return(p)

\* A retry starts with db.get_meeting() on the event loop; 404 without a row.
Retry(t) ==
    /\ at[t] = "begin" /\ op[t] = "retry" /\ loop = None
    /\ IF row[arg[t]] = "none"
       THEN Return(t)
       ELSE Goto(t, "lookup") /\ UNCHANGED <<op, arg, lock, loop>>
    /\ UNCHANGED <<up, crashes, slot, state, held, capture, unfinished, disk,
                   row, abandoned>>

\* db.get_meeting() inside the pipeline: without a row there is nothing to do.
LookUp(p) ==
    /\ at[p] = "lookup"
    /\ IF row[Target(p)] = "none"
       THEN LeavePipeline(p)
       ELSE Goto(p, "announce") /\ UNCHANGED <<op, arg, lock, loop>>
    /\ UNCHANGED <<up, crashes, slot, state, held, capture, unfinished, disk,
                   row, abandoned>>

\* MeetingStore.load() and set_status("generating_notes").
Announce(p) ==
    LET m == Target(p) IN
    /\ at[p] = "announce"
    /\ IF OnDisk(m)
       THEN /\ status' = [status EXCEPT ![m] = "generating_notes"]
            /\ Goto(p, "announced")
            /\ UNCHANGED <<op, arg, lock, loop>>
       ELSE LeavePipeline(p) /\ UNCHANGED status
    /\ UNCHANGED <<up, crashes, slot, state, held, capture, unfinished, notes,
                   torn, row, abandoned>>

\* The upsert of a pipeline status, from the pipeline's own store.
Upserted(p, place, value) ==
    /\ at[p] = place
    /\ row' = [row EXCEPT ![Target(p)] = value]
    /\ UNCHANGED <<up, crashes, slot, state, held, capture, unfinished, disk,
                   abandoned>>

AnnounceRow(p) ==
    /\ Upserted(p, "announced", "generating_notes")
    /\ Goto(p, "generate")
    /\ UNCHANGED <<op, arg, lock, loop>>

\* A damaged transcript may raise when it is read; otherwise the notes end
\* up completed, pending (providers failed) or failed (empty transcript, or
\* any other exception) and are persisted, which raises without a directory.
Generate(p) ==
    LET m == Target(p) IN
    /\ at[p] = "generate"
    /\ \/ /\ m \in torn \/ ~Writable(m)
          /\ LeavePipeline(p)
          /\ UNCHANGED <<status, notes>>
       \/ /\ Writable(m)
          /\ \E outcome \in {"completed", "pending", "failed"} :
               notes' = [notes EXCEPT ![m] = outcome]
          /\ status' = [status EXCEPT ![m] = IF OnDisk(m) THEN @ ELSE "generating_notes"]
          /\ Goto(p, "complete")
          /\ UNCHANGED <<op, arg, lock, loop>>
    /\ UNCHANGED <<up, crashes, slot, state, held, capture, unfinished, torn,
                   row, abandoned>>

\* set_status("completed") at the end of each branch of the pipeline.
Complete(p) ==
    LET m == Target(p) IN
    /\ at[p] = "complete"
    /\ IF Writable(m)
       THEN /\ status' = [status EXCEPT ![m] = "completed"]
            /\ Goto(p, "completed")
            /\ UNCHANGED <<op, arg, lock, loop>>
       ELSE LeavePipeline(p) /\ UNCHANGED status
    /\ UNCHANGED <<up, crashes, slot, state, held, capture, unfinished, notes,
                   torn, row, abandoned>>

CompleteRow(p) ==
    /\ Upserted(p, "completed", "completed")
    /\ LeavePipeline(p)

\* The "finally" of the background task runs on the event loop and calls
\* mark_completed().
MarkCompleted(m) ==
    /\ at[m] = "mark" /\ loop = None
    /\ loop' = m
    /\ Goto(m, "check")
    /\ UNCHANGED <<up, crashes, slot, lock, state, held, capture, unfinished,
                   disk, row, op, arg, abandoned>>

\* ... and then clears active_session if it still is this session.
ClearSlot(m) ==
    /\ at[m] = "clear"
    /\ IF slot = m
       THEN Goto(m, "vacate") /\ UNCHANGED <<op, arg, lock, loop>>
       ELSE Return(m)
    /\ UNCHANGED <<up, crashes, slot, state, held, capture, unfinished, disk,
                   row, abandoned>>

\* active_session := None, here and at the end of a deletion: whatever the slot
\* holds since it was tested.
Vacate(p) ==
    /\ at[p] = "vacate"
    /\ slot' = None
    /\ Return(p)
    /\ UNCHANGED <<up, crashes, state, held, capture, unfinished, disk, row,
                   abandoned>>

-----------------------------------------------------------------------------
(* /meetings/{id}/abandon                                                  *)

AbandonMeeting(t) ==
    LET m == arg[t] IN
    /\ at[t] = "begin" /\ op[t] = "abandon"
    /\ IF row[m] # "none" /\ OnDisk(m)
       THEN /\ status' = [status EXCEPT ![m] = "error"]
            /\ abandoned' = abandoned \cup {m}
            /\ Goto(t, "abandoned")
            /\ UNCHANGED <<op, arg, lock, loop>>
       ELSE Return(t) /\ UNCHANGED <<status, abandoned>>
    /\ UNCHANGED <<up, crashes, slot, state, held, capture, unfinished, notes,
                   torn, row>>

AbandonRow(t) ==
    /\ Upserted(t, "abandoned", "error")
    /\ Goto(t, "unlist")
    /\ UNCHANGED <<op, arg, lock, loop>>

Unlist(t) ==
    /\ at[t] = "unlist"
    /\ unfinished' = unfinished \ {arg[t]}
    /\ Return(t)
    /\ UNCHANGED <<up, crashes, slot, state, held, capture, disk, row, abandoned>>

-----------------------------------------------------------------------------
(* DELETE /meetings/{id}                                                   *)

\* 404 without a row, 400 for an active status: the row read once decides.
DeleteCheck(t) ==
    /\ at[t] = "begin" /\ op[t] = "delete"
    /\ IF row[arg[t]] \in GuardedStatuses \cup {"none"}
       THEN Return(t)
       ELSE Goto(t, "purge") /\ UNCHANGED <<op, arg, lock, loop>>
    /\ UNCHANGED <<up, crashes, slot, state, held, capture, unfinished, disk,
                   row, abandoned>>

\* rmtree of the directory.  It goes on past files that resist, so a failed
\* purge (500, the row is kept) may have removed metadata.json and
\* transcript.txt.
Purge(t) ==
    LET m == arg[t] IN
    /\ at[t] = "purge"
    /\ \/ /\ status' = [status EXCEPT ![m] = "deleted"]
          /\ Goto(t, "erase")
          /\ UNCHANGED <<op, arg, lock, loop, torn>>
       \/ /\ Writable(m)
          /\ status' \in {status, [status EXCEPT ![m] = "gutted"]}
          /\ torn' \in {torn, torn \cup {m}}
          /\ Return(t)
    /\ UNCHANGED <<up, crashes, slot, state, held, capture, unfinished, notes,
                   row, abandoned>>

EraseRow(t) ==
    /\ Upserted(t, "erase", "none")
    /\ Goto(t, "unset")
    /\ UNCHANGED <<op, arg, lock, loop>>

UnsetSlot(t) ==
    /\ at[t] = "unset"
    /\ IF slot = arg[t]
       THEN Goto(t, "vacate") /\ UNCHANGED <<op, arg, lock, loop>>
       ELSE Return(t)
    /\ UNCHANGED <<up, crashes, slot, state, held, capture, unfinished, disk,
                   row, abandoned>>

-----------------------------------------------------------------------------
(* Process death and the next startup.                                     *)

\* Everything in memory is lost; an append to transcript.txt in progress may
\* leave a torn tail.  The worker of a session appends from its start until
\* after the devices are released, and beyond if stop() gives up its drain.
Crash ==
    /\ up /\ crashes < MaxCrashes
    /\ up' = FALSE
    /\ crashes' = crashes + 1
    /\ \E T \in SUBSET {m \in Meetings : TornAppends /\ state[m] # "none"} : torn' = torn \cup T
    /\ slot' = None /\ lock' = None /\ loop' = None
    /\ state' = [m \in Meetings |-> "none"]
    /\ held' = [m \in Meetings |-> Fresh]
    /\ capture' = [m \in Meetings |-> FALSE]
    /\ unfinished' = {}
    /\ op' = [p \in Procs |-> "none"]
    /\ at' = [p \in Procs |-> "idle"]
    /\ arg' = [t \in Threads |-> None]
    /\ UNCHANGED <<status, notes, row, abandoned>>

\* Mutant: the scan lists the meetings but does not rebuild their rows.
HealedRow_Stale(m) == row[m]

\* The row that scan_for_unfinished() leaves for a meeting.
HealedRow(m) == IF OnDisk(m) THEN status[m] ELSE row[m]

\* lifespan(): scan_for_unfinished() heals the rows and lists what the
\* recovery modal will offer, before any request is served.
Restart ==
    /\ ~up
    /\ up' = TRUE
    /\ row' = [m \in Meetings |-> HealedRow(m)]
    /\ unfinished' = {m \in Meetings : OnDisk(m) /\ status[m] \notin TerminalStatuses}
    /\ UNCHANGED <<crashes, slot, lock, loop, state, held, capture, disk,
                   control, abandoned>>

-----------------------------------------------------------------------------
\* The next step of a handler that has been dispatched.
HandlerStep(t) ==
    \/ Refuse(t) \/ CreateMeeting(t) \/ ReattachMeeting(t)
    \/ StartCapture(t) \/ Publish(t)
    \/ RequireSession(t) \/ TakeSession(t) \/ CheckTransition(t) \/ SetState(t)
    \/ SetStatus(t) \/ SyncDb(t) \/ ReleaseDevices(t) \/ Finalize(t)
    \/ SpawnNotesTask(t)
    \/ Retry(t) \/ LookUp(t) \/ Announce(t) \/ AnnounceRow(t)
    \/ Generate(t) \/ Complete(t) \/ CompleteRow(t)
    \/ AbandonMeeting(t) \/ AbandonRow(t) \/ Unlist(t)
    \/ DeleteCheck(t) \/ Purge(t) \/ EraseRow(t) \/ UnsetSlot(t) \/ Vacate(t)

\* The next step of the background task of meeting m.
TaskStep(m) ==
    \/ LookUp(m) \/ Announce(m) \/ AnnounceRow(m)
    \/ Generate(m) \/ Complete(m) \/ CompleteRow(m)
    \/ MarkCompleted(m) \/ CheckTransition(m) \/ SetState(m)
    \/ SetStatus(m) \/ SyncDb(m) \/ ClearSlot(m) \/ Vacate(m)

Next ==
    \/ \E t \in Threads : Dispatch(t) \/ HandlerStep(t)
    \/ \E m \in Meetings : TaskStep(m)
    \/ Crash
    \/ Restart

Spec == Init /\ [][Next]_vars

\* The operating system schedules every thread: a handler or background task
\* that can take its next step eventually does.  The event loop runs what is
\* ready in FIFO order, so a callback that waits for the loop gets its turn
\* however many requests arrive (strong fairness).
Fairness ==
    /\ \A t \in Threads : WF_vars(HandlerStep(t)) /\ SF_vars(Retry(t))
    /\ \A m \in Meetings : WF_vars(TaskStep(m)) /\ SF_vars(MarkCompleted(m))
    /\ WF_vars(Restart)

FairSpec == Spec /\ Fairness

-----------------------------------------------------------------------------
(* Properties                                                              *)

Places == {"idle", "begin", "take", "capture", "check", "set", "status", "sync",
           "release", "finalize", "publish", "spawn", "lookup", "announce",
           "announced", "generate", "complete", "completed", "mark", "clear",
           "abandoned", "unlist", "purge", "erase", "unset",
           "vacate"}
Ops == AllRequests \cup {"none", "rearm", "tail", "notes", "finish"}

NotesStatus == {"not_started", "completed", "pending", "failed"}
Metadata == [status : Persisted, notes : NotesStatus]

\* Every variable keeps its type.
TypeOK ==
    /\ up \in BOOLEAN
    /\ crashes \in 0 .. MaxCrashes
    /\ slot \in Meetings \cup {None}
    /\ lock \in Threads \cup {None}
    /\ loop \in Procs \cup {None}
    /\ state \in [Meetings -> MeetingState \cup {"none"}]
    /\ held \in [Meetings -> Metadata]
    /\ capture \in [Meetings -> BOOLEAN]
    /\ unfinished \subseteq Meetings
    /\ status \in [Meetings -> Persisted \cup {"absent", "gutted", "deleted"}]
    /\ notes \in [Meetings -> NotesStatus]
    /\ torn \subseteq Meetings
    /\ row \in [Meetings -> Persisted \cup {"none"}]
    /\ op \in [Procs -> Ops]
    /\ at \in [Procs -> Places]
    /\ arg \in [Threads -> Meetings \cup {None}]
    /\ abandoned \subseteq Meetings

\* No handler and no background task is at work on meeting m.
Quiet(m) ==
    /\ up
    /\ at[m] = "idle"
    /\ \A t \in Threads : arg[t] # m

\* A live session is never replaced in active_session, neither by that of another
\* meeting nor by a second one of its own (two recoveries of one meeting): what is
\* published long after its check still finds the slot empty, and a session leaves
\* it only by being cleared.  This is what session_lock and the 409 of
\* start_meeting / resume_after_restart are for; an overwritten session would
\* record on with no way to stop it.
SlotNeverOverwritten ==
    [][/\ \A t \in Threads : Publish(t) => slot = None
       /\ slot # None => slot' \in {slot, None}]_vars

\* The metadata, the SQLite row and the live state machine tell one story
\* about a meeting nobody is working on: the row mirrors metadata.json (the
\* "never disagree" of checkpoint.py) and a live session's state is the
\* status on disk.
StoresAgree ==
    \A m \in Meetings : Quiet(m) =>
        /\ OnDisk(m) => row[m] = status[m]
        /\ slot = m => state[m] = status[m]

\* While no command is executing, the devices are held exactly by the active
\* meeting and exactly while it is recording: no command sequence leaks a
\* running capture.
DevicesFollowState ==
    \A m \in Meetings : Quiet(m) =>
        (capture[m] <=> slot = m /\ state[m] = "recording")

\* No meeting is left behind in an unfinished status: either it is the active
\* one, or it is on the list the recovery modal offers.
NothingStranded ==
    \A m \in Meetings :
        Quiet(m) /\ status[m] \in ActiveStatuses => slot = m \/ m \in unfinished

\* A meeting directory is only removed when nothing records into it: the
\* status guard of delete_meeting.
NeverDeletesRecording ==
    \A m \in Meetings : status[m] \in {"gutted", "deleted"} => ~capture[m]

\* After /meeting/stop the slot is freed, whatever the notes pipeline does:
\* the "finally" of the background task.
StopFreesSlot ==
    \A m \in Meetings : (slot = m /\ state[m] = "finalizing") ~> slot # m

\* ai_pipeline.py:84-92: whatever goes wrong, a stopped meeting ends with a
\* notes_status that is not "not_started", or the completion page polls on.
NotesAlwaysSettle ==
    \A m \in Meetings :
        (at[m] = "generate") ~> (notes[m] # "not_started" \/ ~up)

\* main.py:760-762: an abandoned meeting is never offered again.
AbandonIsFinal ==
    \A m \in abandoned : Quiet(m) => m \notin unfinished

\* main.py:460-464: a directory is never removed under a pipeline that is
\* writing notes into it.
NoDeleteUnderPipeline ==
    [][\A m \in Meetings : OnDisk(m) /\ status'[m] \in {"gutted", "deleted"} =>
         \A p \in Procs : ~(Target(p) = m /\
             at[p] \in {"announced", "generate", "complete"})]_vars

\* main.py:543-546: a deletion that is refused with a 500 has not removed the
\* meeting, and can be retried.
FailedDeleteRemovesNothing ==
    [][\A t \in Threads : at[t] = "purge" /\ at'[t] = "idle" /\ up' =>
         UNCHANGED <<status, torn>>]_vars

\* A deleted meeting stays deleted: no upsert resurrects its row.
DeletedStaysDeleted ==
    [][\A m \in Meetings : status[m] = "deleted" /\ row[m] = "none" => row'[m] = "none"]_vars

=============================================================================
