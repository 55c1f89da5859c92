----------------------- MODULE MeetingLifecycle_proofs -----------------------
(***************************************************************************)
(* The session slot is never taken from a live session, and the type       *)
(* invariant, for any number of request threads, meetings and crashes; and *)
(* for a client that sends one request at a time, what the stores, the     *)
(* devices and the recovery list tell of every meeting.                    *)
(*                                                                         *)
(* The first argument has two halves.  Control: which operation can be at  *)
(* which place of its handler, and that a thread past the 409 check of     *)
(* start_meeting or resume_after_restart holds session_lock over an empty  *)
(* slot.  Data: the types of the stores.                                   *)
(*                                                                         *)
(* The second one is the invariant Story: a meeting nobody is at work on   *)
(* is Settled, and a meeting that a handler or its background task is at   *)
(* work on is where that code has brought it by now.                       *)
(***************************************************************************)
EXTENDS MeetingLifecycle, TLAPS

Opening == {"start", "recover"}
Transitions == {"start", "recover", "pause", "resume", "rearm", "stop", "notes", "finish"}
Persisting == Transitions \ {"resume"}
Syncing == Persisting \cup {"tail"}

\* The operations whose code has the place.
Routed(o, place) ==
    /\ place = "capture" => o \in Opening \cup {"resume"}
    /\ place \in {"check", "set"} => o \in Transitions
    /\ place = "status" => o \in Persisting
    /\ place = "sync" => o \in Syncing
    /\ place = "publish" => o \in Opening
    /\ place = "take" => o \in {"pause", "resume", "stop"}
    /\ place = "release" => o \in {"pause", "stop"}
    /\ place = "finalize" => o = "stop"
    /\ place = "spawn" => o = "notes"
    /\ place \in {"purge", "erase", "unset"} => o = "delete"

Routing == \A p \in Procs : Routed(op[p], at[p])

\* A background task runs finish_and_generate_notes and nothing else.
TasksFinish == \A m \in Meetings : at[m] # "idle" => op[m] = "finish"

\* A thread that is opening a session holds session_lock, and the slot is free.
OpeningHoldsLock ==
    \A t \in Threads :
        op[t] \in Opening /\ at[t] \notin {"idle", "begin"} => lock = t /\ slot = None

\* What runs on the event loop occupies it: the handler of /meeting/stop, and
\* the background task once it has its turn.
OnLoop(o, place) ==
    \/ o \in {"stop", "tail", "notes"} /\ place # "idle"
    \/ o = "finish" /\ place \in {"check", "set", "status", "sync", "clear", "vacate"}

LoopOwners == \A p \in Procs : OnLoop(op[p], at[p]) => loop = p

ControlTypes ==
    /\ slot \in Meetings \cup {None}
    /\ lock \in Threads \cup {None}
    /\ loop \in Procs \cup {None}
    /\ op \in [Procs -> Ops]
    /\ at \in [Procs -> Places]
    /\ arg \in [Threads -> Meetings \cup {None}]
    /\ \A t \in Threads : op[t] \in {"abandon", "delete"} => arg[t] \in Meetings

Control == ControlTypes /\ Routing /\ TasksFinish /\ OpeningHoldsLock /\ LoopOwners

Data ==
    /\ up \in BOOLEAN
    /\ crashes \in 0 .. MaxCrashes
    /\ state \in [Meetings -> MeetingState \cup {"none"}]
    /\ held \in [Meetings -> Metadata]
    /\ capture \in [Meetings -> BOOLEAN]
    /\ unfinished \subseteq Meetings
    /\ status \in [Meetings -> Persisted \cup {"absent", "gutted", "deleted"}]
    /\ notes \in [Meetings -> NotesStatus]
    /\ torn \subseteq Meetings
    /\ row \in [Meetings -> Persisted \cup {"none"}]
    /\ abandoned \subseteq Meetings

IInv == Control /\ Data

-----------------------------------------------------------------------------
(* The tables of the session methods.                                      *)

LEMMA Tables ==
    /\ \A o \in Transitions : Aim[o] \in MeetingState
    /\ \A o \in Persisting : Aim[o] \in Persisted
    /\ \A o \in Transitions :
         \/ Entered[o] = "status" /\ o \in Persisting
         \/ Entered[o] = "release" /\ o = "pause"
         \/ Entered[o] = "capture" /\ o = "resume"
    /\ \A o \in Syncing : o # "tail" =>
         \/ Synced[o] = "publish" /\ o \in Opening
         \/ Synced[o] = "release" /\ o = "stop"
         \/ Synced[o] = "spawn" /\ o = "notes"
         \/ Synced[o] = "clear" /\ o = "finish"
         \/ Synced[o] = "return"
    /\ Synced["tail"] = "notes"
  BY DEF Transitions, Persisting, Syncing, Opening, Aim, Entered, Synced,
         MeetingState, Persisted, ActiveStatuses, TerminalStatuses

-----------------------------------------------------------------------------
(* The two ways in which a step moves a process.                           *)

\* A handler answers, or the task ends.
LEMMA ReturnControl ==
    ASSUME Control, NEW p \in Procs, Return(p), slot' \in {slot, None}
    PROVE  Control'
  <1> USE LifecycleAssumption DEF Control, Return, Procs
  <1>1. op' = [op EXCEPT ![p] = "none"] /\ at' = [at EXCEPT ![p] = "idle"]
    OBVIOUS
  <1>2. ControlTypes'
    BY <1>1 DEF ControlTypes, Ops, Places
  <1>3. Routing'
    BY <1>1 DEF Routing, Routed, ControlTypes
  <1>4. TasksFinish'
    BY <1>1 DEF TasksFinish, ControlTypes
  <1>5. OpeningHoldsLock'
    BY <1>1 DEF OpeningHoldsLock, ControlTypes, Opening
  <1>6. LoopOwners'
    BY <1>1 DEF LoopOwners, OnLoop, ControlTypes
  <1> QED
    BY <1>2, <1>3, <1>4, <1>5, <1>6

\* A process goes on to the next place of its code.
LEMMA GotoControl ==
    ASSUME Control, NEW p \in Procs, NEW place \in Places, Goto(p, place),
           UNCHANGED <<op, arg, lock>>, slot' \in {slot, None},
           \/ loop' = loop /\ (OnLoop(op[p], place) => OnLoop(op[p], at[p]))
           \/ loop = None /\ loop' = p,
           place \notin {"idle", "begin"}, at[p] # "idle", at[p] = "begin" => op[p] \notin Opening,
           Routed(op[p], place)
    PROVE  Control'
  <1> USE LifecycleAssumption DEF Control, Goto, Procs
  <1>1. ControlTypes'
    BY DEF ControlTypes
  <1>2. Routing'
    BY DEF Routing, Routed, ControlTypes
  <1>3. TasksFinish'
    BY DEF TasksFinish, ControlTypes
  <1>4. OpeningHoldsLock'
    BY DEF OpeningHoldsLock, ControlTypes
  <1>5. LoopOwners'
    <2>1. at'[p] = place /\ op'[p] = op[p] /\ OnLoop(op[p], place) => loop' = p
      BY DEF LoopOwners, ControlTypes
    <2>2. ASSUME NEW q \in Procs, q # p, OnLoop(op'[q], at'[q]) PROVE loop' = q
      <3>1. at'[q] = at[q] /\ op'[q] = op[q] /\ q # None
        BY <2>2 DEF ControlTypes
      <3>2. loop = q
        BY <2>2, <3>1 DEF LoopOwners
      <3> QED
        BY <3>1, <3>2
    <2> QED
      BY <2>1, <2>2 DEF LoopOwners
  <1> QED
    BY <1>1, <1>2, <1>3, <1>4, <1>5

-----------------------------------------------------------------------------
(* Control: the steps of the session methods.                              *)

LEMMA CheckTransitionControl ==
    ASSUME Control, NEW p \in Procs, CheckTransition(p) PROVE Control'
  <1> USE DEF CheckTransition
  <1>1. CASE Return(p)
    BY <1>1, ReturnControl
  <1>2. CASE Goto(p, "set") /\ UNCHANGED <<op, arg, lock, loop>>
    <2>1. Routed(op[p], "set") /\ "set" \in Places
      BY DEF Control, Routing, Routed, Places
    <2>2. OnLoop(op[p], "set") => OnLoop(op[p], at[p])
      BY DEF OnLoop
    <2> QED
      BY <1>2, <2>1, <2>2, GotoControl
  <1> QED
    BY <1>1, <1>2

LEMMA SetStateControl ==
    ASSUME Control, NEW p \in Procs, SetState(p) PROVE Control'
  <1> USE DEF SetState
  <1>1. op[p] \in Transitions
    BY DEF Control, Routing, Routed
  <1>2. Entered[op[p]] \in Places \ {"idle", "begin"} /\ Routed(op[p], Entered[op[p]])
    BY <1>1, Tables DEF Routed, Places
  <1>3. OnLoop(op[p], Entered[op[p]]) => OnLoop(op[p], at[p])
    BY DEF OnLoop
  <1> QED
    BY <1>2, <1>3, GotoControl

LEMMA SetStatusControl ==
    ASSUME Control, NEW p \in Procs, SetStatus(p) PROVE Control'
  <1> USE DEF SetStatus
  <1>1. CASE Return(p)
    BY <1>1, ReturnControl
  <1>2. CASE Goto(p, "sync") /\ UNCHANGED <<op, arg, lock, loop>>
    <2>1. Routed(op[p], "sync") /\ "sync" \in Places
      BY DEF Control, Routing, Routed, Places, Syncing
    <2>2. OnLoop(op[p], "sync") => OnLoop(op[p], at[p])
      BY DEF OnLoop
    <2> QED
      BY <1>2, <2>1, <2>2, GotoControl
  <1> QED
    BY <1>1, <1>2

\* After the row is written a session method returns or goes on; the second
\* row of stop() is followed by set_generating_notes().
LEMMA SyncDbControl ==
    ASSUME Control, NEW p \in Procs, SyncDb(p) PROVE Control'
  <1> USE DEF SyncDb
  <1>1. op[p] \in Syncing
    BY DEF Control, Routing, Routed
  <1>2. CASE Return(p)
    BY <1>2, ReturnControl
  <1>3. CASE op[p] # "tail" /\ Synced[op[p]] # "return" /\ ~Return(p)
    <2>1. Synced[op[p]] \in Places \ {"idle", "begin"} /\ Routed(op[p], Synced[op[p]])
      BY <1>1, <1>3, Tables DEF Routed, Places
    <2>2. op' = op
      BY <1>3 DEF Control, ControlTypes
    <2>3. OnLoop(op[p], Synced[op[p]]) => OnLoop(op[p], at[p])
      BY DEF OnLoop
    <2> QED
      BY <1>3, <2>1, <2>2, <2>3, GotoControl DEF Goto
  <1>4. CASE op[p] = "tail" /\ ~Return(p)
    <2>1. /\ at' = [at EXCEPT ![p] = "check"] /\ op' = [op EXCEPT ![p] = "notes"]
          /\ UNCHANGED <<arg, lock, loop, slot>>
      BY <1>4, Tables
    <2>2. ControlTypes'
      BY <2>1 DEF Control, ControlTypes, Ops, Places
    <2>3. Routing'
      BY <2>1 DEF Control, Routing, Routed, ControlTypes, Transitions
    <2>4. TasksFinish'
      BY <1>4, <2>1 DEF Control, TasksFinish, ControlTypes
    <2>5. OpeningHoldsLock'
      BY <2>1 DEF Control, OpeningHoldsLock, ControlTypes, Opening
    <2>6. LoopOwners'
      BY <1>4, <2>1 DEF Control, LoopOwners, OnLoop, ControlTypes
    <2> QED
      BY <2>2, <2>3, <2>4, <2>5, <2>6 DEF Control
  <1> QED
    BY <1>1, <1>2, <1>3, <1>4, Tables

\* audio_capture.start(): resume() goes on to its second transition.
LEMMA StartCaptureControl ==
    ASSUME Control, NEW t \in Threads, StartCapture(t) PROVE Control'
  <1> USE LifecycleAssumption DEF StartCapture, Goto, Procs
  <1>1. op[t] \in Opening \cup {"resume"}
    BY DEF Control, Routing, Routed
  <1> DEFINE o == IF op[t] = "resume" THEN "rearm" ELSE op[t]
  <1>2. op' = [op EXCEPT ![t] = o] /\ o \in Opening \cup {"rearm"} /\ (o \in Opening => op[t] = o)
    BY <1>1 DEF Opening
  <1> HIDE DEF o, StartCapture
  <1>3. /\ at[t] = "capture" /\ at' = [at EXCEPT ![t] = "check"]
        /\ UNCHANGED <<arg, slot, lock, loop>>
    BY DEF StartCapture
  <1>4. ControlTypes'
    BY <1>2, <1>3 DEF Control, ControlTypes, Ops, AllRequests, Places, Opening
  <1>5. Routing'
    BY <1>2, <1>3 DEF Control, Routing, Routed, ControlTypes, Transitions, Opening
  <1>6. TasksFinish'
    <2>1. \A m \in Meetings : m # t /\ m \in Procs
      OBVIOUS
    <2>2. \A m \in Meetings : at'[m] = at[m] /\ op'[m] = op[m]
      BY <1>2, <1>3, <2>1 DEF Control, ControlTypes
    <2> QED
      BY <2>2 DEF Control, TasksFinish
  <1>7. OpeningHoldsLock'
    BY <1>2, <1>3 DEF Control, OpeningHoldsLock, ControlTypes, Opening
  <1>8. LoopOwners'
    BY <1>2, <1>3 DEF Control, LoopOwners, OnLoop, ControlTypes, Opening
  <1> QED
    BY <1>4, <1>5, <1>6, <1>7, <1>8 DEF Control

LEMMA ReleaseDevicesControl ==
    ASSUME Control, NEW t \in Threads, ReleaseDevices(t) PROVE Control'
  <1> USE DEF ReleaseDevices
  <1>1. CASE op[t] = "pause"
    BY <1>1, GotoControl DEF Procs, Routed, Persisting, Transitions, Places, OnLoop
  <1>2. CASE op[t] # "pause"
    <2>1. op[t] = "stop"
      BY <1>2 DEF Control, Routing, Routed, Procs
    <2> QED
      BY <1>2, <2>1, GotoControl DEF Procs, Routed, Places, OnLoop
  <1> QED
    BY <1>1, <1>2

LEMMA FinalizeControl ==
    ASSUME Control, NEW t \in Threads, Finalize(t) PROVE Control'
  <1> USE LifecycleAssumption DEF Finalize, Goto, Procs
  <1>1. CASE Return(t)
    BY <1>1, ReturnControl
  <1>2. CASE ~Return(t)
    <2>1. /\ at' = [at EXCEPT ![t] = "sync"] /\ op' = [op EXCEPT ![t] = "tail"]
          /\ UNCHANGED <<arg, lock, loop, slot>>
      BY <1>2
    <2>2. ControlTypes'
      BY <2>1 DEF Control, ControlTypes, Ops, Places
    <2>3. Routing'
      BY <2>1 DEF Control, Routing, Routed, ControlTypes, Syncing
    <2>4. TasksFinish'
      BY <2>1 DEF Control, TasksFinish, ControlTypes
    <2>5. OpeningHoldsLock'
      BY <2>1 DEF Control, OpeningHoldsLock, ControlTypes, Opening
    <2>6. LoopOwners'
      <3>1. op[t] = "stop" /\ at[t] = "finalize"
        BY DEF Control, Routing, Routed
      <3> QED
        BY <2>1, <3>1 DEF Control, LoopOwners, OnLoop, ControlTypes
    <2> QED
      BY <2>2, <2>3, <2>4, <2>5, <2>6 DEF Control
  <1> QED
    BY <1>1, <1>2

\* The handler of /meeting/stop answers and the background task is created.
LEMMA SpawnNotesTaskControl ==
    ASSUME Control, NEW t \in Threads, SpawnNotesTask(t) PROVE Control'
  <1> USE LifecycleAssumption DEF SpawnNotesTask, Procs
  <1> DEFINE m == arg[t]
  <1>1. m \in Meetings \cup {None} /\ m # t
    BY DEF Control, ControlTypes
  <1> HIDE DEF m
  <1>2. /\ op' = [op EXCEPT ![m] = "finish", ![t] = "none"]
        /\ at' = [at EXCEPT ![m] = "lookup", ![t] = "idle"]
        /\ arg' = [arg EXCEPT ![t] = None]
        /\ loop' = None /\ UNCHANGED <<slot, lock>>
    BY DEF m
  <1>3. ControlTypes'
    BY <1>1, <1>2 DEF Control, ControlTypes, Ops, Places
  <1>4. Routing'
    BY <1>1, <1>2 DEF Control, Routing, Routed, ControlTypes
  <1>5. TasksFinish'
    BY <1>1, <1>2 DEF Control, TasksFinish, ControlTypes
  <1>6. OpeningHoldsLock'
    BY <1>1, <1>2 DEF Control, OpeningHoldsLock, ControlTypes, Opening
  <1>7. LoopOwners'
    <2>1. op[t] = "notes" /\ at[t] = "spawn"
      BY DEF Control, Routing, Routed
    <2>2. loop = t
      BY <2>1 DEF Control, LoopOwners, OnLoop
    <2> QED
      BY <1>1, <1>2, <2>2 DEF Control, LoopOwners, OnLoop, ControlTypes
  <1> QED
    BY <1>3, <1>4, <1>5, <1>6, <1>7 DEF Control

-----------------------------------------------------------------------------
(* Control: opening a session.                                             *)

\* The 409 checks, under the lock.
LEMMA OpenControl ==
    ASSUME Control, NEW t \in Threads, CreateMeeting(t) \/ ReattachMeeting(t)
    PROVE  Control'
  <1> USE LifecycleAssumption DEF CreateMeeting, ReattachMeeting, SlotFree, Goto, Procs
  <1>1. /\ slot = None /\ slot' = None /\ lock = None /\ lock' = t
        /\ op' = op /\ op[t] \in Opening
        /\ at' = [at EXCEPT ![t] = "capture"]
        /\ UNCHANGED loop
    BY DEF Opening
  <1>2. arg' \in [Threads -> Meetings \cup {None}]
    BY DEF Control, ControlTypes
  <1> HIDE DEF CreateMeeting, ReattachMeeting
  <1>3. ControlTypes'
    <2>1. \A u \in Threads : u # t => arg'[u] = arg[u]
      BY <1>1, <1>2 DEF Control, ControlTypes, CreateMeeting, ReattachMeeting
    <2> QED
      BY <1>1, <1>2, <2>1 DEF Control, ControlTypes, Places, Opening
  <1>4. Routing'
    BY <1>1 DEF Control, Routing, Routed, ControlTypes
  <1>5. TasksFinish'
    BY <1>1 DEF Control, TasksFinish, ControlTypes
  <1>6. OpeningHoldsLock'
    BY <1>1 DEF Control, OpeningHoldsLock, ControlTypes
  <1>7. LoopOwners'
    BY <1>1 DEF Control, LoopOwners, OnLoop, ControlTypes, Opening
  <1> QED
    BY <1>3, <1>4, <1>5, <1>6, <1>7 DEF Control

\* Publishing releases the lock; nobody else is opening a session.
LEMMA PublishControl ==
    ASSUME Control, NEW t \in Threads, Publish(t) PROVE Control'
  <1> USE LifecycleAssumption DEF Publish, Return, Procs
  <1>1. lock = t /\ \A u \in Threads \ {t} : at[u] \in {"idle", "begin"} \/ op[u] \notin Opening
    BY DEF Control, Routing, Routed, OpeningHoldsLock
  <1>2. slot' \in Meetings \cup {None}
    BY DEF Control, ControlTypes
  <1>3. ControlTypes'
    BY <1>2 DEF Control, ControlTypes, Ops, Places
  <1>4. Routing'
    BY DEF Control, Routing, Routed, ControlTypes
  <1>5. TasksFinish'
    BY DEF Control, TasksFinish, ControlTypes
  <1>6. OpeningHoldsLock'
    BY <1>1 DEF Control, OpeningHoldsLock, ControlTypes, Opening
  <1>7. LoopOwners'
    BY DEF Control, LoopOwners, OnLoop, ControlTypes
  <1> QED
    BY <1>3, <1>4, <1>5, <1>6, <1>7 DEF Control

LEMMA RefuseControl ==
    ASSUME Control, NEW t \in Threads, Refuse(t) PROVE Control'
  BY ReturnControl DEF Refuse, Procs

LEMMA RequireSessionControl ==
    ASSUME Control, NEW t \in Threads, RequireSession(t) PROVE Control'
  <1> USE DEF RequireSession, Procs
  <1>1. CASE slot = None
    BY <1>1, ReturnControl
  <1>2. CASE slot # None
    <2>1. op[t] \notin Opening /\ Routed(op[t], "take") /\ "take" \in Places
      BY DEF Opening, Routed, Places
    <2>2. OnLoop(op[t], "take") => OnLoop(op[t], at[t])
      BY DEF OnLoop
    <2> QED
      BY <1>2, <2>1, <2>2, GotoControl
  <1> QED
    BY <1>1, <1>2

LEMMA TakeSessionControl ==
    ASSUME Control, NEW t \in Threads, TakeSession(t) PROVE Control'
  <1> USE LifecycleAssumption DEF TakeSession, Goto, Procs
  <1>1. CASE slot = None
    BY <1>1, ReturnControl
  <1>2. CASE slot # None
    <2>1. /\ at' = [at EXCEPT ![t] = "check"] /\ arg' = [arg EXCEPT ![t] = slot]
          /\ UNCHANGED <<op, lock, loop, slot>>
          /\ at[t] = "take" /\ op[t] \in {"pause", "resume", "stop"}
      BY <1>2 DEF Control, Routing, Routed
    <2> HIDE DEF TakeSession
    <2>2. ControlTypes'
      BY <2>1 DEF Control, ControlTypes, Places
    <2>3. Routing'
      BY <2>1 DEF Control, Routing, Routed, ControlTypes, Transitions
    <2>4. TasksFinish'
      BY <2>1 DEF Control, TasksFinish, ControlTypes
    <2>5. OpeningHoldsLock'
      BY <2>1 DEF Control, OpeningHoldsLock, ControlTypes, Opening
    <2>6. LoopOwners'
      BY <2>1 DEF Control, LoopOwners, OnLoop, ControlTypes
    <2> QED
      BY <2>2, <2>3, <2>4, <2>5, <2>6 DEF Control
  <1> QED
    BY <1>1, <1>2

LEMMA DispatchControl ==
    ASSUME Control, unfinished \subseteq Meetings, NEW t \in Threads, Dispatch(t)
    PROVE  Control'
  <1> USE LifecycleAssumption DEF Dispatch, Goto, Procs
  <1>1. PICK request \in Requests, m \in Meetings \cup {None} :
          /\ request \in {"abandon", "delete"} => m \in Meetings
          /\ op' = [op EXCEPT ![t] = request]
          /\ arg' = [arg EXCEPT ![t] = m]
          /\ loop' = IF request = "stop" THEN t ELSE loop
          /\ request \in AllRequests
    BY DEF Offered, OffersCommand, OffersStart, OffersRetry, OffersDelete,
          OffersRecovery
  <1>2. /\ at' = [at EXCEPT ![t] = "begin"] /\ UNCHANGED <<slot, lock>> /\ request \in Ops
        /\ loop = None
    BY DEF Ops
  <1> HIDE DEF Dispatch
  <1>3. ControlTypes'
    BY <1>1, <1>2 DEF Control, ControlTypes, Places
  <1>4. Routing'
    BY <1>1, <1>2 DEF Control, Routing, Routed, ControlTypes
  <1>5. TasksFinish'
    BY <1>1, <1>2 DEF Control, TasksFinish, ControlTypes
  <1>6. OpeningHoldsLock'
    BY <1>1, <1>2 DEF Control, OpeningHoldsLock, ControlTypes
  <1>7. LoopOwners'
    BY <1>1, <1>2 DEF Control, LoopOwners, OnLoop, ControlTypes, AllRequests
  <1> QED
    BY <1>3, <1>4, <1>5, <1>6, <1>7 DEF Control

-----------------------------------------------------------------------------
(* Control: the AI pipeline, abandon and delete.                           *)

LEMMA LeavePipelineControl ==
    ASSUME Control, NEW p \in Procs, LeavePipeline(p), slot' = slot,
           at[p] \notin {"idle", "begin"}
    PROVE  Control'
  <1>1. CASE p \in Meetings
    BY <1>1, GotoControl DEF LeavePipeline, Routed, Places, OnLoop
  <1>2. CASE p \notin Meetings
    BY <1>2, ReturnControl DEF LeavePipeline
  <1> QED
    BY <1>1, <1>2

LEMMA PipelineControl ==
    ASSUME Control, NEW p \in Procs,
           \/ LookUp(p) \/ Announce(p) \/ AnnounceRow(p)
           \/ Generate(p) \/ Complete(p) \/ CompleteRow(p)
    PROVE  Control'
  <1>1. slot' = slot /\ at[p] \notin {"idle", "begin"}
    BY DEF LookUp, Announce, AnnounceRow, Generate, Complete, CompleteRow, Upserted
  <1>2. \/ LeavePipeline(p)
        \/ /\ UNCHANGED <<op, arg, lock, loop>>
           /\ \E place \in {"announce", "announced", "generate", "complete", "completed"} :
                Goto(p, place)
    BY DEF LookUp, Announce, AnnounceRow, Generate, Complete, CompleteRow
  <1> QED
    BY <1>1, <1>2, LeavePipelineControl, GotoControl DEF Routed, Places, OnLoop

LEMMA TaskEndControl ==
    ASSUME Control, NEW m \in Meetings, MarkCompleted(m) \/ ClearSlot(m)
    PROVE  Control'
  <1>1. CASE MarkCompleted(m)
    <2>1. Routed(op[m], "check") /\ at[m] # "idle"
      BY <1>1 DEF MarkCompleted, Control, TasksFinish, Routed, Transitions
    <2> QED
      BY <1>1, <2>1, GotoControl DEF MarkCompleted, Procs, Places
  <1>2. CASE ClearSlot(m)
    <2>1. CASE Return(m)
      BY <1>2, <2>1, ReturnControl DEF ClearSlot, Procs
    <2>2. CASE ~Return(m)
      <3>1. Routed(op[m], "vacate") /\ "vacate" \in Places /\ OnLoop(op[m], at[m])
        BY <1>2 DEF ClearSlot, Control, TasksFinish, Routed, Places, OnLoop
      <3> QED
        BY <1>2, <2>2, <3>1, GotoControl DEF ClearSlot, Procs
    <2> QED
      BY <2>1, <2>2
  <1> QED
    BY <1>1, <1>2

\* Whatever the slot holds, it is empty afterwards.
LEMMA VacateControl ==
    ASSUME Control, NEW p \in Procs, Vacate(p) PROVE Control'
  BY ReturnControl DEF Vacate

LEMMA OtherHandlerControl ==
    ASSUME Control, NEW t \in Threads,
           \/ Retry(t) \/ AbandonMeeting(t) \/ AbandonRow(t) \/ Unlist(t)
           \/ DeleteCheck(t) \/ Purge(t) \/ EraseRow(t) \/ UnsetSlot(t)
    PROVE  Control'
  <1> USE DEF Retry, AbandonMeeting, AbandonRow, Unlist, DeleteCheck, Purge,
              EraseRow, UnsetSlot, Upserted
  <1>1. /\ t \in Procs /\ slot' \in {slot, None} /\ at[t] # "idle"
        /\ at[t] = "begin" => op[t] \notin Opening
    BY DEF Procs, Opening
  <1>2. at[t] \in {"purge", "erase", "unset"} => op[t] = "delete"
    BY <1>1 DEF Control, Routing, Routed
  <1>3. \/ Return(t)
        \/ /\ UNCHANGED <<op, arg, lock, loop>>
           /\ \E place \in {"lookup", "abandoned", "unlist", "purge", "erase", "unset", "vacate"} :
                /\ Goto(t, place)
                /\ place \in {"purge", "erase", "unset", "vacate"} => op[t] = "delete"
    BY <1>2
  <1> HIDE DEF Retry, AbandonMeeting, AbandonRow, Unlist, DeleteCheck, Purge,
              EraseRow, UnsetSlot, Upserted
  <1> QED
    BY <1>1, <1>3, ReturnControl, GotoControl DEF Routed, Places, OnLoop

LEMMA EngineControl ==
    ASSUME Control, Crash \/ Restart \/ UNCHANGED vars PROVE Control'
  <1>1. CASE Crash
    <2> USE <1>1 DEF Crash
    <2>1. ControlTypes'
      BY DEF ControlTypes, Ops, Places, Procs
    <2>2. Routing' /\ TasksFinish' /\ OpeningHoldsLock' /\ LoopOwners'
      BY DEF Routing, Routed, TasksFinish, OpeningHoldsLock, LoopOwners, OnLoop, Opening, Procs
    <2> QED
      BY <2>1, <2>2 DEF Control
  <1>2. CASE UNCHANGED <<slot, lock, loop, op, at, arg>>
    BY <1>2 DEF Control, ControlTypes, Routing, TasksFinish, OpeningHoldsLock, LoopOwners
  <1>3. CASE Restart
    BY <1>2, <1>3 DEF Restart, control
  <1>4. CASE UNCHANGED vars
    BY <1>2, <1>4 DEF vars, memory, control
  <1> QED
    BY <1>1, <1>3, <1>4

\* The other way round: whoever may put a session in the slot finds it empty.
LEMMA NextControl ==
    ASSUME Control, unfinished \subseteq Meetings, [Next]_vars PROVE Control'
  <1>1. ASSUME NEW t \in Threads, HandlerStep(t) PROVE Control'
    BY <1>1, RefuseControl, OpenControl, StartCaptureControl, PublishControl,
       RequireSessionControl, TakeSessionControl, CheckTransitionControl, SetStateControl,
       SetStatusControl, SyncDbControl, ReleaseDevicesControl, FinalizeControl,
       SpawnNotesTaskControl, PipelineControl, OtherHandlerControl, VacateControl
    DEF HandlerStep, Procs
  <1>2. ASSUME NEW m \in Meetings, TaskStep(m) PROVE Control'
    BY <1>2, PipelineControl, TaskEndControl, CheckTransitionControl,
       SetStateControl, SetStatusControl, SyncDbControl, VacateControl
    DEF TaskStep, Procs
  <1> QED
    BY <1>1, <1>2, DispatchControl, EngineControl DEF Next

LEMMA InitControl == Init => Control
  BY LifecycleAssumption
  DEF Init, Control, ControlTypes, Routing, Routed, TasksFinish, OpeningHoldsLock,
      LoopOwners, OnLoop, Opening, Procs, Ops, Places

\* Only Publish fills the slot, and under OpeningHoldsLock it was empty.
LEMMA NextKeepsSlot ==
    ASSUME Control, [Next]_vars
    PROVE  /\ \A t \in Threads : Publish(t) => slot = None
           /\ slot # None => slot' \in {slot, None}
  <1>1. ASSUME NEW t \in Threads, Publish(t) PROVE slot = None
    BY <1>1 DEF Publish, Control, Routing, Routed, OpeningHoldsLock, Procs
  <1>2. ASSUME NEW t \in Threads, HandlerStep(t), ~Publish(t) PROVE slot' \in {slot, None}
    BY <1>2 DEF HandlerStep, Refuse, CreateMeeting, ReattachMeeting, StartCapture,
       RequireSession, TakeSession, CheckTransition, SetState, SetStatus, SyncDb, ReleaseDevices,
       Finalize, SpawnNotesTask, Retry, LookUp, Announce, AnnounceRow, Upserted,
       Generate, Complete, CompleteRow, AbandonMeeting, AbandonRow, Unlist,
       DeleteCheck, Purge, EraseRow, UnsetSlot, Vacate
  <1>3. ASSUME NEW m \in Meetings, TaskStep(m) PROVE slot' \in {slot, None}
    BY <1>3 DEF TaskStep, CheckTransition, SetState, SetStatus, SyncDb, LookUp,
       Announce, AnnounceRow, Upserted, Generate, Complete, CompleteRow,
       MarkCompleted, ClearSlot, Vacate
  <1>4. ASSUME NEW t \in Threads, Dispatch(t) PROVE slot' = slot
    BY <1>4 DEF Dispatch
  <1>5. ASSUME Crash \/ Restart \/ UNCHANGED vars PROVE slot' \in {slot, None}
    BY <1>5 DEF Crash, Restart, vars, memory
  <1>6. slot # None => slot' \in {slot, None}
    BY <1>1, <1>2, <1>3, <1>4, <1>5 DEF Next
  <1> QED
    BY <1>1, <1>6

-----------------------------------------------------------------------------
(* Data.                                                                   *)

LEMMA InitData == Init => Data
  BY LifecycleAssumption DEF Init, Data, Fresh, Metadata, NotesStatus, Persisted, ActiveStatuses

\* What the statuses on disk and in the stores may become.
LEMMA StatusValues ==
    /\ {"preparing", "generating_notes", "completed", "error"} \subseteq Persisted
    /\ {"preparing", "recovery"} \subseteq MeetingState
    /\ \A m \in Meetings : OnDisk(m) => status[m] \in Persisted
  BY DEF Persisted, ActiveStatuses, TerminalStatuses, MeetingState, OnDisk

\* What a session's store holds after a reload, and writes.
LEMMA ReloadedType ==
    ASSUME Data, NEW m \in Meetings PROVE Reloaded(m) \in Metadata
  BY StatusValues DEF Reloaded, Data, Metadata

LEMMA WriteData ==
    ASSUME Data, NEW m, NEW metadata, m \in Meetings => metadata \in Metadata,
           Write(m, metadata) \/ UNCHANGED <<status, notes, held>>
    PROVE  /\ status' \in [Meetings -> Persisted \cup {"absent", "gutted", "deleted"}]
           /\ notes' \in [Meetings -> NotesStatus]
           /\ held' \in [Meetings -> Metadata]
  <1>1. CASE m \in Meetings /\ Write(m, metadata)
    <2>1. metadata.status \in Persisted /\ metadata.notes \in NotesStatus
      BY <1>1 DEF Metadata
    <2> QED
      BY <1>1, <2>1 DEF Data, Write
  <1>2. CASE m \notin Meetings /\ Write(m, metadata)
    BY <1>2 DEF Data, Write
  <1>3. CASE UNCHANGED <<status, notes, held>>
    BY <1>3 DEF Data
  <1> QED
    BY <1>1, <1>2, <1>3

LEMMA SessionData ==
    ASSUME Control, Data, NEW p \in Procs,
           CheckTransition(p) \/ SetState(p) \/ SetStatus(p) \/ SyncDb(p)
    PROVE  Data'
  <1>1. CASE CheckTransition(p)
    BY <1>1 DEF CheckTransition, Data, disk
  <1>2. CASE SetState(p)
    <2>1. Aim[op[p]] \in MeetingState
      BY <1>2, Tables DEF SetState, Control, Routing, Routed
    <2> QED
      BY <1>2, <2>1 DEF SetState, Data, disk
  <1>3. CASE SetStatus(p)
    <2>1. Aim[op[p]] \in Persisted
      BY <1>3, Tables DEF SetStatus, Control, Routing, Routed
    <2> DEFINE m == Target(p)
               metadata == [Reloaded(m) EXCEPT !.status = Aim[op[p]]]
    <2>2. m \in Meetings => metadata \in Metadata
      BY <2>1, ReloadedType DEF Metadata
    <2>3. Write(m, metadata) \/ UNCHANGED <<status, notes, held>>
      BY <1>3 DEF SetStatus
    <2> HIDE DEF m, metadata
    <2> QED
      BY <1>3, <2>2, <2>3, WriteData DEF SetStatus, Data
  <1>4. CASE SyncDb(p)
    <2>1. row' = row \/ row' = [row EXCEPT ![Target(p)] = held[Target(p)].status]
      BY <1>4 DEF SyncDb
    <2>2. row' \in [Meetings -> Persisted \cup {"none"}]
      BY <2>1 DEF Data, Metadata
    <2> QED
      BY <1>4, <2>2 DEF SyncDb, Data, disk
  <1> QED
    BY <1>1, <1>2, <1>3, <1>4

LEMMA OpeningData ==
    ASSUME Control, Data, NEW t \in Threads,
           \/ Refuse(t) \/ CreateMeeting(t) \/ ReattachMeeting(t) \/ StartCapture(t)
           \/ Publish(t) \/ RequireSession(t) \/ TakeSession(t)
    PROVE  Data'
  <1>1. CASE Refuse(t) \/ StartCapture(t) \/ Publish(t) \/ RequireSession(t) \/ TakeSession(t)
    BY <1>1 DEF Refuse, StartCapture, Publish, RequireSession, TakeSession, Data, disk
  <1>2. CASE CreateMeeting(t)
    BY <1>2, StatusValues DEF CreateMeeting, Data, Fresh, Metadata, NotesStatus
  <1>3. CASE ReattachMeeting(t)
    <2>1. arg[t] \in Meetings => Reloaded(arg[t]) \in Metadata
      BY ReloadedType
    <2> QED
      BY <1>3, <2>1, StatusValues DEF ReattachMeeting, Data, disk
  <1> QED
    BY <1>1, <1>2, <1>3

LEMMA StopData ==
    ASSUME Data, NEW t \in Threads, ReleaseDevices(t) \/ Finalize(t) \/ SpawnNotesTask(t)
    PROVE  Data'
  <1>1. CASE ReleaseDevices(t) \/ SpawnNotesTask(t)
    BY <1>1 DEF ReleaseDevices, SpawnNotesTask, Data, disk
  <1>2. CASE Finalize(t)
    <2>1. Write(arg[t], Reloaded(arg[t])) \/ UNCHANGED <<status, notes, held>>
      BY <1>2 DEF Finalize
    <2> QED
      BY <1>2, <2>1, ReloadedType, WriteData DEF Finalize, Data
  <1> QED
    BY <1>1, <1>2

LEMMA PipelineData ==
    ASSUME Data, NEW p \in Procs,
           \/ LookUp(p) \/ Announce(p) \/ AnnounceRow(p)
           \/ Generate(p) \/ Complete(p) \/ CompleteRow(p)
    PROVE  Data'
  <1>1. CASE LookUp(p)
    BY <1>1 DEF LookUp, Data, disk
  <1>2. CASE Announce(p) \/ Complete(p)
    BY <1>2, StatusValues DEF Announce, Complete, Data
  <1>3. CASE AnnounceRow(p) \/ CompleteRow(p)
    BY <1>3, StatusValues DEF AnnounceRow, CompleteRow, Upserted, Data, disk
  <1>4. CASE Generate(p)
    BY <1>4, StatusValues DEF Generate, Data, NotesStatus
  <1> QED
    BY <1>1, <1>2, <1>3, <1>4

LEMMA OtherData ==
    ASSUME Control, Data, NEW t \in Threads,
           \/ Dispatch(t) \/ Retry(t) \/ AbandonMeeting(t) \/ AbandonRow(t)
           \/ Unlist(t) \/ DeleteCheck(t) \/ Purge(t) \/ EraseRow(t) \/ UnsetSlot(t)
           \/ Vacate(t)
    PROVE  Data'
  <1>1. CASE Dispatch(t) \/ Retry(t) \/ Unlist(t) \/ DeleteCheck(t) \/ UnsetSlot(t) \/ Vacate(t)
    BY <1>1 DEF Dispatch, Retry, Unlist, DeleteCheck, UnsetSlot, Vacate, Data, disk
  <1>2. CASE AbandonMeeting(t)
    <2>1. arg[t] \in Meetings
      BY <1>2 DEF AbandonMeeting, Control, ControlTypes
    <2> QED
      BY <1>2, <2>1, StatusValues DEF AbandonMeeting, Data
  <1>3. CASE AbandonRow(t) \/ EraseRow(t)
    BY <1>3, StatusValues DEF AbandonRow, EraseRow, Upserted, Data, disk
  <1>4. CASE Purge(t)
    <2>1. arg[t] \in Meetings
      BY <1>4 DEF Purge, Procs, Control, ControlTypes, Routing, Routed
    <2>2. torn' \subseteq Meetings
      BY <1>4, <2>1 DEF Purge, Data
    <2> QED
      BY <1>4, <2>2 DEF Purge, Data
  <1> QED
    BY <1>1, <1>2, <1>3, <1>4

LEMMA TaskEndData ==
    ASSUME Data, NEW m \in Meetings, MarkCompleted(m) \/ ClearSlot(m) \/ Vacate(m)
    PROVE  Data'
  BY DEF MarkCompleted, ClearSlot, Vacate, Data, disk

LEMMA EngineData == ASSUME Data, Crash \/ Restart \/ UNCHANGED vars PROVE Data'
  <1>1. CASE Crash
    <2>1. crashes' \in 0 .. MaxCrashes /\ torn' \subseteq Meetings
      BY <1>1, LifecycleAssumption DEF Crash, Data
    <2>2. Fresh \in Metadata
      BY StatusValues DEF Fresh, Metadata, NotesStatus
    <2> QED
      BY <1>1, <2>1, <2>2 DEF Crash, Data
  <1>2. CASE Restart
    BY <1>2, StatusValues DEF Restart, HealedRow, Data, disk
  <1>3. CASE UNCHANGED vars
    BY <1>3 DEF vars, memory, disk, Data
  <1> QED
    BY <1>1, <1>2, <1>3

LEMMA NextData ==
    ASSUME Control, Data, [Next]_vars PROVE Data'
  <1>1. ASSUME NEW t \in Threads, HandlerStep(t) PROVE Data'
    BY <1>1, OpeningData, SessionData, StopData, PipelineData, OtherData
    DEF HandlerStep, Procs
  <1>2. ASSUME NEW m \in Meetings, TaskStep(m) PROVE Data'
    BY <1>2, SessionData, PipelineData, TaskEndData DEF TaskStep, Procs
  <1> QED
    BY <1>1, <1>2, OtherData, EngineData DEF Next

-----------------------------------------------------------------------------
\* The invariant holds in every reachable state.
THEOREM Invariance == Spec => []IInv
  <1>1. Init => IInv
    BY InitControl, InitData DEF IInv
  <1>2. IInv /\ [Next]_vars => IInv'
    BY NextControl, NextData DEF IInv, Data
  <1> QED
    BY <1>1, <1>2, PTL DEF Spec

\* The type invariant; in particular a meeting's status on disk is never one
\* that the recovery scan does not know (RESUMED and RECOVERY stay in memory).
THEOREM TypeCorrect == Spec => []TypeOK
  <1>1. IInv => TypeOK
    BY DEF IInv, Control, ControlTypes, Data, TypeOK
  <1> QED
    BY <1>1, Invariance, PTL

\* session_lock and the 409 checks protect the one live session: no number of
\* concurrent starts, recoveries, stops and deletes ever replaces it.
THEOREM SlotIsNeverOverwritten == Spec => SlotNeverOverwritten
  <1>1. IInv /\ [Next]_vars => [/\ \A t \in Threads : Publish(t) => slot = None
                                /\ slot # None => slot' \in {slot, None}]_vars
    BY NextKeepsSlot DEF IInv
  <1> QED
    BY <1>1, Invariance, PTL DEF Spec, SlotNeverOverwritten

-----------------------------------------------------------------------------
(* One request at a time: the stores, the devices and the recovery list.    *)

Commands == {"pause", "resume", "stop"}

\* The background task while it writes the notes, and while it ends.
Writing == {"lookup", "announce", "announced", "generate", "complete", "completed"}
Ending == {"mark", "check", "set", "status", "sync", "clear", "vacate"}

\* A handler that has changed nothing yet.
Untouched(t) ==
    \/ at[t] \in {"idle", "begin", "purge"}
    \/ op[t] \in Commands /\ at[t] \in {"take", "check", "set"}

\* A meeting nobody is at work on: the four invariants in one.
Settled(m) ==
    /\ slot = m => state[m] \in {"recording", "paused"} /\ status[m] = state[m]
    /\ OnDisk(m) => row[m] = status[m]
    /\ capture[m] <=> slot = m /\ state[m] = "recording"
    /\ status[m] \in ActiveStatuses => slot = m \/ m \in unfinished

Resting(m) ==
    up /\ at[m] = "idle" /\ (\A t \in Threads : arg[t] = m => Untouched(t)) => Settled(m)

\* The background task: its meeting is stopped, and as long as it writes notes
\* the row keeps a deletion away.
Task(m) ==
    at[m] # "idle" =>
        /\ at[m] \in Writing \cup Ending
        /\ ~capture[m] /\ m \notin unfinished
        /\ state[m] = IF at[m] \in {"status", "sync", "clear", "vacate"} THEN "completed" ELSE "generating_notes"
        /\ at[m] \in Writing =>
             /\ slot = m /\ row[m] = "generating_notes"
             /\ status[m] = IF at[m] = "completed" THEN "completed" ELSE "generating_notes"
        /\ at[m] \in Ending =>
             /\ status[m] \in {"generating_notes", "completed", "gutted", "deleted"}
             /\ OnDisk(m) /\ at[m] # "sync" => row[m] = status[m]
             /\ at[m] \in {"sync", "clear", "vacate"} => status[m] # "generating_notes"
             /\ at[m] = "sync" => held[m].status = "completed"

\* What a meeting on the recovery list, and one that was deleted, cannot be.
Listed(m) == m \in unfinished => at[m] = "idle" /\ slot # m
Deleted(m) ==
    status[m] = "deleted" /\ slot = m =>
        \E t \in Threads : arg[t] = m /\ at[t] \in {"erase", "unset", "vacate"}

\* A task that is about to clear the slot finds its own session there, unless a
\* deletion was first; the loop it occupies lets no request in.
Vacating ==
    \A m \in Meetings : at[m] = "vacate" =>
        slot = m \/ (slot = None /\ \A t \in Threads : at[t] = "idle")

\* A command that has its session, before and after the state machine's check.
Asking(t) ==
    LET m == arg[t] IN
    /\ op[t] \in Commands /\ at[t] = "check" /\ m \in Meetings
    /\ at[m] = "idle" /\ slot # m => state[m] = "completed"

Granted(t) ==
    LET m == arg[t] IN
    /\ op[t] \in Commands /\ at[t] = "set" /\ m \in Meetings
    /\ at[m] = "idle" /\ slot = m
    /\ op[t] = "pause" => state[m] = "recording"
    /\ op[t] = "resume" => state[m] = "paused"

\* A session method at work: state machine, metadata, row and devices move in
\* this order.
Session(t) ==
    LET m == arg[t]
        o == op[t]
        place == at[t]
    IN
    /\ m \in Meetings /\ at[m] = "idle" /\ OnDisk(m)
    /\ slot = m <=> o \notin Opening
    /\ \/ /\ o \in Opening \cup {"rearm"}
          /\ place \in {"capture", "check", "set", "status", "sync", "publish"}
          /\ place # "capture" <=> capture[m]
          /\ place \in {"capture", "check", "set"} =>
               state[m] = CASE o = "start" -> "preparing" [] o = "recover" -> "recovery"
                            [] OTHER -> "resumed"
          /\ o = "rearm" => place \notin {"capture", "publish"}
       \/ /\ o = "resume" /\ place = "capture"
          /\ state[m] = "resumed" /\ ~capture[m]
       \/ /\ o = "pause" /\ place \in {"release", "status", "sync"}
          /\ place # "release" => ~capture[m]
       \/ /\ o = "stop" /\ place \in {"status", "sync", "release", "finalize"}
          /\ place = "finalize" => ~capture[m]
          /\ place = "release" => status[m] = "finalizing" /\ row[m] = "finalizing"
       \/ /\ o = "tail" /\ place = "sync" /\ ~capture[m]
          /\ state[m] = "finalizing" /\ held[m].status = status[m]
       \/ /\ o = "notes" /\ place \in {"check", "set", "status", "sync", "spawn"}
          /\ ~capture[m]
          /\ place \in {"check", "set"} => state[m] = "finalizing"
    /\ place \in {"release", "status", "sync", "publish", "finalize", "spawn"} /\ o # "tail" =>
         state[m] = Aim[o]
    /\ place = "sync" /\ o # "tail" => status[m] = Aim[o] /\ held[m].status = Aim[o]
    /\ place \in {"publish", "finalize", "spawn"} => status[m] = Aim[o] /\ row[m] = Aim[o]

Deleting(t) ==
    LET m == arg[t] IN
    /\ op[t] = "delete" /\ at[t] \in {"purge", "erase", "unset", "vacate"} /\ m \in Meetings
    /\ ~capture[m] /\ at[m] \in Ending \cup {"idle"}
    /\ at[t] = "purge" /\ at[m] = "idle" => slot # m
    /\ at[t] # "purge" => status[m] = "deleted"
    /\ at[t] = "vacate" => slot \in {m, None}

Abandoning(t) ==
    LET m == arg[t] IN
    /\ op[t] = "abandon" /\ at[t] \in {"abandoned", "unlist"} /\ m \in Meetings
    /\ at[m] = "idle" /\ slot # m /\ ~capture[m] /\ status[m] = "error"
    /\ at[t] = "unlist" => row[m] = "error"

Doing(t) ==
    /\ op[t] # "retry"
    /\ \/ at[t] = "idle"
       \/ at[t] = "begin" /\ (op[t] \in {"recover", "abandon"} => arg[t] \in unfinished)
       \/ at[t] = "take" /\ op[t] \in Commands
       \/ Asking(t) \/ Granted(t) \/ Session(t) \/ Deleting(t) \/ Abandoning(t)

Down ==
    ~up => /\ slot = None
           /\ \A p \in Procs : at[p] = "idle"
           /\ \A m \in Meetings : ~capture[m]

Local(m) == Resting(m) /\ Task(m) /\ Listed(m) /\ Deleted(m)

Story ==
    /\ Down
    /\ \A m \in Meetings : Local(m)
    /\ \A t \in Threads : Doing(t)

\* One request at a time, storage writes that succeed, and no retry of notes:
\* the instances of the serial runs, with any number of meetings and crashes.
\* Each of the three is needed: TLC violates all four invariants without it.
Serial ==
    /\ \A s, t \in Threads : s = t
    /\ Faults = FALSE
    /\ "retry" \notin Requests

-----------------------------------------------------------------------------
(* Lemmas about the story.                                                  *)

LEMMA AimValues ==
    /\ Aim["start"] = "recording" /\ Aim["recover"] = "recording" /\ Aim["pause"] = "paused"
    /\ Aim["resume"] = "resumed" /\ Aim["rearm"] = "recording" /\ Aim["stop"] = "finalizing"
    /\ Aim["notes"] = "generating_notes" /\ Aim["finish"] = "completed"
  BY DEF Aim

LEMMA EnteredValues ==
    /\ Entered["start"] = "status" /\ Entered["recover"] = "status" /\ Entered["pause"] = "release"
    /\ Entered["resume"] = "capture" /\ Entered["rearm"] = "status" /\ Entered["stop"] = "status"
    /\ Entered["notes"] = "status" /\ Entered["finish"] = "status"
  BY DEF Entered

LEMMA SyncedValues ==
    /\ Synced["start"] = "publish" /\ Synced["recover"] = "publish" /\ Synced["pause"] = "return"
    /\ Synced["rearm"] = "return" /\ Synced["stop"] = "release" /\ Synced["tail"] = "notes"
    /\ Synced["notes"] = "spawn" /\ Synced["finish"] = "clear"
  BY DEF Synced

\* The transitions that the session methods ask for.
LEMMA Legal ==
    /\ \A s \in {"preparing", "recovery", "resumed"} : CanTransition(s, "recording")
    /\ CanTransition("finalizing", "generating_notes")
    /\ CanTransition("generating_notes", "completed")
    /\ \A s \in {"generating_notes", "completed"} :
         \A target \in {"paused", "resumed", "finalizing"} : ~CanTransition(s, target)
    /\ ~CanTransition("paused", "paused") /\ ~CanTransition("recording", "resumed")
  BY DEF CanTransition, AllowedTransitions

\* Nothing of meeting k has changed.
Same(k) ==
    /\ at'[k] = at[k] /\ state'[k] = state[k] /\ status'[k] = status[k] /\ row'[k] = row[k]
    /\ capture'[k] = capture[k] /\ held'[k] = held[k]
    /\ (slot' = k <=> slot = k) /\ (k \in unfinished' <=> k \in unfinished)

\* A step of the only handler is about its meeting.
LEMMA HandlerStory ==
    ASSUME Serial, Story, NEW t \in Threads, NEW m, up, up',
           arg[t] = m \/ Untouched(t), arg'[t] \in {m, None},
           \A k \in Meetings \ {m} : Same(k),
           m \in Meetings => Local(m)',
           Doing(t)'
    PROVE  Story'
  <1>1. \A u \in Threads : u = t
    BY DEF Serial
  <1>2. ASSUME NEW k \in Meetings, k # m PROVE Local(k)'
    <2>1. Same(k) /\ Local(k) /\ k # None
      BY <1>2, LifecycleAssumption DEF Story
    <2>2. Resting(k)'
      BY <1>1, <1>2, <2>1 DEF Same, Local, Resting, Settled, Untouched, OnDisk
    <2>3. Task(k)' /\ Listed(k)'
      BY <2>1 DEF Same, Local, Task, Listed, OnDisk
    <2>4. Deleted(k)'
      BY <1>1, <1>2, <2>1 DEF Same, Local, Deleted, Untouched
    <2> QED
      BY <2>2, <2>3, <2>4 DEF Local
  <1>3. \A u \in Threads : Doing(u)'
    BY <1>1
  <1> QED
    BY <1>2, <1>3 DEF Story, Down

LEMMA SessionIsTouched == ASSUME NEW t, Session(t) PROVE ~Untouched(t)
  BY DEF Session, Untouched, Opening, Commands

\* A step that leaves a session method at work.
LEMMA SessionStory ==
    ASSUME Serial, Story, NEW t \in Threads, NEW m \in Meetings, up, up',
           arg[t] = m \/ Untouched(t), arg'[t] = m,
           \A k \in Meetings \ {m} : Same(k),
           UNCHANGED slot, m \in unfinished' <=> m \in unfinished,
           Session(t)', op'[t] # "retry"
    PROVE  Story'
  <1>1. ~Untouched(t)'
    BY SessionIsTouched DEF Session, Untouched, Opening, Commands
  <1>2. at'[m] = "idle" /\ OnDisk(m)'
    BY DEF Session
  <1>3. Resting(m)' /\ Task(m)' /\ Listed(m)' /\ Deleted(m)'
    BY <1>1, <1>2 DEF Story, Local, Resting, Task, Listed, Deleted, OnDisk, Persisted,
                      ActiveStatuses, TerminalStatuses
  <1>4. Doing(t)'
    BY DEF Doing
  <1> QED
    BY <1>3, <1>4, HandlerStory DEF Local

\* What the place of a handler tells about it.
LEMMA Whereabouts ==
    ASSUME Story, NEW t \in Threads
    PROVE  /\ op[t] # "retry"
           /\ at[t] = "check" => Asking(t) \/ Session(t)
           /\ at[t] = "set" => Granted(t) \/ Session(t)
           /\ at[t] \in {"capture", "status", "sync", "release", "finalize", "publish", "spawn"} => Session(t)
           /\ at[t] \in {"purge", "erase", "unset", "vacate"} => Deleting(t)
           /\ at[t] = "take" => op[t] \in Commands
           /\ at[t] \in {"abandoned", "unlist"} => Abandoning(t)
           /\ at[t] \notin Writing \cup {"mark", "clear"}
           /\ at[t] = "begin" /\ op[t] \in {"recover", "abandon"} => arg[t] \in unfinished
           /\ at[t] # "idle" => up
  <1>1. Doing(t)
    BY DEF Story
  <1>2. at[t] # "idle" => up
    BY DEF Story, Down, Procs
  <1> QED
    BY <1>1, <1>2 DEF Doing, Asking, Granted, Session, Deleting, Abandoning, Writing, Opening

\* A meeting that no handler has touched and no task is at work on.
LEMMA RestIsSettled ==
    ASSUME Serial, Story, up, NEW m \in Meetings, at[m] = "idle", NEW t \in Threads,
           arg[t] = m => Untouched(t)
    PROVE  Settled(m)
  BY DEF Serial, Story, Local, Resting

\* A step of a handler on its meeting touches no other.
LEMMA Apart ==
    ASSUME IInv, NEW t \in Threads, NEW p, NEW m
    PROVE  /\ at' = [at EXCEPT ![t] = p] => \A k \in Meetings : at'[k] = at[k]
           /\ \A v :
                /\ state' = [state EXCEPT ![m] = v] => \A k \in Meetings \ {m} : state'[k] = state[k]
                /\ status' = [status EXCEPT ![m] = v] => \A k \in Meetings \ {m} : status'[k] = status[k]
                /\ row' = [row EXCEPT ![m] = v] => \A k \in Meetings \ {m} : row'[k] = row[k]
                /\ capture' = [capture EXCEPT ![m] = v] => \A k \in Meetings \ {m} : capture'[k] = capture[k]
                /\ held' = [held EXCEPT ![m] = v] => \A k \in Meetings \ {m} : held'[k] = held[k]
  BY LifecycleAssumption DEF IInv, Control, ControlTypes, Data, Procs

\* The handler of an untouched meeting answers.
LEMMA AnswerStory ==
    ASSUME Serial, Story, IInv, NEW t \in Threads, up, up',
           Return(t), Untouched(t),
           UNCHANGED <<slot, state, held, capture, unfinished, status, row>>
    PROVE  Story'
  <1>1. at' = [at EXCEPT ![t] = "idle"] /\ op' = [op EXCEPT ![t] = "none"] /\ arg' = [arg EXCEPT ![t] = None]
    BY DEF Return
  <1>2. at'[t] = "idle" /\ op'[t] = "none" /\ arg'[t] = None /\ \A k \in Meetings : at'[k] = at[k]
    BY <1>1, Apart DEF IInv, Control, ControlTypes, Procs
  <1>3. \A k \in Meetings : Same(k)
    BY <1>2 DEF Same
  <1>4. Doing(t)'
    BY <1>2 DEF Doing
  <1>5. None \notin Meetings
    BY LifecycleAssumption
  <1> QED
    BY <1>2, <1>3, <1>4, <1>5, HandlerStory

\* The handler answers or goes on without having touched a meeting's data.
LEMMA QuietStory ==
    ASSUME Serial, Story, NEW t \in Threads, NEW m \in Meetings, up, up',
           arg[t] = m, Untouched(t), Same(m), arg'[t] \in {m, None}
    PROVE  Local(m)'
  <1>1. Local(m) /\ \A u \in Threads : u = t
    BY DEF Story, Serial
  <1>2. Resting(m)'
    BY <1>1 DEF Same, Local, Resting, Settled, OnDisk
  <1>3. Task(m)' /\ Listed(m)'
    BY <1>1 DEF Same, Local, Task, Listed, OnDisk
  <1>4. Deleted(m)'
    BY <1>1 DEF Same, Local, Deleted, Untouched
  <1> QED
    BY <1>2, <1>3, <1>4 DEF Local

-----------------------------------------------------------------------------
(* The story of a handler, step by step.                                    *)

LEMMA DispatchStory ==
    ASSUME Serial, Story, IInv, NEW t \in Threads, Dispatch(t)
    PROVE  Story'
  <1>1. PICK request \in Requests, m \in Meetings \cup {None} :
          /\ request \in {"recover", "abandon"} => m \in unfinished
          /\ op' = [op EXCEPT ![t] = request] /\ arg' = [arg EXCEPT ![t] = m]
    BY DEF Dispatch, Offered, OffersRecovery, OffersCommand, OffersStart, OffersRetry, OffersDelete
  <1>2. /\ up /\ up' /\ at[t] = "idle" /\ at' = [at EXCEPT ![t] = "begin"]
        /\ UNCHANGED <<slot, state, held, capture, unfinished, status, row>>
    BY DEF Dispatch, Goto, disk
  <1>3. at'[t] = "begin" /\ op'[t] = request /\ arg'[t] = m /\ \A k \in Meetings : at'[k] = at[k]
    BY <1>1, <1>2, Apart DEF IInv, Control, ControlTypes, Procs
  <1>4. Doing(t)' /\ Untouched(t) /\ Untouched(t)'
    BY <1>1, <1>2, <1>3 DEF Doing, Serial, Untouched
  <1>5. \A k \in Meetings : Same(k)
    BY <1>2, <1>3 DEF Same
  <1>6. ASSUME m \in Meetings PROVE Local(m)'
    <2>1. Local(m) /\ Same(m)
      BY <1>5, <1>6 DEF Story
    <2>2. Resting(m)'
      BY <1>2, <1>4, <2>1 DEF Same, Local, Resting, Settled, OnDisk, Serial
    <2>3. Task(m)' /\ Listed(m)'
      BY <2>1 DEF Same, Local, Task, Listed, OnDisk
    <2>4. Deleted(m)'
      BY <1>2, <2>1 DEF Same, Local, Deleted, Serial
    <2> QED
      BY <2>2, <2>3, <2>4 DEF Local
  <1> QED
    BY <1>2, <1>3, <1>4, <1>5, <1>6, HandlerStory

LEMMA RefuseStory ==
    ASSUME Serial, Story, IInv, NEW t \in Threads, Refuse(t)
    PROVE  Story'
  <1>1. at[t] = "begin" /\ up /\ up' /\ Untouched(t)
    BY Whereabouts DEF Refuse, Untouched
  <1> QED
    BY <1>1, AnswerStory DEF Refuse, disk

LEMMA OpenStory ==
    ASSUME Serial, Story, IInv, NEW t \in Threads, CreateMeeting(t) \/ ReattachMeeting(t)
    PROVE  Story'
  <1> USE LifecycleAssumption
  <1>1. /\ at[t] = "begin" /\ up /\ up' /\ Untouched(t) /\ slot = None /\ slot' = None
        /\ op' = op /\ at' = [at EXCEPT ![t] = "capture"]
        /\ UNCHANGED <<capture, unfinished, row>>
    BY Whereabouts DEF CreateMeeting, ReattachMeeting, Untouched, SlotFree, Goto
  <1>2. at'[t] = "capture" /\ \A k \in Meetings : at'[k] = at[k]
    BY <1>1, Apart DEF IInv, Control, ControlTypes, Procs
  <1>3. CASE CreateMeeting(t)
    <2>1. PICK m \in Meetings :
            /\ status[m] = "absent" /\ arg' = [arg EXCEPT ![t] = m]
            /\ status' = [status EXCEPT ![m] = Fresh.status]
            /\ state' = [state EXCEPT ![m] = "preparing"]
            /\ held' = [held EXCEPT ![m] = Fresh]
      BY <1>3 DEF CreateMeeting
    <2>2. /\ op[t] = "start" /\ arg'[t] = m
          /\ status'[m] = "preparing" /\ state'[m] = "preparing"
      BY <1>3, <2>1 DEF CreateMeeting, Fresh, IInv, Control, ControlTypes, Data
    <2>3. at[m] = "idle" /\ Settled(m)
      <3>1. at[m] = "idle"
        BY <2>1 DEF Story, Local, Task, OnDisk, Writing
      <3> QED
        BY <1>1, <3>1, RestIsSettled
    <2>4. ~capture[m]
      BY <1>1, <2>3 DEF Settled
    <2>5. OnDisk(m)'
      BY <2>2 DEF OnDisk, Persisted, ActiveStatuses
    <2>6. Session(t)'
      BY <1>1, <1>2, <2>2, <2>3, <2>4, <2>5 DEF Session, Opening
    <2>7. \A k \in Meetings \ {m} : Same(k)
      BY <1>1, <1>2, <2>1, Apart DEF Same
    <2> QED
      BY <1>1, <2>2, <2>6, <2>7, SessionStory
  <1>4. CASE ReattachMeeting(t)
    <2>1. PICK m \in Meetings : m = arg[t]
      BY <1>1, <1>4, Whereabouts DEF ReattachMeeting, IInv, Data
    <2>2. /\ op[t] = "recover" /\ OnDisk(m) /\ m \in unfinished /\ arg'[t] = m
          /\ state' = [state EXCEPT ![m] = "recovery"] /\ held' = [held EXCEPT ![m] = Reloaded(m)]
          /\ status' = status
      BY <1>1, <1>4, <2>1, Whereabouts DEF ReattachMeeting, disk
    <2>3. at[m] = "idle" /\ Settled(m)
      BY <1>1, <2>2, RestIsSettled DEF Story, Local, Listed
    <2>4. ~capture[m] /\ slot # m
      BY <1>1, <2>3 DEF Settled
    <2>5. OnDisk(m)' /\ state'[m] = "recovery"
      BY <2>2 DEF OnDisk, IInv, Data
    <2>6. Session(t)'
      BY <1>1, <1>2, <2>2, <2>3, <2>4, <2>5 DEF Session, Opening
    <2>7. \A k \in Meetings \ {m} : Same(k)
      BY <1>1, <1>2, <2>2, Apart DEF Same
    <2> QED
      BY <1>1, <2>1, <2>2, <2>6, <2>7, SessionStory
  <1> QED
    BY <1>3, <1>4

LEMMA StartCaptureStory ==
    ASSUME Serial, Story, IInv, NEW t \in Threads, StartCapture(t)
    PROVE  Story'
  <1> DEFINE o == IF op[t] = "resume" THEN "rearm" ELSE op[t]
  <1>1. /\ at[t] = "capture" /\ up /\ Session(t) /\ op[t] \in Opening \cup {"resume"}
    BY Whereabouts DEF StartCapture, Session
  <1> PICK m \in Meetings : m = arg[t]
    BY <1>1 DEF Session
  <1>2. /\ op' = [op EXCEPT ![t] = o] /\ at' = [at EXCEPT ![t] = "check"]
        /\ capture' = [capture EXCEPT ![m] = TRUE]
        /\ UNCHANGED <<up, slot, state, held, unfinished, status, row, arg>>
    BY DEF StartCapture, Goto, disk
  <1>3. at'[t] = "check" /\ op'[t] = o /\ capture'[m] /\ \A k \in Meetings : at'[k] = at[k]
    BY <1>1, <1>2, Apart DEF IInv, Control, ControlTypes, Data, Procs
  <1>4. \A k \in Meetings \ {m} : Same(k)
    <2>1. \A k \in Meetings \ {m} : capture'[k] = capture[k]
      BY <1>2 DEF IInv, Data
    <2> QED
      BY <1>2, <1>3, <2>1 DEF Same
  <1>5. Session(t)'
    <2>1. /\ at[m] = "idle" /\ OnDisk(m) /\ (slot = m <=> op[t] \notin Opening)
          /\ op[t] = "start" => state[m] = "preparing"
          /\ op[t] = "recover" => state[m] = "recovery"
          /\ op[t] = "resume" => state[m] = "resumed"
      BY <1>1 DEF Session, Opening
    <2>2. /\ arg'[t] = m /\ at'[m] = "idle" /\ OnDisk(m)' /\ slot' = slot /\ state'[m] = state[m]
      BY <1>2, <1>3, <2>1 DEF OnDisk
    <2>3. CASE op[t] = "resume"
      <3>1. op'[t] = "rearm"
        BY <1>3, <2>3
      <3> QED
        BY <1>3, <2>1, <2>2, <2>3, <3>1 DEF Session, Opening
    <2>4. CASE op[t] \in Opening
      <3>1. op'[t] = op[t]
        BY <1>3, <2>4 DEF Opening
      <3> QED
        BY <1>3, <2>1, <2>2, <2>4, <3>1 DEF Session, Opening
    <2> QED
      BY <1>1, <2>3, <2>4
  <1>6. op'[t] # "retry"
    BY <1>1, <1>3 DEF Opening
  <1> QED
    BY <1>1, <1>2, <1>4, <1>5, <1>6, SessionStory

\* The session is published: the meeting leaves the recovery list.
LEMMA PublishStory ==
    ASSUME Serial, Story, IInv, NEW t \in Threads, Publish(t)
    PROVE  Story'
  <1>1. at[t] = "publish" /\ up /\ Session(t)
    BY Whereabouts DEF Publish
  <1> PICK m \in Meetings : m = arg[t]
    BY <1>1 DEF Session
  <1>2. /\ op' = [op EXCEPT ![t] = "none"] /\ at' = [at EXCEPT ![t] = "idle"]
        /\ arg' = [arg EXCEPT ![t] = None] /\ slot' = m /\ unfinished' = unfinished \ {m}
        /\ UNCHANGED <<up, state, held, capture, status, row>>
    BY DEF Publish, Return, disk
  <1>3. /\ at'[t] = "idle" /\ op'[t] = "none" /\ arg'[t] = None
        /\ \A k \in Meetings : at'[k] = at[k]
    BY <1>2, Apart DEF IInv, Control, ControlTypes, Procs
  <1>4. slot = None
    BY <1>1 DEF Publish, IInv, Control, Routing, Routed, OpeningHoldsLock, Procs
  <1>5. /\ at[m] = "idle" /\ OnDisk(m) /\ capture[m]
        /\ state[m] = "recording" /\ status[m] = "recording" /\ row[m] = "recording"
    BY <1>1, AimValues DEF Session, Opening
  <1>6. \A k \in Meetings \ {m} : Same(k)
    BY <1>2, <1>3, <1>4, LifecycleAssumption DEF Same
  <1>7. Settled(m)'
    BY <1>2, <1>5 DEF Settled, OnDisk
  <1>8. Local(m)'
    BY <1>2, <1>3, <1>5, <1>7 DEF Local, Resting, Task, Listed, Deleted
  <1>9. Doing(t)'
    BY <1>3 DEF Doing
  <1> QED
    BY <1>1, <1>2, <1>3, <1>6, <1>8, <1>9, HandlerStory

LEMMA RequireSessionStory ==
    ASSUME Serial, Story, IInv, NEW t \in Threads, RequireSession(t)
    PROVE  Story'
  <1>1. /\ at[t] = "begin" /\ op[t] \in Commands /\ up /\ up' /\ Untouched(t)
        /\ UNCHANGED <<slot, state, held, capture, unfinished, status, row>>
    BY Whereabouts DEF RequireSession, Untouched, disk, Commands
  <1>2. CASE slot = None
    BY <1>1, <1>2, AnswerStory DEF RequireSession
  <1>3. CASE slot # None
    <2>1. op' = op /\ at' = [at EXCEPT ![t] = "take"] /\ arg' = arg
      BY <1>3 DEF RequireSession, Goto
    <2>2. at'[t] = "take" /\ \A k \in Meetings : at'[k] = at[k]
      BY <2>1, Apart DEF IInv, Control, ControlTypes, Procs
    <2>3. Doing(t)' /\ Untouched(t)'
      BY <1>1, <2>1, <2>2 DEF Doing, Untouched, Commands
    <2>4. \A k \in Meetings : Same(k)
      BY <1>1, <2>2 DEF Same
    <2>5. arg[t] \in Meetings => Local(arg[t])'
      BY <1>1, <2>1, <2>4, QuietStory
    <2> QED
      BY <1>1, <2>1, <2>3, <2>4, <2>5, HandlerStory
  <1> QED
    BY <1>2, <1>3

LEMMA TakeSessionStory ==
    ASSUME Serial, Story, IInv, NEW t \in Threads, TakeSession(t)
    PROVE  Story'
  <1>1. /\ at[t] = "take" /\ op[t] \in Commands /\ up /\ up' /\ Untouched(t)
        /\ UNCHANGED <<slot, state, held, capture, unfinished, status, row>>
    BY Whereabouts DEF TakeSession, Untouched, disk, Commands
  <1>2. CASE slot = None
    BY <1>1, <1>2, AnswerStory DEF TakeSession
  <1>3. CASE slot # None
    <2>1. PICK m \in Meetings : m = slot
      BY <1>3 DEF IInv, Control, ControlTypes
    <2>2. /\ op' = op /\ at' = [at EXCEPT ![t] = "check"] /\ arg' = [arg EXCEPT ![t] = m]
      BY <1>3, <2>1 DEF TakeSession, Goto
    <2>3. at'[t] = "check" /\ arg'[t] = m /\ \A k \in Meetings : at'[k] = at[k]
      BY <2>2, Apart DEF IInv, Control, ControlTypes, Procs
    <2>4. Doing(t)' /\ Untouched(t)'
      BY <1>1, <2>1, <2>2, <2>3 DEF Doing, Asking, Untouched, Commands
    <2>5. \A k \in Meetings : Same(k)
      BY <1>1, <2>3 DEF Same
    <2>6. Local(m)'
      <3>1. Local(m) /\ Same(m)
        BY <2>5 DEF Story
      <3>2. Resting(m)'
        BY <1>1, <2>4, <3>1 DEF Same, Local, Resting, Settled, OnDisk, Serial
      <3>3. Task(m)' /\ Listed(m)'
        BY <3>1 DEF Same, Local, Task, Listed, OnDisk
      <3>4. Deleted(m)'
        BY <1>1, <3>1 DEF Same, Local, Deleted, Serial
      <3> QED
        BY <3>2, <3>3, <3>4 DEF Local
    <2> QED
      BY <1>1, <2>3, <2>4, <2>5, <2>6, HandlerStory
  <1> QED
    BY <1>2, <1>3

LEMMA CheckTransitionStory ==
    ASSUME Serial, Story, IInv, NEW t \in Threads, CheckTransition(t)
    PROVE  Story'
  <1>1. /\ at[t] = "check" /\ up /\ up' /\ Target(t) = arg[t]
        /\ UNCHANGED <<slot, state, held, capture, unfinished, status, row>>
    BY Whereabouts, LifecycleAssumption DEF CheckTransition, Target, disk
  <1>2. Asking(t) \/ Session(t)
    BY <1>1, Whereabouts
  <1> PICK m \in Meetings : m = arg[t]
    BY <1>2 DEF Asking, Session
  <1>3. /\ CanTransition(state[m], Aim[op[t]]) =>
             op' = op /\ arg' = arg /\ at' = [at EXCEPT ![t] = "set"]
        /\ ~CanTransition(state[m], Aim[op[t]]) => Return(t)
    BY <1>1 DEF CheckTransition, Goto
  <1>4. ASSUME CanTransition(state[m], Aim[op[t]])
        PROVE  /\ op' = op /\ arg' = arg /\ at'[t] = "set"
               /\ \A k \in Meetings : at'[k] = at[k] /\ Same(k)
    BY <1>1, <1>3, <1>4, Apart DEF IInv, Control, ControlTypes, Procs, Same
  <1>5. ASSUME Asking(t), CanTransition(state[m], Aim[op[t]]) PROVE Story'
    <2>1. Untouched(t) /\ op[t] \in Commands
      BY <1>5 DEF Asking, Untouched
    <2>2. Aim[op[t]] \in {"paused", "resumed", "finalizing"}
      BY <2>1, AimValues DEF Commands
    <2>3. at[m] = "idle"
      BY <1>5, <2>2, Legal DEF Story, Local, Task
    <2>4. slot = m
      BY <1>5, <2>2, <2>3, Legal DEF Asking
    <2>5. Settled(m)
      BY <1>1, <2>1, <2>3, RestIsSettled
    <2>6. /\ op[t] = "pause" => state[m] = "recording"
          /\ op[t] = "resume" => state[m] = "paused"
      BY <1>5, <2>4, <2>5, AimValues, Legal DEF Settled
    <2>7. Doing(t)' /\ Untouched(t)'
      BY <1>1, <1>4, <1>5, <2>1, <2>3, <2>4, <2>6 DEF Doing, Granted, Untouched, Commands
    <2>8. Local(m)'
      <3>1. Local(m) /\ Same(m) /\ UNCHANGED arg
        BY <1>4, <1>5 DEF Story
      <3>2. Resting(m)'
        BY <1>1, <2>5, <3>1 DEF Same, Resting, Settled, OnDisk
      <3>3. Task(m)' /\ Listed(m)'
        BY <3>1 DEF Same, Local, Task, Listed, OnDisk
      <3>4. Deleted(m)'
        BY <1>1, <3>1 DEF Same, Local, Deleted, Serial
      <3> QED
        BY <3>2, <3>3, <3>4 DEF Local
    <2> QED
      BY <1>1, <1>4, <1>5, <2>7, <2>8, HandlerStory
  <1>6. ASSUME Asking(t), ~CanTransition(state[m], Aim[op[t]]) PROVE Story'
    <2>1. Untouched(t)
      BY <1>6 DEF Asking, Untouched
    <2> QED
      BY <1>1, <1>3, <1>6, <2>1, AnswerStory
  <1>7. ASSUME Session(t) PROVE Story'
    <2>1. CanTransition(state[m], Aim[op[t]])
      BY <1>1, <1>7, AimValues, Legal DEF Session, Opening
    <2>2. Session(t)'
      BY <1>1, <1>4, <1>7, <2>1 DEF Session, OnDisk
    <2>3. op'[t] # "retry"
      BY <1>4, <2>1, Whereabouts
    <2> QED
      BY <1>1, <1>4, <2>1, <2>2, <2>3, SessionStory
  <1> QED
    BY <1>2, <1>5, <1>6, <1>7

LEMMA SetStateStory ==
    ASSUME Serial, Story, IInv, NEW t \in Threads, SetState(t)
    PROVE  Story'
  <1>1. /\ at[t] = "set" /\ up /\ up' /\ Target(t) = arg[t] /\ op' = op /\ arg' = arg
        /\ UNCHANGED <<slot, held, capture, unfinished, status, row>>
    BY Whereabouts, LifecycleAssumption DEF SetState, Target, disk
  <1>2. Granted(t) \/ Session(t)
    BY <1>1, Whereabouts
  <1> PICK m \in Meetings : m = arg[t]
    BY <1>2 DEF Granted, Session
  <1>3. at' = [at EXCEPT ![t] = Entered[op[t]]] /\ state' = [state EXCEPT ![m] = Aim[op[t]]]
    BY <1>1 DEF SetState, Goto
  <1>4. /\ at'[t] = Entered[op[t]] /\ state'[m] = Aim[op[t]]
        /\ \A k \in Meetings : at'[k] = at[k]
    BY <1>3, Apart DEF IInv, Control, ControlTypes, Data, Procs
  <1>5. \A k \in Meetings \ {m} : Same(k)
    BY <1>1, <1>3, <1>4, Apart DEF Same
  <1>6. ASSUME Granted(t) PROVE Session(t)'
    <2>1. /\ op[t] \in Commands /\ at[m] = "idle" /\ slot = m /\ Untouched(t)
          /\ op[t] = "resume" => state[m] = "paused"
      BY <1>6 DEF Granted, Untouched
    <2>2. Settled(m)
      BY <1>1, <2>1, RestIsSettled
    <2>3. status[m] \in {"recording", "paused"} /\ (op[t] = "resume" => ~capture[m])
      BY <2>1, <2>2 DEF Settled
    <2>4. OnDisk(m)'
      BY <1>1, <2>3 DEF OnDisk, Persisted, ActiveStatuses
    <2> QED
      BY <1>1, <1>4, <2>1, <2>3, <2>4, EnteredValues, AimValues DEF Session, Commands, Opening
  <1>7. ASSUME Session(t) PROVE Session(t)'
    <2>1. op[t] \in Opening \cup {"rearm", "notes"}
      BY <1>1, <1>7 DEF Session
    <2>2. OnDisk(m)'
      BY <1>1, <1>7 DEF Session, OnDisk
    <2> QED
      BY <1>1, <1>4, <1>7, <2>1, <2>2, EnteredValues, AimValues DEF Session, Opening
  <1>8. op'[t] # "retry"
    BY <1>1, Whereabouts
  <1> QED
    BY <1>1, <1>2, <1>5, <1>6, <1>7, <1>8, SessionStory

LEMMA SetStatusStory ==
    ASSUME Serial, Story, IInv, NEW t \in Threads, SetStatus(t)
    PROVE  Story'
  <1>1. /\ at[t] = "status" /\ up /\ up' /\ Session(t) /\ Target(t) = arg[t]
        /\ UNCHANGED <<slot, state, capture, unfinished, row>>
    BY Whereabouts, LifecycleAssumption DEF SetStatus, Target
  <1> PICK m \in Meetings : m = arg[t]
    BY <1>1 DEF Session
  <1>2. OnDisk(m) /\ at[m] = "idle" /\ op[t] \in Transitions /\ Aim[op[t]] \in Persisted
    BY <1>1, Tables DEF Session, Opening, Transitions, Persisting
  <1> DEFINE new == [Reloaded(m) EXCEPT !.status = Aim[op[t]]]
  <1>3. /\ Write(m, new) /\ at' = [at EXCEPT ![t] = "sync"]
        /\ op' = op /\ arg' = arg
    BY <1>1, <1>2 DEF SetStatus, Goto, Serial, Writable
  <1>4. new.status = Aim[op[t]]
    BY ReloadedType DEF IInv, Metadata
  <1> HIDE DEF new
  <1>5. /\ status' = [status EXCEPT ![m] = Aim[op[t]]] /\ held' = [held EXCEPT ![m] = new]
        /\ at'[t] = "sync" /\ \A k \in Meetings : at'[k] = at[k]
    BY <1>3, <1>4, Apart DEF Write, IInv, Control, ControlTypes, Procs
  <1>6. status'[m] = Aim[op[t]] /\ held'[m].status = Aim[op[t]] /\ OnDisk(m)'
    BY <1>2, <1>4, <1>5 DEF IInv, Data, OnDisk
  <1>7. \A k \in Meetings \ {m} : Same(k)
    BY <1>1, <1>5, Apart DEF Same
  <1>8. Session(t)' /\ op'[t] # "retry"
    BY <1>1, <1>2, <1>3, <1>5, <1>6 DEF Session, Opening, Transitions
  <1> QED
    BY <1>1, <1>3, <1>7, <1>8, SessionStory

LEMMA SyncDbStory ==
    ASSUME Serial, Story, IInv, NEW t \in Threads, SyncDb(t)
    PROVE  Story'
  <1>1. /\ at[t] = "sync" /\ up /\ up' /\ Session(t) /\ Target(t) = arg[t]
        /\ UNCHANGED <<slot, state, held, capture, unfinished, status>>
    BY Whereabouts, LifecycleAssumption DEF SyncDb, Target, disk
  <1> PICK m \in Meetings : m = arg[t]
    BY <1>1 DEF Session
  <1>2. /\ OnDisk(m) /\ at[m] = "idle" /\ held[m].status = status[m]
        /\ op[t] \in Opening \cup {"rearm", "pause", "stop", "tail", "notes"}
    BY <1>1 DEF Session, Opening
  <1>3. row' = [row EXCEPT ![m] = status[m]]
    BY <1>1, <1>2 DEF SyncDb, Serial
  <1>4. row'[m] = status[m] /\ \A k \in Meetings \ {m} : row'[k] = row[k]
    BY <1>3 DEF IInv, Data
  <1>5. CASE op[t] \in {"rearm", "pause"}
    <2>1. Return(t)
      BY <1>1, <1>5, SyncedValues DEF SyncDb
    <2>2. /\ at'[t] = "idle" /\ op'[t] = "none" /\ arg'[t] = None
          /\ \A k \in Meetings : at'[k] = at[k]
      BY <2>1, Apart DEF Return, IInv, Control, ControlTypes, Procs
    <2>3. \A k \in Meetings \ {m} : Same(k)
      BY <1>1, <1>4, <2>2 DEF Same
    <2>4. /\ slot = m /\ state[m] = status[m]
          /\ state[m] \in {"recording", "paused"}
          /\ capture[m] <=> state[m] = "recording"
      BY <1>1, <1>5, AimValues DEF Session, Opening
    <2>5. Settled(m)'
      BY <1>1, <1>4, <2>4 DEF Settled
    <2>6. Local(m)'
      <3>1. at'[m] = "idle" /\ m \notin unfinished'
        BY <1>1, <1>2, <2>2, <2>4 DEF Story, Local, Listed
      <3>2. status'[m] # "deleted"
        BY <1>1, <2>4
      <3> QED
        BY <2>5, <3>1, <3>2 DEF Local, Resting, Task, Listed, Deleted
    <2>7. Doing(t)'
      BY <2>2 DEF Doing
    <2> QED
      BY <1>1, <2>2, <2>3, <2>6, <2>7, HandlerStory
  <1>6. CASE op[t] \notin {"rearm", "pause"}
    <2> DEFINE o == IF op[t] = "tail" THEN "notes" ELSE op[t]
               place == IF op[t] = "tail" THEN "check" ELSE Synced[op[t]]
    <2>1. /\ op' = [op EXCEPT ![t] = o] /\ at' = [at EXCEPT ![t] = place] /\ arg' = arg
      BY <1>1, <1>2, <1>6, SyncedValues DEF SyncDb, Serial, Opening
    <2> HIDE DEF o, place
    <2>2. op'[t] = o /\ at'[t] = place /\ \A k \in Meetings : at'[k] = at[k]
      BY <2>1, Apart DEF IInv, Control, ControlTypes, Procs
    <2>3. \A k \in Meetings \ {m} : Same(k)
      BY <1>1, <1>4, <2>2 DEF Same
    <2>4. OnDisk(m)'
      BY <1>1, <1>2 DEF OnDisk
    <2>5. CASE op[t] = "tail"
      <3>1. o = "notes" /\ place = "check"
        BY <2>5 DEF o, place
      <3>2. Session(t)' /\ op'[t] # "retry"
        BY <1>1, <1>2, <2>1, <2>2, <2>4, <2>5, <3>1 DEF Session, Opening
      <3> QED
        BY <1>1, <2>1, <2>3, <3>2, SessionStory
    <2>6. CASE op[t] # "tail"
      <3>1. o = op[t] /\ place = Synced[op[t]]
        BY <2>6 DEF o, place
      <3>2. state[m] = Aim[op[t]] /\ status[m] = Aim[op[t]]
        BY <1>1, <2>6 DEF Session
      <3>3. Session(t)' /\ op'[t] # "retry"
        BY <1>1, <1>2, <1>4, <1>6, <2>1, <2>2, <2>4, <2>6, <3>1, <3>2, SyncedValues, AimValues
        DEF Session, Opening
      <3> QED
        BY <1>1, <2>1, <2>3, <3>3, SessionStory
    <2> QED
      BY <2>5, <2>6
  <1> QED
    BY <1>5, <1>6

LEMMA ReleaseDevicesStory ==
    ASSUME Serial, Story, IInv, NEW t \in Threads, ReleaseDevices(t)
    PROVE  Story'
  <1>1. /\ at[t] = "release" /\ up /\ up' /\ Session(t) /\ op' = op /\ arg' = arg
        /\ UNCHANGED <<slot, state, held, unfinished, status, row>>
    BY Whereabouts DEF ReleaseDevices, disk
  <1> PICK m \in Meetings : m = arg[t]
    BY <1>1 DEF Session
  <1>2. /\ OnDisk(m) /\ at[m] = "idle" /\ op[t] \in {"pause", "stop"} /\ slot = m
        /\ state[m] = Aim[op[t]]
        /\ op[t] = "stop" => status[m] = Aim[op[t]] /\ row[m] = Aim[op[t]]
    BY <1>1, AimValues DEF Session, Opening
  <1>3. /\ capture' = [capture EXCEPT ![m] = FALSE]
        /\ at' = [at EXCEPT ![t] = IF op[t] = "pause" THEN "status" ELSE "finalize"]
    BY DEF ReleaseDevices, Goto
  <1>4. /\ ~capture'[m] /\ \A k \in Meetings : at'[k] = at[k]
        /\ at'[t] = IF op[t] = "pause" THEN "status" ELSE "finalize"
    BY <1>3, Apart DEF IInv, Control, ControlTypes, Data, Procs
  <1>5. \A k \in Meetings \ {m} : Same(k)
    <2>1. \A k \in Meetings \ {m} : capture'[k] = capture[k]
      BY <1>3 DEF IInv, Data
    <2> QED
      BY <1>1, <1>4, <2>1 DEF Same
  <1>6. Session(t)' /\ op'[t] # "retry"
    <2>1. OnDisk(m)'
      BY <1>1, <1>2 DEF OnDisk
    <2> QED
      BY <1>1, <1>2, <1>4, <2>1 DEF Session, Opening
  <1> QED
    BY <1>1, <1>5, <1>6, SessionStory

LEMMA FinalizeStory ==
    ASSUME Serial, Story, IInv, NEW t \in Threads, Finalize(t)
    PROVE  Story'
  <1>1. /\ at[t] = "finalize" /\ up /\ up' /\ Session(t)
        /\ UNCHANGED <<slot, state, capture, unfinished, row>>
    BY Whereabouts DEF Finalize
  <1> PICK m \in Meetings : m = arg[t]
    BY <1>1 DEF Session
  <1>2. /\ OnDisk(m) /\ at[m] = "idle" /\ op[t] = "stop" /\ slot = m /\ ~capture[m]
        /\ state[m] = "finalizing"
    BY <1>1, AimValues DEF Session, Opening
  <1>3. /\ Write(m, Reloaded(m)) /\ at' = [at EXCEPT ![t] = "sync"]
        /\ op' = [op EXCEPT ![t] = "tail"] /\ arg' = arg
    BY <1>1, <1>2 DEF Finalize, Goto, Serial, Writable
  <1>4. /\ at'[t] = "sync" /\ op'[t] = "tail" /\ \A k \in Meetings : at'[k] = at[k]
    BY <1>3, Apart DEF IInv, Control, ControlTypes, Procs
  <1>5. Reloaded(m).status = status[m]
    BY <1>2 DEF Reloaded
  <1>6. /\ status' = [status EXCEPT ![m] = status[m]] /\ held' = [held EXCEPT ![m] = Reloaded(m)]
    BY <1>3, <1>5 DEF Write
  <1>7. status'[m] = status[m] /\ held'[m].status = status[m] /\ OnDisk(m)'
    BY <1>2, <1>5, <1>6 DEF IInv, Data, OnDisk
  <1>8. \A k \in Meetings \ {m} : Same(k)
    BY <1>1, <1>4, <1>6, Apart DEF Same
  <1>9. Session(t)' /\ op'[t] # "retry"
    BY <1>1, <1>2, <1>3, <1>4, <1>7 DEF Session, Opening
  <1> QED
    BY <1>1, <1>3, <1>8, <1>9, SessionStory

\* stop_meeting() answers and the background task takes over.
LEMMA SpawnNotesTaskStory ==
    ASSUME Serial, Story, IInv, NEW t \in Threads, SpawnNotesTask(t)
    PROVE  Story'
  <1>1. /\ at[t] = "spawn" /\ up /\ up' /\ Session(t)
        /\ UNCHANGED <<slot, state, held, capture, unfinished, status, row>>
    BY Whereabouts DEF SpawnNotesTask, disk
  <1> PICK m \in Meetings : m = arg[t]
    BY <1>1 DEF Session
  <1>2. /\ OnDisk(m) /\ slot = m /\ ~capture[m]
        /\ state[m] = "generating_notes" /\ status[m] = "generating_notes"
        /\ row[m] = "generating_notes"
    BY <1>1, AimValues DEF Session, Opening
  <1>3. /\ op' = [op EXCEPT ![m] = "finish", ![t] = "none"]
        /\ at' = [at EXCEPT ![m] = "lookup", ![t] = "idle"]
        /\ arg' = [arg EXCEPT ![t] = None]
    BY DEF SpawnNotesTask
  <1>4. /\ at'[m] = "lookup" /\ at'[t] = "idle" /\ op'[t] = "none" /\ arg'[t] = None
        /\ \A k \in Meetings \ {m} : at'[k] = at[k]
    BY <1>3, LifecycleAssumption DEF IInv, Control, ControlTypes, Procs
  <1>5. \A k \in Meetings \ {m} : Same(k)
    BY <1>1, <1>4 DEF Same
  <1>6. m \notin unfinished
    BY <1>2 DEF Story, Local, Listed
  <1>7. Local(m)'
    BY <1>1, <1>2, <1>4, <1>6 DEF Local, Resting, Task, Listed, Deleted, Writing, Ending
  <1>8. Doing(t)'
    BY <1>4 DEF Doing
  <1> QED
    BY <1>1, <1>4, <1>5, <1>7, <1>8, HandlerStory

LEMMA AbandonStory ==
    ASSUME Serial, Story, IInv, NEW t \in Threads,
           AbandonMeeting(t) \/ AbandonRow(t) \/ Unlist(t)
    PROVE  Story'
  <1>1. CASE AbandonMeeting(t)
    <2>1. /\ at[t] = "begin" /\ op[t] = "abandon" /\ up /\ up' /\ Untouched(t) /\ arg[t] \in unfinished
          /\ UNCHANGED <<slot, state, held, capture, unfinished, row>>
      BY <1>1, Whereabouts DEF AbandonMeeting, Untouched
    <2> PICK m \in Meetings : m = arg[t]
      BY <2>1 DEF IInv, Data
    <2>2. CASE row[m] # "none" /\ OnDisk(m)
      <3>1. /\ status' = [status EXCEPT ![m] = "error"] /\ at' = [at EXCEPT ![t] = "abandoned"]
            /\ op' = op /\ arg' = arg
        BY <1>1, <2>2 DEF AbandonMeeting, Goto
      <3>2. at'[t] = "abandoned" /\ status'[m] = "error" /\ \A k \in Meetings : at'[k] = at[k]
        BY <3>1, Apart DEF IInv, Control, ControlTypes, Data, Procs
      <3>3. \A k \in Meetings \ {m} : Same(k)
        BY <2>1, <3>1, <3>2, Apart DEF Same
      <3>4. at[m] = "idle" /\ slot # m
        BY <2>1 DEF Story, Local, Listed
      <3>5. ~capture[m]
        BY <2>1, <3>4, RestIsSettled DEF Settled
      <3>6. Abandoning(t)'
        BY <2>1, <3>1, <3>2, <3>4, <3>5 DEF Abandoning
      <3>7. Local(m)' /\ Doing(t)'
        <4>1. ~Untouched(t)'
          BY <2>1, <3>1, <3>2 DEF Untouched, Commands
        <4> QED
          BY <2>1, <3>1, <3>2, <3>4, <3>6, <4>1 DEF Local, Resting, Task, Listed, Deleted, Doing
      <3> QED
        BY <2>1, <3>1, <3>3, <3>7, HandlerStory
    <2>3. CASE ~(row[m] # "none" /\ OnDisk(m))
      <3>1. Return(t) /\ status' = status
        BY <1>1, <2>3 DEF AbandonMeeting
      <3> QED
        BY <2>1, <3>1, AnswerStory
    <2> QED
      BY <2>2, <2>3
  <1>2. CASE AbandonRow(t)
    <2>1. /\ at[t] = "abandoned" /\ up /\ up' /\ Abandoning(t) /\ op' = op /\ arg' = arg
          /\ UNCHANGED <<slot, state, held, capture, unfinished, status>>
      BY <1>2, Whereabouts DEF AbandonRow, Upserted, disk
    <2> PICK m \in Meetings : m = arg[t]
      BY <2>1 DEF Abandoning
    <2>2. row' = [row EXCEPT ![m] = "error"] /\ at' = [at EXCEPT ![t] = "unlist"]
      BY <1>2, LifecycleAssumption DEF AbandonRow, Upserted, Target, Goto
    <2>3. row'[m] = "error" /\ at'[t] = "unlist" /\ \A k \in Meetings : at'[k] = at[k]
      BY <2>2, Apart DEF IInv, Control, ControlTypes, Data, Procs
    <2>4. \A k \in Meetings \ {m} : Same(k)
      BY <2>1, <2>2, <2>3, Apart DEF Same
    <2>5. Abandoning(t)'
      BY <2>1, <2>3 DEF Abandoning
    <2>6. ~Untouched(t)' /\ op'[t] # "retry"
      BY <2>5 DEF Abandoning, Untouched, Commands
    <2>7. Local(m)' /\ Doing(t)'
      BY <2>1, <2>3, <2>5, <2>6 DEF Abandoning, Local, Resting, Task, Listed, Deleted, Doing
    <2> QED
      BY <2>1, <2>4, <2>7, HandlerStory
  <1>3. CASE Unlist(t)
    <2>1. /\ at[t] = "unlist" /\ up /\ up' /\ Abandoning(t)
          /\ UNCHANGED <<slot, state, held, capture, status, row>>
      BY <1>3, Whereabouts DEF Unlist, disk
    <2> PICK m \in Meetings : m = arg[t]
      BY <2>1 DEF Abandoning
    <2>2. unfinished' = unfinished \ {m} /\ Return(t)
      BY <1>3 DEF Unlist
    <2>3. /\ at'[t] = "idle" /\ op'[t] = "none" /\ arg'[t] = None
          /\ \A k \in Meetings : at'[k] = at[k]
      BY <2>2, Apart DEF Return, IInv, Control, ControlTypes, Procs
    <2>4. \A k \in Meetings \ {m} : Same(k)
      BY <2>1, <2>2, <2>3 DEF Same
    <2>5. Settled(m)'
      BY <2>1 DEF Abandoning, Settled, ActiveStatuses, OnDisk
    <2>6. Local(m)' /\ Doing(t)'
      BY <2>1, <2>2, <2>3, <2>5 DEF Abandoning, Local, Resting, Task, Listed, Deleted, Doing
    <2> QED
      BY <2>1, <2>3, <2>4, <2>6, HandlerStory
  <1> QED
    BY <1>1, <1>2, <1>3

\* The row read by delete_meeting() keeps the deletion away from a live
\* recording and from notes being written.
LEMMA DeleteCheckStory ==
    ASSUME Serial, Story, IInv, NEW t \in Threads, DeleteCheck(t)
    PROVE  Story'
  <1>1. /\ at[t] = "begin" /\ op[t] = "delete" /\ up /\ up' /\ Untouched(t)
        /\ UNCHANGED <<slot, state, held, capture, unfinished, status, row>>
    BY Whereabouts DEF DeleteCheck, Untouched, disk
  <1> PICK m \in Meetings : m = arg[t]
    BY <1>1 DEF IInv, Control, ControlTypes
  <1>2. CASE row[m] \in GuardedStatuses \cup {"none"}
    <2>1. Return(t)
      BY <1>2 DEF DeleteCheck
    <2> QED
      BY <1>1, <2>1, AnswerStory
  <1>3. CASE row[m] \notin GuardedStatuses \cup {"none"}
    <2>1. at' = [at EXCEPT ![t] = "purge"] /\ op' = op /\ arg' = arg
      BY <1>3 DEF DeleteCheck, Goto
    <2>2. at'[t] = "purge" /\ \A k \in Meetings : at'[k] = at[k]
      BY <2>1, Apart DEF IInv, Control, ControlTypes, Procs
    <2>3. \A k \in Meetings : Same(k)
      BY <1>1, <2>2 DEF Same
    <2>4. ~capture[m] /\ at[m] \in Ending \cup {"idle"} /\ (at[m] = "idle" => slot # m)
      <3>1. CASE at[m] = "idle"
        <4>1. Settled(m)
          BY <1>1, <3>1, RestIsSettled
        <4>2. slot # m
          BY <1>3, <4>1 DEF Settled, GuardedStatuses, ActiveStatuses, OnDisk, Persisted
        <4> QED
          BY <3>1, <4>1, <4>2 DEF Settled
      <3>2. CASE at[m] # "idle"
        BY <1>3, <3>2 DEF Story, Local, Task, GuardedStatuses, ActiveStatuses
      <3> QED
        BY <3>1, <3>2
    <2>5. Doing(t)'
      BY <1>1, <2>1, <2>2, <2>4 DEF Doing, Deleting
    <2>6. Local(m)'
      BY <1>1, <2>1, <2>3, QuietStory
    <2> QED
      BY <1>1, <2>1, <2>3, <2>5, <2>6, HandlerStory
  <1> QED
    BY <1>2, <1>3

LEMMA PurgeStory ==
    ASSUME Serial, Story, IInv, NEW t \in Threads, Purge(t)
    PROVE  Story'
  <1>1. /\ at[t] = "purge" /\ up /\ up' /\ Deleting(t) /\ Untouched(t)
        /\ UNCHANGED <<slot, state, held, capture, unfinished, row>>
    BY Whereabouts DEF Purge, Untouched
  <1> PICK m \in Meetings : m = arg[t]
    BY <1>1 DEF Deleting
  <1>2. /\ op[t] = "delete" /\ ~capture[m] /\ at[m] \in Ending \cup {"idle"}
        /\ at[m] = "idle" => slot # m
        /\ at[m] = "idle" => Settled(m)
    BY <1>1, RestIsSettled DEF Deleting
  <1>3. Task(m) /\ Listed(m) /\ Deleted(m)
    BY DEF Story, Local
  <1>4. ASSUME status' = [status EXCEPT ![m] = "deleted"], Goto(t, "erase"),
               UNCHANGED <<op, arg>>
        PROVE  Story'
    <2>1. /\ at'[t] = "erase" /\ status'[m] = "deleted" /\ \A k \in Meetings : at'[k] = at[k]
      BY <1>4, Apart DEF Goto, IInv, Control, ControlTypes, Data, Procs
    <2>2. \A k \in Meetings \ {m} : Same(k)
      BY <1>1, <1>4, <2>1, Apart DEF Same
    <2>3. Local(m)'
      <3>1. Resting(m)'
        BY <1>4, <2>1 DEF Resting, Untouched, Commands
      <3>2. Task(m)'
        BY <1>1, <1>2, <1>3, <2>1 DEF Task, Ending, Writing, OnDisk, Persisted, ActiveStatuses,
                                     TerminalStatuses
      <3>3. Listed(m)' /\ Deleted(m)'
        BY <1>1, <1>3, <1>4, <2>1 DEF Listed, Deleted
      <3> QED
        BY <3>1, <3>2, <3>3 DEF Local
    <2>4. Doing(t)'
      BY <1>1, <1>2, <1>4, <2>1 DEF Doing, Deleting
    <2> QED
      BY <1>1, <1>4, <2>2, <2>3, <2>4, HandlerStory
  <1>5. ASSUME Writable(m), status' \in {status, [status EXCEPT ![m] = "gutted"]}, Return(t)
        PROVE  Story'
    <2>1. /\ at'[t] = "idle" /\ op'[t] = "none" /\ arg'[t] = None
          /\ \A k \in Meetings : at'[k] = at[k]
      BY <1>5, Apart DEF Return, IInv, Control, ControlTypes, Procs
    <2>2. status'[m] \in {status[m], "gutted"} /\ status[m] # "deleted"
      BY <1>5 DEF IInv, Data, Writable, OnDisk, Persisted, ActiveStatuses, TerminalStatuses
    <2>3. \A k \in Meetings \ {m} : Same(k)
      <3>1. \A k \in Meetings \ {m} : status'[k] = status[k]
        BY <1>5 DEF IInv, Data
      <3> QED
        BY <1>1, <2>1, <3>1 DEF Same
    <2>4. Local(m)'
      <3>1. Resting(m)'
        BY <1>1, <1>2, <2>1, <2>2
        DEF Resting, Settled, OnDisk, Persisted, ActiveStatuses, TerminalStatuses
      <3>2. Task(m)'
        BY <1>1, <1>2, <1>3, <2>1, <2>2
        DEF Task, Ending, Writing, OnDisk, Persisted, ActiveStatuses, TerminalStatuses
      <3>3. Listed(m)' /\ Deleted(m)'
        BY <1>1, <1>3, <2>1, <2>2 DEF Listed, Deleted
      <3> QED
        BY <3>1, <3>2, <3>3 DEF Local
    <2>5. Doing(t)'
      BY <2>1 DEF Doing
    <2> QED
      BY <1>1, <2>1, <2>3, <2>4, <2>5, HandlerStory
  <1> QED
    BY <1>4, <1>5 DEF Purge

\* A deletion that has removed the directory also removes the row and the slot.
LEMMA EraseStory ==
    ASSUME Serial, Story, IInv, NEW t \in Threads, EraseRow(t) \/ UnsetSlot(t) \/ Vacate(t)
    PROVE  Story'
  <1>1. /\ at[t] \in {"erase", "unset", "vacate"} /\ up /\ up' /\ Deleting(t)
        /\ UNCHANGED <<state, held, capture, unfinished, status>>
    BY Whereabouts DEF EraseRow, UnsetSlot, Vacate, Upserted, disk
  <1> PICK m \in Meetings : m = arg[t]
    BY <1>1 DEF Deleting
  <1>2. /\ op[t] = "delete" /\ ~capture[m] /\ at[m] \in Ending \cup {"idle"} /\ status[m] = "deleted"
        /\ ~OnDisk(m) /\ status[m] \notin ActiveStatuses
    BY <1>1 DEF Deleting, OnDisk, Persisted, ActiveStatuses, TerminalStatuses
  <1>3. Task(m) /\ Listed(m) /\ Deleted(m)
    BY DEF Story, Local
  <1>4. CASE EraseRow(t)
    <2>1. /\ row' = [row EXCEPT ![m] = "none"] /\ at' = [at EXCEPT ![t] = "unset"]
          /\ UNCHANGED <<op, arg, slot>>
      BY <1>4, LifecycleAssumption DEF EraseRow, Upserted, Target, Goto
    <2>2. at'[t] = "unset" /\ \A k \in Meetings : at'[k] = at[k]
      BY <2>1, Apart DEF IInv, Control, ControlTypes, Procs
    <2>3. \A k \in Meetings \ {m} : Same(k)
      BY <1>1, <2>1, <2>2, Apart DEF Same
    <2>4. Local(m)'
      <3>1. Resting(m)'
        BY <2>1, <2>2 DEF Resting, Untouched, Commands
      <3>2. Task(m)'
        BY <1>1, <1>2, <1>3, <2>2 DEF Task, Ending, Writing, OnDisk
      <3>3. Listed(m)' /\ Deleted(m)'
        BY <1>1, <1>3, <2>1, <2>2 DEF Listed, Deleted
      <3> QED
        BY <3>1, <3>2, <3>3 DEF Local
    <2>5. Doing(t)'
      BY <1>1, <1>2, <2>1, <2>2 DEF Doing, Deleting
    <2> QED
      BY <1>1, <2>1, <2>3, <2>4, <2>5, HandlerStory
  <1>5. CASE UnsetSlot(t) /\ slot = m
    <2>1. op' = op /\ at' = [at EXCEPT ![t] = "vacate"] /\ UNCHANGED <<arg, slot, row>>
      BY <1>5 DEF UnsetSlot, Goto
    <2>2. at'[t] = "vacate" /\ \A k \in Meetings : at'[k] = at[k]
      BY <2>1, Apart DEF IInv, Control, ControlTypes, Procs
    <2>3. \A k \in Meetings \ {m} : Same(k)
      BY <1>1, <2>1, <2>2 DEF Same
    <2>4. Local(m)'
      <3>1. Resting(m)'
        BY <2>1, <2>2 DEF Resting, Untouched, Commands
      <3>2. Task(m)'
        BY <1>1, <1>2, <1>3, <2>1, <2>2 DEF Task, Ending, Writing, OnDisk
      <3>3. Listed(m)' /\ Deleted(m)'
        BY <1>1, <1>3, <2>1, <2>2 DEF Listed, Deleted
      <3> QED
        BY <3>1, <3>2, <3>3 DEF Local
    <2>5. Doing(t)'
      BY <1>1, <1>2, <1>5, <2>1, <2>2 DEF Doing, Deleting
    <2> QED
      BY <1>1, <2>1, <2>3, <2>4, <2>5, HandlerStory
  <1>6. CASE (UnsetSlot(t) /\ slot # m) \/ Vacate(t)
    <2>1. Return(t) /\ slot' = (IF slot = m THEN None ELSE slot) /\ row' = row
      <3>1. CASE UnsetSlot(t) /\ slot # m
        BY <3>1 DEF UnsetSlot
      <3>2. CASE Vacate(t)
        <4>1. slot \in {m, None} /\ slot' = None
          BY <1>1, <3>2 DEF Deleting, Vacate
        <4> QED
          BY <3>2, <4>1 DEF Vacate
      <3> QED
        BY <1>6, <3>1, <3>2
    <2>2. /\ at'[t] = "idle" /\ op'[t] = "none" /\ arg'[t] = None
          /\ \A k \in Meetings : at'[k] = at[k]
      BY <2>1, Apart DEF Return, IInv, Control, ControlTypes, Procs
    <2>3. slot' # m /\ \A k \in Meetings \ {m} : (slot' = k <=> slot = k)
      BY <2>1, LifecycleAssumption
    <2>4. \A k \in Meetings \ {m} : Same(k)
      BY <1>1, <2>1, <2>2, <2>3 DEF Same
    <2>5. Local(m)'
      <3>1. Settled(m)' /\ Deleted(m)' /\ Listed(m)'
        BY <1>1, <1>2, <1>3, <2>2, <2>3 DEF Settled, OnDisk, Deleted, Listed
      <3>2. Task(m)'
        BY <1>1, <1>2, <1>3, <2>2 DEF Task, Ending, Writing, OnDisk
      <3> QED
        BY <3>1, <3>2 DEF Local, Resting
    <2>6. Doing(t)'
      BY <2>2 DEF Doing
    <2> QED
      BY <1>1, <2>2, <2>4, <2>5, <2>6, HandlerStory
  <1> QED
    BY <1>4, <1>5, <1>6

-----------------------------------------------------------------------------
(* The story of a background task.                                          *)

\* A step of the task is about its meeting; no handler is moved.
LEMMA TaskStory ==
    ASSUME Serial, Story, NEW m \in Meetings, at[m] # "idle", up',
           UNCHANGED <<arg, capture, unfinished>>,
           \A t \in Threads : at'[t] = at[t] /\ op'[t] = op[t],
           \A k \in Meetings \ {m} : Same(k),
           at[m] \in Ending => at'[m] \in Ending \cup {"idle"},
           at'[m] = "idle" => state'[m] = "completed" /\ (slot' # m \/ status[m] = "deleted"),
           status'[m] = "deleted" <=> status[m] = "deleted",
           slot' \in {slot, None},
           Resting(m)', Task(m)'
    PROVE  Story'
  <1>1. /\ Task(m) /\ Deleted(m)
        /\ ~capture[m] /\ m \notin unfinished
        /\ slot' = m => slot = m
    BY LifecycleAssumption DEF Story, Local, Task
  <1>2. ASSUME NEW k \in Meetings, k # m PROVE Local(k)'
    <2>1. Same(k) /\ Local(k)
      BY <1>2 DEF Story
    <2>2. Resting(k)'
      <3>1. up
        BY DEF Story, Down, Procs
      <3> QED
        BY <2>1, <3>1 DEF Same, Local, Resting, Settled, Untouched, OnDisk
    <2>3. Task(k)' /\ Listed(k)' /\ Deleted(k)'
      BY <2>1 DEF Same, Local, Task, Listed, Deleted, OnDisk
    <2> QED
      BY <2>2, <2>3 DEF Local
  <1>3. Local(m)'
    <2>1. Listed(m)' /\ Deleted(m)'
      BY <1>1 DEF Listed, Deleted
    <2> QED
      BY <2>1 DEF Local
  <1>4. ASSUME NEW t \in Threads PROVE Doing(t)'
    <2>1. at'[t] = at[t] /\ op'[t] = op[t] /\ arg'[t] = arg[t] /\ Doing(t)
      BY DEF Story
    <2>2. ASSUME Asking(t) PROVE Asking(t)'
      BY <1>1, <2>1, <2>2 DEF Asking, Same, Deleted, Commands
    <2>3. ASSUME Granted(t) \/ Session(t) \/ Abandoning(t) PROVE arg[t] \in Meetings \ {m}
      BY <2>3 DEF Granted, Session, Abandoning
    <2>4. ASSUME Granted(t) PROVE Granted(t)'
      BY <2>1, <2>3, <2>4 DEF Granted, Same
    <2>5. ASSUME Session(t) PROVE Session(t)'
      BY <2>1, <2>3, <2>5 DEF Session, Same, OnDisk
    <2>6. ASSUME Abandoning(t) PROVE Abandoning(t)'
      BY <2>1, <2>3, <2>6 DEF Abandoning, Same
    <2>7. ASSUME Deleting(t) PROVE Deleting(t)'
      <3>1. CASE arg[t] # m
        BY <2>1, <2>7, <3>1 DEF Deleting, Same
      <3>2. CASE arg[t] = m
        <4>1. at[t] = "purge" /\ at'[m] = "idle" => slot' # m
          BY <1>1, <3>2 DEF Deleted, Serial
        <4> QED
          BY <1>1, <2>1, <2>7, <3>2, <4>1 DEF Deleting
      <3> QED
        BY <3>1, <3>2
    <2> QED
      BY <2>1, <2>2, <2>4, <2>5, <2>6, <2>7 DEF Doing
  <1> QED
    BY <1>2, <1>3, <1>4 DEF Story, Down

\* Where a task is, and what its next place leaves alone.
LEMMA TaskMove ==
    ASSUME IInv, NEW m \in Meetings, NEW place
    PROVE  /\ Target(m) = m
           /\ at' = [at EXCEPT ![m] = place] =>
                /\ at'[m] = place
                /\ \A t \in Threads : at'[t] = at[t]
                /\ \A k \in Meetings \ {m} : at'[k] = at[k]
           /\ \A v : op' = [op EXCEPT ![m] = v] => \A t \in Threads : op'[t] = op[t]
           /\ at[m] # "idle" => op[m] = "finish"
  BY LifecycleAssumption DEF IInv, Control, ControlTypes, TasksFinish, Procs, Target

\* run_ai_pipeline() keeps metadata and row in step.
LEMMA PipelineStory ==
    ASSUME Serial, Story, IInv, NEW m \in Meetings,
           \/ LookUp(m) \/ Announce(m) \/ AnnounceRow(m)
           \/ Generate(m) \/ Complete(m) \/ CompleteRow(m)
    PROVE  Story'
  <1>1. /\ at[m] \in Writing /\ Target(m) = m
        /\ UNCHANGED <<up, slot, state, held, capture, unfinished>>
    BY TaskMove DEF LookUp, Announce, AnnounceRow, Generate, Complete, CompleteRow, Upserted, Writing
  <1>2. /\ up /\ at[m] # "idle" /\ slot = m /\ ~capture[m] /\ m \notin unfinished
        /\ state[m] = "generating_notes" /\ row[m] = "generating_notes"
        /\ status[m] = IF at[m] = "completed" THEN "completed" ELSE "generating_notes"
        /\ OnDisk(m) /\ Writable(m)
    <2>1. Task(m) /\ at[m] # "idle"
      BY <1>1 DEF Story, Local, Writing
    <2>2. up
      BY <2>1 DEF Story, Down, Procs
    <2> QED
      BY <1>1, <2>1, <2>2 DEF Task, Writing, OnDisk, Writable, Persisted, ActiveStatuses, TerminalStatuses
  <1>3. \E place \in (Writing \ {"lookup"}) \cup {"mark"} :
          /\ at' = [at EXCEPT ![m] = place] /\ UNCHANGED <<op, arg>>
          /\ status'[m] = IF place = "completed" \/ at[m] = "completed"
                          THEN "completed" ELSE "generating_notes"
          /\ row'[m] = IF at[m] = "completed" THEN "completed" ELSE "generating_notes"
          /\ at[m] = "completed" => place = "mark"
          /\ \A k \in Meetings \ {m} : status'[k] = status[k] /\ row'[k] = row[k]
    <2> USE LifecycleAssumption DEF LeavePipeline, Goto, IInv, Data, Writing
    <2>1. CASE LookUp(m)
      BY <1>1, <1>2, <2>1 DEF LookUp, disk
    <2>2. CASE Announce(m)
      BY <1>1, <1>2, <2>2 DEF Announce
    <2>3. CASE AnnounceRow(m)
      BY <1>1, <1>2, <2>3 DEF AnnounceRow, Upserted, disk
    <2>4. CASE Generate(m)
      BY <1>1, <1>2, <2>4 DEF Generate
    <2>5. CASE Complete(m)
      BY <1>1, <1>2, <2>5 DEF Complete
    <2>6. CASE CompleteRow(m)
      BY <1>1, <1>2, <2>6 DEF CompleteRow, Upserted, disk
    <2> QED
      BY <2>1, <2>2, <2>3, <2>4, <2>5, <2>6
  <1>4. PICK place \in (Writing \ {"lookup"}) \cup {"mark"} :
          /\ at' = [at EXCEPT ![m] = place] /\ UNCHANGED <<op, arg>>
          /\ status'[m] = IF place = "completed" \/ at[m] = "completed"
                          THEN "completed" ELSE "generating_notes"
          /\ row'[m] = IF at[m] = "completed" THEN "completed" ELSE "generating_notes"
          /\ at[m] = "completed" => place = "mark"
          /\ \A k \in Meetings \ {m} : status'[k] = status[k] /\ row'[k] = row[k]
    BY <1>3
  <1>5. /\ at'[m] = place /\ \A t \in Threads : at'[t] = at[t] /\ op'[t] = op[t]
        /\ \A k \in Meetings \ {m} : at'[k] = at[k]
    BY <1>4, TaskMove
  <1>6. \A k \in Meetings \ {m} : Same(k)
    BY <1>1, <1>4, <1>5 DEF Same
  <1>7. Resting(m)' /\ Task(m)' /\ at'[m] # "idle"
    BY <1>1, <1>2, <1>4, <1>5 DEF Resting, Task, Writing, Ending
  <1> QED
    BY <1>1, <1>2, <1>4, <1>5, <1>6, <1>7, TaskStory DEF Writing, Ending

\* mark_completed() in the "finally" of the background task.
LEMMA TaskEndStory ==
    ASSUME Serial, Story, Vacating, IInv, NEW m \in Meetings,
           \/ MarkCompleted(m) \/ CheckTransition(m) \/ SetState(m)
           \/ SetStatus(m) \/ SyncDb(m) \/ ClearSlot(m) \/ Vacate(m)
    PROVE  Story'
  <1> USE LifecycleAssumption
  <1>1. at[m] \in Ending /\ at[m] # "idle" /\ Target(m) = m /\ op[m] = "finish"
    BY TaskMove DEF MarkCompleted, CheckTransition, SetState, SetStatus, SyncDb, ClearSlot, Vacate,
       Ending
  <1>2. up /\ Task(m) /\ Deleted(m)
    BY <1>1 DEF Story, Down, Local, Procs
  <1>3. /\ at[m] \notin Writing /\ ~capture[m] /\ m \notin unfinished
        /\ status[m] \in {"generating_notes", "completed", "gutted", "deleted"}
    BY <1>1, <1>2 DEF Task, Ending, Writing
  <1>4. UNCHANGED <<up, capture, unfinished>>
    BY DEF MarkCompleted, CheckTransition, SetState, SetStatus, SyncDb, ClearSlot, Vacate
  <1>5. CASE MarkCompleted(m)
    <2>1. /\ at[m] = "mark" /\ at' = [at EXCEPT ![m] = "check"] /\ UNCHANGED <<op, arg>>
          /\ UNCHANGED <<slot, state, held, status, row>>
      BY <1>5 DEF MarkCompleted, Goto, disk
    <2>2. /\ at'[m] = "check" /\ \A t \in Threads : at'[t] = at[t] /\ op'[t] = op[t]
          /\ \A k \in Meetings \ {m} : at'[k] = at[k]
      BY <2>1, TaskMove
    <2>3. \A k \in Meetings \ {m} : Same(k)
      BY <1>4, <2>1, <2>2 DEF Same
    <2>4. Resting(m)' /\ Task(m)'
      BY <1>2, <1>4, <2>1, <2>2 DEF Resting, Task, Writing, Ending, OnDisk
    <2> QED
      BY <1>1, <1>2, <1>4, <2>1, <2>2, <2>3, <2>4, TaskStory DEF Ending
  <1>6. CASE CheckTransition(m)
    <2>1. at[m] = "check" /\ state[m] = "generating_notes"
      BY <1>2, <1>6 DEF CheckTransition, Task
    <2>2. CanTransition(state[m], Aim[op[m]])
      BY <1>1, <2>1, AimValues, Legal
    <2>3. /\ at' = [at EXCEPT ![m] = "set"] /\ UNCHANGED <<op, arg>>
          /\ UNCHANGED <<slot, state, held, status, row>>
      BY <1>1, <1>6, <2>2 DEF CheckTransition, Goto, disk
    <2>4. /\ at'[m] = "set" /\ \A t \in Threads : at'[t] = at[t] /\ op'[t] = op[t]
          /\ \A k \in Meetings \ {m} : at'[k] = at[k]
      BY <2>3, TaskMove
    <2>5. \A k \in Meetings \ {m} : Same(k)
      BY <1>4, <2>3, <2>4 DEF Same
    <2>6. Resting(m)' /\ Task(m)'
      BY <1>2, <1>4, <2>1, <2>3, <2>4 DEF Resting, Task, Writing, Ending, OnDisk
    <2> QED
      BY <1>1, <1>2, <1>4, <2>3, <2>4, <2>5, <2>6, TaskStory DEF Ending
  <1>7. CASE SetState(m)
    <2>1. /\ at[m] = "set" /\ at' = [at EXCEPT ![m] = "status"] /\ UNCHANGED <<op, arg>>
          /\ state' = [state EXCEPT ![m] = "completed"]
          /\ UNCHANGED <<slot, held, status, row>>
      BY <1>1, <1>7, AimValues, EnteredValues DEF SetState, Goto, disk
    <2>2. /\ at'[m] = "status" /\ \A t \in Threads : at'[t] = at[t] /\ op'[t] = op[t]
          /\ \A k \in Meetings \ {m} : at'[k] = at[k]
      BY <2>1, TaskMove
    <2>3. state'[m] = "completed" /\ \A k \in Meetings \ {m} : state'[k] = state[k]
      BY <2>1 DEF IInv, Data
    <2>4. \A k \in Meetings \ {m} : Same(k)
      BY <1>4, <2>1, <2>2, <2>3 DEF Same
    <2>5. Resting(m)' /\ Task(m)'
      BY <1>2, <1>4, <2>1, <2>2, <2>3 DEF Resting, Task, Writing, Ending, OnDisk
    <2> QED
      BY <1>1, <1>2, <1>4, <2>1, <2>2, <2>4, <2>5, TaskStory DEF Ending
  <1>8. CASE SetStatus(m)
    <2>1. /\ at[m] = "status" /\ state[m] = "completed"
          /\ UNCHANGED <<slot, state, row>>
      BY <1>2, <1>8 DEF SetStatus, Task
    <2>2. ASSUME Writable(m), Write(m, [Reloaded(m) EXCEPT !.status = Aim[op[m]]]),
                 Goto(m, "sync"), UNCHANGED <<op, arg>>
          PROVE  Story'
      <3> DEFINE new == [Reloaded(m) EXCEPT !.status = Aim[op[m]]]
      <3>1. new.status = "completed"
        BY <1>1, AimValues, ReloadedType DEF IInv, Metadata
      <3> HIDE DEF new
      <3>2. status' = [status EXCEPT ![m] = "completed"] /\ held' = [held EXCEPT ![m] = new]
        BY <2>2, <3>1 DEF Write, new
      <3>3. /\ status'[m] = "completed" /\ held'[m].status = "completed"
            /\ \A k \in Meetings \ {m} : status'[k] = status[k] /\ held'[k] = held[k]
        BY <3>1, <3>2 DEF IInv, Data
      <3>4. /\ at'[m] = "sync" /\ \A t \in Threads : at'[t] = at[t] /\ op'[t] = op[t]
            /\ \A k \in Meetings \ {m} : at'[k] = at[k]
        BY <2>2, TaskMove DEF Goto
      <3>5. \A k \in Meetings \ {m} : Same(k)
        BY <1>4, <2>1, <3>3, <3>4 DEF Same
      <3>6. status[m] # "deleted"
        BY <2>2 DEF Writable, OnDisk, Persisted, ActiveStatuses, TerminalStatuses
      <3>7. Resting(m)' /\ Task(m)'
        BY <1>2, <1>4, <2>1, <3>3, <3>4, <1>3 DEF Resting, Task, Writing, Ending
      <3> QED
        BY <1>1, <1>2, <1>4, <2>1, <2>2, <3>3, <3>4, <3>5, <3>6, <3>7, TaskStory DEF Ending
    <2>3. ASSUME ~Writable(m), Return(m), UNCHANGED <<status, held>>
          PROVE  Story'
      <3>1. status[m] = "deleted"
        BY <1>3, <2>3 DEF Writable, OnDisk, Persisted, ActiveStatuses, TerminalStatuses
      <3>2. /\ at' = [at EXCEPT ![m] = "idle"] /\ op' = [op EXCEPT ![m] = "none"] /\ arg' = arg
        BY <2>3 DEF Return
      <3>3. /\ at'[m] = "idle" /\ \A t \in Threads : at'[t] = at[t] /\ op'[t] = op[t]
            /\ \A k \in Meetings \ {m} : at'[k] = at[k]
        BY <3>2, TaskMove
      <3>4. \A k \in Meetings \ {m} : Same(k)
        BY <1>4, <2>1, <2>3, <3>3 DEF Same
      <3>5. Resting(m)'
        <4>1. slot' = m => \E t \in Threads : arg'[t] = m /\ at'[t] \in {"erase", "unset", "vacate"}
          BY <1>2, <2>1, <3>1, <3>2, <3>3 DEF Deleted
        <4>2. slot' = m => ~(\A t \in Threads : arg'[t] = m => Untouched(t)')
          BY <4>1 DEF Untouched
        <4>3. slot' # m => Settled(m)'
          BY <1>3, <1>4, <2>3, <3>1
          DEF Settled, OnDisk, Persisted, ActiveStatuses, TerminalStatuses
        <4> QED
          BY <4>2, <4>3 DEF Resting
      <3>6. Task(m)'
        BY <3>3 DEF Task
      <3> QED
        BY <1>1, <1>2, <1>4, <2>1, <2>3, <3>1, <3>2, <3>3, <3>4, <3>5, <3>6, TaskStory DEF Ending
    <2> QED
      BY <1>1, <1>8, <2>2, <2>3 DEF SetStatus, Serial
  <1>9. CASE SyncDb(m)
    <2>1. at[m] = "sync" /\ held[m].status = "completed" /\ state[m] = "completed"
      BY <1>2, <1>9, <1>1 DEF SyncDb, Task
    <2>2. /\ at' = [at EXCEPT ![m] = "clear"] /\ op' = [op EXCEPT ![m] = "finish"] /\ arg' = arg
          /\ row' = [row EXCEPT ![m] = "completed"]
          /\ UNCHANGED <<slot, state, held, status>>
      BY <1>1, <1>9, <2>1, SyncedValues DEF SyncDb, Serial, disk
    <2>3. /\ at'[m] = "clear" /\ \A t \in Threads : at'[t] = at[t] /\ op'[t] = op[t]
          /\ \A k \in Meetings \ {m} : at'[k] = at[k]
      BY <2>2, TaskMove
    <2>4. row'[m] = "completed" /\ \A k \in Meetings \ {m} : row'[k] = row[k]
      BY <2>2 DEF IInv, Data
    <2>5. \A k \in Meetings \ {m} : Same(k)
      BY <1>4, <2>2, <2>3, <2>4 DEF Same
    <2>6. Resting(m)' /\ Task(m)'
      BY <1>2, <1>3, <1>4, <2>1, <2>2, <2>3, <2>4
      DEF Resting, Task, Writing, Ending, OnDisk, Persisted, ActiveStatuses, TerminalStatuses
    <2> QED
      BY <1>1, <1>2, <1>4, <2>2, <2>3, <2>5, <2>6, TaskStory DEF Ending
  <1>10. CASE ClearSlot(m) /\ slot = m
    <2>1. /\ at[m] = "clear" /\ at' = [at EXCEPT ![m] = "vacate"] /\ UNCHANGED <<op, arg>>
          /\ UNCHANGED <<slot, state, held, status, row>>
      BY <1>10 DEF ClearSlot, Goto, disk
    <2>2. /\ at'[m] = "vacate" /\ \A t \in Threads : at'[t] = at[t] /\ op'[t] = op[t]
          /\ \A k \in Meetings \ {m} : at'[k] = at[k]
      BY <2>1, TaskMove
    <2>3. \A k \in Meetings \ {m} : Same(k)
      BY <1>4, <2>1, <2>2 DEF Same
    <2>4. Resting(m)' /\ Task(m)'
      BY <1>2, <1>4, <2>1, <2>2 DEF Resting, Task, Writing, Ending, OnDisk
    <2> QED
      BY <1>1, <1>2, <1>4, <2>1, <2>2, <2>3, <2>4, TaskStory DEF Ending
  <1>11. CASE (ClearSlot(m) /\ slot # m) \/ Vacate(m)
    <2>1. /\ at[m] \in {"clear", "vacate"} /\ state[m] = "completed" /\ status[m] # "generating_notes"
          /\ OnDisk(m) => row[m] = status[m]
      BY <1>2, <1>11, <1>1 DEF ClearSlot, Vacate, Task
    <2>2. /\ at' = [at EXCEPT ![m] = "idle"] /\ op' = [op EXCEPT ![m] = "none"] /\ arg' = arg
          /\ slot' = (IF slot = m THEN None ELSE slot)
          /\ UNCHANGED <<state, held, status, row>>
      <3>1. CASE ClearSlot(m) /\ slot # m
        BY <3>1 DEF ClearSlot, Return, disk
      <3>2. CASE Vacate(m)
        <4>1. slot \in {m, None}
          BY <3>2 DEF Vacate, Vacating
        <4> QED
          BY <3>2, <4>1 DEF Vacate, Return, disk
      <3> QED
        BY <1>11, <3>1, <3>2
    <2>3. /\ at'[m] = "idle" /\ \A t \in Threads : at'[t] = at[t] /\ op'[t] = op[t]
          /\ \A k \in Meetings \ {m} : at'[k] = at[k]
      BY <2>2, TaskMove
    <2>4. slot' # m /\ \A k \in Meetings \ {m} : (slot' = k <=> slot = k)
      BY <2>2
    <2>5. \A k \in Meetings \ {m} : Same(k)
      BY <1>4, <2>2, <2>3, <2>4 DEF Same
    <2>6. Settled(m)'
      BY <1>3, <1>4, <2>1, <2>2, <2>4 DEF Settled, OnDisk, ActiveStatuses
    <2>7. Resting(m)' /\ Task(m)'
      BY <2>3, <2>6 DEF Resting, Task
    <2> QED
      BY <1>1, <1>2, <1>4, <2>1, <2>2, <2>3, <2>4, <2>5, <2>7, TaskStory DEF Ending
  <1> QED
    BY <1>5, <1>6, <1>7, <1>8, <1>9, <1>10, <1>11

-----------------------------------------------------------------------------
(* The story of the engine.                                                 *)

\* A crash leaves nothing at work; the scan of the next startup heals the rows
\* and lists what is unfinished.
LEMMA EngineStory ==
    ASSUME Serial, Story, IInv, Crash \/ Restart \/ UNCHANGED vars
    PROVE  Story'
  <1> USE LifecycleAssumption
  <1>1. CASE Crash
    <2>1. /\ ~up' /\ slot' = None /\ unfinished' = {}
          /\ \A p \in Procs : at'[p] = "idle" /\ op'[p] = "none"
          /\ \A m \in Meetings : ~capture'[m]
      BY <1>1 DEF Crash
    <2> QED
      BY <2>1 DEF Story, Down, Local, Resting, Task, Listed, Deleted, Doing, Procs
  <1>2. CASE Restart
    <2>1. /\ ~up /\ slot = None /\ slot' = None /\ UNCHANGED <<op, at, capture, status>>
          /\ \A m \in Meetings : row'[m] = IF OnDisk(m) THEN status[m] ELSE row[m]
          /\ unfinished' = {m \in Meetings : OnDisk(m) /\ status[m] \notin TerminalStatuses}
          /\ \A p \in Procs : at[p] = "idle"
          /\ \A m \in Meetings : ~capture[m]
      BY <1>2 DEF Restart, Story, Down, disk, control, HealedRow
    <2>2. \A m \in Meetings : Settled(m)'
      BY <2>1 DEF Settled, OnDisk, Persisted, ActiveStatuses, TerminalStatuses
    <2>3. \A m \in Meetings : Local(m)'
      BY <2>1, <2>2 DEF Local, Resting, Task, Listed, Deleted, Procs
    <2>4. \A t \in Threads : Doing(t)'
      BY <2>1, Whereabouts DEF Doing, Procs
    <2> QED
      BY <1>2, <2>3, <2>4 DEF Story, Down, Restart
  <1>3. CASE UNCHANGED vars
    BY <1>3 DEF vars, memory, disk, control, Story, Down, Local, Resting, Settled, Untouched,
       Task, Listed, Deleted, Doing, Asking, Granted, Session, Deleting, Abandoning, OnDisk
  <1> QED
    BY <1>1, <1>2, <1>3

LEMMA InitStory == Init => Story
  BY LifecycleAssumption
  DEF Init, Story, Down, Local, Resting, Settled, Task, Listed, Deleted, Doing, OnDisk,
      Persisted, ActiveStatuses, TerminalStatuses, Procs

LEMMA NextStory == ASSUME Serial, Story, Vacating, IInv, [Next]_vars PROVE Story'
  <1>1. ASSUME NEW t \in Threads, HandlerStep(t) PROVE Story'
    <2>1. /\ ~Retry(t) /\ ~LookUp(t) /\ ~Announce(t) /\ ~AnnounceRow(t)
          /\ ~Generate(t) /\ ~Complete(t) /\ ~CompleteRow(t)
      BY Whereabouts
      DEF Retry, LookUp, Announce, AnnounceRow, Generate, Complete, CompleteRow, Upserted, Writing
    <2> QED
      BY <1>1, <2>1, RefuseStory, OpenStory, StartCaptureStory, PublishStory,
         RequireSessionStory, TakeSessionStory, CheckTransitionStory, SetStateStory, SetStatusStory,
         SyncDbStory, ReleaseDevicesStory, FinalizeStory, SpawnNotesTaskStory,
         AbandonStory, DeleteCheckStory, PurgeStory, EraseStory
      DEF HandlerStep
  <1>2. ASSUME NEW m \in Meetings, TaskStep(m) PROVE Story'
    BY <1>2, PipelineStory, TaskEndStory DEF TaskStep
  <1> QED
    BY <1>1, <1>2, DispatchStory, EngineStory DEF Next

\* Between a task's test of the slot and its assignment, nobody else takes it.
LEMMA NextVacating == ASSUME Serial, Story, Vacating, IInv, [Next]_vars PROVE Vacating'
  <1> SUFFICES ASSUME NEW m \in Meetings, at'[m] = "vacate"
               PROVE  slot' = m \/ (slot' = None /\ \A t \in Threads : at'[t] = "idle")
    BY DEF Vacating
  <1> USE LifecycleAssumption
  <1>1. at \in [Procs -> Places] /\ op \in [Procs -> Ops]
    BY DEF IInv, Control, ControlTypes
  <1>2. ASSUME NEW t \in Threads, HandlerStep(t)
        PROVE  slot' = m \/ (slot' = None /\ \A u \in Threads : at'[u] = "idle")
    <2>1. at[m] = "vacate"
      BY <1>1, <1>2 DEF HandlerStep, Refuse, CreateMeeting, ReattachMeeting, StartCapture,
         Publish, RequireSession, TakeSession, CheckTransition, SetState, SetStatus, SyncDb,
         ReleaseDevices, Finalize, SpawnNotesTask, Retry, LookUp, Announce, AnnounceRow,
         Upserted, Generate, Complete, CompleteRow, AbandonMeeting, AbandonRow, Unlist,
         DeleteCheck, Purge, EraseRow, UnsetSlot, Vacate, LeavePipeline, Return, Goto, Procs
    <2>2. at[t] # "idle"
      BY <1>2 DEF HandlerStep, Refuse, CreateMeeting, ReattachMeeting, StartCapture,
         Publish, RequireSession, TakeSession, CheckTransition, SetState, SetStatus, SyncDb,
         ReleaseDevices, Finalize, SpawnNotesTask, Retry, LookUp, Announce, AnnounceRow,
         Upserted, Generate, Complete, CompleteRow, AbandonMeeting, AbandonRow, Unlist,
         DeleteCheck, Purge, EraseRow, UnsetSlot, Vacate
    <2>3. slot = m
      BY <2>1, <2>2 DEF Vacating
    <2>4. ~Publish(t)
      BY <2>3, NextKeepsSlot DEF IInv
    <2>5. slot' = slot \/ Vacate(t)
      BY <1>2, <2>4 DEF HandlerStep, Refuse, CreateMeeting, ReattachMeeting, StartCapture,
         RequireSession, TakeSession, CheckTransition, SetState, SetStatus, SyncDb,
         ReleaseDevices, Finalize, SpawnNotesTask, Retry, LookUp, Announce, AnnounceRow,
         Upserted, Generate, Complete, CompleteRow, AbandonMeeting, AbandonRow, Unlist,
         DeleteCheck, Purge, EraseRow, UnsetSlot
    <2>6. ASSUME Vacate(t) PROVE slot' = None /\ \A u \in Threads : at'[u] = "idle"
      <3>1. slot' = None /\ at'[t] = "idle"
        BY <1>1, <2>6 DEF Vacate, Return, Procs
      <3> QED
        BY <3>1 DEF Serial
    <2> QED
      BY <2>3, <2>5, <2>6
  <1>3. ASSUME NEW t \in Threads, Dispatch(t) PROVE FALSE
    <2>1. at[m] = "vacate" /\ loop = None
      BY <1>1, <1>3 DEF Dispatch, Goto, Procs
    <2>2. op[m] = "finish" /\ loop = m
      BY <2>1 DEF IInv, Control, TasksFinish, LoopOwners, OnLoop, Procs
    <2> QED
      BY <2>1, <2>2
  <1>4. ASSUME NEW k \in Meetings, TaskStep(k)
        PROVE  slot' = m \/ (slot' = None /\ \A u \in Threads : at'[u] = "idle")
    <2> USE DEF TaskStep, LookUp, Announce, AnnounceRow, Upserted, Generate, Complete,
                CompleteRow, MarkCompleted, CheckTransition, SetState, SetStatus, SyncDb,
                ClearSlot, Vacate
    <2>1. ASSUME k = m PROVE slot' = m
      <3>1. at[m] # "idle" /\ op[m] = "finish"
        BY <1>4, <2>1, TaskMove
      <3>2. ClearSlot(m) /\ slot = m
        BY <1>1, <1>4, <2>1, <3>1, EnteredValues, SyncedValues
        DEF LeavePipeline, Return, Goto, Procs
      <3> QED
        BY <3>2
    <2>2. ASSUME k # m PROVE /\ at[m] = "vacate" /\ \A u \in Threads : at'[u] = at[u]
      BY <1>1, <1>4, <2>2 DEF LeavePipeline, Return, Goto, Procs
    <2>3. ASSUME k # m PROVE slot' = slot
      <3>1. op[m] = "finish" /\ loop = m
        BY <2>2, <2>3 DEF IInv, Control, TasksFinish, LoopOwners, OnLoop, Procs
      <3>2. ASSUME Vacate(k) PROVE FALSE
        <4>1. op[k] = "finish" /\ loop = k
          BY <3>2 DEF IInv, Control, TasksFinish, LoopOwners, OnLoop, Procs
        <4> QED
          BY <2>3, <3>1, <4>1
      <3> QED
        BY <1>4, <3>2
    <2> QED
      BY <2>1, <2>2, <2>3 DEF Vacating
  <1>5. ASSUME Crash \/ Restart \/ UNCHANGED vars
        PROVE  slot' = m \/ (slot' = None /\ \A u \in Threads : at'[u] = "idle")
    <2>1. ~Crash
      BY DEF Crash, Procs
    <2>2. UNCHANGED <<slot, at>>
      BY <1>5, <2>1 DEF Restart, vars, memory, control
    <2> QED
      BY <2>2 DEF Vacating
  <1> QED
    BY <1>2, <1>3, <1>4, <1>5 DEF Next

LEMMA InitVacating == Init => Vacating
  BY DEF Init, Vacating, Procs

\* What the story says of a meeting nobody is at work on.
LEMMA QuietIsSettled ==
    ASSUME Story, NEW m \in Meetings, Quiet(m)
    PROVE  Settled(m)
  BY DEF Quiet, Story, Local, Resting

LEMMA StoryInvariance == ASSUME Serial PROVE Spec => [](IInv /\ Story)
  <1>1. Init => Story /\ Vacating
    BY InitStory, InitVacating
  <1>2. IInv /\ Story /\ Vacating /\ [Next]_vars => Story' /\ Vacating'
    BY NextStory, NextVacating
  <1> QED
    BY <1>1, <1>2, Invariance, PTL DEF Spec

\* metadata.json, the SQLite row and the live state machine agree about every
\* meeting nobody is at work on, through crashes and restarts: "they never
\* disagree" of checkpoint.py.
THEOREM StoresTellOneStory == ASSUME Serial PROVE Spec => []StoresAgree
  <1>1. Story => StoresAgree
    BY QuietIsSettled DEF StoresAgree, Settled
  <1> QED
    BY <1>1, StoryInvariance, PTL

\* Between two commands the devices are held exactly by the recording session:
\* no sequence of start, pause, resume, stop, recovery and deletion leaks them.
THEOREM DevicesAreReleased == ASSUME Serial PROVE Spec => []DevicesFollowState
  <1>1. Story => DevicesFollowState
    BY QuietIsSettled DEF DevicesFollowState, Settled
  <1> QED
    BY <1>1, StoryInvariance, PTL

\* An unfinished meeting is the live one or is offered for recovery.
THEOREM NoMeetingIsStranded == ASSUME Serial PROVE Spec => []NothingStranded
  <1>1. Story => NothingStranded
    BY QuietIsSettled DEF NothingStranded, Settled
  <1> QED
    BY <1>1, StoryInvariance, PTL

\* The row that delete_meeting() reads once is enough: no directory is removed
\* under a running capture, in any state, between commands or within one.
THEOREM RecordingIsNeverDeleted == ASSUME Serial PROVE Spec => []NeverDeletesRecording
  <1>1. ASSUME Serial, Story, IInv, NEW m \in Meetings, status[m] \in {"gutted", "deleted"}
        PROVE  ~capture[m]
    <2>1. ~OnDisk(m) /\ status[m] \notin {"recording", "paused"}
      BY <1>1 DEF OnDisk, Persisted, ActiveStatuses, TerminalStatuses
    <2>2. CASE ~up
      BY <1>1, <2>2 DEF Story, Down
    <2>3. CASE at[m] # "idle"
      BY <1>1, <2>3 DEF Story, Local, Task
    <2>4. CASE up /\ at[m] = "idle" /\ \A t \in Threads : arg[t] = m => Untouched(t)
      BY <1>1, <2>1, <2>4 DEF Story, Local, Resting, Settled
    <2>5. ASSUME NEW t \in Threads, arg[t] = m, ~Untouched(t), at[m] = "idle" PROVE ~capture[m]
      BY <1>1, <2>1, <2>5 DEF Story, Doing, Asking, Granted, Session, Deleting, Abandoning, Untouched
    <2> QED
      BY <2>2, <2>3, <2>4, <2>5
  <1>2. IInv /\ Story => NeverDeletesRecording
    BY <1>1 DEF NeverDeletesRecording
  <1> QED
    BY <1>2, StoryInvariance, PTL
=============================================================================
