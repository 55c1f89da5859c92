---------------------------- MODULE MetadataStore ----------------------------
(***************************************************************************)
(* The read-modify-write of metadata.json in engine/storage/               *)
(* meeting_store.py: every setter reloads the file into the store's        *)
(* metadata, changes one field and writes the whole file back.  Several    *)
(* MeetingStore objects exist for one meeting (the live session's, the AI  *)
(* pipeline's, an abandon's), several threads use the live session's, and  *)
(* no lock keeps their updates apart.                                      *)
(*                                                                         *)
(* A write of the file is one step, as AtomicFile shows it to be while no  *)
(* other write is in progress; what two writes of one temporary file do to *)
(* each other is some outcome of AtomicFile.                               *)
(*                                                                         *)
(* A setter is a thread together with the field it sets (set_status,       *)
(* append_chunk_record, add_marker, finalize, set_notes_result); a field's *)
(* value is the number of the update that set it.                          *)
(***************************************************************************)
EXTENDS Naturals

CONSTANTS
    Setters,     \* the threads that update metadata.json, one field each
    Stores,      \* MeetingStore objects for the meeting
    StoreOf,     \* StoreOf[w]: the store whose setter w calls
    MaxUpdates,  \* bound on the updates of each setter
    MaxRestarts  \* bound on crashes

ASSUME MetadataAssumption ==
    /\ StoreOf \in [Setters -> Stores]
    /\ MaxUpdates \in Nat /\ MaxRestarts \in Nat

VARIABLES
    file,        \* metadata.json: a value per field
    mem,         \* mem[s]: the metadata attribute of store s, Unparsed: no store
    step,        \* step[w]: idle, reload, assign, mutate, serialize or publish
    read,        \* read[w]: what w read from the file and has not yet assigned
    out,         \* out[w]: what w serialized and has not yet written
    overtaken,   \* the writers whose temporary file another one renamed away
    done,        \* history, done[w]: the updates of w that were written
    overlapped,  \* history: the updates in progress that overlap or overlapped another
    exposed,     \* history: the fields not written alone since the last overlap
    restarts

history == <<overlapped, exposed>>
storeVars == <<file, mem, step, read, out, overtaken, done, history, restarts>>

Metadata == [Setters -> Nat]
Unparsed == [w \in {} |-> 0]  \* no JSON

Blank == [w \in Setters |-> 0]

\* create() writes the file and returns a store that holds the same.
StoreInit ==
    /\ file = Blank
    /\ mem = [s \in Stores |-> Blank]
    /\ step = [w \in Setters |-> "idle"]
    /\ read = [w \in Setters |-> Blank]
    /\ out = [w \in Setters |-> Blank]
    /\ overtaken = {}
    /\ done = Blank
    /\ overlapped = {} /\ exposed = {}
    /\ restarts = 0

Proceed(w, place) == step' = [step EXCEPT ![w] = place]

Underway == {w \in Setters : step[w] # "idle"}

\* MeetingStore.load(): a fresh object takes the place of store s.
Load(s) ==
    /\ \A w \in Underway : StoreOf[w] # s
    /\ file # Unparsed
    /\ mem' = [mem EXCEPT ![s] = file]
    /\ UNCHANGED <<file, step, read, out, overtaken, done, history, restarts>>

\* A setter of a store is called, whatever other setters are doing.
Begin(w) ==
    /\ step[w] = "idle" /\ done[w] < MaxUpdates
    /\ mem[StoreOf[w]] # Unparsed
    /\ IF Underway = {}
       THEN UNCHANGED history
       ELSE overlapped' = Underway \cup {w} /\ exposed' = Setters
    /\ Proceed(w, "reload")
    /\ UNCHANGED <<file, mem, read, out, overtaken, done, restarts>>

\* Mutant: the setter trusts the metadata in memory.
ReadFile_Skipped(w) ==
    /\ step[w] = "reload"
    /\ Proceed(w, "mutate")
    /\ UNCHANGED <<file, mem, read, out, overtaken, done, history, restarts>>

\* _reload_from_disk() reads the file ...
ReadFile(w) ==
    /\ step[w] = "reload"
    /\ read' = [read EXCEPT ![w] = file]
    /\ Proceed(w, "assign")
    /\ UNCHANGED <<file, mem, out, overtaken, done, history, restarts>>

\* ... and assigns self.metadata, or keeps it if the file is not JSON.
Assign(w) ==
    /\ step[w] = "assign"
    /\ mem' = IF read[w] = Unparsed THEN mem ELSE [mem EXCEPT ![StoreOf[w]] = read[w]]
    /\ read' = [read EXCEPT ![w] = Blank]
    /\ Proceed(w, "mutate")
    /\ UNCHANGED <<file, out, overtaken, done, history, restarts>>

\* self.metadata[field] = value
Mutate(w) ==
    /\ step[w] = "mutate"
    /\ mem' = [mem EXCEPT ![StoreOf[w]] = [@ EXCEPT ![w] = done[w] + 1]]
    /\ Proceed(w, "serialize")
    /\ UNCHANGED <<file, read, out, overtaken, done, history, restarts>>

\* json.dumps(self.metadata)
Serialize(w) ==
    /\ step[w] = "serialize"
    /\ out' = [out EXCEPT ![w] = mem[StoreOf[w]]]
    /\ Proceed(w, "publish")
    /\ UNCHANGED <<file, mem, read, overtaken, done, history, restarts>>

\* The other writes in progress; they have the same temporary file.
Rivals(w) == {v \in Setters \ {w} : step[v] = "publish"}

\* atomic_write_text(): the rename replaces the whole file, by what w wrote or
\* by what its rivals made of it, and takes the temporary file from them.
Publish(w) ==
    /\ step[w] = "publish"
    /\ file' \in {out[v] : v \in Rivals(w) \cup {w}}
                 \cup (IF Rivals(w) = {} THEN {} ELSE {Unparsed})
    /\ overtaken' = (overtaken \cup Rivals(w)) \ {w}
    /\ done' = [done EXCEPT ![w] = @ + 1]
    /\ overlapped' = overlapped \ {w}
    /\ exposed' = IF w \in overlapped THEN exposed ELSE exposed \ {w}
    /\ out' = [out EXCEPT ![w] = Blank]
    /\ Proceed(w, "idle")
    /\ UNCHANGED <<mem, read, restarts>>

\* A writer that was overtaken goes on writing to what is now the file.
Spill(w) ==
    /\ step[w] = "publish" /\ w \in overtaken
    /\ file' \in {out[w], Unparsed}
    /\ UNCHANGED <<mem, step, read, out, overtaken, done, history, restarts>>

\* os.replace() raises: the temporary file is gone or, on Windows, open.
PublishFails(w) ==
    /\ step[w] = "publish" /\ (w \in overtaken \/ Rivals(w) # {})
    /\ overtaken' = overtaken \ {w}
    /\ overlapped' = overlapped \ {w}
    /\ out' = [out EXCEPT ![w] = Blank]
    /\ Proceed(w, "idle")
    /\ UNCHANGED <<file, mem, read, done, exposed, restarts>>

\* The engine dies; the next one loads the file, if it can.
Crash ==
    /\ restarts < MaxRestarts
    /\ restarts' = restarts + 1
    /\ step' = [w \in Setters |-> "idle"]
    /\ mem' = [s \in Stores |-> file]
    /\ read' = [w \in Setters |-> Blank] /\ out' = [w \in Setters |-> Blank]
    /\ overtaken' = {} /\ overlapped' = {}
    /\ UNCHANGED <<file, done, exposed>>

Step(w) ==
    \/ Begin(w) \/ ReadFile(w) \/ Assign(w) \/ Mutate(w)
    \/ Serialize(w) \/ Publish(w) \/ Spill(w) \/ PublishFails(w)

StoreNext ==
    \/ \E w \in Setters : Step(w)
    \/ \E s \in Stores : Load(s)
    \/ Crash

StoreSpec == StoreInit /\ [][StoreNext]_storeVars

-----------------------------------------------------------------------------
(* Properties                                                              *)

\* Every variable keeps its type; a setter under way has a store.
StoreTypeOK ==
    /\ file \in Metadata \cup {Unparsed}
    /\ mem \in [Stores -> Metadata \cup {Unparsed}]
    /\ step \in [Setters -> {"idle", "reload", "assign", "mutate", "serialize", "publish"}]
    /\ \A w \in Underway : mem[StoreOf[w]] \in Metadata
    /\ read \in [Setters -> Metadata \cup {Unparsed}]
    /\ out \in [Setters -> Metadata]
    /\ overtaken \subseteq Setters
    /\ done \in Metadata
    /\ overlapped \subseteq Setters /\ exposed \subseteq Setters
    /\ restarts \in Nat

\* m has what the setter of field w wrote last, or a later update of its.
Keeps(m, w) == w \in DOMAIN m /\ m[w] >= done[w]

\* meeting_store.py:99-105: "no update is ever lost regardless of how many
\* MeetingStore objects reference the same meeting".
NoLostUpdate == \A w \in Setters : Keeps(file, w)

\* An update that overlapped no other is in the file from then on, through
\* updates of other stores, crashes and files that were spoilt before, until
\* two updates overlap again: the reload makes any number of store objects
\* agree, but does not order their threads.
LostOnlyInOverlap == \A w \in Setters \ exposed : Keeps(file, w)
=============================================================================
