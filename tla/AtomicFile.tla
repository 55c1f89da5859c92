----------------------------- MODULE AtomicFile -----------------------------
(***************************************************************************)
(* atomic_write_text of engine/storage/atomic.py on one file: write a      *)
(* temporary file of a fixed name, fsync it, rename it over the target.    *)
(* The file system is modelled as far as that protocol needs it: names     *)
(* refer to inodes, an open handle keeps its inode, written data is        *)
(* volatile until fsync, and a recent rename may be lost with the power.   *)
(***************************************************************************)
EXTENDS Naturals

CONSTANTS
    Writers,       \* threads that write the file
    Overlap,       \* TRUE: two writes may overlap
    ClosedReplace, \* TRUE (Windows): a file that is open cannot be renamed
    MaxVersions,   \* bound on the versions written
    MaxCrashes     \* bound on crashes

ASSUME AtomicFileAssumption ==
    /\ Overlap \in BOOLEAN /\ ClosedReplace \in BOOLEAN
    /\ MaxVersions \in Nat \ {0} /\ MaxCrashes \in Nat

\* What a read returns: a complete version, nothing, or a part or a mix of
\* versions.
Complete == 1 .. MaxVersions
Empty == 0
Mixed == MaxVersions + 1
Contents == Complete \cup {Empty, Mixed}

\* At most one inode is allocated for each version written.
Inodes == 1 .. MaxVersions
NoInode == 0

VARIABLES
    target,    \* the inode that the name of the file refers to
    saved,     \* the inode it refers to on stable storage
    tmp,       \* the inode of the ".tmp" name, NoInode without one
    content,   \* content[i]: what a read of inode i returns
    durable,   \* durable[i]: what a power failure leaves of it
    at,        \* at[w]: idle, open, writing, written, synced or closed
    handle,    \* handle[w]: the inode that w has open
    version,   \* version[w]: the version that w is writing
    contended, \* writers whose inode was open twice while they wrote
    versions,  \* versions so far
    crashes

names == <<target, saved, tmp>>
data == <<content, durable>>
counts == <<versions, crashes>>
vars == <<names, data, at, handle, version, contended, counts>>

\* The file exists, in version 1.
Init ==
    /\ target = 1 /\ saved = 1 /\ tmp = NoInode
    /\ content = [i \in Inodes |-> IF i = 1 THEN 1 ELSE Empty]
    /\ durable = content
    /\ at = [w \in Writers |-> "idle"]
    /\ handle = [w \in Writers |-> NoInode]
    /\ version = [w \in Writers |-> 1]
    /\ contended = {}
    /\ versions = 1 /\ crashes = 0

Goto(w, place) == at' = [at EXCEPT ![w] = place]

\* open(tmp_path, "w"): a leftover or shared temporary file is truncated, not
\* replaced by a fresh one.
Open(w) ==
    LET i == IF tmp = NoInode THEN versions + 1 ELSE tmp
        others == {v \in Writers : handle[v] = i}
    IN  /\ at[w] = "idle" /\ versions < MaxVersions
        /\ Overlap \/ \A v \in Writers : at[v] = "idle"
        /\ versions' = versions + 1
        /\ version' = [version EXCEPT ![w] = versions + 1]
        /\ tmp' = i
        /\ handle' = [handle EXCEPT ![w] = i]
        /\ content' = [content EXCEPT ![i] = Empty]
        /\ contended' = IF others = {} THEN contended \ {w}
                        ELSE contended \cup others \cup {w}
        /\ Goto(w, "open")
        /\ UNCHANGED <<target, saved, durable, crashes>>

\* f.write() and f.flush() reach the file in pieces: at first some of it ...
WriteSome(w) ==
    /\ at[w] = "open"
    /\ content' = [content EXCEPT ![handle[w]] = Mixed]
    /\ Goto(w, "writing")
    /\ UNCHANGED <<names, durable, handle, version, contended, counts>>

\* ... then all of it; over or under another writer's data the result may be
\* a mix.
WriteRest(w) ==
    /\ at[w] = "writing"
    /\ \E result \in {version[w], Mixed} :
         /\ result = Mixed => w \in contended
         /\ content' = [content EXCEPT ![handle[w]] = result]
    /\ Goto(w, "written")
    /\ UNCHANGED <<names, durable, handle, version, contended, counts>>

\* Mutant: the write is flushed but not fsynced.
Fsync_Skipped(w) ==
    /\ at[w] = "written"
    /\ Goto(w, "synced")
    /\ UNCHANGED <<names, data, handle, version, contended, counts>>

\* os.fsync()
Fsync(w) ==
    /\ at[w] = "written"
    /\ durable' = [durable EXCEPT ![handle[w]] = content[handle[w]]]
    /\ Goto(w, "synced")
    /\ UNCHANGED <<names, content, handle, version, contended, counts>>

\* The end of the "with" block.
Close(w) ==
    /\ at[w] = "synced"
    /\ handle' = [handle EXCEPT ![w] = NoInode]
    /\ Goto(w, "closed")
    /\ UNCHANGED <<names, data, version, contended, counts>>

\* os.replace() raises FileNotFoundError when another writer renamed the
\* temporary file away, PermissionError while it is open (Windows).
ReplaceFails == tmp = NoInode \/ (ClosedReplace /\ \E v \in Writers : handle[v] = tmp)

\* os.replace(tmp_path, path)
Replace(w) ==
    /\ at[w] = "closed"
    /\ IF ReplaceFails
       THEN UNCHANGED <<target, tmp>>
       ELSE target' = tmp /\ tmp' = NoInode
    /\ Goto(w, "idle")
    /\ UNCHANGED <<saved, data, handle, version, contended, counts>>

\* The file system gets round to writing its directory.
SaveDirectory ==
    /\ saved # target
    /\ saved' = target
    /\ UNCHANGED <<target, tmp, data, at, handle, version, contended, counts>>

Halt ==
    /\ crashes < MaxCrashes
    /\ crashes' = crashes + 1
    /\ at' = [w \in Writers |-> "idle"]
    /\ handle' = [w \in Writers |-> NoInode]
    /\ contended' = {}
    /\ UNCHANGED <<version, versions>>

\* The process is killed: what it wrote survives in the system's caches, and
\* so does the temporary file.
Kill == Halt /\ UNCHANGED <<names, data>>

\* The power fails: what was not synced is gone, and the last rename may be.
PowerLoss ==
    /\ Halt
    /\ target' \in {target, saved}
    /\ saved' = target'
    /\ tmp' \in {tmp, NoInode}
    /\ content' = durable
    /\ UNCHANGED durable

Next ==
    \/ \E w \in Writers :
         \/ Open(w) \/ WriteSome(w) \/ WriteRest(w)
         \/ Fsync(w) \/ Close(w) \/ Replace(w)
    \/ SaveDirectory \/ Kill \/ PowerLoss

Spec == Init /\ [][Next]_vars

-----------------------------------------------------------------------------
(* Properties                                                              *)

\* Every variable keeps its type.
TypeOK ==
    /\ target \in Inodes /\ saved \in Inodes
    /\ tmp \in Inodes \cup {NoInode}
    /\ content \in [Inodes -> Contents] /\ durable \in [Inodes -> Contents]
    /\ at \in [Writers -> {"idle", "open", "writing", "written", "synced", "closed"}]
    /\ handle \in [Writers -> Inodes \cup {NoInode}]
    /\ version \in [Writers -> Complete]
    /\ contended \subseteq Writers
    /\ versions \in Complete
    /\ crashes \in 0 .. MaxCrashes

\* atomic.py:3-8: the file on disk is always a complete version, never
\* truncated or mixed, for a reader at any moment, and a power failure at any
\* moment leaves a complete version too.
AlwaysComplete ==
    /\ content[target] \in Complete
    /\ durable[target] \in Complete
    /\ durable[saved] \in Complete
=============================================================================
