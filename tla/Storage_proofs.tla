--------------------------- MODULE Storage_proofs ---------------------------
(***************************************************************************)
(* The files of a meeting: what the write, fsync and rename protocol of    *)
(* atomic_write_text achieves for one file, and what the reload in every   *)
(* setter of MeetingStore achieves for the metadata in it.                 *)
(***************************************************************************)
EXTENDS AtomicFile, MetadataStore, TLAPS

-----------------------------------------------------------------------------
(* AtomicFile: the file is complete through any number of crashes and power *)
(* failures, as long as no two writes of it overlap.                        *)

Alone == \A w, v \in Writers : at[w] # "idle" /\ at[v] # "idle" => w = v

\* The temporary file is never the file that a reader or a restart sees, and
\* a fresh inode is none of them.
Apart ==
    /\ tmp # target /\ tmp # saved
    /\ target <= versions /\ saved <= versions /\ tmp <= versions

\* What the protocol has established at each place.
Progress(w) ==
    /\ at[w] \in {"idle", "closed"} <=> handle[w] = NoInode
    /\ at[w] # "idle" => tmp # NoInode
    /\ handle[w] # NoInode => handle[w] = tmp
    /\ at[w] \in {"written", "synced", "closed"} => content[tmp] \in Complete
    /\ at[w] \in {"synced", "closed"} => durable[tmp] \in Complete

IInv ==
    /\ TypeOK
    /\ Alone
    /\ contended = {}
    /\ Apart
    /\ \A w \in Writers : Progress(w)
    /\ AlwaysComplete

LEMMA Sets ==
    /\ Complete = Inodes /\ NoInode \notin Inodes
    /\ Complete \subseteq Contents /\ Empty \in Contents /\ Mixed \in Contents
    /\ 1 \in Complete
  BY AtomicFileAssumption DEF Complete, Inodes, NoInode, Contents

LEMMA InitIInv == Init => IInv
  <1> SUFFICES ASSUME Init PROVE IInv
    OBVIOUS
  <1>1. TypeOK
    BY Sets, AtomicFileAssumption DEF Init, TypeOK
  <1>2. AlwaysComplete /\ Alone /\ contended = {}
    BY Sets DEF Init, AlwaysComplete, Alone
  <1>3. Apart /\ \A w \in Writers : Progress(w)
    BY DEF Init, Apart, Progress, NoInode
  <1> QED
    BY <1>1, <1>2, <1>3 DEF IInv

\* A new or leftover temporary file.
LEMMA OpenIInv ==
    ASSUME Overlap = FALSE, IInv, NEW w \in Writers, Open(w)
    PROVE  IInv'
  <1> DEFINE i == IF tmp = NoInode THEN versions + 1 ELSE tmp
  <1>1. /\ versions \in Nat /\ versions + 1 \in Complete /\ i \in Inodes
        /\ i # target /\ i # saved /\ i <= versions + 1
    BY AtomicFileAssumption
    DEF IInv, TypeOK, Apart, Open, Complete, Inodes, NoInode
  <1>2. \A v \in Writers : at[v] = "idle" /\ handle[v] = NoInode
    BY DEF Open, IInv, Progress
  <1>3. {v \in Writers : handle[v] = i} = {}
    BY <1>1, <1>2, Sets
  <1> HIDE DEF i
  <1>4. /\ at' = [at EXCEPT ![w] = "open"] /\ handle' = [handle EXCEPT ![w] = i]
        /\ tmp' = i /\ content' = [content EXCEPT ![i] = Empty]
        /\ versions' = versions + 1 /\ version' = [version EXCEPT ![w] = versions + 1]
        /\ contended' = {} /\ UNCHANGED <<target, saved, durable, crashes>>
    BY <1>3 DEF Open, Goto, IInv, i
  <1>5. TypeOK'
    BY <1>1, <1>4, Sets DEF IInv, TypeOK
  <1>6. Alone' /\ \A v \in Writers : Progress(v)'
    BY <1>1, <1>2, <1>4, Sets DEF Alone, Progress, IInv, TypeOK
  <1>7. Apart'
    BY <1>1, <1>4 DEF Apart, IInv, TypeOK, Inodes
  <1>8. AlwaysComplete'
    BY <1>1, <1>4 DEF AlwaysComplete, IInv, TypeOK
  <1> QED
    BY <1>4, <1>5, <1>6, <1>7, <1>8 DEF IInv

LEMMA WriteIInv ==
    ASSUME IInv, NEW w \in Writers,
           WriteSome(w) \/ WriteRest(w) \/ Fsync(w) \/ Close(w)
    PROVE  IInv'
  <1> USE DEF WriteSome, WriteRest, Fsync, Close, Goto, names, data, counts
  <1>1. /\ tmp \in Inodes /\ tmp # target /\ tmp # saved /\ handle[w] = tmp
        /\ \A v \in Writers \ {w} : at[v] = "idle" /\ handle[v] = NoInode
        /\ version[w] \in Complete
    BY Sets DEF IInv, TypeOK, Alone, Progress, Apart
  <1>2. CASE WriteSome(w)
    BY <1>1, <1>2, Sets DEF IInv, TypeOK, Alone, Progress, Apart, AlwaysComplete
  <1>3. CASE WriteRest(w)
    <2>1. content' = [content EXCEPT ![tmp] = version[w]]
      <3>1. PICK result \in {version[w], Mixed} :
              /\ result = Mixed => w \in contended
              /\ content' = [content EXCEPT ![handle[w]] = result]
        BY <1>3
      <3>2. w \notin contended
        BY DEF IInv
      <3> QED
        BY <1>1, <3>1, <3>2
    <2>2. /\ at' = [at EXCEPT ![w] = "written"] /\ at[w] = "writing"
          /\ UNCHANGED <<target, saved, tmp, durable, handle, version, contended, versions, crashes>>
      BY <1>3
    <2> HIDE DEF WriteSome, WriteRest, Fsync, Close
    <2>3. TypeOK' /\ Alone' /\ Apart' /\ AlwaysComplete'
      BY <1>1, <2>1, <2>2, Sets DEF IInv, TypeOK, Alone, Apart, AlwaysComplete
    <2>4. \A v \in Writers : Progress(v)'
      BY <1>1, <2>1, <2>2, Sets DEF IInv, TypeOK, Progress
    <2> QED
      BY <2>2, <2>3, <2>4 DEF IInv
  <1>4. CASE Fsync(w)
    BY <1>1, <1>4, Sets DEF IInv, TypeOK, Alone, Progress, Apart, AlwaysComplete
  <1>5. CASE Close(w)
    BY <1>1, <1>5, Sets DEF IInv, TypeOK, Alone, Progress, Apart, AlwaysComplete
  <1> QED
    BY <1>2, <1>3, <1>4, <1>5

\* The rename puts a file in place that is complete and synced.
LEMMA ReplaceIInv ==
    ASSUME IInv, NEW w \in Writers, Replace(w)
    PROVE  IInv'
  <1> USE DEF Replace, Goto, data, counts
  <1>1. /\ tmp \in Inodes /\ content[tmp] \in Complete /\ durable[tmp] \in Complete
        /\ \A v \in Writers : handle[v] = NoInode
        /\ \A v \in Writers \ {w} : at[v] = "idle"
    BY Sets DEF IInv, TypeOK, Alone, Progress
  <1>2. target' = tmp /\ tmp' = NoInode
    BY <1>1, Sets DEF ReplaceFails
  <1>3. at' = [at EXCEPT ![w] = "idle"] /\ UNCHANGED <<saved, content, durable, handle, version, contended, versions, crashes>>
    OBVIOUS
  <1> HIDE DEF Replace
  <1>4. TypeOK' /\ Alone' /\ AlwaysComplete'
    BY <1>1, <1>2, <1>3 DEF IInv, TypeOK, Alone, AlwaysComplete
  <1>5. Apart'
    BY <1>1, <1>2, <1>3, Sets DEF IInv, TypeOK, Apart, NoInode, Inodes, Complete
  <1>6. \A v \in Writers : Progress(v)'
    BY <1>1, <1>3 DEF IInv, TypeOK, Progress
  <1> QED
    BY <1>3, <1>4, <1>5, <1>6 DEF IInv

LEMMA SystemIInv ==
    ASSUME IInv, SaveDirectory \/ Kill \/ PowerLoss \/ UNCHANGED vars
    PROVE  IInv'
  <1>1. CASE SaveDirectory
    BY <1>1 DEF SaveDirectory, data, counts, IInv, TypeOK, Alone, Progress, Apart, AlwaysComplete
  <1>2. CASE Kill
    BY <1>2, AtomicFileAssumption
    DEF Kill, Halt, names, data, IInv, TypeOK, Alone, Progress, Apart, AlwaysComplete
  <1>3. CASE PowerLoss
    <2>1. /\ target' \in {target, saved} /\ saved' = target' /\ tmp' \in {tmp, NoInode}
          /\ content' = durable /\ durable' = durable /\ versions' = versions
          /\ at' = [v \in Writers |-> "idle"] /\ handle' = [v \in Writers |-> NoInode]
          /\ contended' = {} /\ version' = version /\ crashes' \in 0 .. MaxCrashes
      BY <1>3, AtomicFileAssumption DEF PowerLoss, Halt, IInv, TypeOK
    <2>2. TypeOK'
      BY <2>1 DEF IInv, TypeOK
    <2>3. AlwaysComplete' /\ Alone' /\ \A v \in Writers : Progress(v)'
      BY <2>1 DEF IInv, AlwaysComplete, Alone, Progress
    <2>4. Apart'
      BY <2>1, Sets DEF IInv, TypeOK, Apart, NoInode, Complete, Inodes
    <2> QED
      BY <2>1, <2>2, <2>3, <2>4 DEF IInv
  <1>4. CASE UNCHANGED vars
    BY <1>4 DEF vars, names, data, counts, IInv, TypeOK, Alone, Progress, Apart, AlwaysComplete
  <1> QED
    BY <1>1, <1>2, <1>3, <1>4

\* Writes that do not overlap leave a complete file behind at every moment and
\* after every kind of crash: fsync before rename is what it takes.
THEOREM FileAlwaysComplete ==
    ASSUME Overlap = FALSE
    PROVE  Spec => []AlwaysComplete
  <1>1. IInv /\ [Next]_vars => IInv'
    BY OpenIInv, WriteIInv, ReplaceIInv, SystemIInv DEF Next
  <1>2. IInv => AlwaysComplete
    BY DEF IInv
  <1> QED
    BY InitIInv, <1>1, <1>2, PTL DEF Spec

-----------------------------------------------------------------------------
(* MetadataStore: an update that overlaps no other is kept until two do,    *)
(* for any number of setters and of store objects.                          *)

\* m has the last update of every field that is not exposed.
UpToDate(m) == \A w \in Setters \ exposed : Keeps(m, w)

\* An update that overlaps no other is alone; those that do expose all fields.
Overlaps ==
    /\ \A w, v \in Underway : w \in overlapped \/ w = v
    /\ overlapped \subseteq Underway /\ overtaken \subseteq overlapped
    /\ overlapped # {} => exposed = Setters

\* What a setter that is alone relies on: what it read, what its store holds
\* and what it serialized are as good as the file, with its own update or not.
Current(w) ==
    /\ step[w] = "assign" => UpToDate(read[w])
    /\ step[w] \in {"mutate", "serialize"} => UpToDate(mem[StoreOf[w]])
    /\ step[w] = "serialize" => mem[StoreOf[w]][w] = done[w] + 1
    /\ step[w] = "publish" => UpToDate(out[w]) /\ out[w][w] = done[w] + 1

SInv ==
    /\ StoreTypeOK
    /\ UpToDate(file)
    /\ Overlaps
    /\ \A w \in Underway \ overlapped : Current(w)

LEMMA StoreFacts ==
    ASSUME StoreTypeOK
    PROVE  /\ Blank \in Metadata
           /\ \A w \in Setters : StoreOf[w] \in Stores
           /\ \A m \in Metadata : DOMAIN m = Setters /\ \A w \in Setters : m[w] \in Nat
           /\ \A w \in Setters : Unparsed \notin Metadata /\ w \notin DOMAIN Unparsed
  <1>1. \A m \in Metadata : DOMAIN m = Setters /\ \A w \in Setters : m[w] \in Nat
    BY DEF Metadata
  <1>2. DOMAIN Unparsed = {}
    BY DEF Unparsed
  <1>3. Blank \in Metadata
    BY DEF Blank, Metadata
  <1> QED
    BY <1>1, <1>2, <1>3, MetadataAssumption

LEMMA InitSInv == StoreInit => SInv
  <1> SUFFICES ASSUME StoreInit PROVE SInv
    OBVIOUS
  <1>1. Blank \in Metadata /\ \A w \in Setters : w \in DOMAIN Blank /\ Blank[w] = 0
    BY DEF Blank, Metadata
  <1>2. Underway = {}
    BY DEF StoreInit, Underway
  <1>3. StoreTypeOK
    BY <1>1, <1>2 DEF StoreInit, StoreTypeOK
  <1>4. UpToDate(file)
    BY <1>1 DEF StoreInit, UpToDate, Keeps
  <1> QED
    BY <1>2, <1>3, <1>4 DEF SInv, StoreInit, Overlaps

\* While updates overlap, nothing but the types is claimed.
LEMMA ExposedSInv ==
    ASSUME StoreTypeOK', Overlaps', overlapped' = Underway', exposed' = Setters
    PROVE  SInv'
  BY DEF SInv, UpToDate

\* The types and the bookkeeping of the steps that are neither the first nor
\* the last of an update.
LEMMA MiddleStep ==
    ASSUME SInv, NEW w \in Setters, NEW place \in {"assign", "mutate", "serialize", "publish"},
           step[w] # "idle", step' = [step EXCEPT ![w] = place], UNCHANGED <<done, overtaken, history>>
    PROVE  /\ Underway' = Underway /\ w \in Underway /\ Overlaps'
           /\ \A v \in Setters : step'[v] = IF v = w THEN place ELSE step[v]
           /\ w \notin overlapped => Underway = {w}
           /\ w \in overlapped => exposed = Setters /\ Underway = overlapped
  <1>1. \A v \in Setters : step'[v] = IF v = w THEN place ELSE step[v]
    BY DEF SInv, StoreTypeOK
  <1>2. Underway' = Underway /\ w \in Underway
    BY <1>1 DEF Underway
  <1> QED
    BY <1>1, <1>2 DEF SInv, Overlaps, Underway, history

LEMMA MiddleSInv ==
    ASSUME SInv, NEW w \in Setters, ReadFile(w) \/ Assign(w) \/ Mutate(w) \/ Serialize(w)
    PROVE  SInv'
  <1>0. /\ StoreTypeOK /\ UpToDate(file) /\ Overlaps
        /\ (w \in Underway \ overlapped => Current(w))
    BY DEF SInv
  <1> DEFINE m == mem[StoreOf[w]]
  <1>a. step[w] # "idle" => m \in Metadata /\ StoreOf[w] \in Stores
    BY <1>0, StoreFacts DEF StoreTypeOK, Underway
  <1>b. /\ mem \in [Stores -> Metadata \cup {Unparsed}] /\ file \in Metadata \cup {Unparsed}
        /\ read \in [Setters -> Metadata \cup {Unparsed}] /\ out \in [Setters -> Metadata]
        /\ done \in Metadata /\ Blank \in Metadata
    BY <1>0, StoreFacts DEF StoreTypeOK
  \* It remains to be shown that the store keeps its metadata, and that an
  \* update that is alone keeps what it relies on.
  <1>c. ASSUME NEW place \in {"assign", "mutate", "serialize", "publish"},
               step[w] # "idle", Proceed(w, place),
               UNCHANGED <<file, done, overtaken, history, restarts>>,
               mem' \in [Stores -> Metadata \cup {Unparsed}],
               \A v \in Underway : mem'[StoreOf[v]] \in Metadata,
               read' \in [Setters -> Metadata \cup {Unparsed}], out' \in [Setters -> Metadata],
               w \notin overlapped => Current(w)'
        PROVE  SInv'
    <2>1. /\ Underway' = Underway /\ w \in Underway /\ Overlaps'
          /\ \A v \in Setters : step'[v] = IF v = w THEN place ELSE step[v]
          /\ w \notin overlapped => Underway = {w}
          /\ w \in overlapped => exposed = Setters /\ Underway = overlapped
      BY <1>c, MiddleStep DEF Proceed
    <2>2. StoreTypeOK'
      BY <1>0, <1>c, <2>1 DEF StoreTypeOK, history, Proceed
    <2>3. UpToDate(file)'
      BY <1>0, <1>c DEF UpToDate, Keeps, history
    <2>4. \A v \in Underway' \ overlapped' : Current(v)'
      BY <1>c, <2>1 DEF history
    <2> QED
      BY <2>1, <2>2, <2>3, <2>4 DEF SInv
  <1>d. step[w] # "idle" /\ w \notin overlapped => Current(w)
    BY <1>0 DEF Underway
  <1>e. \A v \in Underway : mem[StoreOf[v]] \in Metadata
    BY <1>0 DEF StoreTypeOK
  <1>1. CASE ReadFile(w)
    <2>1. /\ step[w] = "reload" /\ step'[w] = "assign" /\ Proceed(w, "assign")
          /\ read' = [read EXCEPT ![w] = file]
          /\ UNCHANGED <<file, mem, out, overtaken, done, history, restarts>>
      BY <1>0, <1>1 DEF ReadFile, Proceed, StoreTypeOK
    <2>2. read'[w] = file /\ read' \in [Setters -> Metadata \cup {Unparsed}]
      BY <1>b, <2>1
    <2>3. Current(w)'
      BY <1>0, <2>1, <2>2 DEF Current, UpToDate, Keeps, history
    <2> QED
      BY <1>b, <1>c, <1>e, <2>1, <2>2, <2>3
  <1>2. CASE Assign(w)
    <2>1. /\ step[w] = "assign" /\ step'[w] = "mutate" /\ Proceed(w, "mutate")
          /\ mem' = IF read[w] = Unparsed THEN mem ELSE [mem EXCEPT ![StoreOf[w]] = read[w]]
          /\ read' = [read EXCEPT ![w] = Blank]
          /\ UNCHANGED <<file, out, overtaken, done, history, restarts>>
      BY <1>0, <1>2 DEF Assign, Proceed, StoreTypeOK
    <2>2. read[w] \in Metadata \/ read[w] = Unparsed
      BY <1>b
    <2>3. /\ mem' \in [Stores -> Metadata \cup {Unparsed}] /\ read' \in [Setters -> Metadata \cup {Unparsed}]
          /\ \A v \in Underway : mem'[StoreOf[v]] \in Metadata
      BY <1>a, <1>b, <1>e, <2>1, <2>2
    <2>4. ASSUME w \notin overlapped PROVE UpToDate(mem[StoreOf[w]])'
      <3>1. UpToDate(read[w])
        BY <1>d, <2>1, <2>4 DEF Current
      <3>2. CASE read[w] = Unparsed
        <4>1. Setters \ exposed = {}
          BY <1>0, <3>1, <3>2, StoreFacts DEF UpToDate, Keeps
        <4> QED
          BY <2>1, <4>1 DEF UpToDate, history
      <3>3. CASE read[w] # Unparsed
        <4>1. mem'[StoreOf[w]] = read[w]
          BY <1>a, <1>b, <2>1, <3>3
        <4> QED
          BY <2>1, <3>1, <4>1 DEF UpToDate, Keeps, history
      <3> QED
        BY <3>2, <3>3
    <2>5. w \notin overlapped => Current(w)'
      BY <2>1, <2>4 DEF Current
    <2> QED
      BY <1>b, <1>c, <2>1, <2>3, <2>5
  <1>3. CASE Mutate(w)
    <2>1. /\ step[w] = "mutate" /\ step'[w] = "serialize" /\ Proceed(w, "serialize")
          /\ mem' = [mem EXCEPT ![StoreOf[w]] = [m EXCEPT ![w] = done[w] + 1]]
          /\ UNCHANGED <<file, read, out, overtaken, done, history, restarts>>
      BY <1>0, <1>3 DEF Mutate, Proceed, StoreTypeOK
    <2> DEFINE n == [m EXCEPT ![w] = done[w] + 1]
    <2>2. n \in Metadata /\ n[w] = done[w] + 1 /\ \A v \in Setters \ {w} : n[v] = m[v]
      BY <1>a, <1>b, <2>1 DEF Metadata
    <2>3. mem' = [mem EXCEPT ![StoreOf[w]] = n]
      BY <2>1
    <2> HIDE DEF n
    <2>4. /\ mem' \in [Stores -> Metadata \cup {Unparsed}] /\ mem'[StoreOf[w]] = n
          /\ \A v \in Underway : mem'[StoreOf[v]] \in Metadata
      BY <1>a, <1>b, <1>e, <2>1, <2>2, <2>3
    <2>5. ASSUME w \notin overlapped PROVE UpToDate(n)
      <3>1. UpToDate(m)
        BY <1>d, <2>1, <2>5 DEF Current
      <3> QED
        BY <1>0, <1>a, <1>b, <2>1, <2>2, <3>1, StoreFacts DEF UpToDate, Keeps
    <2>6. w \notin overlapped => Current(w)'
      BY <2>1, <2>2, <2>4, <2>5 DEF Current, UpToDate, Keeps, history
    <2> QED
      BY <1>b, <1>c, <2>1, <2>4, <2>6
  <1>4. CASE Serialize(w)
    <2>1. /\ step[w] = "serialize" /\ step'[w] = "publish" /\ Proceed(w, "publish")
          /\ out' = [out EXCEPT ![w] = m]
          /\ UNCHANGED <<file, mem, read, overtaken, done, history, restarts>>
      BY <1>0, <1>4 DEF Serialize, Proceed, StoreTypeOK
    <2>2. out'[w] = m /\ out' \in [Setters -> Metadata]
      BY <1>a, <1>b, <2>1
    <2>3. w \notin overlapped => Current(w)'
      BY <1>d, <2>1, <2>2 DEF Current, UpToDate, Keeps, history
    <2> QED
      BY <1>b, <1>c, <1>e, <2>1, <2>2, <2>3
  <1> QED
    BY <1>1, <1>2, <1>3, <1>4

\* A setter that is called while others are under way exposes all fields.
LEMMA BeginSInv ==
    ASSUME SInv, NEW w \in Setters, Begin(w)
    PROVE  SInv'
  <1>1. /\ StoreTypeOK /\ UpToDate(file) /\ Overlaps /\ mem[StoreOf[w]] # Unparsed
        /\ UNCHANGED <<file, mem, read, out, overtaken, done, restarts>>
    BY DEF SInv, Begin
  <1>2. \A v \in Setters : step'[v] = IF v = w THEN "reload" ELSE step[v]
    BY <1>1 DEF Begin, Proceed, StoreTypeOK
  <1>3. Underway' = Underway \cup {w}
    BY <1>2 DEF Underway
  <1>4. mem[StoreOf[w]] \in Metadata
    BY <1>1, StoreFacts DEF StoreTypeOK
  <1>5. step' \in [Setters -> {"idle", "reload", "assign", "mutate", "serialize", "publish"}]
    BY <1>1 DEF Begin, Proceed, StoreTypeOK
  <1>6. CASE Underway = {}
    <2>1. overlapped' = overlapped /\ exposed' = exposed
      BY <1>6 DEF Begin, history
    <2>2. StoreTypeOK'
      BY <1>1, <1>3, <1>4, <1>5, <1>6, <2>1 DEF StoreTypeOK
    <2>3. Overlaps'
      BY <1>1, <1>3, <1>6, <2>1 DEF Overlaps
    <2>4. UpToDate(file)' /\ Current(w)'
      BY <1>1, <1>2, <2>1 DEF UpToDate, Keeps, Current
    <2> QED
      BY <1>3, <1>6, <2>2, <2>3, <2>4 DEF SInv
  <1>7. CASE Underway # {}
    <2>1. overlapped' = Underway' /\ exposed' = Setters
      BY <1>3, <1>7 DEF Begin
    <2>2. overlapped' \subseteq Setters
      BY <2>1 DEF Underway
    <2>3. StoreTypeOK'
      BY <1>1, <1>3, <1>4, <1>5, <2>1, <2>2 DEF StoreTypeOK
    <2>4. Overlaps'
      BY <1>1, <1>3, <2>1 DEF Overlaps
    <2> QED
      BY <2>1, <2>3, <2>4, ExposedSInv
  <1> QED
    BY <1>6, <1>7

\* The end of an update, whether its file was put in place or not.
LEMMA EndSInv ==
    ASSUME SInv, NEW w \in Setters, Publish(w) \/ PublishFails(w)
    PROVE  SInv'
  <1>1. /\ StoreTypeOK /\ UpToDate(file) /\ Overlaps /\ step[w] = "publish" /\ w \in Underway
        /\ UNCHANGED <<mem, read, restarts>> /\ overlapped' = overlapped \ {w}
        /\ out' = [out EXCEPT ![w] = Blank]
    BY DEF SInv, Publish, PublishFails, Underway
  <1>2. \A v \in Setters : step'[v] = IF v = w THEN "idle" ELSE step[v]
    BY <1>1 DEF Publish, PublishFails, Proceed, StoreTypeOK
  <1>3. Underway' = Underway \ {w}
    BY <1>2 DEF Underway
  <1>4. done \in Metadata /\ out \in [Setters -> Metadata] /\ w \in Setters
        /\ \A v \in Setters : out[v] \in Metadata /\ done[v] \in Nat
    BY <1>1, StoreFacts DEF StoreTypeOK
  <1>5. done' \in Metadata /\ \A v \in Setters \ {w} : done'[v] = done[v]
    BY <1>4 DEF Publish, PublishFails, Metadata
  <1>6. file' \in Metadata \cup {Unparsed}
    BY <1>1, <1>4 DEF Publish, PublishFails, StoreTypeOK, Rivals
  <1>7. /\ step' \in [Setters -> {"idle", "reload", "assign", "mutate", "serialize", "publish"}]
        /\ out' \in [Setters -> Metadata] /\ overtaken' \subseteq Setters
    BY <1>1, <1>4, StoreFacts DEF Publish, PublishFails, Proceed, StoreTypeOK, Rivals
  <1>8. exposed' \subseteq Setters /\ overlapped' \subseteq Setters
    BY <1>1 DEF Publish, PublishFails, StoreTypeOK
  <1>9. StoreTypeOK'
    BY <1>1, <1>3, <1>5, <1>6, <1>7, <1>8 DEF StoreTypeOK
  <1>10. CASE w \in overlapped
    <2>1. exposed' = Setters
      BY <1>1, <1>10 DEF Publish, PublishFails, Overlaps
    <2>2. overlapped = Underway
      BY <1>1, <1>10 DEF Overlaps
    <2>3. overtaken' \subseteq overlapped'
      BY <1>1, <2>2 DEF Publish, PublishFails, Overlaps, Rivals, Underway
    <2>4. Overlaps'
      BY <1>1, <1>3, <2>1, <2>2, <2>3 DEF Overlaps
    <2> QED
      BY <1>1, <1>3, <1>9, <2>1, <2>2, <2>4, ExposedSInv
  <1>11. CASE w \notin overlapped
    <2>1. Underway = {w} /\ overlapped = {} /\ overtaken = {} /\ Rivals(w) = {}
      BY <1>1, <1>11 DEF Overlaps, Rivals, Underway
    <2>2. Publish(w)
      BY <2>1 DEF PublishFails
    <2>3. /\ file' = out[w] /\ exposed' = exposed \ {w} /\ overtaken' = {}
          /\ done'[w] = done[w] + 1
      BY <1>4, <1>11, <2>1, <2>2 DEF Publish, Metadata
    <2>4. UpToDate(out[w]) /\ out[w][w] = done[w] + 1
      BY <1>1, <1>11 DEF SInv, Current
    <2>5. UpToDate(file)'
      <3>1. ASSUME NEW v \in Setters \ exposed' PROVE v \in DOMAIN out[w] /\ out[w][v] >= done'[v]
        <4>1. CASE v = w
          BY <1>4, <2>3, <2>4, <4>1, StoreFacts, <1>1 DEF Keeps
        <4>2. CASE v # w
          BY <1>5, <2>3, <2>4, <4>2 DEF UpToDate, Keeps
        <4> QED
          BY <4>1, <4>2
      <3> QED
        BY <2>3, <3>1 DEF UpToDate, Keeps
    <2>6. Overlaps' /\ Underway' = {}
      BY <1>1, <1>3, <2>1, <2>3 DEF Overlaps
    <2> QED
      BY <1>9, <2>5, <2>6 DEF SInv
  <1> QED
    BY <1>10, <1>11

\* Only a writer that was overtaken writes to the file in place.
LEMMA SpillSInv ==
    ASSUME SInv, NEW w \in Setters, Spill(w)
    PROVE  SInv'
  <1>1. /\ StoreTypeOK /\ Overlaps /\ w \in overlapped
        /\ UNCHANGED <<mem, step, read, out, overtaken, done, overlapped, exposed, restarts>>
    BY DEF SInv, Spill, Overlaps, history
  <1>2. Underway' = Underway /\ overlapped = Underway /\ exposed = Setters
    BY <1>1 DEF Underway, Overlaps
  <1>3. file' \in Metadata \cup {Unparsed}
    BY <1>1 DEF Spill, StoreTypeOK
  <1>4. StoreTypeOK' /\ Overlaps'
    BY <1>1, <1>2, <1>3 DEF StoreTypeOK, Overlaps
  <1> QED
    BY <1>1, <1>2, <1>4, ExposedSInv

LEMMA NextSInv == SInv /\ [StoreNext]_storeVars => SInv'
  <1> SUFFICES ASSUME SInv, [StoreNext]_storeVars PROVE SInv'
    OBVIOUS
  <1>0. StoreTypeOK /\ UpToDate(file) /\ Overlaps /\ \A w \in Underway \ overlapped : Current(w)
    BY DEF SInv
  <1>1. ASSUME NEW w \in Setters, Step(w) PROVE SInv'
    BY <1>1, BeginSInv, MiddleSInv, EndSInv, SpillSInv DEF Step
  <1>2. ASSUME NEW s \in Stores, Load(s) PROVE SInv'
    <2>1. /\ \A v \in Underway : StoreOf[v] # s
          /\ mem' = [mem EXCEPT ![s] = file]
          /\ UNCHANGED <<file, step, read, out, overtaken, done, overlapped, exposed, restarts>>
      BY <1>2 DEF Load, history
    <2>2. mem' \in [Stores -> Metadata \cup {Unparsed}] /\ Underway' = Underway
          /\ \A v \in Underway : mem'[StoreOf[v]] = mem[StoreOf[v]]
      BY <1>0, <2>1, StoreFacts DEF StoreTypeOK, Underway
    <2>3. StoreTypeOK'
      BY <1>0, <2>1, <2>2 DEF StoreTypeOK
    <2>4. UpToDate(file)' /\ Overlaps' /\ \A v \in Underway' \ overlapped' : Current(v)'
      BY <1>0, <2>1, <2>2 DEF UpToDate, Keeps, Overlaps, Current
    <2> QED
      BY <2>3, <2>4 DEF SInv
  <1>3. CASE Crash
    <2>1. Underway' = {} /\ overlapped' = {} /\ overtaken' = {} /\ UNCHANGED <<file, done, exposed>>
      BY <1>3 DEF Crash, Underway
    <2>2. StoreTypeOK'
      BY <1>0, <1>3, <2>1, StoreFacts, MetadataAssumption DEF Crash, StoreTypeOK, Blank
    <2>3. UpToDate(file)' /\ Overlaps'
      BY <1>0, <2>1 DEF UpToDate, Keeps, Overlaps
    <2> QED
      BY <2>1, <2>2, <2>3 DEF SInv
  <1>4. CASE UNCHANGED storeVars
    BY <1>0, <1>4 DEF storeVars, history, SInv, StoreTypeOK, Underway, UpToDate, Keeps, Overlaps, Current
  <1> QED
    BY <1>1, <1>2, <1>3, <1>4 DEF StoreNext

\* Whatever the setters do to each other, an update that overlapped no other is
\* kept until two overlap again.
THEOREM UpdatesKept == StoreSpec => []LostOnlyInOverlap
  <1>1. SInv => LostOnlyInOverlap
    BY DEF SInv, UpToDate, LostOnlyInOverlap
  <1> QED
    BY InitSInv, NextSInv, <1>1, PTL DEF StoreSpec
=============================================================================
