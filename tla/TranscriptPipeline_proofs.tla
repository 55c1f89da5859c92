---------------------- MODULE TranscriptPipeline_proofs ----------------------
(***************************************************************************)
(* The transcript keeps its numbering, the drain loop its count, a drained *)
(* stop loses nothing, and the pipeline with its store implements          *)
(* DurableTranscript, for any number of chunks and crashes, with or        *)
(* without write failures.                                                 *)
(***************************************************************************)
EXTENDS TranscriptPipeline, SequenceTheorems, TLAPS

\* A worker at work holds a chunk, whose index has been used up.
HandHeld == Busy => hand \in Held /\ hand.index < nextIndex

\* The engine hands out indices above those on disk ...
IndicesBelowNext ==
    phase # "down" => \A i \in 1 .. Len(json) : json[i].index < nextIndex

\* ... so the record about to be written comes after all of them ...
HandIsNew ==
    worker = "transcribing" => \A i \in 1 .. Len(json) : json[i].index < hand.index

\* ... and once written it is the last one.
HandIsLast ==
    worker \in {"text", "checkpoint"} =>
        json # <<>> /\ json[Len(json)].index = hand.index

\* Nothing survives in the memory of a process that is down.
DownIsEmpty ==
    phase = "down" =>
        queue = <<>> /\ handing = Nothing /\ pending = 0 /\ worker = "gone"

\* The inductive invariant, by the part of the state that each part is about:
\* indices and records, and chunks on their way.
Numbering ==
    /\ HandHeld
    /\ IndicesBelowNext
    /\ HandIsNew
    /\ HandIsLast
    /\ IndicesIncrease
    /\ CheckpointIsDurable

Accounting == DownIsEmpty /\ PendingCountsInFlight

IInv == TypeOK /\ Numbering /\ Accounting

\* next_index of resume_after_restart() is above every index on disk.
LEMMA NextIndexAbove ==
    ASSUME NEW records \in Seq(Record),
           \A i, j \in 1 .. Len(records) : i < j => records[i].index < records[j].index
    PROVE  /\ NextIndexOf(records) \in Nat
           /\ \A i \in 1 .. Len(records) : records[i].index < NextIndexOf(records)
  <1> DEFINE Candidates == {0} \cup {records[i].index + 1 : i \in 1 .. Len(records)}
             Above(n) == \A i \in 1 .. Len(records) : records[i].index < n
  <1>1. \A i \in 1 .. Len(records) : records[i].index \in Nat
    <2> TAKE i \in 1 .. Len(records)
    <2>1. records[i] \in Record
      OBVIOUS
    <2> QED
      BY <2>1 DEF Record
  <1>2. \E n \in Candidates : Above(n)
    <2>1. CASE records = <<>>
      BY <2>1
    <2>2. CASE records # <<>>
      <3>1. Len(records) \in 1 .. Len(records)
        BY <2>2
      <3>2. Above(records[Len(records)].index + 1)
        BY <1>1, <3>1
      <3> QED
        BY <3>1, <3>2
    <2> QED
      BY <2>1, <2>2
  <1>3. NextIndexOf(records) = CHOOSE n \in Candidates : Above(n)
    BY DEF NextIndexOf
  <1>4. NextIndexOf(records) \in Candidates /\ Above(NextIndexOf(records))
    <2> HIDE DEF Candidates, Above
    <2> QED
      BY <1>2, <1>3
  <1> QED
    BY <1>1, <1>4

LEMMA InitIInv == Init => IInv
  <1> SUFFICES ASSUME Init PROVE IInv
    OBVIOUS
  <1> USE PipelineAssumption DEF Init, Nothing
  <1>1. TypeOK
    <2>1. /\ handing \in Seq(Chunk) /\ Len(handing) <= 1
          /\ queue \in Seq(Chunk) /\ json \in Seq(Record) /\ text \in Seq(Nat)
      OBVIOUS
    <2>2. hand \in {Nothing} \cup Held
      OBVIOUS
    <2>3. captured \in 0 .. MaxChunks /\ firstOfRun \in 0 .. MaxChunks /\ crashes \in 0 .. MaxCrashes
      OBVIOUS
    <2> QED
      BY <2>1, <2>2, <2>3 DEF TypeOK
  <1>2. Numbering
    BY DEF Numbering, HandHeld, IndicesBelowNext, HandIsNew, HandIsLast,
           IndicesIncrease, CheckpointIsDurable, Busy
  <1>3. Accounting
    BY DEF Accounting, DownIsEmpty, PendingCountsInFlight, Busy
  <1> QED
    BY <1>1, <1>2, <1>3 DEF IInv

\* The numbering is about the worker and the files; DownIsEmpty and the
\* counter about the channel: a step that leaves them alone preserves them.
LEMMA NumberingFrame ==
    ASSUME Numbering, UNCHANGED <<nextIndex, worker, hand, json, checkpoint>>,
           phase' # "down" => phase # "down"
    PROVE  Numbering'
  BY DEF Numbering, HandHeld, IndicesBelowNext, HandIsNew, HandIsLast,
         IndicesIncrease, CheckpointIsDurable, Busy

LEMMA AccountingFrame ==
    ASSUME Accounting, UNCHANGED <<handing, queue, pending>>,
           worker' = worker \/ (Busy /\ Busy'),
           phase' # "down" \/ phase' = phase, phase = "down" => worker' = worker
    PROVE  Accounting'
  BY DEF Accounting, DownIsEmpty, PendingCountsInFlight, Busy

-----------------------------------------------------------------------------
(* The assembler.                                                          *)

LEMMA CountIInv == ASSUME IInv, Count PROVE IInv'
  <1> USE PipelineAssumption DEF IInv, Count
  <1>1. handing' \in Seq(Chunk) /\ Len(handing') = 1
    BY DEF TypeOK, Chunk
  <1>2. TypeOK'
    BY <1>1 DEF TypeOK, working, files
  <1>3. Numbering'
    BY NumberingFrame DEF working, files
  <1>4. Accounting'
    BY <1>1 DEF Accounting, DownIsEmpty, PendingCountsInFlight, Busy, TypeOK,
                working, Nothing
  <1> QED
    BY <1>2, <1>3, <1>4

LEMMA PutIInv == ASSUME IInv, Put PROVE IInv'
  <1> USE DEF IInv, Put
  <1>1. handing[1] \in Chunk /\ queue' \in Seq(Chunk) /\ Len(queue') = Len(queue) + 1
    BY DEF TypeOK, Nothing
  <1>2. TypeOK'
    BY <1>1 DEF TypeOK, working, files, Nothing
  <1>3. Numbering'
    BY NumberingFrame DEF working, files
  <1>4. Accounting'
    BY <1>1 DEF Accounting, DownIsEmpty, PendingCountsInFlight, Busy, TypeOK,
                working, Nothing
  <1> QED
    BY <1>2, <1>3, <1>4

-----------------------------------------------------------------------------
(* The worker.                                                             *)

LEMMA TakeIInv == ASSUME IInv, Take PROVE IInv'
  <1> USE DEF IInv, Take
  <1>1. Head(queue) \in Chunk /\ Tail(queue) \in Seq(Chunk) /\ Len(Tail(queue)) = Len(queue) - 1
    BY DEF TypeOK
  <1>2. hand' \in Held /\ hand'.index = nextIndex /\ nextIndex \in Nat
    BY <1>1 DEF TypeOK, Held
  <1>3. phase # "down" /\ ~Busy
    BY DEF Accounting, DownIsEmpty, Busy
  <1>4. TypeOK'
    <2>1. nextIndex' \in Nat /\ queue' \in Seq(Chunk)
      BY <1>1, <1>2
    <2> QED
      BY <1>2, <2>1 DEF TypeOK, session, files
  <1>5. Numbering'
    <2>1. IndicesBelowNext /\ \A i \in 1 .. Len(json) : json[i].index \in Nat
      <3>1. \A i \in 1 .. Len(json) : json[i] \in Record
        BY DEF TypeOK
      <3> QED
        BY <3>1 DEF Numbering, Record
    <2>2. \A i \in 1 .. Len(json) : json[i].index < nextIndex /\ json[i].index < nextIndex + 1
      BY <1>2, <1>3, <2>1 DEF IndicesBelowNext
    <2>3. HandHeld' /\ IndicesBelowNext' /\ HandIsNew' /\ HandIsLast'
      BY <1>2, <2>2 DEF HandHeld, IndicesBelowNext, HandIsNew, HandIsLast, Busy, files
    <2>4. IndicesIncrease' /\ CheckpointIsDurable'
      BY DEF Numbering, IndicesIncrease, CheckpointIsDurable, files
    <2> QED
      BY <2>3, <2>4 DEF Numbering
  <1>6. Accounting'
    <2>1. ~DownIsEmpty' => phase' = "down"
      BY DEF DownIsEmpty
    <2>2. DownIsEmpty'
      BY <1>3, <2>1 DEF session
    <2> DEFINE handed == IF handing # Nothing THEN 1 ELSE 0
    <2>3. Len(queue') = Len(queue) - 1 /\ Busy' /\ handing' = handing /\ pending' = pending
      BY <1>1 DEF Busy, session
    <2>4. Len(queue) \in Nat /\ pending \in Nat /\ handed \in Nat
      BY DEF TypeOK
    <2>5. pending = Len(queue) + 0 + handed
      BY <1>3 DEF Accounting, PendingCountsInFlight
    <2> HIDE DEF handed, Take, IInv
    <2>6. pending' = Len(queue') + 1 + handed
      BY <2>3, <2>4, <2>5
    <2>7. PendingCountsInFlight'
      BY <2>3, <2>6 DEF PendingCountsInFlight, handed
    <2> QED
      BY <2>2, <2>7 DEF Accounting
  <1> QED
    BY <1>4, <1>5, <1>6

LEMMA ExitIInv == ASSUME IInv, Exit PROVE IInv'
  <1> USE DEF IInv, Exit, session, files
  <1>1. TypeOK'
    BY DEF TypeOK
  <1>2. Numbering'
    BY DEF Numbering, HandHeld, IndicesBelowNext, HandIsNew, HandIsLast,
           IndicesIncrease, CheckpointIsDurable, Busy
  <1>3. Accounting'
    BY DEF Accounting, DownIsEmpty, PendingCountsInFlight, Busy
  <1> QED
    BY <1>1, <1>2, <1>3

\* The record appended has the index in the worker's hands, the largest yet.
LEMMA CommitJsonIInv == ASSUME IInv, CommitJson PROVE IInv'
  <1> USE DEF IInv, CommitJson, session, channel
  <1>1. PICK ok \in BOOLEAN :
          json' = Append(json, [chunk |-> hand.chunk, index |-> hand.index, ok |-> ok])
    OBVIOUS
  <1>2. hand \in Held /\ hand.index < nextIndex /\ hand.index \in Nat /\ Busy
    BY DEF Numbering, HandHeld, Busy, Held
  <1> DEFINE new == [chunk |-> hand.chunk, index |-> hand.index, ok |-> ok]
  <1>3. new \in Record /\ new.index = hand.index
    BY <1>2 DEF Record, Held
  <1>4. json' = Append(json, new) /\ json \in Seq(Record)
    BY <1>1 DEF TypeOK
  <1> HIDE DEF new
  <1>5. /\ json' \in Seq(Record)
        /\ Len(json') = Len(json) + 1
        /\ json'[Len(json')] = new
        /\ \A i \in 1 .. Len(json) : json'[i] = json[i]
    BY <1>3, <1>4
  <1>6. \A i \in 1 .. Len(json) : json[i].index < hand.index
    BY DEF Numbering, HandIsNew
  <1>7. TypeOK'
    BY <1>5 DEF TypeOK
  <1>8. Numbering'
    <2>1. IndicesIncrease'
      <3> SUFFICES ASSUME NEW i \in 1 .. Len(json'), NEW j \in 1 .. Len(json'), i < j
                   PROVE  json'[i].index < json'[j].index
        BY DEF IndicesIncrease
      <3>1. CASE j = Len(json')
        BY <1>3, <1>5, <1>6, <3>1
      <3>2. CASE j # Len(json')
        BY <1>4, <1>5, <3>2 DEF Numbering, IndicesIncrease
      <3> QED
        BY <3>1, <3>2
    <2>2. IndicesBelowNext'
      <3> SUFFICES ASSUME phase' # "down", NEW i \in 1 .. Len(json')
                   PROVE  json'[i].index < nextIndex'
        BY DEF IndicesBelowNext
      <3>1. CASE i = Len(json')
        BY <1>2, <1>3, <1>5, <3>1
      <3>2. CASE i # Len(json')
        BY <1>4, <1>5, <3>2 DEF Numbering, IndicesBelowNext
      <3> QED
        BY <3>1, <3>2
    <2>3. CheckpointIsDurable'
      <3>1. \A i \in 1 .. Len(json) : i \in 1 .. Len(json')
        BY <1>4, <1>5
      <3> QED
        BY <1>5, <3>1 DEF Numbering, CheckpointIsDurable
    <2>4. HandIsLast'
      BY <1>3, <1>4, <1>5 DEF HandIsLast
    <2>5. HandHeld' /\ HandIsNew'
      BY <1>2 DEF HandHeld, HandIsNew, Busy
    <2> QED
      BY <2>1, <2>2, <2>3, <2>4, <2>5 DEF Numbering
  <1>9. Accounting'
    BY <1>2, AccountingFrame DEF Busy, Accounting, DownIsEmpty
  <1> QED
    BY <1>7, <1>8, <1>9

LEMMA AppendTextIInv == ASSUME IInv, AppendText PROVE IInv'
  <1> USE DEF IInv, AppendText, session, channel
  <1>1. hand.index \in Nat
    BY DEF Numbering, HandHeld, Busy, Held
  <1>2. TypeOK'
    BY <1>1 DEF TypeOK
  <1>3. Numbering'
    BY DEF Numbering, HandHeld, IndicesBelowNext, HandIsNew, HandIsLast,
           IndicesIncrease, CheckpointIsDurable, Busy
  <1>4. Accounting'
    BY AccountingFrame DEF Busy, Accounting, DownIsEmpty
  <1> QED
    BY <1>2, <1>3, <1>4

\* The checkpoint names the record written last.
LEMMA CheckpointIInv == ASSUME IInv, Checkpoint PROVE IInv'
  <1> USE DEF IInv, Checkpoint, session, channel
  <1>1. hand.index \in Nat
    BY DEF Numbering, HandHeld, Busy, Held
  <1>2. TypeOK'
    BY <1>1 DEF TypeOK
  <1>3. Len(json) \in 1 .. Len(json) /\ json[Len(json)].index = hand.index
    BY DEF Numbering, HandIsLast, TypeOK
  <1>4. Numbering'
    BY <1>3 DEF Numbering, HandHeld, IndicesBelowNext, HandIsNew, HandIsLast,
                IndicesIncrease, CheckpointIsDurable, Busy
  <1>5. Accounting'
    BY AccountingFrame DEF Busy, Accounting, DownIsEmpty
  <1> QED
    BY <1>2, <1>4, <1>5

LEMMA FailWriteIInv == ASSUME IInv, FailWrite PROVE IInv'
  <1> USE DEF IInv, FailWrite, session, channel, files
  <1>1. TypeOK'
    BY DEF TypeOK
  <1>2. Numbering'
    BY DEF Numbering, HandHeld, IndicesBelowNext, HandIsNew, HandIsLast,
           IndicesIncrease, CheckpointIsDurable, Busy
  <1>3. Accounting'
    BY AccountingFrame DEF Busy, Accounting, DownIsEmpty
  <1> QED
    BY <1>1, <1>2, <1>3

\* The chunk in the worker's hands is among those counted, so the decrement
\* never meets a zero.
LEMMA AccountIInv == ASSUME IInv, Account PROVE IInv'
  <1> USE DEF IInv, Account, session, files
  <1>1. pending # 0 /\ phase # "down" /\ pending \in Nat
    BY DEF Accounting, PendingCountsInFlight, DownIsEmpty, Busy, TypeOK
  <1>2. TypeOK'
    BY <1>1 DEF TypeOK
  <1>3. Numbering'
    BY DEF Numbering, HandHeld, IndicesBelowNext, HandIsNew, HandIsLast,
           IndicesIncrease, CheckpointIsDurable, Busy
  <1>4. Accounting'
    BY <1>1 DEF Accounting, DownIsEmpty, PendingCountsInFlight, Busy, TypeOK
  <1> QED
    BY <1>2, <1>3, <1>4

-----------------------------------------------------------------------------
(* Commands, crash and resume.                                             *)

\* Pausing, resuming and stopping change what is captured, not what is on its
\* way.
LEMMA CommandIInv ==
    ASSUME IInv, Pause \/ Unpause \/ StopCapture \/ Drained \/ Join
    PROVE  IInv'
  <1> USE DEF Pause, Unpause, StopCapture, Drained, Join, channel, working, files
  <1>1. TypeOK'
    BY DEF IInv, TypeOK
  <1>2. Numbering'
    BY NumberingFrame DEF IInv
  <1>3. Accounting'
    BY AccountingFrame DEF IInv
  <1> QED
    BY <1>1, <1>2, <1>3 DEF IInv

LEMMA CrashIInv == ASSUME IInv, Crash PROVE IInv'
  <1> USE DEF IInv, Crash, files
  <1>1. TypeOK'
    <2>1. queue' \in Seq(Chunk) /\ handing' \in Seq(Chunk) /\ Len(handing') = 0
      BY DEF Nothing
    <2>2. crashes' \in 0 .. MaxCrashes
      BY PipelineAssumption DEF TypeOK
    <2>3. hand' \in {Nothing} \cup Held
      OBVIOUS
    <2>4. json' \in Seq(Record) /\ text' \in Seq(Nat) /\ checkpoint' \in Nat \cup {-1}
      BY DEF TypeOK
    <2>5. /\ UNCHANGED <<captured, offset, elapsed, firstOfRun, nextIndex>>
          /\ spoiled' = spoiled /\ phase' = "down" /\ worker' = "gone"
          /\ sentinel' = FALSE /\ pending' = 0
      OBVIOUS
    <2>6. TypeOK
      OBVIOUS
    <2> HIDE DEF IInv, Crash
    <2>7. captured' \in 0 .. MaxChunks /\ firstOfRun' \in 0 .. MaxChunks
      BY <2>5, <2>6 DEF TypeOK
    <2>8. offset' \in Nat /\ elapsed' \in Nat /\ nextIndex' \in Nat /\ pending' \in Nat
      BY <2>5, <2>6 DEF TypeOK
    <2>9. /\ phase' \in {"recording", "paused", "draining", "joining", "finalized", "down"}
          /\ sentinel' \in BOOLEAN /\ spoiled' \in BOOLEAN
      BY <2>5, <2>6 DEF TypeOK
    <2> QED
      BY <2>1, <2>2, <2>3, <2>4, <2>5, <2>7, <2>8, <2>9 DEF TypeOK
  <1>2. Numbering'
    BY DEF Numbering, HandHeld, IndicesBelowNext, HandIsNew, HandIsLast,
           IndicesIncrease, CheckpointIsDurable, Busy
  <1>3. Accounting'
    BY DEF Accounting, DownIsEmpty, PendingCountsInFlight, Busy, Nothing
  <1> QED
    BY <1>1, <1>2, <1>3

\* The next engine numbers on above transcript.json.
LEMMA ResumeIInv == ASSUME IInv, ResumeAfterRestart PROVE IInv'
  <1> USE DEF IInv, ResumeAfterRestart, channel, files
  <1>1. nextIndex' \in Nat /\ \A i \in 1 .. Len(json) : json[i].index < nextIndex'
    BY NextIndexAbove DEF TypeOK, Numbering, IndicesIncrease
  <1>2. TypeOK'
    BY <1>1 DEF TypeOK
  <1>3. Numbering'
    BY <1>1 DEF Numbering, HandHeld, IndicesBelowNext, HandIsNew, HandIsLast,
                IndicesIncrease, CheckpointIsDurable, Busy
  <1>4. Accounting'
    BY DEF Accounting, DownIsEmpty, PendingCountsInFlight, Busy
  <1> QED
    BY <1>2, <1>3, <1>4

LEMMA StutterIInv == ASSUME IInv, UNCHANGED vars PROVE IInv'
  <1> USE DEF vars, session, channel, working, files
  <1>1. TypeOK'
    BY DEF IInv, TypeOK
  <1>2. Numbering' /\ Accounting'
    BY NumberingFrame, AccountingFrame DEF IInv
  <1> QED
    BY <1>1, <1>2 DEF IInv

-----------------------------------------------------------------------------
\* The invariant holds in every reachable state.
THEOREM Invariance == Spec => []IInv
  <1>1. IInv /\ [Next]_vars => IInv'
    BY CountIInv, PutIInv, TakeIInv, ExitIInv, CommitJsonIInv, AppendTextIInv,
       CheckpointIInv, FailWriteIInv, AccountIInv, CommandIInv, CrashIInv,
       ResumeIInv, StutterIInv
    DEF Next, Submitting, Working, Stopping
  <1> QED
    BY InitIInv, <1>1, PTL DEF Spec

\* The type invariant, for any number of chunks and crashes.
THEOREM TypeCorrect == Spec => []TypeOK
  BY Invariance, PTL DEF IInv

\* No chunk index is ever used twice or out of order in transcript.json,
\* whatever fails and however often the engine dies and resumes.
THEOREM IndicesAlwaysIncrease == Spec => []IndicesIncrease
  BY Invariance, PTL DEF IInv, Numbering

\* The count that pipeline.stop() polls is exactly what is on its way.
THEOREM PendingIsExact == Spec => []PendingCountsInFlight
  BY Invariance, PTL DEF IInv, Accounting

\* last_completed_chunk never runs ahead of transcript.json.
THEOREM CheckpointNeverAhead == Spec => []CheckpointIsDurable
  BY Invariance, PTL DEF IInv, Numbering

-----------------------------------------------------------------------------
(* What a stop and the crashes cost.                                       *)

\* Chunk c has its record or is on its way to it: queued, being handed over or
\* in the worker's hands.
OnItsWay(c) ==
    \/ \E i \in 1 .. Len(json) : json[i].chunk.id = c
    \/ \E i \in 1 .. Len(queue) : queue[i].id = c
    \/ handing # Nothing /\ handing[1].id = c
    \/ worker = "transcribing" /\ hand.chunk.id = c

\* Nothing that this run captured has vanished ...
Covered ==
    phase # "down" /\ ~spoiled => \A c \in (firstOfRun + 1) .. captured : OnItsWay(c)

\* ... and a stop that waited for its drain has left nothing behind.
StopDrained == phase \in {"joining", "finalized"} /\ ~spoiled => pending = 0

\* Every chunk stays on its way while the three threads pass it on.
LEMMA CoveredStep ==
    ASSUME IInv, Covered, [Next]_vars
    PROVE  Covered'
  <1> SUFFICES ASSUME phase' # "down", ~spoiled',
                      NEW c \in (firstOfRun' + 1) .. captured'
               PROVE  OnItsWay(c)'
    BY DEF Covered
  <1> USE DEF Covered, session, channel, working, files
  <1>t. /\ queue \in Seq(Chunk) /\ json \in Seq(Record) /\ handing \in Seq(Chunk)
        /\ captured \in Nat /\ firstOfRun \in Nat
    BY PipelineAssumption DEF IInv, TypeOK
  <1>1. CASE Count
    BY <1>1, <1>t DEF Count, OnItsWay, Nothing
  <1>2. CASE Put
    <2>1. /\ queue' = Append(queue, handing[1]) /\ handing[1] \in Chunk
          /\ UNCHANGED <<json, worker, hand>> /\ handing # Nothing
      BY <1>2, <1>t DEF Put, Nothing
    <2>2. /\ Len(queue') = Len(queue) + 1 /\ queue'[Len(queue) + 1] = handing[1]
          /\ \A i \in 1 .. Len(queue) : queue'[i] = queue[i]
      BY <2>1, <1>t
    <2>3. OnItsWay(c)
      BY <1>2 DEF Put
    <2> QED
      BY <2>1, <2>2, <2>3, <1>t DEF OnItsWay
  <1>3. CASE Take
    <2>1. /\ queue # <<>> /\ hand'.chunk = queue[1] /\ worker' = "transcribing"
          /\ queue' = Tail(queue) /\ UNCHANGED <<json, handing>> /\ worker = "idle"
      BY <1>3, <1>t DEF Take
    <2>2. /\ Len(queue') = Len(queue) - 1
          /\ \A i \in 1 .. Len(queue') : queue'[i] = queue[i + 1]
      BY <2>1, <1>t
    <2>3. OnItsWay(c)
      BY <1>3 DEF Take
    <2>4. ASSUME NEW i \in 1 .. Len(queue), queue[i].id = c
          PROVE  OnItsWay(c)'
      <3>1. CASE i = 1
        BY <2>1, <2>4, <3>1 DEF OnItsWay
      <3>2. CASE i # 1
        <4>1. i - 1 \in 1 .. Len(queue') /\ queue'[i - 1].id = c
          BY <2>2, <2>4, <3>2, <1>t
        <4> QED
          BY <4>1 DEF OnItsWay
      <3> QED
        BY <3>1, <3>2
    <2> QED
      BY <2>1, <2>3, <2>4 DEF OnItsWay
  <1>4. CASE CommitJson
    <2>1. PICK ok \in BOOLEAN :
              json' = Append(json, [chunk |-> hand.chunk, index |-> hand.index, ok |-> ok])
      BY <1>4 DEF CommitJson
    <2>2. /\ Len(json') = Len(json) + 1 /\ json'[Len(json) + 1].chunk = hand.chunk
          /\ \A i \in 1 .. Len(json) : json'[i] = json[i]
      BY <2>1, <1>t
    <2>3. OnItsWay(c) /\ UNCHANGED <<queue, handing>>
      BY <1>4 DEF CommitJson
    <2> QED
      BY <2>2, <2>3, <1>t DEF OnItsWay
  <1>5. CASE Exit \/ AppendText \/ Checkpoint \/ Account
    BY <1>5 DEF Exit, AppendText, Checkpoint, Account, OnItsWay
  <1>6. CASE FailWrite
    BY <1>6 DEF FailWrite
  <1>7. CASE Drained \/ Join \/ Pause \/ Unpause \/ StopCapture
    BY <1>7 DEF Drained, Join, Pause, Unpause, StopCapture, OnItsWay
  <1>8. CASE Crash
    BY <1>8 DEF Crash
  <1>9. CASE ResumeAfterRestart
    BY <1>9, <1>t DEF ResumeAfterRestart
  <1>10. CASE UNCHANGED vars
    BY <1>10 DEF vars, OnItsWay
  <1> QED
    BY <1>1, <1>2, <1>3, <1>4, <1>5, <1>6, <1>7, <1>8, <1>9, <1>10
    DEF Next, Submitting, Working, Stopping

\* Nothing is counted any more once a stop has seen its drain through.
LEMMA StopDrainedStep ==
    ASSUME IInv, StopDrained, [Next]_vars
    PROVE  StopDrained'
  <1> SUFFICES ASSUME phase' \in {"joining", "finalized"}, ~spoiled'
               PROVE  pending' = 0
    BY DEF StopDrained
  <1> USE DEF StopDrained, session, channel, working, files
  <1>t. pending \in Nat
    BY DEF IInv, TypeOK
  <1>1. CASE Submitting
    <2>1. CASE Count
      BY <2>1 DEF Count
    <2>2. CASE Put
      BY <2>2 DEF Put
    <2> QED
      BY <1>1, <2>1, <2>2 DEF Submitting
  <1>2. CASE Working
    BY <1>2, <1>t DEF Working, Take, Exit, CommitJson, AppendText, Checkpoint, FailWrite, Account
  <1>3. CASE Stopping
    <2>1. CASE Drained
      <3>1. spoiled' = (spoiled \/ pending > 0) /\ pending' = pending
        BY <2>1 DEF Drained
      <3>2. ~(pending > 0)
        <4> HIDE DEF StopDrained, session, channel, working, files
        <4> QED
          BY <3>1, Zenon
      <3> QED
        BY <3>1, <3>2, <1>t
    <2>2. CASE Join
      BY <2>2 DEF Join
    <2> QED
      BY <1>3, <2>1, <2>2 DEF Stopping
  <1>4. CASE Pause \/ Unpause \/ StopCapture \/ Crash \/ ResumeAfterRestart
    BY <1>4 DEF Pause, Unpause, StopCapture, Crash, ResumeAfterRestart
  <1>5. CASE UNCHANGED vars
    BY <1>5 DEF vars
  <1> QED
    BY <1>1, <1>2, <1>3, <1>4, <1>5 DEF Next

\* session.py:93-96, for any number of chunks, crashes and resumes: a stop whose
\* writes succeed and whose drain is not cut off loses no chunk of its run.
THEOREM StopLosesNoChunk == Spec => []StopIsComplete
  <1>1. Init => Covered /\ StopDrained
    BY PipelineAssumption DEF Init, Covered, StopDrained
  <1>2. IInv /\ Covered /\ StopDrained /\ [Next]_vars => (Covered /\ StopDrained)'
    BY CoveredStep, StopDrainedStep
  <1>3. IInv /\ Covered /\ StopDrained => StopIsComplete
    <2> SUFFICES ASSUME IInv, Covered, StopDrained, ~spoiled, phase = "finalized",
                        NEW c \in (firstOfRun + 1) .. captured
                 PROVE  \E i \in 1 .. Len(json) : json[i].chunk.id = c
      BY DEF StopIsComplete, StopLosesNothing
    <2>1. pending = 0 /\ OnItsWay(c)
      BY DEF StopDrained, Covered
    <2>2. Len(queue) \in Nat
      BY DEF IInv, TypeOK
    <2>3. Len(queue) = 0 /\ ~Busy /\ handing = Nothing
      <3>1. pending = Len(queue) + (IF Busy THEN 1 ELSE 0) + (IF handing # Nothing THEN 1 ELSE 0)
        BY DEF IInv, Accounting, PendingCountsInFlight
      <3>2. CASE Busy
        BY <2>1, <2>2, <3>1, <3>2
      <3>3. CASE handing # Nothing
        BY <2>1, <2>2, <3>1, <3>3
      <3>4. CASE ~Busy /\ handing = Nothing
        BY <2>1, <2>2, <3>1, <3>4
      <3> QED
        BY <3>2, <3>3, <3>4
    <2> QED
      BY <2>1, <2>3 DEF OnItsWay, Busy
  <1> QED
    BY Invariance, <1>1, <1>2, <1>3, PTL DEF Spec

\* The text the notes are made from lacks at most one chunk for each crash, as
\* long as no write raises, however many chunks there are.
THEOREM TextLosesOnePerCrash == Spec => []TextMissesOnePerCrash
  <1>1. Init => TextMissesOnePerCrash
    BY DEF Init, TextMissesOnePerCrash
  <1>2. IInv /\ TextMissesOnePerCrash /\ [Next]_vars => TextMissesOnePerCrash'
    <2> SUFFICES ASSUME IInv, TextMissesOnePerCrash, [Next]_vars
                 PROVE  TextMissesOnePerCrash'
      OBVIOUS
    <2> USE DEF TextMissesOnePerCrash, session, channel, working, files
    <2>t. /\ Len(json) \in Nat /\ Len(text) \in Nat /\ crashes \in Nat
          /\ json \in Seq(Record) /\ text \in Seq(Nat)
      BY PipelineAssumption DEF IInv, TypeOK
    <2>1. CASE CommitJson
      <3>1. Len(json') = Len(json) + 1 /\ text' = text /\ crashes' = crashes
            /\ worker = "transcribing" /\ worker' = "text" /\ spoiled' = spoiled
        BY <2>1, <2>t DEF CommitJson
      <3> QED
        BY <3>1, <2>t
    <2>2. CASE AppendText
      <3>1. Len(text') = Len(text) + 1 /\ json' = json /\ crashes' = crashes
            /\ worker = "text" /\ worker' = "checkpoint" /\ spoiled' = spoiled
        BY <2>2, <2>t DEF AppendText
      <3> QED
        BY <3>1, <2>t
    <2>3. CASE Submitting \/ Take \/ Exit \/ Checkpoint \/ FailWrite \/ Account
      BY <2>3, <2>t DEF Submitting, Count, Put, Take, Exit, Checkpoint, FailWrite, Account
    <2>4. CASE Stopping \/ Pause \/ Unpause \/ StopCapture
      BY <2>4, <2>t DEF Stopping, Drained, Join, Pause, Unpause, StopCapture
    <2>5. CASE Crash
      BY <2>5, <2>t DEF Crash
    <2>6. CASE ResumeAfterRestart
      <3>1. phase = "down" /\ worker = "gone"
        BY <2>6 DEF ResumeAfterRestart, IInv, Accounting, DownIsEmpty
      <3> QED
        BY <2>6, <3>1, <2>t DEF ResumeAfterRestart
    <2>7. CASE UNCHANGED vars
      BY <2>7 DEF vars
    <2> QED
      BY <2>1, <2>2, <2>3, <2>4, <2>5, <2>6, <2>7 DEF Next, Working
  <1> QED
    BY Invariance, <1>1, <1>2, PTL DEF Spec

-----------------------------------------------------------------------------
(* Refinement of DurableTranscript.                                        *)

InWork == IF worker = "transcribing" THEN <<hand.chunk>> ELSE <<>>

LEMMA WaitingTypes ==
    ASSUME IInv
    PROVE  /\ InWork \in Seq(Chunk) /\ queue \in Seq(Chunk) /\ handing \in Seq(Chunk)
           /\ json \in Seq(Record)
           /\ Waiting = InWork \o (queue \o handing)
           /\ Waiting \in Seq(Chunk)
  <1>1. InWork \in Seq(Chunk)
    <2>1. CASE worker = "transcribing"
      <3>1. hand.chunk \in Chunk
        BY <2>1 DEF IInv, Numbering, HandHeld, Busy, Held
      <3> QED
        BY <2>1, <3>1 DEF InWork
    <2>2. CASE worker # "transcribing"
      BY <2>2 DEF InWork
    <2> QED
      BY <2>1, <2>2
  <1>2. queue \in Seq(Chunk) /\ handing \in Seq(Chunk) /\ json \in Seq(Record)
    BY DEF IInv, TypeOK
  <1>3. Waiting = InWork \o (queue \o handing)
    <2>1. Waiting = (InWork \o queue) \o handing
      BY DEF Waiting, InWork
    <2> QED
      BY <1>1, <1>2, <2>1, ConcatAssociative
  <1>4. queue \o handing \in Seq(Chunk)
    BY <1>2, ConcatProperties
  <1> QED
    BY <1>1, <1>2, <1>3, <1>4, ConcatProperties

\* A sequence that starts with x.
LEMMA HeadTailOfConcat ==
    ASSUME NEW S, NEW x \in S, NEW rest \in Seq(S)
    PROVE  /\ <<x>> \o rest \in Seq(S) /\ <<x>> \o rest # <<>>
           /\ Head(<<x>> \o rest) = x /\ Tail(<<x>> \o rest) = rest
  <1> DEFINE s == <<x>> \o rest
  <1>1. <<x>> \in Seq(S) /\ Len(<<x>>) = 1 /\ <<x>>[1] = x
    OBVIOUS
  <1>2. /\ s \in Seq(S) /\ Len(s) = 1 + Len(rest)
        /\ \A i \in 1 .. 1 + Len(rest) : s[i] = IF i <= 1 THEN x ELSE rest[i - 1]
    BY <1>1, ConcatProperties
  <1>3. Len(rest) \in Nat
    BY LenProperties
  <1> HIDE DEF s
  <1>4. s # <<>> /\ Head(s) = x
    BY <1>2, <1>3
  <1>5. /\ Tail(s) \in Seq(S) /\ Len(Tail(s)) = Len(rest)
        /\ \A i \in 1 .. Len(rest) : Tail(s)[i] = s[i + 1]
    BY <1>2, <1>3, <1>4, HeadTailProperties
  <1>6. \A i \in 1 .. Len(rest) : Tail(s)[i] = rest[i]
    BY <1>2, <1>3, <1>5
  <1>7. Tail(s) = rest
    BY <1>5, <1>6, SeqEqual
  <1> QED
    BY <1>2, <1>4, <1>7 DEF s

\* A chunk counted by submit() is accepted.
LEMMA CountAccepts == ASSUME IInv, Count PROVE Durable!Accept
  <1> DEFINE new == [id |-> captured + 1, start |-> offset]
             before == InWork \o queue
  <1>1. new \in Chunk
    BY PipelineAssumption DEF IInv, TypeOK, Count, Chunk
  <1> HIDE DEF new
  <1>2. handing = <<>> /\ handing' = <<new>> /\ json' = json
    BY DEF Count, Nothing, new, files
  <1>3. before \in Seq(Chunk) /\ Waiting = before \o handing
    BY WaitingTypes, ConcatProperties DEF Waiting, InWork
  <1>4. Waiting' = before \o handing'
    BY DEF Waiting, InWork, Count, working
  <1> HIDE DEF before
  <1>5. Waiting = before
    BY <1>2, <1>3, ConcatEmptySeq
  <1>6. Waiting' = Append(Waiting, new)
    BY <1>1, <1>2, <1>3, <1>4, <1>5, AppendIsConcat
  <1>7. Waiting \in Seq(Chunk) /\ Len(Waiting') = Len(Waiting) + 1 /\ Waiting'[Len(Waiting')] = new
    BY <1>1, <1>3, <1>5, <1>6, AppendProperties
  <1> QED
    BY <1>1, <1>2, <1>6, <1>7 DEF Durable!Accept

\* Queueing and dequeueing move a chunk without anyone noticing.
LEMMA PutKeeps == ASSUME IInv, Put PROVE UNCHANGED <<json, Waiting>>
  <1> DEFINE x == handing[1]
  <1>1. x \in Chunk /\ handing = <<x>>
    <2>0. handing \in Seq(Chunk) /\ Len(handing) <= 1 /\ handing # <<>>
      BY DEF IInv, TypeOK, Put, Nothing
    <2>1. handing \in Seq(Chunk) /\ Len(handing) = 1
      BY <2>0, EmptySeq
    <2>2. x \in Chunk
      BY <2>1
    <2>3. <<x>> \in Seq(Chunk) /\ Len(<<x>>) = 1 /\ <<x>>[1] = x
      BY <2>2
    <2> QED
      BY <2>1, <2>2, <2>3, SeqEqual
  <1>2. queue' = Append(queue, x) /\ handing' = <<>> /\ json' = json
    BY DEF Put, Nothing, files
  <1> HIDE DEF x
  <1>3. InWork' = InWork /\ Waiting' = (InWork \o queue') \o handing'
    BY DEF InWork, Put, working, Waiting
  <1>4. queue' = queue \o handing /\ queue' \in Seq(Chunk)
    BY <1>1, <1>2, WaitingTypes, AppendIsConcat, ConcatProperties
  <1>5. Waiting' = InWork \o queue'
    BY <1>2, <1>3, <1>4, WaitingTypes, ConcatProperties, ConcatEmptySeq
  <1> QED
    BY <1>2, <1>4, <1>5, WaitingTypes

LEMMA TakeKeeps == ASSUME IInv, Take PROVE UNCHANGED <<json, Waiting>>
  <1> DEFINE x == Head(queue)
             rest == Tail(queue)
  <1>1. x \in Chunk /\ rest \in Seq(Chunk) /\ queue = <<x>> \o rest
    <2>1. queue \in Seq(Chunk) /\ queue # <<>>
      BY WaitingTypes DEF Take
    <2>2. x \in Chunk /\ rest \in Seq(Chunk) /\ Len(rest) = Len(queue) - 1
      BY <2>1, HeadTailProperties
    <2>3. <<x>> \in Seq(Chunk) /\ Len(<<x>>) = 1 /\ <<x>>[1] = x
      BY <2>2
    <2>4. queue[1] = x /\ \A i \in 1 .. Len(rest) : rest[i] = queue[i + 1]
      BY <2>1, HeadTailProperties
    <2>5. /\ <<x>> \o rest \in Seq(Chunk)
          /\ Len(<<x>> \o rest) = Len(queue)
          /\ \A i \in 1 .. Len(queue) : (<<x>> \o rest)[i] = IF i <= 1 THEN x ELSE rest[i - 1]
      BY <2>1, <2>2, <2>3, ConcatProperties, LenProperties
    <2>6. \A i \in 1 .. Len(queue) : (<<x>> \o rest)[i] = queue[i]
      <3> TAKE i \in 1 .. Len(queue)
      <3>1. CASE i = 1
        BY <2>4, <2>5, <3>1
      <3>2. CASE i # 1
        <4>1. i - 1 \in 1 .. Len(rest)
          BY <2>1, <2>2, <3>2, LenProperties
        <4> QED
          BY <2>4, <2>5, <3>2, <4>1
      <3> QED
        BY <3>1, <3>2
    <2> QED
      BY <2>1, <2>2, <2>5, <2>6, SeqEqual
  <1>2. /\ worker = "idle" /\ worker' = "transcribing" /\ hand'.chunk = x
        /\ queue' = rest /\ handing' = handing /\ json' = json
    BY DEF Take, session, files
  <1> HIDE DEF x, rest
  <1>3. Waiting = (<<>> \o queue) \o handing
    BY <1>2 DEF Waiting
  <1>4. Waiting' = (<<x>> \o rest) \o handing
    BY <1>2 DEF Waiting
  <1> QED
    BY <1>1, <1>2, <1>3, <1>4, WaitingTypes, ConcatEmptySeq

\* Writing the record commits the oldest chunk; its index is the largest yet.
LEMMA CommitCommits == ASSUME IInv, CommitJson PROVE Durable!Commit
  <1> DEFINE rest == queue \o handing
  <1>1. PICK ok \in BOOLEAN :
          json' = Append(json, [chunk |-> hand.chunk, index |-> hand.index, ok |-> ok])
    BY DEF CommitJson
  <1> DEFINE new == [chunk |-> hand.chunk, index |-> hand.index, ok |-> ok]
  <1>2. new \in Record /\ new.chunk = hand.chunk /\ new.index = hand.index
    BY DEF IInv, Numbering, HandHeld, Busy, CommitJson, Held, Record
  <1>3. hand.chunk \in Chunk
    BY <1>2 DEF Record
  <1>4. \A i \in 1 .. Len(json) : json[i].index < new.index
    BY <1>2 DEF IInv, Numbering, HandIsNew, CommitJson
  <1> HIDE DEF new
  <1>5. /\ json' = Append(json, new) /\ Len(json') = Len(json) + 1
        /\ json'[Len(json')] = new
    BY <1>1, <1>2, WaitingTypes, AppendProperties DEF new
  <1>6. rest \in Seq(Chunk)
    BY WaitingTypes, ConcatProperties
  <1>7. Waiting = <<hand.chunk>> \o rest
    BY WaitingTypes DEF InWork, CommitJson
  <1>8. Waiting' = rest
    <2>1. Waiting' = (<<>> \o queue) \o handing
      BY DEF Waiting, CommitJson, session, channel
    <2> QED
      BY <2>1, WaitingTypes, ConcatEmptySeq
  <1> HIDE DEF rest
  <1>9. Waiting # <<>> /\ Head(Waiting) = hand.chunk /\ Tail(Waiting) = rest
    BY <1>3, <1>6, <1>7, HeadTailOfConcat
  <1> QED
    BY <1>2, <1>4, <1>5, <1>8, <1>9 DEF Durable!Commit, Durable!Record, Record

\* A failed write of transcript.json drops the chunk; a later one only loses
\* what DurableTranscript does not speak of.
LEMMA FailDrops ==
    ASSUME IInv, FailWrite PROVE Durable!Drop \/ UNCHANGED <<json, Waiting>>
  <1>1. /\ json' = json /\ Waiting' = (<<>> \o queue) \o handing
        /\ WriteFaults
    BY DEF FailWrite, Waiting, files, session, channel
  <1>2. Waiting' = queue \o handing /\ queue \o handing \in Seq(Chunk)
    BY <1>1, WaitingTypes, ConcatEmptySeq, ConcatProperties
  <1>3. CASE worker = "transcribing"
    <2>1. hand.chunk \in Chunk
      BY <1>3 DEF IInv, Numbering, HandHeld, Busy, Held
    <2>2. Waiting = <<hand.chunk>> \o (queue \o handing)
      BY <1>3, WaitingTypes DEF InWork
    <2>3. Waiting # <<>> /\ Waiting' = Tail(Waiting)
      BY <1>2, <2>1, <2>2, HeadTailOfConcat
    <2> QED
      BY <1>1, <2>3 DEF Durable!Drop
  <1>4. CASE worker # "transcribing"
    <2>1. Waiting = (<<>> \o queue) \o handing
      BY <1>4 DEF Waiting
    <2> QED
      BY <1>1, <2>1
  <1> QED
    BY <1>3, <1>4

\* A crash loses what waited.
LEMMA CrashLoses == ASSUME IInv, Crash PROVE Durable!Lose
  <1>1. Waiting' = (<<>> \o <<>>) \o <<>>
    BY DEF Crash, Waiting, Nothing
  <1>2. <<>> \in Seq(Chunk)
    OBVIOUS
  <1> QED
    BY <1>1, <1>2, ConcatEmptySeq DEF Crash, files, Durable!Lose

\* The other steps change nothing that DurableTranscript speaks of.
LEMMA OthersKeep ==
    ASSUME IInv,
           \/ Exit \/ AppendText \/ Checkpoint \/ Account
           \/ Pause \/ Unpause \/ StopCapture \/ Drained \/ Join
           \/ ResumeAfterRestart \/ UNCHANGED vars
    PROVE  UNCHANGED <<json, Waiting>>
  <1>1. UNCHANGED <<json, queue, handing>>
    BY DEF Exit, AppendText, Checkpoint, Account, Pause, Unpause, StopCapture,
           Drained, Join, ResumeAfterRestart, vars, session, channel, files
  <1>2. \/ worker # "transcribing" /\ worker' # "transcribing"
        \/ worker' = worker /\ hand' = hand
    BY DEF IInv, Accounting, DownIsEmpty,
           Exit, AppendText, Checkpoint, Account, Pause, Unpause, StopCapture,
           Drained, Join, ResumeAfterRestart, vars, working
  <1>3. InWork' = InWork
    BY <1>2 DEF InWork
  <1> QED
    BY <1>1, <1>3 DEF Waiting, InWork

\* The queue, the worker thread, the drain, the three files and the resume
\* keep what DurableTranscript promises: in order, once, under growing
\* indices, and durable from the moment it is recorded.
THEOREM Refinement == Spec => RefinesDurable
  <1>1. Init => Durable!Init
    <2> SUFFICES ASSUME Init PROVE json = <<>> /\ Waiting = <<>>
      BY DEF Durable!Init
    <2>1. json = <<>> /\ Waiting = (<<>> \o <<>>) \o <<>>
      BY DEF Init, Waiting, Nothing
    <2>2. <<>> \in Seq(Chunk)
      OBVIOUS
    <2> QED
      BY <2>1, <2>2, ConcatEmptySeq
  <1>2. IInv /\ [Next]_vars => [Durable!Next]_<<json, Waiting>>
    BY CountAccepts, PutKeeps, TakeKeeps, CommitCommits, FailDrops, CrashLoses,
       OthersKeep
    DEF Next, Submitting, Working, Stopping, Durable!Next
  <1> QED
    BY <1>1, <1>2, Invariance, PTL DEF Spec, RefinesDurable, Durable!Spec
=============================================================================
