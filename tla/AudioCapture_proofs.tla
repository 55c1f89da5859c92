------------------------- MODULE AudioCapture_proofs -------------------------
(***************************************************************************)
(* Proofs about AudioCapture, for any sources, length of a chunk, number   *)
(* of starts, devices that come and go, threads that are late, and         *)
(* recorders that outlive the join that waits for them.                    *)
(***************************************************************************)
EXTENDS AudioCapture, FiniteSetTheorems, TLAPS

-----------------------------------------------------------------------------
(* The inductive invariant.                                                 *)

Places == {"opening", "reading", "backoff"}

Types ==
    /\ TypeOK
    /\ segment # Unset => elapsed <= segment

\* A start's recorders are under way from the start to the join that waits for
\* them, and beyond it only where the join gave up on them.
Recorders ==
    /\ session = "idle" <=> started = 0
    /\ \A g \in Starts, s \in Sources :
         /\ g > started <=> recorder[g][s].pc = "none"
         /\ recorder[g][s].pc \in Places /\ (g < started \/ session \in {"paused", "stopped"}) =>
              <<g, s>> \in orphans

\* The capture is told to stop when it is joined, and its assembler has flushed
\* the tail when the join returns.
Stopping ==
    /\ stopEvent <=> session \in {"joining", "paused", "stopped"}
    /\ assembler.pc = "done" => stopEvent
    /\ session \in {"paused", "stopped"} => assembler.pc = "done"

\* Block b of source s was recorded before what its recorder, and every other
\* one that takes turns with it, records next.
Past(s, b) ==
    b[1] # 0 =>
        /\ b[1] <= started /\ b[2] < now
        /\ \A g \in Starts :
             recorder[g][s].pc = "reading" /\ InTurn(s, b[1], g) => b[2] < recorder[g][s].mark

Recorded ==
    \A s \in Sources : Past(s, last[s]) /\ \A i \in 1 .. Len(frames[s]) : frames[s][i][1] # 0 /\ Past(s, frames[s][i])

\* After the tail a recorder that ends may leave one more block.
Leftover ==
    assembler.pc = "done" /\ orphans = {} => \A s \in Sources :
        IF recorder[started][s].pc = "done" THEN Len(frames[s]) <= 1 ELSE frames[s] = <<>>

\* What the session would say that it has recorded.
Recording == elapsed + SegmentElapsed

\* The window that the assembler fills has begun; it counts from the start of
\* the capture, the session from the end of start().
Clocks ==
    /\ session = "capturing" => segment # Unset
    /\ segment # Unset => session = "capturing" \/ (session = "joining" /\ final)
    /\ assembler.pc # "none" <=> session # "idle"
    /\ assembler.pc # "none" =>
         /\ assembler.boundary - ChunkLength \in 0 .. now
         /\ assembler.offset <= Recording + skew
         /\ assembler.pc = "due" =>
              assembler.boundary <= now /\ assembler.offset + ChunkLength <= Recording + skew
         /\ ~stopEvent => assembler.offset + (now - (assembler.boundary - ChunkLength)) <= Recording + skew

Offsets ==
    \A i \in 1 .. Len(chunks) : chunks[i] <= assembler.offset + skew /\ chunks[i] <= Recording + skew

IInv ==
    /\ Types /\ Recorders /\ Stopping
    /\ Recorded /\ BlocksInOrder
    /\ Leftover
    /\ Clocks /\ Offsets /\ StartsInOrder

-----------------------------------------------------------------------------
(* The steps of a recorder.                                                 *)

Record == [pc : Places \cup {"none", "done"}, mark : 0 .. now]

\* The recorder of source s and start g goes on to r.
Moves(g, s, r) ==
    /\ recorder' = [recorder EXCEPT ![g][s] = r]
    /\ recorder[g][s].pc \in Places /\ r \in Record /\ r.pc # "none"
    /\ stopEvent => r.pc \in {"backoff", "done"}

LEMMA RecorderType ==
    ASSUME TypeOK
    PROVE  /\ recorder \in [Starts -> [Sources -> Record]] /\ now \in Nat /\ 0 \in 0 .. now
           /\ \A g \in Starts, s \in Sources :
                recorder[g][s] \in Record /\ recorder[g][s].mark \in Nat /\ recorder[g][s].mark <= now
  <1>1. now \in Nat /\ recorder \in [Starts -> [Sources -> Record]]
    BY CaptureAssumption DEF TypeOK, Record, Places
  <1>2. \A r \in Record : r.mark \in Nat /\ r.mark <= now
    BY <1>1 DEF Record
  <1> QED
    BY <1>1, <1>2

LEMMA Moved ==
    ASSUME TypeOK, NEW g \in Starts, NEW s \in Sources, NEW r, Moves(g, s, r)
    PROVE  /\ recorder' \in [Starts -> [Sources -> Record]]
           /\ \A h \in Starts, t \in Sources :
                recorder'[h][t] = IF h = g /\ t = s THEN r ELSE recorder[h][t]
  BY RecorderType DEF Moves

LEMMA ReconnectStep ==
    ASSUME TypeOK, NEW g \in Starts, NEW s \in Sources, Reconnecting(g, s)
    PROVE  /\ \E r : Moves(g, s, r) /\ (r.pc = "reading" => r.mark = now)
           /\ connected' \in [Sources -> BOOLEAN]
           /\ UNCHANGED <<world, control, assembler, output, history>>
  <1>1. Ended \in Record /\ [pc |-> "opening", mark |-> 0] \in Record
        /\ [pc |-> "backoff", mark |-> 0] \in Record /\ [pc |-> "reading", mark |-> now] \in Record
    BY RecorderType DEF Ended, NoBlock, Record, Places
  <1>2. CASE OpenDevice(g, s)
    <2> DEFINE r == OrEnded("reading", now)
    <2>1. Moves(g, s, r) /\ (r.pc = "reading" => r.mark = now)
      BY <1>1, <1>2 DEF OpenDevice, OrEnded, Ended, Moves, Places
    <2> QED
      BY <1>2, <2>1 DEF OpenDevice, TypeOK
  <1>3. CASE LoseDevice(g, s)
    <2> DEFINE r == [pc |-> "backoff", mark |-> NoBlock]
    <2>1. Moves(g, s, r) /\ r.pc # "reading"
      BY <1>1, <1>3 DEF LoseDevice, NoBlock, Moves, Places
    <2> QED
      BY <1>3, <2>1 DEF LoseDevice, TypeOK
  <1>4. CASE Retry(g, s)
    <2> DEFINE r == OrEnded("opening", NoBlock)
    <2>1. Moves(g, s, r) /\ r.pc # "reading"
      BY <1>1, <1>4 DEF Retry, OrEnded, Ended, NoBlock, Moves, Places
    <2> QED
      BY <1>4, <2>1 DEF Retry, TypeOK
  <1> QED
    BY <1>2, <1>3, <1>4 DEF Reconnecting

LEMMA PushStep ==
    ASSUME TypeOK, NEW g \in Starts, NEW s \in Sources, PushBlock(g, s)
    PROVE  /\ \E r : /\ Moves(g, s, r)
                     /\ r.pc = "reading" => r.mark = recorder[g][s].mark + 1
           /\ stopEvent => recorder'[g][s].pc = "done"
           /\ recorder[g][s].pc = "reading"
           /\ recorder[g][s].mark \in Nat /\ recorder[g][s].mark < now
           /\ frames' = [frames EXCEPT ![s] = Append(frames[s], <<g, recorder[g][s].mark>>)]
           /\ UNCHANGED <<world, control, assembler, connected, chunks, last, history>>
  <1> DEFINE mark == recorder[g][s].mark
             r == OrEnded("reading", mark + 1)
  <1>1. /\ recorder[g][s].pc = "reading" /\ mark < now /\ mark \in Nat
        /\ recorder' = [recorder EXCEPT ![g][s] = r]
    BY RecorderType DEF PushBlock
  <1>2. r \in Record /\ r.pc \in {"reading", "done"}
        /\ (stopEvent => r.pc = "done") /\ (r.pc = "reading" => r.mark = mark + 1)
    BY <1>1, RecorderType DEF OrEnded, Ended, NoBlock, Record, Places
  <1>3. Moves(g, s, r)
    BY <1>1, <1>2 DEF Moves, Places
  <1>4. recorder'[g][s] = r
    BY <1>3, Moved
  <1> HIDE DEF r
  <1> QED
    BY <1>1, <1>2, <1>3, <1>4 DEF PushBlock

-----------------------------------------------------------------------------
(* Types.                                                                   *)

LEMMA InitInv == Init => IInv
  <1> SUFFICES ASSUME Init PROVE IInv
    OBVIOUS
  <1> USE CaptureAssumption
  <1>1. TypeOK
    <2>1. recorder \in [Starts -> [Sources ->
            [pc : {"none", "opening", "reading", "backoff", "done"}, mark : 0 .. now]]]
      BY DEF Init, NoBlock
    <2>2. assembler \in [pc : {"none", "wait", "due", "done"}, boundary : Nat, offset : Nat]
      BY DEF Init
    <2>3. /\ frames \in [Sources -> Seq(Block)] /\ chunks \in Seq(Nat) /\ last \in [Sources -> Block]
          /\ connected \in [Sources -> BOOLEAN] /\ plugged \in [Sources -> BOOLEAN]
      BY DEF Init, Block
    <2>4. /\ now \in 0 .. MaxTime + 1 /\ flips \in 0 .. MaxFlips /\ started \in 0 .. MaxStarts
          /\ elapsed \in 0 .. now /\ skew \in Nat /\ segment \in {Unset} \cup (0 .. now)
      BY DEF Init
    <2> QED
      BY <2>1, <2>2, <2>3, <2>4 DEF Init, TypeOK
  <1>2. Types /\ Recorders /\ Stopping
    BY <1>1 DEF Init, Types, Recorders, Stopping, Unset, Places, Starts
  <1>3. Recorded /\ BlocksInOrder /\ Leftover
    BY DEF Init, Recorded, Past, BlocksInOrder, Leftover
  <1>4. Clocks /\ Offsets /\ StartsInOrder
    BY DEF Init, Clocks, Offsets, StartsInOrder, Unset
  <1> QED
    BY <1>2, <1>3, <1>4 DEF IInv

LEMMA ShippedType ==
    ASSUME NEW s \in Sources, last[s] \in Block, NEW blocks \in Seq(Block)
    PROVE  Shipped(s, blocks) \in Block
  BY DEF Shipped

LEMMA FittingPrefix ==
    ASSUME NEW blocks \in Seq(Block)
    PROVE  /\ Fitting(blocks) \in Seq(Block)
           /\ Len(Fitting(blocks)) <= Len(blocks)
           /\ \A i \in 1 .. Len(Fitting(blocks)) : Fitting(blocks)[i] = blocks[i]
           /\ Len(blocks) <= ChunkLength => Fitting(blocks) = blocks
  <1>1. ChunkLength \in Nat \ {0} /\ Len(blocks) \in Nat
    BY CaptureAssumption
  <1>2. CASE Len(blocks) < ChunkLength
    <2>1. SubSeq(blocks, 1, Len(blocks)) = blocks
      BY <1>1
    <2> QED
      BY <1>1, <1>2, <2>1 DEF Fitting
  <1>3. CASE ~(Len(blocks) < ChunkLength)
    <2>1. Fitting(blocks) = SubSeq(blocks, 1, ChunkLength)
      BY <1>3 DEF Fitting
    <2>2. /\ SubSeq(blocks, 1, ChunkLength) \in Seq(Block)
          /\ Len(SubSeq(blocks, 1, ChunkLength)) = ChunkLength
          /\ \A i \in 1 .. ChunkLength : SubSeq(blocks, 1, ChunkLength)[i] = blocks[i]
      BY <1>1, <1>3
    <2>3. Len(blocks) = ChunkLength => SubSeq(blocks, 1, ChunkLength) = blocks
      BY <1>1
    <2> QED
      BY <1>1, <1>3, <2>1, <2>2, <2>3
  <1> QED
    BY <1>2, <1>3

LEMMA TypesStep ==
    ASSUME IInv, [Next]_vars
    PROVE  Types'
  <1> SUFFICES ASSUME TypeOK, Recorders, segment # Unset => elapsed <= segment
               PROVE  Types'
    BY DEF IInv, Types
  <1> USE CaptureAssumption DEF Types
  <1>0. now \in Nat /\ elapsed \in Nat /\ skew \in Nat /\ started \in Nat
        /\ (segment # Unset => segment \in Nat /\ segment <= now)
        /\ assembler.boundary \in Nat /\ assembler.offset \in Nat
    BY DEF TypeOK, Unset
  <1>1. CASE StartCapture
    <2>1. started + 1 \in Starts /\ started' = started + 1
      BY <1>0, <1>1 DEF StartCapture, Starts
    <2>2. recorder' \in [Starts -> [Sources -> Record]]
      <3>1. [s \in Sources |-> [pc |-> "opening", mark |-> NoBlock]] \in [Sources -> Record]
        BY RecorderType DEF NoBlock, Record, Places
      <3> QED
        BY <1>1, <3>1, RecorderType DEF StartCapture
    <2>3. assembler' \in [pc : {"none", "wait", "due", "done"}, boundary : Nat, offset : Nat]
      BY <1>0, <1>1 DEF StartCapture, InitialOffset
    <2> QED
      <3>0. stopEvent' \in BOOLEAN /\ session' = "starting"
        BY <1>1, Zenon DEF StartCapture
      <3>1. started' \in 0 .. MaxStarts
        BY <2>1 DEF Starts
      <3>2. UNCHANGED <<world, final, elapsed, segment, connected, output, history>>
        BY <1>1 DEF StartCapture
      <3>3. recorder' \in [Starts -> [Sources ->
              [pc : {"none", "opening", "reading", "backoff", "done"}, mark : 0 .. now]]]
        BY <2>2 DEF Record, Places
      <3> QED
        BY <2>3, <3>0, <3>1, <3>2, <3>3 DEF TypeOK, world, output, history
  <1>2. CASE BeginSegment
    BY <1>0, <1>2 DEF BeginSegment, TypeOK, world, output, history, Unset
  <1>3. CASE Pause
    <2>1. elapsed' \in 0 .. now /\ segment' = Unset
      BY <1>0, <1>3 DEF Pause, SegmentElapsed, TypeOK
    <2> QED
      BY <1>3, <2>1 DEF Pause, TypeOK, world, output, history
  <1>4. CASE SignalStop
    BY <1>0, <1>4 DEF SignalStop, TypeOK, world, output, history
  <1>5. CASE Join
    <2>1. elapsed' \in 0 .. now /\ segment' = Unset
      BY <1>0, <1>5 DEF Join, SegmentElapsed, TypeOK
    <2>2. started \in Starts
      BY <1>0, <1>5 DEF Join, Recorders, TypeOK, Starts
    <2>3. orphans' \subseteq Starts \X Sources
      BY <1>5, <2>2 DEF Join, TypeOK, StillRunning
    <2> QED
      BY <1>5, <2>1, <2>3 DEF Join, TypeOK, world, output
  <1>6. CASE Ship
    <2>0. assembler' = [pc |-> "wait", boundary |-> assembler.boundary + ChunkLength,
                        offset |-> assembler.offset + ChunkLength]
      BY <1>6 DEF Ship
    <2>1. \A s \in Sources : last[s] \in Block /\ frames[s] \in Seq(Block)
      BY DEF TypeOK
    <2>2. last' \in [Sources -> Block]
      <3>1. \A s \in Sources : Shipped(s, Fitting(frames[s])) \in Block
        BY <2>1, FittingPrefix, ShippedType
      <3> QED
        BY <1>6, <3>1 DEF Ship
    <2>3. assembler' \in [pc : {"none", "wait", "due", "done"}, boundary : Nat, offset : Nat]
      <3>1. assembler.boundary + ChunkLength \in Nat /\ assembler.offset + ChunkLength \in Nat
        BY <1>0
      <3> QED
        BY <2>0, <3>1 DEF TypeOK
    <2>4. frames' \in [Sources -> Seq(Block)] /\ chunks' \in Seq(Nat)
      BY <1>0, <1>6 DEF Ship, TypeOK, Drained
    <2> QED
      BY <1>6, <2>2, <2>3, <2>4 DEF Ship, TypeOK, world, control, history
  <1>7. CASE ShipTail
    <2>1. \A s \in Sources : last[s] \in Block /\ frames[s] \in Seq(Block)
      BY DEF TypeOK
    <2>2. last' \in [Sources -> Block]
      BY <1>7, <2>1, ShippedType DEF ShipTail
    <2>3. assembler' \in [pc : {"none", "wait", "due", "done"}, boundary : Nat, offset : Nat]
      BY <1>0, <1>7 DEF ShipTail, TypeOK
    <2>4. frames' \in [Sources -> Seq(Block)] /\ chunks' \in Seq(Nat)
      BY <1>0, <1>7 DEF ShipTail, TypeOK, Drained
    <2> QED
      BY <1>7, <2>2, <2>3, <2>4 DEF ShipTail, TypeOK, world, control, history
  <1>8. ASSUME NEW g \in Starts, NEW s \in Sources, Reconnecting(g, s) PROVE Types'
    <2>1. recorder' \in [Starts -> [Sources -> Record]]
      BY <1>8, ReconnectStep, Moved
    <2>2. connected' \in [Sources -> BOOLEAN] /\ UNCHANGED <<world, control, assembler, output, history>>
      BY <1>8, ReconnectStep
    <2> QED
      BY <2>1, <2>2 DEF TypeOK, world, control, output, history, Record, Places
  <1>9. ASSUME NEW g \in Starts, NEW s \in Sources, PushBlock(g, s) PROVE Types'
    <2>1. recorder' \in [Starts -> [Sources -> Record]]
      BY <1>9, PushStep, Moved
    <2>2. /\ UNCHANGED <<world, control, assembler, connected, chunks, last, history>>
          /\ frames' = [frames EXCEPT ![s] = Append(frames[s], <<g, recorder[g][s].mark>>)]
          /\ recorder[g][s].mark \in Nat
      BY <1>9, PushStep
    <2>3. <<g, recorder[g][s].mark>> \in Block
      BY <2>2 DEF Block, Starts
    <2>4. frames' \in [Sources -> Seq(Block)]
      BY <2>2, <2>3 DEF TypeOK
    <2> QED
      BY <2>1, <2>2, <2>4 DEF TypeOK, world, control, history, Record, Places
  <1>10. CASE Tick
    <2>1. now' \in 0 .. MaxTime + 1 /\ now' = now + 1
      BY <1>0, <1>10 DEF Tick
    <2>2. \A m \in 0 .. now : m \in 0 .. now'
      BY <1>0, <2>1
    <2>3. recorder' \in [Starts -> [Sources -> [pc : {"none", "opening", "reading", "backoff", "done"}, mark : 0 .. now']]]
      <3>1. Record \subseteq [pc : {"none", "opening", "reading", "backoff", "done"}, mark : 0 .. now']
        BY <2>2 DEF Record, Places
      <3> QED
        BY <1>10, <3>1, RecorderType DEF Tick
    <2> QED
      BY <1>0, <1>10, <2>1, <2>2, <2>3 DEF Tick, TypeOK, control, output
  <1>11. ASSUME NEW s \in Sources, Flip(s) PROVE Types'
    BY <1>11 DEF Flip, TypeOK, control, output, history
  <1>12. CASE UNCHANGED vars
    BY <1>12 DEF vars, TypeOK, world, control, output, history
  <1>13. CASE Due
    <2>1. assembler' \in [pc : {"none", "wait", "due", "done"}, boundary : Nat, offset : Nat]
      BY <1>0, <1>13 DEF Due, TypeOK
    <2> QED
      BY <1>13, <2>1 DEF Due, TypeOK, world, control, output, history
  <1> QED
    BY <1>1, <1>2, <1>3, <1>4, <1>5, <1>6, <1>7, <1>8, <1>9, <1>10, <1>11, <1>12, <1>13
       DEF Next, Session, Assembler

-----------------------------------------------------------------------------
(* The session and its threads.                                             *)

LEMMA RecordersStep ==
    ASSUME IInv, [Next]_vars
    PROVE  Recorders'
  <1> SUFFICES ASSUME TypeOK, Recorders PROVE Recorders'
    BY DEF IInv, Types
  <1> USE DEF Recorders
  <1>0. started \in Nat /\ \A g \in Starts : g \in Nat
    BY DEF TypeOK, Starts
  <1>1. CASE StartCapture
    <2>1. /\ started' = started + 1 /\ session' = "starting" /\ orphans' = orphans
          /\ session \in {"idle", "paused"}
          /\ \A g \in Starts, s \in Sources :
               recorder'[g][s] = IF g = started + 1 THEN [pc |-> "opening", mark |-> NoBlock]
                                 ELSE recorder[g][s]
      BY <1>0, <1>1, RecorderType DEF StartCapture, history
    <2>2. ASSUME NEW g \in Starts, NEW s \in Sources
          PROVE  /\ g > started' <=> recorder'[g][s].pc = "none"
                 /\ recorder'[g][s].pc \in Places /\ g < started' => <<g, s>> \in orphans
      <3>1. CASE g = started + 1
        BY <1>0, <2>1, <3>1
      <3>2. CASE g # started + 1
        <4>1. recorder'[g][s] = recorder[g][s] /\ (g > started <=> g > started')
          BY <1>0, <2>1, <3>2
        <4>2. g < started' => g < started \/ g = started
          BY <1>0, <2>1
        <4>3. g = started => session = "paused"
          BY <1>0, <2>1 DEF Starts
        <4> QED
          BY <4>1, <4>2, <4>3
      <3> QED
        BY <3>1, <3>2
    <2> QED
      BY <1>0, <2>1, <2>2
  <1>2. CASE BeginSegment \/ Pause
    BY <1>2 DEF BeginSegment, Pause, history
  <1>3. CASE SignalStop
    <2>1. session' = "joining" /\ session # "idle" /\ UNCHANGED <<started, recorder, orphans>>
      BY <1>3 DEF SignalStop, history
    <2> QED
      BY <2>1
  <1>4. CASE Join
    <2>1. /\ session' \in {"paused", "stopped"} /\ session = "joining" /\ UNCHANGED <<started, recorder>>
          /\ orphans' = orphans \cup {<<started, s>> : s \in StillRunning}
      BY <1>4 DEF Join
    <2>2. \A s \in Sources : recorder[started][s].pc \in Places => <<started, s>> \in orphans'
      BY <2>1 DEF StillRunning, Places
    <2>3. ASSUME NEW g \in Starts, NEW s \in Sources, recorder[g][s].pc \in Places
          PROVE  <<g, s>> \in orphans'
      <3>1. CASE g = started
        BY <2>2, <2>3, <3>1
      <3>2. CASE g # started
        <4>1. recorder[g][s].pc # "none"
          BY <2>3 DEF Places
        <4>2. ~(g > started) /\ g \in Nat /\ started \in Nat
          BY <1>0, <4>1
        <4>3. g < started
          BY <3>2, <4>2
        <4> QED
          BY <2>1, <2>3, <4>3
      <3> QED
        BY <3>1, <3>2
    <2> QED
      BY <2>1, <2>3
  <1>5. ASSUME NEW g \in Starts, NEW s \in Sources, NEW r, Moves(g, s, r),
               UNCHANGED <<control, history>>
        PROVE  Recorders'
    <2>1. \A h \in Starts, t \in Sources :
            recorder'[h][t] = IF h = g /\ t = s THEN r ELSE recorder[h][t]
      BY <1>5, Moved
    <2>2. recorder[g][s].pc \in Places /\ r.pc # "none"
      BY <1>5 DEF Moves
    <2>3. UNCHANGED <<session, started, orphans>>
      BY <1>5 DEF control, history
    <2> QED
      BY <2>1, <2>2, <2>3 DEF Places
  <1>6. ASSUME NEW g \in Starts, NEW s \in Sources, Reconnecting(g, s) PROVE Recorders'
    BY <1>5, <1>6, ReconnectStep
  <1>7. ASSUME NEW g \in Starts, NEW s \in Sources, PushBlock(g, s) PROVE Recorders'
    BY <1>5, <1>7, PushStep
  <1>8. CASE Assembler \/ Tick \/ UNCHANGED vars
    BY <1>8 DEF Assembler, Due, Ship, ShipTail, Tick, vars, control, history
  <1>9. ASSUME NEW s \in Sources, Flip(s) PROVE Recorders'
    BY <1>9 DEF Flip, control, history
  <1> QED
    BY <1>1, <1>2, <1>3, <1>4, <1>6, <1>7, <1>8, <1>9 DEF Next, Session

LEMMA StoppingStep ==
    ASSUME IInv, [Next]_vars
    PROVE  Stopping'
  <1> SUFFICES ASSUME Stopping PROVE Stopping'
    BY DEF IInv
  <1> USE DEF Stopping
  <1>1. CASE StartCapture
    BY <1>1 DEF StartCapture
  <1>2. CASE BeginSegment \/ Pause
    BY <1>2 DEF BeginSegment, Pause
  <1>3. CASE SignalStop
    BY <1>3 DEF SignalStop
  <1>4. CASE Join
    BY <1>4 DEF Join
  <1>5. CASE Assembler
    <2>1. UNCHANGED control /\ (assembler'.pc = "done" => stopEvent) /\ assembler.pc # "done"
      BY <1>5, IInv DEF Assembler, Due, Ship, ShipTail, IInv, Types, TypeOK
    <2> QED
      BY <2>1 DEF control
  <1>6. ASSUME NEW g \in Starts, NEW s \in Sources, Reconnecting(g, s) \/ PushBlock(g, s) PROVE Stopping'
    BY <1>6 DEF Reconnecting, OpenDevice, LoseDevice, Retry, PushBlock, control
  <1>7. CASE Tick \/ UNCHANGED vars
    BY <1>7 DEF Tick, vars, control
  <1>8. ASSUME NEW s \in Sources, Flip(s) PROVE Stopping'
    BY <1>8 DEF Flip, control
  <1> QED
    BY <1>1, <1>2, <1>3, <1>4, <1>5, <1>6, <1>7, <1>8 DEF Next, Session

-----------------------------------------------------------------------------
(* The blocks.                                                              *)

LEMMA BlockType ==
    ASSUME TypeOK
    PROVE  /\ \A b \in Block : b[1] \in Nat /\ b[2] \in Nat /\ (b[1] # 0 => b[1] \in Starts)
           /\ \A s \in Sources :
                last[s] \in Block /\ frames[s] \in Seq(Block) /\ \A i \in 1 .. Len(frames[s]) : frames[s][i] \in Block
  <1>1. MaxStarts \in Nat
    BY CaptureAssumption
  <1>2. \A b \in Block : b[1] \in Nat /\ b[2] \in Nat /\ (b[1] # 0 => b[1] \in Starts)
    BY <1>1 DEF Block, Starts
  <1>3. \A s \in Sources : last[s] \in Block /\ frames[s] \in Seq(Block)
    BY DEF TypeOK
  <1> QED
    BY <1>2, <1>3

\* A recorder that a join gave up on stays given up.
LEMMA OrphansGrow ==
    ASSUME IInv, [Next]_vars
    PROVE  orphans \subseteq orphans'
  <1>1. TypeOK
    BY DEF IInv, Types
  <1>2. ASSUME NEW g \in Starts, NEW s \in Sources, Reconnecting(g, s) \/ PushBlock(g, s)
        PROVE  orphans' = orphans
    BY <1>1, <1>2, ReconnectStep, PushStep DEF history
  <1> QED
    BY <1>2 DEF Next, Session, StartCapture, BeginSegment, Pause, SignalStop, Join, Assembler,
       Due, Ship, ShipTail, Tick, Flip, vars, history

\* Time passes, recorders move and capture starts again: what is past stays past.
LEMMA PastKept ==
    ASSUME IInv, [Next]_vars, NEW s \in Sources, NEW b \in Block, Past(s, b)
    PROVE  Past(s, b)'
  <1> SUFFICES ASSUME TypeOK, b[1] \in Starts, b[2] \in Nat, b[1] # 0
               PROVE  Past(s, b)'
    BY BlockType DEF IInv, Types, Past
  <1>0. now \in Nat /\ started \in Nat /\ b[1] \in Nat /\ b[1] <= started /\ b[2] < now
        /\ \A h \in Starts :
             recorder[h][s].pc = "reading" /\ InTurn(s, b[1], h) => b[2] < recorder[h][s].mark
    BY DEF TypeOK, Past, Starts
  <1>a. \A h \in Starts : InTurn(s, b[1], h)' => InTurn(s, b[1], h)
    BY OrphansGrow DEF InTurn
  <1>1. CASE StartCapture
    <2>1. /\ started' = started + 1 /\ now' = now
          /\ \A h \in Starts : recorder'[h][s].pc = "reading" => recorder'[h] = recorder[h]
      BY <1>0, <1>1, RecorderType DEF StartCapture, world
    <2> QED
      BY <1>0, <1>a, <2>1 DEF Past
  <1>2. CASE BeginSegment \/ Pause \/ SignalStop \/ Join \/ Assembler \/ UNCHANGED vars
    <2>1. UNCHANGED <<now, started, recorder>>
      BY <1>2 DEF BeginSegment, Pause, SignalStop, Join, Assembler, Due, Ship, ShipTail, vars, world, control
    <2> QED
      BY <1>0, <1>a, <2>1 DEF Past
  <1>3. CASE Tick
    <2>1. now' = now + 1 /\ UNCHANGED <<started, recorder>>
      BY <1>3 DEF Tick, control
    <2> QED
      BY <1>0, <1>a, <2>1 DEF Past
  <1>4. ASSUME NEW t \in Sources, Flip(t) PROVE Past(s, b)'
    <2>1. UNCHANGED <<now, started, recorder>>
      BY <1>4 DEF Flip, control
    <2> QED
      BY <1>0, <1>a, <2>1 DEF Past
  <1>5. ASSUME NEW g \in Starts, NEW t \in Sources, NEW r, Moves(g, t, r),
               r.pc = "reading" => r.mark = now \/ (recorder[g][t].pc = "reading" /\ r.mark = recorder[g][t].mark + 1),
               UNCHANGED <<now, started>>
        PROVE  Past(s, b)'
    <2>1. \A h \in Starts : recorder'[h][s] = IF h = g /\ s = t THEN r ELSE recorder[h][s]
      BY <1>5, Moved
    <2>2. recorder[g][t].mark \in Nat
      BY RecorderType
    <2>3. ASSUME NEW h \in Starts, recorder'[h][s].pc = "reading", InTurn(s, b[1], h)'
          PROVE  b[2] < recorder'[h][s].mark
      <3>1. CASE h = g /\ s = t
        BY <1>0, <1>5, <1>a, <2>1, <2>2, <2>3, <3>1
      <3>2. CASE ~(h = g /\ s = t)
        BY <1>0, <1>a, <2>1, <2>3, <3>2
      <3> QED
        BY <3>1, <3>2
    <2> QED
      BY <1>0, <1>5, <2>3 DEF Past
  <1>6. ASSUME NEW g \in Starts, NEW t \in Sources, Reconnecting(g, t) PROVE Past(s, b)'
    BY <1>5, <1>6, ReconnectStep DEF world, control
  <1>7. ASSUME NEW g \in Starts, NEW t \in Sources, PushBlock(g, t) PROVE Past(s, b)'
    BY <1>5, <1>7, PushStep DEF world, control
  <1> QED
    BY <1>1, <1>2, <1>3, <1>4, <1>6, <1>7 DEF Next, Session

\* The block that a recorder pushes comes after those of its source.
LEMMA PushedFollows ==
    ASSUME IInv, NEW g \in Starts, NEW s \in Sources, PushBlock(g, s), NEW a \in Block, Past(s, a)
    PROVE  Follows(s, a, <<g, recorder[g][s].mark>>)
  <1>1. recorder[g][s].pc = "reading"
    BY PushStep DEF IInv, Types
  <1> QED
    BY <1>1 DEF Past, Follows

\* Of the recorders of a source that take turns, one at a time is under way.
LEMMA OneInTurn ==
    ASSUME TypeOK, Recorders, NEW s \in Sources, NEW g \in Starts, NEW h \in Starts,
           recorder[g][s].pc \in Places, recorder[h][s].pc \in Places, InTurn(s, g, h)
    PROVE  g = h
  <1>1. started \in Nat /\ g \in Nat /\ h \in Nat
    BY DEF TypeOK, Starts
  <1>2. ~(g > started) /\ ~(h > started)
    BY DEF Recorders, Places
  <1>3. CASE <<g, s>> \notin orphans /\ <<h, s>> \notin orphans
    <2>1. ~(g < started) /\ ~(h < started)
      BY <1>3 DEF Recorders
    <2> QED
      BY <1>1, <1>2, <2>1
  <1> QED
    BY <1>3 DEF InTurn

\* Blocks leave the frames in their order; one more may come at the end.
Kept(s) == frames'[s] = frames[s] /\ last'[s] = last[s]
Taken(s) ==
    /\ frames'[s] = <<>>
    /\ last'[s] = last[s] \/ \E i \in 1 .. Len(frames[s]) : last'[s] = frames[s][i]
Grown(s, g) ==
    /\ frames'[s] = Append(frames[s], <<g, recorder[g][s].mark>>) /\ last'[s] = last[s]

LEMMA Flow ==
    ASSUME IInv, [Next]_vars
    PROVE  \/ \A s \in Sources : Kept(s)
           \/ \A s \in Sources : Taken(s)
           \/ \E g \in Starts, s \in Sources :
                PushBlock(g, s) /\ Grown(s, g) /\ \A t \in Sources \ {s} : Kept(t)
  <1>0. TypeOK
    BY DEF IInv, Types
  <1>1. ASSUME NEW s \in Sources, NEW n \in Seq(Block), Len(n) <= Len(frames[s]),
               \A i \in 1 .. Len(n) : n[i] = frames[s][i]
        PROVE  Shipped(s, n) = last[s] \/ \E i \in 1 .. Len(frames[s]) : Shipped(s, n) = frames[s][i]
    <2>1. CASE n = <<>>
      BY <2>1 DEF Shipped
    <2>2. CASE n # <<>>
      <3>1. Len(n) \in 1 .. Len(n) /\ Len(n) \in 1 .. Len(frames[s])
        BY <1>0, <1>1, <2>2, BlockType
      <3> QED
        BY <1>1, <2>2, <3>1 DEF Shipped
    <2> QED
      BY <2>1, <2>2
  <1>2. CASE Ship
    <2>1. \A s \in Sources :
            \/ Shipped(s, Fitting(frames[s])) = last[s]
            \/ \E i \in 1 .. Len(frames[s]) : Shipped(s, Fitting(frames[s])) = frames[s][i]
      BY <1>0, <1>1, FittingPrefix, BlockType
    <2>2. \A s \in Sources : frames'[s] = <<>> /\ last'[s] = Shipped(s, Fitting(frames[s]))
      BY <1>2 DEF Ship, Drained
    <2> QED
      BY <2>1, <2>2 DEF Taken
  <1>3. CASE ShipTail
    <2>1. \A s \in Sources :
            \/ Shipped(s, frames[s]) = last[s]
            \/ \E i \in 1 .. Len(frames[s]) : Shipped(s, frames[s]) = frames[s][i]
      BY <1>0, <1>1, BlockType
    <2>2. \A s \in Sources : frames'[s] = <<>> /\ last'[s] = Shipped(s, frames[s])
      BY <1>3 DEF ShipTail, Drained
    <2> QED
      BY <2>1, <2>2 DEF Taken
  <1>4. ASSUME NEW g \in Starts, NEW s \in Sources, PushBlock(g, s)
        PROVE  Grown(s, g) /\ \A t \in Sources \ {s} : Kept(t)
    <2>1. frames' = [frames EXCEPT ![s] = Append(frames[s], <<g, recorder[g][s].mark>>)] /\ last' = last
      BY <1>0, <1>4, PushStep
    <2>2. DOMAIN frames = Sources
      BY <1>0 DEF TypeOK
    <2> QED
      BY <2>1, <2>2 DEF Grown, Kept
  <1>5. CASE Session \/ Due \/ Tick \/ UNCHANGED vars
    BY <1>5 DEF Session, Due, StartCapture, BeginSegment, Pause, SignalStop, Join, Tick, vars, output, Kept
  <1>6. ASSUME NEW s \in Sources, Flip(s) PROVE \A t \in Sources : Kept(t)
    BY <1>6 DEF Flip, output, Kept
  <1>7. ASSUME NEW g \in Starts, NEW s \in Sources, Reconnecting(g, s) PROVE \A t \in Sources : Kept(t)
    BY <1>0, <1>7, ReconnectStep DEF output, Kept
  <1> QED
    BY <1>2, <1>3, <1>4, <1>5, <1>6, <1>7 DEF Next, Assembler

LEMMA RecordedStep ==
    ASSUME IInv, [Next]_vars, Types'
    PROVE  Recorded'
  <1>1. \A s \in Sources, b \in Block : Past(s, b) => Past(s, b)'
    BY PastKept
  <1>2. \A s \in Sources :
          /\ last[s] \in Block /\ Past(s, last[s])
          /\ frames[s] \in Seq(Block)
          /\ \A i \in 1 .. Len(frames[s]) : frames[s][i] \in Block /\ frames[s][i][1] # 0 /\ Past(s, frames[s][i])
    BY BlockType DEF IInv, Types, Recorded
  <1>3. ASSUME NEW s \in Sources, Kept(s)
        PROVE  Past(s, last[s])' /\ \A i \in 1 .. Len(frames'[s]) : frames'[s][i][1] # 0 /\ Past(s, frames[s][i])'
    <2>1. \A i \in 1 .. Len(frames'[s]) : frames'[s][i] = frames[s][i] /\ i \in 1 .. Len(frames[s])
      BY <1>3 DEF Kept
    <2> QED
      BY <1>1, <1>2, <1>3, <2>1 DEF Kept, Past
  <1>4. ASSUME NEW s \in Sources, Taken(s)
        PROVE  Past(s, last[s])' /\ \A i \in 1 .. Len(frames'[s]) : frames'[s][i][1] # 0 /\ Past(s, frames[s][i])'
    <2>1. Len(frames'[s]) = 0
      BY <1>4 DEF Taken
    <2>2. Past(s, last[s])'
      BY <1>1, <1>2, <1>4 DEF Taken, Past
    <2> QED
      BY <2>1, <2>2
  <1>5. ASSUME NEW s \in Sources, NEW g \in Starts, PushBlock(g, s), Grown(s, g)
        PROVE  Past(s, last[s])' /\ \A i \in 1 .. Len(frames'[s]) : frames'[s][i][1] # 0 /\ Past(s, frames[s][i])'
    <2> DEFINE b == <<g, recorder[g][s].mark>>
    <2>1. PICK r : /\ Moves(g, s, r) /\ UNCHANGED <<world, control>>
                   /\ r.pc = "reading" => r.mark = recorder[g][s].mark + 1
                   /\ recorder[g][s].pc = "reading"
                   /\ recorder[g][s].mark \in Nat /\ recorder[g][s].mark < now
      BY <1>5, PushStep DEF IInv, Types
    <2>2. recorder'[g][s] = r /\ now' = now /\ started' = started
      BY <2>1, Moved DEF IInv, Types, world, control
    <2>3. g # 0 /\ g <= started
      <3>1. g \in Nat \ {0} /\ started \in Nat
        BY DEF IInv, Types, TypeOK, Starts
      <3>2. ~(g > started)
        BY <2>1 DEF IInv, Recorders
      <3> QED
        BY <3>1, <3>2
    <2>4. \A c \in {b} : Past(s, c)'
      <3>1. ASSUME NEW h \in Starts, recorder'[h][s].pc = "reading", InTurn(s, g, h)'
            PROVE  recorder[g][s].mark < recorder'[h][s].mark
        <4>1. CASE h = g
          BY <2>1, <2>2, <3>1, <4>1
        <4>2. CASE h # g
          <5>1. recorder'[h][s] = recorder[h][s]
            BY <2>1, <4>2, Moved DEF IInv, Types
          <5>2. InTurn(s, g, h)
            BY <3>1, OrphansGrow DEF InTurn
          <5>3. g = h
            BY <2>1, <3>1, <5>1, <5>2, OneInTurn DEF IInv, Types, Places
          <5> QED
            BY <4>2, <5>3
        <4> QED
          BY <4>1, <4>2
      <3> QED
        BY <2>1, <2>2, <2>3, <3>1 DEF Past
    <2>5. \A i \in 1 .. Len(frames'[s]) :
            \/ i \in 1 .. Len(frames[s]) /\ frames'[s][i] = frames[s][i]
            \/ frames'[s][i] = b
      BY <1>2, <1>5 DEF Grown
    <2>6. Past(s, last[s])'
      BY <1>1, <1>2, <1>5 DEF Grown, Past
    <2>7. ASSUME NEW i \in 1 .. Len(frames'[s]) PROVE frames'[s][i][1] # 0 /\ Past(s, frames[s][i])'
      <3>1. CASE i \in 1 .. Len(frames[s]) /\ frames'[s][i] = frames[s][i]
        BY <1>1, <1>2, <3>1 DEF Past
      <3>2. CASE frames'[s][i] = b
        BY <2>3, <2>4, <3>2 DEF Past
      <3> QED
        BY <2>5, <3>1, <3>2
    <2> QED
      BY <2>6, <2>7
  <1>6. \A s \in Sources :
          Past(s, last[s])' /\ \A i \in 1 .. Len(frames'[s]) : frames'[s][i][1] # 0 /\ Past(s, frames[s][i])'
    BY <1>3, <1>4, <1>5, Flow
  <1> QED
    BY <1>6 DEF Recorded

LEMMA OrderStep ==
    ASSUME IInv, [Next]_vars
    PROVE  BlocksInOrder'
  <1>1. \A s \in Sources, a \in Block, b \in Block : Follows(s, a, b) => Follows(s, a, b)'
    BY OrphansGrow DEF Follows, InTurn
  <1>2. \A s \in Sources :
          /\ last[s] \in Block /\ frames[s] \in Seq(Block)
          /\ \A i \in 1 .. Len(frames[s]) : frames[s][i] \in Block /\ Follows(s, last[s], frames[s][i])
          /\ \A i, j \in 1 .. Len(frames[s]) : i < j => Follows(s, frames[s][i], frames[s][j])
    BY BlockType DEF IInv, Types, BlocksInOrder
  <1> DEFINE Ordered(s) ==
        /\ \A i, j \in 1 .. Len(frames'[s]) : i < j => Follows(s, frames[s][i], frames[s][j])'
        /\ \A i \in 1 .. Len(frames'[s]) : Follows(s, last[s], frames[s][i])'
  <1>3. ASSUME NEW s \in Sources, Kept(s) PROVE Ordered(s)
    BY <1>1, <1>2, <1>3 DEF Kept, Follows, InTurn
  <1>4. ASSUME NEW s \in Sources, Taken(s) PROVE Ordered(s)
    <2>1. 1 .. Len(frames'[s]) = {}
      BY <1>4 DEF Taken
    <2> QED
      BY <2>1
  <1>5. ASSUME NEW s \in Sources, NEW g \in Starts, PushBlock(g, s), Grown(s, g) PROVE Ordered(s)
    <2> DEFINE b == <<g, recorder[g][s].mark>>
    <2>1. orphans' = orphans
      BY <1>5, PushStep DEF history, IInv, Types
    <2>2. /\ Follows(s, last[s], b)
          /\ \A i \in 1 .. Len(frames[s]) : Follows(s, frames[s][i], b)
      BY <1>2, <1>5, PushedFollows DEF IInv, Recorded
    <2>3. /\ Len(frames'[s]) = Len(frames[s]) + 1 /\ Len(frames[s]) \in Nat /\ last'[s] = last[s]
          /\ \A i \in 1 .. Len(frames'[s]) :
               \/ i \in 1 .. Len(frames[s]) /\ frames'[s][i] = frames[s][i]
               \/ i = Len(frames[s]) + 1 /\ frames'[s][i] = b
      BY <1>2, <1>5 DEF Grown
    <2> HIDE DEF b
    <2>4. ASSUME NEW i \in 1 .. Len(frames'[s]), NEW j \in 1 .. Len(frames'[s]), i < j
          PROVE  Follows(s, frames[s][i], frames[s][j])'
      <3>1. i \in 1 .. Len(frames[s]) /\ frames'[s][i] = frames[s][i]
        BY <2>3, <2>4
      <3> QED
        BY <1>2, <2>1, <2>2, <2>3, <2>4, <3>1 DEF Follows, InTurn
    <2>5. ASSUME NEW i \in 1 .. Len(frames'[s]) PROVE Follows(s, last[s], frames[s][i])'
      BY <1>2, <2>1, <2>2, <2>3, <2>5 DEF Follows, InTurn
    <2> QED
      BY <2>4, <2>5
  <1>6. \A s \in Sources : Ordered(s)
    BY <1>3, <1>4, <1>5, Flow
  <1> QED
    BY <1>6 DEF BlocksInOrder

LEMMA LeftoverStep ==
    ASSUME IInv, [Next]_vars
    PROVE  Leftover'
  <1> SUFFICES ASSUME TypeOK, Recorders, Stopping, Leftover PROVE Leftover'
    BY DEF IInv, Types
  <1>1. CASE StartCapture
    BY <1>1 DEF StartCapture, Leftover
  <1>2. CASE BeginSegment \/ Pause \/ SignalStop \/ Tick \/ UNCHANGED vars
    BY <1>2 DEF BeginSegment, Pause, SignalStop, Tick, vars, control, output, history, Leftover
  <1>3. CASE Join
    <2>1. orphans' = {} => orphans = {}
      BY <1>3 DEF Join
    <2> QED
      BY <1>3, <2>1 DEF Join, output, Leftover
  <1>4. CASE Due \/ Ship
    BY <1>4 DEF Due, Ship, Stopping, Leftover, TypeOK
  <1>5. CASE ShipTail
    <2>1. \A s \in Sources : frames'[s] = <<>>
      BY <1>5 DEF ShipTail, Drained
    <2> QED
      BY <2>1 DEF Leftover
  <1>6. ASSUME NEW g \in Starts, NEW s \in Sources, NEW r, Moves(g, s, r),
               UNCHANGED <<control, assembler, history>>,
               frames' = frames \/ (frames' = [frames EXCEPT ![s] = Append(frames[s], <<g, recorder[g][s].mark>>)]
                                    /\ (stopEvent => r.pc = "done"))
        PROVE  Leftover'
    <2> SUFFICES ASSUME assembler.pc = "done", orphans = {}, NEW t \in Sources
                 PROVE  IF recorder'[started][t].pc = "done" THEN Len(frames'[t]) <= 1 ELSE frames'[t] = <<>>
      BY <1>6 DEF Leftover, control, history
    <2>1. stopEvent
      BY DEF Stopping
    <2>2. g = started
      BY <1>6 DEF Moves, Recorders, TypeOK, Starts, Places
    <2>3. recorder'[started][t] = IF t = s THEN r ELSE recorder[started][t]
      BY <1>6, <2>2, Moved
    <2>4. recorder[g][s].pc # "done" /\ frames[s] = <<>>
      BY <1>6, <2>2 DEF Moves, Places, Leftover
    <2>5. CASE t = s
      <3>1. CASE frames' = frames
        BY <2>3, <2>4, <2>5, <3>1
      <3>2. CASE frames' = [frames EXCEPT ![s] = Append(frames[s], <<g, recorder[g][s].mark>>)] /\ r.pc = "done"
        <4>1. frames'[s] = Append(<<>>, <<g, recorder[g][s].mark>>)
          BY <2>4, <3>2 DEF TypeOK
        <4>2. Len(frames'[s]) = 1
          BY <4>1
        <4>3. recorder'[started][t].pc = "done"
          BY <2>3, <2>5, <3>2
        <4>4. Len(frames'[t]) = 1
          BY <2>5, <4>2
        <4> QED
          BY <4>3, <4>4
      <3> QED
        BY <1>6, <2>1, <3>1, <3>2
    <2>6. CASE t # s
      <3>1. frames'[t] = frames[t]
        BY <1>6, <2>6 DEF TypeOK
      <3> QED
        BY <2>3, <2>6, <3>1 DEF Leftover
    <2> QED
      BY <2>5, <2>6
  <1>7. ASSUME NEW g \in Starts, NEW s \in Sources, Reconnecting(g, s) PROVE Leftover'
    BY <1>6, <1>7, ReconnectStep DEF output
  <1>8. ASSUME NEW g \in Starts, NEW s \in Sources, PushBlock(g, s) PROVE Leftover'
    <2>1. PICK r : Moves(g, s, r)
      BY <1>8, PushStep
    <2>2. recorder'[g][s] = r
      BY <2>1, Moved
    <2> QED
      BY <1>6, <1>8, <2>1, <2>2, PushStep
  <1>9. ASSUME NEW s \in Sources, Flip(s) PROVE Leftover'
    BY <1>9 DEF Flip, control, output, history, Leftover
  <1> QED
    BY <1>1, <1>2, <1>3, <1>4, <1>5, <1>7, <1>8, <1>9 DEF Next, Session, Assembler

-----------------------------------------------------------------------------
(* The two clocks.                                                          *)

LEMMA ClockTypes ==
    ASSUME TypeOK
    PROVE  /\ now \in Nat /\ elapsed \in Nat /\ elapsed <= now /\ skew \in Nat /\ ChunkLength \in Nat \ {0}
           /\ assembler.boundary \in Nat /\ assembler.offset \in Nat
           /\ segment \in Int /\ (segment # Unset => segment \in Nat /\ segment <= now)
           /\ SegmentElapsed \in Nat /\ Recording \in Nat
           /\ segment = Unset => Recording = elapsed
           /\ segment # Unset => Recording = elapsed + (now - segment)
  <1>1. /\ now \in Nat /\ elapsed \in Nat /\ elapsed <= now /\ skew \in Nat /\ ChunkLength \in Nat \ {0}
        /\ assembler.boundary \in Nat /\ assembler.offset \in Nat
        /\ segment \in Int /\ (segment # Unset => segment \in Nat /\ segment <= now)
    BY CaptureAssumption DEF TypeOK, Unset
  <1> QED
    BY <1>1 DEF SegmentElapsed, Recording

\* What the session has recorded never gets less, nor does the assembler's
\* offset but where a start sets it to what the session has recorded.
LEMMA ClocksMove ==
    ASSUME IInv, [Next]_vars
    PROVE  /\ skew' \in Nat /\ skew' >= skew /\ Recording' \in Nat /\ Recording' >= Recording
           /\ \/ /\ assembler'.offset >= assembler.offset
                 /\ chunks' = chunks \/ (chunks' = Append(chunks, assembler.offset) /\ assembler.pc # "none")
              \/ /\ assembler'.offset = Recording /\ chunks' = chunks
  <1> SUFFICES ASSUME TypeOK, Clocks, Stopping
               PROVE  /\ skew' \in Nat /\ skew' >= skew /\ Recording' \in Nat /\ Recording' >= Recording
                      /\ \/ /\ assembler'.offset >= assembler.offset
                            /\ chunks' = chunks \/ (chunks' = Append(chunks, assembler.offset) /\ assembler.pc # "none")
                         \/ /\ assembler'.offset = Recording /\ chunks' = chunks
    BY DEF IInv, Types
  <1> USE ClockTypes
  <1>1. CASE StartCapture
    <2>1. segment = Unset
      BY <1>1 DEF StartCapture, Clocks
    <2>2. /\ UNCHANGED <<skew, now, elapsed, segment, chunks>> /\ assembler'.offset = elapsed
      BY <1>1 DEF StartCapture, InitialOffset, history, output, world
    <2> QED
      BY <2>1, <2>2 DEF Recording, SegmentElapsed
  <1>2. CASE BeginSegment
    <2>1. segment = Unset
      BY <1>2 DEF BeginSegment, Clocks
    <2>2. /\ UNCHANGED <<skew, now, elapsed, chunks, assembler>> /\ segment' = now
      BY <1>2 DEF BeginSegment, history, output, world
    <2> QED
      BY <2>1, <2>2 DEF Recording, SegmentElapsed
  <1>3. CASE Pause
    <2>1. /\ UNCHANGED <<skew, now, chunks, assembler>> /\ segment' = Unset /\ elapsed' = Recording
      BY <1>3 DEF Pause, history, output, world, Recording
    <2> QED
      BY <2>1 DEF Recording, SegmentElapsed
  <1>4. CASE SignalStop
    BY <1>4 DEF SignalStop, history, output, world, Recording, SegmentElapsed
  <1>5. CASE Join
    <2>1. /\ UNCHANGED <<skew, now, chunks, assembler>> /\ segment' = Unset
          /\ elapsed' = IF final THEN Recording ELSE elapsed
      BY <1>5 DEF Join, output, world, Recording
    <2>2. ~final => segment = Unset
      BY <1>5 DEF Join, Clocks
    <2> QED
      BY <2>1, <2>2 DEF Recording, SegmentElapsed
  <1>6. CASE Assembler
    <2>1. UNCHANGED <<skew, now, elapsed, segment>>
      BY <1>6 DEF Assembler, Due, Ship, ShipTail, history, control, world
    <2>2. /\ assembler'.offset >= assembler.offset
          /\ chunks' = chunks \/ (chunks' = Append(chunks, assembler.offset) /\ assembler.pc # "none")
      <3>1. CASE Ship
        <4>1. assembler'.offset = assembler.offset + ChunkLength /\ assembler.pc = "due"
              /\ chunks' = Append(chunks, assembler.offset)
          BY <3>1 DEF Ship, TypeOK
        <4> QED
          BY <4>1
      <3>2. CASE ShipTail
        <4>1. assembler'.offset = assembler.offset /\ assembler.pc = "wait"
              /\ (chunks' = chunks \/ chunks' = Append(chunks, assembler.offset))
          BY <3>2 DEF ShipTail, TypeOK
        <4> QED
          BY <4>1
      <3>3. CASE Due
        BY <3>3 DEF Due, TypeOK, output
      <3> QED
        BY <1>6, <3>1, <3>2, <3>3 DEF Assembler
    <2> QED
      BY <2>1, <2>2 DEF Recording, SegmentElapsed
  <1>7. ASSUME NEW g \in Starts, NEW s \in Sources, Reconnecting(g, s) \/ PushBlock(g, s)
        PROVE  UNCHANGED <<skew, now, elapsed, segment, chunks, assembler>>
    BY <1>7, ReconnectStep, PushStep DEF world, control, output, history
  <1>8. CASE Tick
    <2>1. /\ UNCHANGED <<elapsed, segment, chunks, assembler>> /\ now' = now + 1 /\ skew' \in {skew, skew + 1}
      BY <1>8 DEF Tick, control, output
    <2> QED
      BY <2>1 DEF Recording, SegmentElapsed
  <1>9. ASSUME NEW s \in Sources, Flip(s)
        PROVE  UNCHANGED <<skew, now, elapsed, segment, chunks, assembler>>
    BY <1>9 DEF Flip, control, output, history
  <1>10. CASE UNCHANGED vars
    BY <1>10 DEF vars, world, control, output, history, Recording, SegmentElapsed
  <1>11. CASE UNCHANGED <<skew, now, elapsed, segment, chunks, assembler>>
    BY <1>11 DEF Recording, SegmentElapsed
  <1> QED
    BY <1>1, <1>2, <1>3, <1>4, <1>5, <1>6, <1>7, <1>8, <1>9, <1>10, <1>11 DEF Next, Session

LEMMA ClocksStep ==
    ASSUME IInv, [Next]_vars
    PROVE  Clocks'
  <1> SUFFICES ASSUME TypeOK, Clocks, Stopping PROVE Clocks'
    BY DEF IInv, Types
  <1> USE ClockTypes
  <1>1. CASE StartCapture
    <2>1. segment = Unset
      BY <1>1 DEF StartCapture, Clocks
    <2>2. /\ UNCHANGED <<skew, now, elapsed, segment>> /\ session' = "starting"
          /\ assembler' = [pc |-> "wait", boundary |-> now + ChunkLength, offset |-> elapsed]
      BY <1>1 DEF StartCapture, InitialOffset, history, world
    <2> QED
      BY <2>1, <2>2 DEF Clocks, Recording, SegmentElapsed
  <1>2. CASE BeginSegment
    <2>1. segment = Unset
      BY <1>2 DEF BeginSegment, Clocks
    <2>2. /\ UNCHANGED <<skew, now, elapsed, assembler, stopEvent>> /\ segment' = now /\ now # Unset
          /\ session = "starting" /\ session' = "capturing"
      BY <1>2 DEF BeginSegment, history, world, Unset
    <2>3. Recording' = Recording
      BY <2>1, <2>2 DEF Recording, SegmentElapsed
    <2> QED
      BY <2>2, <2>3 DEF Clocks
  <1>3. CASE Pause
    <2>1. /\ UNCHANGED <<skew, now, assembler, stopEvent>> /\ segment' = Unset /\ elapsed' = Recording
          /\ session = "capturing" /\ session' = "pausing"
      BY <1>3 DEF Pause, history, world, Recording
    <2>2. Recording' = Recording
      BY <2>1 DEF Recording, SegmentElapsed
    <2> QED
      BY <2>1, <2>2 DEF Clocks
  <1>4. CASE SignalStop
    <2>1. /\ UNCHANGED <<skew, now, elapsed, segment, assembler>> /\ stopEvent' = TRUE
          /\ session' = "joining" /\ session # "idle" /\ (segment # Unset => final' = TRUE)
      BY <1>4 DEF SignalStop, history, world, Clocks
    <2>2. Recording' = Recording
      BY <2>1 DEF Recording, SegmentElapsed
    <2> QED
      BY <2>1, <2>2 DEF Clocks
  <1>5. CASE Join
    <2>1. /\ UNCHANGED <<skew, now, assembler>> /\ segment' = Unset /\ stopEvent' = stopEvent /\ stopEvent
          /\ elapsed' = IF final THEN Recording ELSE elapsed
          /\ session = "joining" /\ session' \in {"stopped", "paused"}
      BY <1>5 DEF Join, world, Recording, Stopping
    <2>2. ~final => segment = Unset
      BY <1>5 DEF Join, Clocks
    <2>3. Recording' = Recording
      BY <2>1, <2>2 DEF Recording, SegmentElapsed
    <2> QED
      BY <2>1, <2>3 DEF Clocks
  <1>6. CASE Ship
    <2>1. /\ UNCHANGED <<skew, now, elapsed, segment, session, final, stopEvent>>
          /\ assembler.pc = "due" /\ assembler'.pc = "wait"
          /\ assembler'.boundary = assembler.boundary + ChunkLength
          /\ assembler'.offset = assembler.offset + ChunkLength
      BY <1>6 DEF Ship, history, control, world, TypeOK
    <2>2. Recording' = Recording
      BY <2>1 DEF Recording, SegmentElapsed
    <2> QED
      BY <2>1, <2>2 DEF Clocks
  <1>7. CASE ShipTail
    <2>1. /\ UNCHANGED <<skew, now, elapsed, segment, session, final, stopEvent>>
          /\ assembler.pc = "wait" /\ assembler'.pc = "done"
          /\ assembler'.boundary = assembler.boundary /\ assembler'.offset = assembler.offset
      BY <1>7 DEF ShipTail, history, control, world, TypeOK
    <2>2. Recording' = Recording
      BY <2>1 DEF Recording, SegmentElapsed
    <2> QED
      BY <2>1, <2>2 DEF Clocks
  <1>8. CASE Tick
    <2>1. /\ UNCHANGED <<elapsed, segment, assembler, session, final, stopEvent>> /\ now' = now + 1
          /\ session \notin {"idle", "stopped"}
          /\ skew' = IF session \in {"starting", "pausing"} THEN skew + 1 ELSE skew
      BY <1>8 DEF Tick, control
    <2>2. Recording' = IF segment = Unset THEN Recording ELSE Recording + 1
      BY <2>1 DEF Recording, SegmentElapsed
    <2>3. ~stopEvent => Recording' + skew' >= Recording + skew + 1
      <3>1. ~stopEvent => session \in {"starting", "capturing", "pausing"}
        BY <2>1 DEF Stopping, TypeOK
      <3> QED
        BY <2>1, <2>2, <3>1 DEF Clocks
    <2>4. Recording' + skew' >= Recording + skew
      BY <2>1, <2>2
    <2> QED
      BY <2>1, <2>2, <2>3, <2>4 DEF Clocks
  <1>9. CASE UNCHANGED <<now, elapsed, segment, skew, session, final, stopEvent, assembler>>
    BY <1>9 DEF Clocks, Recording, SegmentElapsed
  <1>10. ASSUME NEW g \in Starts, NEW s \in Sources, Reconnecting(g, s) \/ PushBlock(g, s)
         PROVE  UNCHANGED <<now, elapsed, segment, skew, session, final, stopEvent, assembler>>
    BY <1>10, ReconnectStep, PushStep DEF world, control, history
  <1>11. ASSUME NEW s \in Sources, Flip(s)
         PROVE  UNCHANGED <<now, elapsed, segment, skew, session, final, stopEvent, assembler>>
    BY <1>11 DEF Flip, control, history
  <1>12. CASE UNCHANGED vars
    BY <1>9, <1>12 DEF vars, world, control, history
  <1>13. CASE Due
    <2>1. /\ UNCHANGED <<skew, now, elapsed, segment, session, final, stopEvent>> /\ ~stopEvent
          /\ now >= assembler.boundary /\ assembler.pc = "wait" /\ assembler'.pc = "due"
          /\ assembler'.boundary = assembler.boundary /\ assembler'.offset = assembler.offset
      BY <1>13 DEF Due, history, control, world, TypeOK
    <2>2. Recording' = Recording
      BY <2>1 DEF Recording, SegmentElapsed
    <2> QED
      BY <2>1, <2>2 DEF Clocks
  <1> QED
    BY <1>1, <1>2, <1>3, <1>4, <1>5, <1>6, <1>7, <1>8, <1>9, <1>10, <1>11, <1>12, <1>13
       DEF Next, Session, Assembler

LEMMA OffsetsStep ==
    ASSUME IInv, [Next]_vars, Types'
    PROVE  Offsets' /\ StartsInOrder'
  <1>1. /\ chunks \in Seq(Nat) /\ skew \in Nat /\ assembler.offset \in Nat /\ assembler'.offset \in Nat
        /\ Recording \in Nat /\ Recording' \in Nat
        /\ \A i \in 1 .. Len(chunks) : chunks[i] \in Nat
    <2>1. chunks \in Seq(Nat) /\ skew \in Nat /\ assembler.offset \in Nat /\ Recording \in Nat
      BY ClockTypes DEF IInv, Types, TypeOK
    <2>2. assembler'.offset \in Nat
      BY DEF Types, TypeOK
    <2>3. Recording' \in Nat
      BY ClocksMove
    <2> QED
      BY <2>1, <2>2, <2>3
  <1>2. /\ skew' \in Nat /\ skew' >= skew /\ Recording' >= Recording
        /\ \/ /\ assembler'.offset >= assembler.offset
              /\ chunks' = chunks \/ (chunks' = Append(chunks, assembler.offset) /\ assembler.pc # "none")
           \/ /\ assembler'.offset = Recording /\ chunks' = chunks
    BY ClocksMove
  <1>3. \A i \in 1 .. Len(chunks) : chunks[i] <= assembler.offset + skew /\ chunks[i] <= Recording + skew
    BY DEF IInv, Offsets
  <1>4. assembler.pc # "none" => assembler.offset <= Recording + skew
    BY DEF IInv, Clocks
  <1>5. \A i, j \in 1 .. Len(chunks) : i < j => chunks[i] <= chunks[j] + skew
    BY DEF IInv, StartsInOrder
  <1>6. ASSUME NEW i \in 1 .. Len(chunks)
        PROVE  chunks[i] <= assembler'.offset + skew' /\ chunks[i] <= Recording' + skew'
    <2>1. chunks[i] \in Nat /\ chunks[i] <= assembler.offset + skew /\ chunks[i] <= Recording + skew
      BY <1>1, <1>3
    <2>2. assembler'.offset >= assembler.offset \/ assembler'.offset = Recording
      BY <1>2
    <2>3. /\ skew \in Nat /\ skew' \in Nat /\ skew' >= skew
          /\ Recording \in Nat /\ Recording' \in Nat /\ Recording' >= Recording
          /\ assembler.offset \in Nat /\ assembler'.offset \in Nat
      BY <1>1, <1>2
    <2> QED
      BY <2>1, <2>2, <2>3
  <1>7. CASE chunks' = chunks
    <2>1. \A i \in 1 .. Len(chunks) : chunks[i] <= assembler'.offset + skew' /\ chunks[i] <= Recording' + skew'
      BY <1>6
    <2>2. ASSUME NEW i \in 1 .. Len(chunks), NEW j \in 1 .. Len(chunks), i < j
          PROVE  chunks[i] <= chunks[j] + skew'
      <3>1. chunks[i] \in Nat /\ chunks[j] \in Nat /\ chunks[i] <= chunks[j] + skew
        BY <1>1, <1>5, <2>2
      <3>2. skew \in Nat /\ skew' \in Nat /\ skew' >= skew
        BY <1>1, <1>2
      <3> QED
        BY <3>1, <3>2
    <2> QED
      BY <1>7, <2>1, <2>2 DEF Offsets, StartsInOrder
  <1>8. CASE /\ chunks' = Append(chunks, assembler.offset) /\ assembler.pc # "none"
             /\ assembler'.offset >= assembler.offset
    <2>1. /\ Len(chunks') = Len(chunks) + 1 /\ Len(chunks) \in Nat
          /\ \A i \in 1 .. Len(chunks') :
               \/ i \in 1 .. Len(chunks) /\ chunks'[i] = chunks[i]
               \/ i = Len(chunks) + 1 /\ chunks'[i] = assembler.offset
      BY <1>1, <1>8
    <2>2. \A i \in 1 .. Len(chunks') : chunks'[i] <= assembler'.offset + skew' /\ chunks'[i] <= Recording' + skew'
      <3>1. assembler.offset <= assembler'.offset + skew' /\ assembler.offset <= Recording' + skew'
        BY <1>1, <1>2, <1>4, <1>8
      <3> QED
        BY <1>6, <2>1, <3>1
    <2>3. ASSUME NEW i \in 1 .. Len(chunks'), NEW j \in 1 .. Len(chunks'), i < j
          PROVE  chunks'[i] <= chunks'[j] + skew'
      <3>1. i \in 1 .. Len(chunks) /\ chunks'[i] = chunks[i]
        BY <2>1, <2>3
      <3>2. CASE j \in 1 .. Len(chunks) /\ chunks'[j] = chunks[j]
        <4>1. chunks[i] <= chunks[j] + skew /\ chunks[i] \in Nat /\ chunks[j] \in Nat
          BY <1>1, <1>5, <2>3, <3>1, <3>2
        <4> QED
          BY <1>1, <1>2, <3>1, <3>2, <4>1
      <3>3. CASE chunks'[j] = assembler.offset
        <4>1. chunks[i] <= assembler.offset + skew /\ chunks[i] \in Nat
          BY <1>1, <1>3, <3>1
        <4> QED
          BY <1>1, <1>2, <3>1, <3>3, <4>1
      <3> QED
        BY <2>1, <3>2, <3>3
    <2> QED
      BY <2>2, <2>3 DEF Offsets, StartsInOrder
  <1> QED
    BY <1>2, <1>7, <1>8

-----------------------------------------------------------------------------
(* Theorems.                                                                *)

LEMMA Invariance == IInv /\ [Next]_vars => IInv'
  <1> SUFFICES ASSUME IInv, [Next]_vars PROVE IInv'
    OBVIOUS
  <1>1. Types'
    BY TypesStep
  <1>2. Recorders' /\ Stopping'
    BY RecordersStep, StoppingStep
  <1>3. Recorded' /\ BlocksInOrder' /\ Leftover'
    BY <1>1, RecordedStep, OrderStep, LeftoverStep
  <1>4. Clocks' /\ Offsets' /\ StartsInOrder'
    BY <1>1, ClocksStep, OffsetsStep
  <1> QED
    BY <1>1, <1>2, <1>3, <1>4 DEF IInv

\* Every variable keeps its type: no recorder is ahead of the time, and a join
\* gives up only on recorders that there are.
THEOREM TypeCorrect == Spec => []TypeOK
<1>1. IInv => TypeOK
  BY DEF IInv, Types
<1> QED
  BY <1>1, InitInv, Invariance, PTL DEF Spec

\* No audio is shipped twice or overtaken, through any number of starts, pauses
\* and lost devices: of a recorder among its own blocks, and of every two
\* recorders of a source that were both seen to end, whatever others did.
THEOREM BlocksKeepTheirOrder == Spec => []BlocksInOrder
<1>1. IInv => BlocksInOrder
  BY DEF IInv
<1> QED
  BY <1>1, InitInv, Invariance, PTL DEF Spec

\* Where every recorder was joined, a stop leaves at most one block of a source.
THEOREM TailIsFlushed == Spec => []TailLeftBound
<1>1. ASSUME IInv PROVE TailLeftBound
  <2>1. ASSUME session \in {"paused", "stopped"}, orphans = {}, NEW s \in Sources PROVE Len(frames[s]) <= 1
    <3>1. assembler.pc = "done"
      BY <1>1, <2>1 DEF IInv, Stopping
    <3>2. IF recorder[started][s].pc = "done" THEN Len(frames[s]) <= 1 ELSE frames[s] = <<>>
      BY <1>1, <2>1, <3>1 DEF IInv, Leftover
    <3> QED
      BY <3>2
  <2> QED
    BY <2>1 DEF TailLeftBound
<1> QED
  BY <1>1, InitInv, Invariance, PTL DEF Spec

\* The offsets of the chunks go back by no more than the time that start() and
\* pause() took.
THEOREM OffsetsContinue == Spec => []StartsInOrder
<1>1. IInv => StartsInOrder
  BY DEF IInv
<1> QED
  BY <1>1, InitInv, Invariance, PTL DEF Spec

\* So many blocks of one recorder, in their order, as fit into a window.
LEMMA WindowHolds ==
    ASSUME NEW blocks \in Seq(Block), NEW from \in Int, NEW g,
           \A i \in 1 .. Len(blocks) :
             blocks[i][1] = g /\ blocks[i][2] \in from .. (from + ChunkLength - 1),
           \A i, j \in 1 .. Len(blocks) : i < j => blocks[i][2] < blocks[j][2]
    PROVE  Len(blocks) <= ChunkLength
  <1> DEFINE times == from .. (from + ChunkLength - 1)
             time == [i \in 1 .. Len(blocks) |-> blocks[i][2]]
  <1>0. ChunkLength \in Nat \ {0} /\ Len(blocks) \in Nat
    BY CaptureAssumption
  <1>1. IsFiniteSet(times) /\ Cardinality(times) = ChunkLength
    BY <1>0, FS_Interval
  <1>2. IsFiniteSet(1 .. Len(blocks)) /\ Cardinality(1 .. Len(blocks)) = Len(blocks)
    BY <1>0, FS_Interval
  <1>3. time \in [1 .. Len(blocks) -> times]
    OBVIOUS
  <1>4. SUFFICES ASSUME ChunkLength < Len(blocks) PROVE FALSE
    BY <1>0
  <1>5. PICK i \in 1 .. Len(blocks), j \in 1 .. Len(blocks) : i # j /\ time[i] = time[j]
    <2> HIDE DEF times, time
    <2> QED
      BY <1>1, <1>2, <1>3, <1>4, FS_PigeonHole
  <1>6. i < j \/ j < i
    BY <1>5
  <1>7. blocks[i][2] \in Int /\ blocks[j][2] \in Int
    OBVIOUS
  <1> QED
    BY <1>5, <1>6, <1>7

\* A chunk is cut only where a thread was off schedule.
THEOREM CutsAreOffSchedule == Spec => CutsOnlyOffSchedule
<1>1. ASSUME IInv, [Next]_vars
      PROVE  [Len(chunks') > Len(chunks) =>
                \A s \in Sources : OffSchedule(s) = {} /\ frames[s] # <<>> /\ orphans = {} =>
                   last'[s] = frames[s][Len(frames[s])]]_vars
  <2> SUFFICES ASSUME Len(chunks') > Len(chunks), NEW s \in Sources, OffSchedule(s) = {}, frames[s] # <<>>
               PROVE  last'[s] = frames[s][Len(frames[s])]
    OBVIOUS
  <2>0. frames[s] \in Seq(Block) /\ chunks \in Seq(Nat) /\ assembler.boundary \in Nat /\ ChunkLength \in Nat
    BY <1>1, BlockType, ClockTypes DEF IInv, Types, TypeOK
  <2>1. Ship \/ ShipTail
    <3>1. ASSUME NEW g \in Starts, NEW t \in Sources, Reconnecting(g, t) \/ PushBlock(g, t)
          PROVE  chunks' = chunks
      BY <1>1, <3>1, ReconnectStep, PushStep DEF output, IInv, Types
    <3>2. CASE chunks' = chunks
      BY <2>0, <3>2
    <3> QED
      BY <1>1, <3>1, <3>2 DEF Next, Session, StartCapture, BeginSegment, Pause, SignalStop, Join, Assembler,
         Due, Tick, Flip, vars, output
  <2>2. CASE ShipTail
    BY <2>2 DEF ShipTail, Shipped
  <2>3. CASE Ship
    <3>1. \A i \in 1 .. Len(frames[s]) :
            /\ frames[s][i][1] = started
            /\ frames[s][i][2] \in (assembler.boundary - ChunkLength) .. (assembler.boundary - 1)
      BY DEF OffSchedule
    <3>2. \A i, j \in 1 .. Len(frames[s]) : i < j => frames[s][i][2] < frames[s][j][2]
      <4>1. \A i \in 1 .. Len(frames[s]) : frames[s][i][1] # 0
        BY <1>1 DEF IInv, Recorded
      <4> QED
        BY <1>1, <3>1, <4>1 DEF IInv, BlocksInOrder, Follows, InTurn
    <3> DEFINE from == assembler.boundary - ChunkLength
    <3>3. from \in Int /\ assembler.boundary - 1 = from + ChunkLength - 1
      BY <2>0
    <3> HIDE DEF from
    <3>4. \A i \in 1 .. Len(frames[s]) : frames[s][i][1] = started /\ frames[s][i][2] \in from .. (from + ChunkLength - 1)
      BY <3>1, <3>3 DEF from
    <3>5. Len(frames[s]) <= ChunkLength
      BY <2>0, <3>2, <3>3, <3>4, WindowHolds
    <3>6. Fitting(frames[s]) = frames[s]
      BY <2>0, <3>5, FittingPrefix
    <3> QED
      BY <2>3, <3>6 DEF Ship, Shipped
  <2> QED
    BY <2>1, <2>2, <2>3
<1> QED
  BY <1>1, InitInv, Invariance, PTL DEF Spec, CutsOnlyOffSchedule
=============================================================================
