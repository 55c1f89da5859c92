-------------------------- MODULE DurableTranscript --------------------------
(***************************************************************************)
(* What the transcription component promises its users, without the queue, *)
(* the worker thread or the files: captured chunks wait in order, each     *)
(* becomes one record of a log that only grows, and a crash loses at most  *)
(* what was still waiting.                                                 *)
(***************************************************************************)
EXTENDS Naturals, Sequences

CONSTANTS
    Chunk,   \* the chunks of audio
    MayDrop  \* TRUE: a chunk whose record cannot be written is given up

VARIABLES
    log,     \* the durable records, [chunk, index, ok]
    waiting  \* the chunks captured but not yet recorded, oldest first

Record == [chunk : Chunk, index : Nat, ok : BOOLEAN]

Init == log = <<>> /\ waiting = <<>>

\* A chunk is captured.
Accept ==
    /\ Len(waiting') = Len(waiting) + 1
    /\ waiting'[Len(waiting')] \in Chunk
    /\ waiting' = Append(waiting, waiting'[Len(waiting')])
    /\ UNCHANGED log

\* The oldest chunk is recorded under an index larger than all before it,
\* with its text or as failed.
Commit ==
    LET new == log'[Len(log')] IN
    /\ waiting # <<>>
    /\ Len(log') = Len(log) + 1
    /\ new \in Record
    /\ new.chunk = Head(waiting)
    /\ \A i \in 1 .. Len(log) : log[i].index < new.index
    /\ log' = Append(log, new)
    /\ waiting' = Tail(waiting)

\* The disk refused the record of the oldest chunk.
Drop ==
    /\ MayDrop /\ waiting # <<>>
    /\ waiting' = Tail(waiting)
    /\ UNCHANGED log

\* The process dies: nothing recorded is lost.
Lose == waiting' = <<>> /\ UNCHANGED log

Next == Accept \/ Commit \/ Drop \/ Lose

Spec == Init /\ [][Next]_<<log, waiting>>
=============================================================================
