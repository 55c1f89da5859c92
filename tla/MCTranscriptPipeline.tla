------------------------ MODULE MCTranscriptPipeline ------------------------
(* Instances of TranscriptPipeline for TLC.                                 *)
EXTENDS TranscriptPipeline
=============================================================================
