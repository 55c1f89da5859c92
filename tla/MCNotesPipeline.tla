--------------------------- MODULE MCNotesPipeline ---------------------------
(* Instances of NotesPipeline for TLC.                                      *)
EXTENDS NotesPipeline
=============================================================================
