--------------------------- MODULE MCMetadataStore ---------------------------
(* Instances of MetadataStore for TLC: the session's store is called by two *)
(* threads, the AI pipeline has its own.                                    *)
EXTENDS MetadataStore

CONSTANTS handler, worker, pipeline, session, fresh

MCStoreOf == [w \in Setters |-> IF w = pipeline THEN fresh ELSE session]
=============================================================================
