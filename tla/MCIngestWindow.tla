-------------------------- MODULE MCIngestWindow --------------------------
(* Instances of IngestWindow for TLC. *)
EXTENDS IngestWindow

OneRepo == {0}
============================================================================
