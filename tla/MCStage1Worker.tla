--------------------------- MODULE MCStage1Worker ---------------------------
(* Two batches and up to two spurious wake-ups. *)
EXTENDS Stage1Worker
CONSTANTS b1, b2
MCJobs == {b1, b2}
=============================================================================
