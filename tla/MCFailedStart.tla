--------------------------- MODULE MCFailedStart ---------------------------
(* RuntimeCheckpoint when a stage of Start before the restore may fail:    *)
(* the migration, the bootstrap, the load or the recovery.                 *)
EXTENDS RuntimeCheckpoint
=============================================================================
