--------------------------- MODULE MCQueueWorker ---------------------------
(***************************************************************************)
(* Small instances of the workers over the queue for TLC.                  *)
(***************************************************************************)
EXTENDS QueueWorker

=============================================================================
