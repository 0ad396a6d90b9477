--------------------------- MODULE MCOutboxWorker ---------------------------
(***************************************************************************)
(* Instances of OutboxWorker: two events in batches of up to two, taken by *)
(* one worker or by those of two server processes.                         *)
(***************************************************************************)
EXTENDS OutboxWorker
=============================================================================
