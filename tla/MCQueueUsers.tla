---------------------------- MODULE MCQueueUsers ----------------------------
(* A small instance of QueueUsers for TLC, with the options of MCFifoMuxer. *)
EXTENDS QueueUsers, MCFifoMuxer
=============================================================================
