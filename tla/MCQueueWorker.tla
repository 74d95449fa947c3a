---------------------------- MODULE MCQueueWorker ----------------------------
(* Instances of QueueWorker for TLC.                                         *)
EXTENDS QueueWorker, TLC

CONSTANTS g1, g2, j1, j2
=============================================================================
