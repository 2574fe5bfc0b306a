---------------------------- MODULE MCQueueWorker ----------------------------
(* Instances of QueueWorker for TLC: tasks and workers are interchangeable.  *)
EXTENDS QueueWorker, TLC

MCSymmetry == Permutations(Tasks) \cup Permutations(Workers)
=============================================================================
