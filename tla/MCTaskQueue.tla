---------------------------- MODULE MCTaskQueue ----------------------------
(* Instances of TaskQueue for TLC: workers and operators are interchangeable.*)
EXTENDS TaskQueueJobs, TLC

MCTasks2 == 1..2

MCTasks3 == 1..3

MCSymmetry == Permutations(Workers) \cup Permutations(Operators)
=============================================================================
