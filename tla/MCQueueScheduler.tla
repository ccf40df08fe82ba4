-------------------------- MODULE MCQueueScheduler --------------------------
(* Small instances of QueueScheduler.                                      *)
EXTENDS QueueScheduler

Symmetry == Permutations(Conns) \cup Permutations(Pool)
              \cup Permutations(Clients)
=============================================================================
