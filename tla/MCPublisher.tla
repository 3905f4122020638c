---------------------------- MODULE MCPublisher ----------------------------
(* The publisher on a small instance. *)
EXTENDS Publisher, TLC

\* Backward workers are interchangeable.
BackWorkerSymmetry == Permutations(BackWorkers)
=============================================================================
