----------------------------- MODULE MCJobQueue -----------------------------
(* Instances of JobQueue for TLC.                                          *)
EXTENDS JobQueueRefinement, TLC

CONSTANTS w1, w2

\* Two crash-prone workers are interchangeable.
WorkerSymmetry == Permutations({w1, w2})
=============================================================================
