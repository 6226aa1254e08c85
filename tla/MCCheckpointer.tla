--------------------------- MODULE MCCheckpointer ---------------------------
(* Model values for the small instances of Checkpointer.                   *)
EXTENDS Checkpointer, TLC

CONSTANTS t1, t2, t3

\* The threads are interchangeable.
ThreadSymmetry == Permutations(Threads)
=============================================================================
