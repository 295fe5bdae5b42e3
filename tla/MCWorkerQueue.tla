----------------------------- MODULE MCWorkerQueue -----------------------------
(* Small instances of WorkerQueue.                                          *)
EXTENDS WorkerQueue, TLC

MCSymmetry == Permutations(Jobs) \cup Permutations(Workers)
=============================================================================
