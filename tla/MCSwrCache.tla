------------------------------- MODULE MCSwrCache -------------------------------
(* Small instances of SwrCache.  Readers and writers are interchangeable, but  *)
(* its run checks liveness, for which TLC cannot use symmetry.                 *)
EXTENDS SwrCache
=============================================================================
