------------------------------ MODULE MCRealtime ------------------------------
(* Small instances of Realtime.  Its run checks liveness, for which TLC cannot *)
(* use symmetry.                                                              *)
EXTENDS Realtime
=============================================================================
