----------------------------- MODULE MCMasterData -----------------------------
(* A small instance of MasterData.  Requests are interchangeable.              *)
EXTENDS MasterData, TLC

Symmetry == Permutations(Requests)
=============================================================================
