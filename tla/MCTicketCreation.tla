--------------------------- MODULE MCTicketCreation ---------------------------
(* Small instances of TicketCreation.                                       *)
EXTENDS TicketCreation, TLC

MCSymmetry == Permutations(Attempts)
=============================================================================
