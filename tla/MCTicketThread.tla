---------------------------- MODULE MCTicketThread ----------------------------
(* A small instance of TicketThread.  Requests and users are interchangeable.  *)
EXTENDS TicketThread, TLC

\* One that is fine, one that is longer than the multipart limit, one refused.
MCFiles == {[name |-> "photo", size |-> 1, valid |-> TRUE],
            [name |-> "scan", size |-> 3, valid |-> TRUE],
            [name |-> "script", size |-> 1, valid |-> FALSE]}

MCSymmetry == Permutations(Requests) \cup Permutations(Users)
=============================================================================
