----------------------------- MODULE TicketContract -----------------------------
(***************************************************************************)
(* What the ticket endpoints promise, whatever the order in which their     *)
(* handlers interleave: every write moves the version on by exactly one; a  *)
(* ticket changes status only along the transition table; a soft-deleted    *)
(* ticket never changes again.  TicketLifecycle is shown to implement this. *)
(***************************************************************************)
EXTENDS Integers, TicketStatus

CONSTANTS Tickets,       \* ticket ids
          SeedStatuses   \* statuses a ticket may have when observation starts

VARIABLES status,   \* [Tickets -> Statuses]
          version,  \* [Tickets -> Nat]
          deleted   \* [Tickets -> BOOLEAN], deletedAt is set

vars == <<status, version, deleted>>

Init == /\ status \in [Tickets -> SeedStatuses]
        /\ version = [t \in Tickets |-> 1]
        /\ deleted = [t \in Tickets |-> FALSE]

Bump(t) == /\ ~deleted[t]
           /\ version' = [version EXCEPT ![t] = @ + 1]

\* A field edit: only the version shows.
Edit(t) == Bump(t) /\ UNCHANGED <<status, deleted>>

\* A legal move along the transition table.
Move(t) == /\ Bump(t)
           /\ \E s \in ValidTransitions[status[t]] : status' = [status EXCEPT ![t] = s]
           /\ UNCHANGED deleted

Remove(t) == /\ Bump(t)
             /\ deleted' = [deleted EXCEPT ![t] = TRUE]
             /\ UNCHANGED status

Next == \E t \in Tickets : Edit(t) \/ Move(t) \/ Remove(t)

Spec == Init /\ [][Next]_vars
=============================================================================
