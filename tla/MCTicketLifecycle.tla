--------------------------- MODULE MCTicketLifecycle ---------------------------
(* Small instances of TicketLifecycle: which bodies the clients send.        *)
EXTENDS TicketLifecycle, TLC

Plain == [schedule |-> "keep", fill |-> {}, blank |-> {}]

\* A body of PATCH /tickets/:id/status that satisfies every check on itself.
Full(s) == [status |-> s, reason |-> s = "CANCELLED", schedules |-> FALSE,
            report |-> IF s = "RESOLVED" THEN ReportFields ELSE {}]

\* Edits that touch what the status checks look at, and one that does not.
MCUpdates == {[Plain EXCEPT !.schedule = "set"], [Plain EXCEPT !.schedule = "clear"],
              [Plain EXCEPT !.blank = {"diagnosis"}]}

\* Moves around scheduling and around the work itself, with a cancellation without
\* a reason and a report left incomplete.
MCMoves == {[Full("SCHEDULED") EXCEPT !.schedules = TRUE], Full("SCHEDULED"),
            Full("IN_PROGRESS"), Full("CANCELLED"), [Full("CANCELLED") EXCEPT !.reason = FALSE],
            Full("RESOLVED"), Full("CLOSED"), [Full("RESOLVED") EXCEPT !.report = {"diagnosis"}]}

MCPauseMoves == {Full("PAUSED"), Full("IN_PROGRESS")}

MCAllOps == Ops
MCNoUpdates == {}

MCSymmetry == Permutations(Requests)
=============================================================================
