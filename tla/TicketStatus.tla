------------------------------ MODULE TicketStatus ------------------------------
(***************************************************************************)
(* The ticket life cycle as data: the statuses of the Prisma enum and the   *)
(* transition table of apps/api/src/modules/tickets/service.ts.             *)
(***************************************************************************)

Statuses == {"NEW", "TRIAGE", "SCHEDULED", "IN_PROGRESS", "WAITING_CLIENT",
             "WAITING_SUPPLIER", "PAUSED", "RESOLVED", "CLOSED", "CANCELLED"}

\* The four fields of the closing report a RESOLVED ticket carries.
ReportFields == {"diagnosis", "action", "validation", "conclusion"}

\* From each status, the statuses changeTicketStatus lets a ticket move to.
ValidTransitions ==
    [ s \in Statuses |->
        CASE s = "NEW"         -> {"TRIAGE", "CANCELLED"}
          [] s = "TRIAGE"      -> {"SCHEDULED", "IN_PROGRESS", "CANCELLED"}
          [] s = "IN_PROGRESS" -> {"WAITING_CLIENT", "WAITING_SUPPLIER",
                                   "PAUSED", "RESOLVED", "CANCELLED"}
          [] s = "RESOLVED"    -> {"CLOSED", "IN_PROGRESS"}
          [] s \in {"CLOSED", "CANCELLED"} -> {}
          [] OTHER             -> {"IN_PROGRESS", "CANCELLED"} ]

=============================================================================
