--------------------------- MODULE TicketStatuses ---------------------------
(***************************************************************************)
(* The ticket workflow as the database is seeded with it: status codes,    *)
(* the flags on them, and the transition table every status change is      *)
(* looked up in (apps/api/prisma/seed.ts).  Constant-level: no state.      *)
(***************************************************************************)

(* Statuses in which the SLA clocks stand still (pausesSla). *)
PausesSla == {"scheduled", "pending_user", "known_error", "pending_vendor",
              "pending_approval", "on_hold"}

(* Statuses flagged isTerminal. *)
Terminal == {"closed", "cancelled", "merged"}

Statuses == {"new", "open", "assigned", "in_progress", "under_investigation",
             "implementing", "resolved"} \cup PausesSla \cup Terminal

(* Rows of ticket_status_transitions, grouped by the status they leave.
   "cancelled" and "merged" have none: nothing leaves them by the table. *)
Transitions ==
  ({"new"} \X {"open", "assigned", "pending_approval", "cancelled"}) \cup
  ({"open"} \X {"assigned", "in_progress", "cancelled", "pending_approval",
                "scheduled", "under_investigation"}) \cup
  ({"assigned"} \X {"in_progress", "under_investigation", "pending_user",
                    "pending_approval", "scheduled"}) \cup
  ({"in_progress"} \X {"pending_user", "pending_vendor", "pending_approval",
                       "on_hold", "under_investigation", "resolved",
                       "scheduled", "implementing"}) \cup
  ({"under_investigation"} \X {"known_error", "in_progress", "resolved", "on_hold"}) \cup
  ({"known_error"} \X {"in_progress", "under_investigation", "resolved"}) \cup
  ({"pending_approval"} \X {"scheduled", "open", "in_progress", "cancelled"}) \cup
  ({"scheduled"} \X {"implementing", "cancelled", "on_hold"}) \cup
  ({"implementing"} \X {"resolved", "on_hold", "scheduled"}) \cup
  ({"on_hold"} \X {"scheduled", "implementing", "in_progress", "under_investigation"}) \cup
  ({"pending_user", "pending_vendor"} \X {"in_progress"}) \cup
  ({"resolved"} \X {"closed", "open"}) \cup
  ({"closed"} \X {"open"})

(* Ticket types, and the ones TicketsService.create opens in
   "pending_approval" instead of "new". *)
TypeCodes == {"incident", "security_incident", "problem", "service_request",
              "access_request", "change", "task"}
ApprovalTypes == {"service_request", "access_request", "change"}

(* The status applyTicketStatus is asked for once an approval round is over. *)
ApprovedStatus(type) == IF type = "change" THEN "scheduled" ELSE "open"
=============================================================================
