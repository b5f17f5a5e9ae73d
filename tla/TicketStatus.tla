---------------------------- MODULE TicketStatus ----------------------------
(***************************************************************************)
(* The statuses of a support ticket and the transition matrix updateTicket *)
(* enforces, as constant operators shared by the other ticket modules.     *)
(***************************************************************************)
Status == {"open", "assigned", "in_progress", "resolved", "closed",
           "freeze", "pause", "duplicate", "cancelled"}

(***************************************************************************)
(* Who asks for a status change.  "super" is the super administrator,      *)
(* "settings" an account with isTicketSettingsFocal, "focal" one with      *)
(* isTicketFocal only, "assignee" the staff member the ticket is assigned  *)
(* to.  The super administrator's capability row has every ticket flag.    *)
(***************************************************************************)
Roles == {"super", "settings", "focal", "assignee"}

StatusAdmins == {"super", "settings", "focal"}
DuplicateMarkers == {"super", "settings"}

(* Mutant: a resolved ticket can be put back in progress.                  *)
MatrixReopens(role, from, back) ==
  IF from = "resolved" THEN {"closed", "in_progress"}
  ELSE IF from = "in_progress" THEN {"resolved"} ELSE {}

(* The statuses the matrix lists after each status, before the rule on     *)
(* reopening.  back is the status a frozen ticket came from.               *)
Matrix(role, from, back) ==
  LET admin  == role \in StatusAdmins
      marker == IF role \in DuplicateMarkers THEN {"duplicate"} ELSE {}
  IN  CASE from = "open"        -> IF admin THEN {"freeze"} \cup marker ELSE {}
        [] from = "assigned"    -> {"in_progress"} \cup
                                   (IF admin THEN {"freeze", "open"} \cup marker
                                             ELSE {})
        [] from = "in_progress" -> {"resolved", "pause"} \cup
                                   (IF admin THEN {"freeze"} \cup marker ELSE {})
        [] from = "pause"       -> {"in_progress", "resolved"}
        [] from = "resolved"    -> {"closed"}
        [] from = "freeze"      -> IF admin
                                   THEN {"open", "assigned", "in_progress", "resolved"}
                                   ELSE {back}
        [] OTHER                -> {}

(* Only the super administrator reopens a ticket; anyone the matrix allows *)
(* may return a frozen ticket to the open status it came from.             *)
AllowedTransitions(role, from, back) ==
  LET mayReopen == role = "super" \/ (from = "freeze" /\ back = "open")
  IN  IF mayReopen THEN Matrix(role, from, back)
                   ELSE Matrix(role, from, back) \ {"open"}

Cancellable == {"open", "assigned", "in_progress"}

Terminal == {"closed", "duplicate", "cancelled"}
=============================================================================
