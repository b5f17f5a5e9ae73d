-------------------------- MODULE TicketLifecycle --------------------------
(***************************************************************************)
(* The status life cycle of a ticket as the ticketing service designs it:  *)
(* an abstract specification that only says which status may follow which. *)
(* TicketRequests, where concurrent requests read and write whole rows, is *)
(* shown to implement it.                                                  *)
(***************************************************************************)
EXTENDS TicketStatus

CONSTANT Tickets            \* the tickets of the database


(* Every status change some operation of the service is meant to make: the *)
(* matrix, cancellation, and assignment to a staff member, which starts an *)
(* open ticket or queues a running one.                                    *)
Designed(from) ==
  CASE from = "open"        -> {"freeze", "duplicate", "cancelled", "assigned", "in_progress"}
    [] from = "assigned"    -> {"in_progress", "freeze", "open", "duplicate", "cancelled"}
    [] from = "in_progress" -> {"resolved", "pause", "freeze", "duplicate", "cancelled",
                                "assigned"}
    [] from = "pause"       -> {"in_progress", "resolved"}
    [] from = "resolved"    -> {"closed"}
    [] from = "freeze"      -> {"open", "assigned", "in_progress", "resolved"}
    [] OTHER                -> {}

VARIABLE status             \* status[t]: the status column of ticket t

LifecycleInit == status \in [Tickets -> {"open", "assigned", "in_progress"}]

Change(t) == \E s \in Designed(status[t]) : status' = [status EXCEPT ![t] = s]

LifecycleNext == \E t \in Tickets : Change(t)

LifecycleSpec == LifecycleInit /\ [][LifecycleNext]_status
=============================================================================
