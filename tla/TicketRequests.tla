--------------------------- MODULE TicketRequests ---------------------------
(***************************************************************************)
(* Concurrent requests on ticket rows.  Every handler of ticket.service.ts *)
(* reads a row, awaits other services, and writes the row later; the node  *)
(* process interleaves the handlers at every await.  Three disciplines     *)
(* protect a write, and which handler uses which is what this module is    *)
(* about:                                                                  *)
(*   - a row-locked transaction that compares updatedAt with the value the *)
(*     handler read (persistTicketUpdate, persistDuplicateTicket, cancel); *)
(*   - the named lock of withAutoAssignmentLock, which serialises only the *)
(*     handlers that take it;                                              *)
(*   - nothing: ticketRepo.save writes every column of the entity that     *)
(*     differs from the row, so a column read earlier overwrites a newer   *)
(*     value.                                                              *)
(* The columns kept are the ones the properties tell apart.  Workload and  *)
(* the SLA clock, and the choices that hang on them, are nondeterministic  *)
(* here and belong to TechnicianQueue.                                     *)
(***************************************************************************)
EXTENDS TicketStatus, Integers

CONSTANTS
  Tickets,      \* tickets of one requester, numbered in order of creation
  Staff,        \* accounts a ticket can be assigned or escalated to
  Requests,     \* handlers that can be in flight at the same time
  Ops,          \* the operations clients and the scheduler invoke
  Crashes,      \* whether handlers may throw or die between two steps
  NoOne         \* no ticket, no staff member, no request

(* Handlers whose writes compare updatedAt under the row lock, or touch    *)
(* only the escalation table.                                              *)
VersionedOps == {"update", "duplicate", "cancel", "claim", "escalate", "return"}

(* Handlers that save the entity they read earlier.                        *)
PlainOps == {"close", "view", "rate", "slaPass", "assign", "correctAssignee",
             "correctRequester", "accept", "pickup"}

ASSUME OpsAssumption == Ops \subseteq VersionedOps \cup PlainOps
ASSUME CrashesAssumption == Crashes \in BOOLEAN
ASSUME TicketsAssumption == Tickets \subseteq Nat
ASSUME NoOneAssumption == NoOne \notin Tickets \cup Staff \cup Requests

VARIABLES
  row,          \* row[t]: the tickets table
  esc,          \* esc[t]: the escalations of t (ticket_escalations table)
  frozeFrom,    \* frozeFrom[t]: the status a frozen ticket's freeze event records
  req,          \* req[r]: what handler r is doing
  lock          \* holder of the named lock compliance_hub_ticket_auto_assignment

vars == <<row, esc, frozeFrom, req, lock>>

Row == [status: Status, owner: Staff \cup {NoOne}, dupOf: Tickets \cup {NoOne},
        rating: Requests \cup {NoOne}]

(* latest is the status of the newest escalation record, to its target     *)
(* while it is pending, accepted the target of the newest accepted record. *)
EscalationStatus == {"none", "pending", "accepted", "returned", "cancelled"}
Escalation == [latest: EscalationStatus, to: Staff \cup {NoOne},
               accepted: Staff \cup {NoOne}]

(* pc: "page" while a client prepares the request, "read" after the        *)
(* handler's first read, "held" once it has the named lock and has read    *)
(* the row under it, "flagged" after the unread flag is cleared,           *)
(* "accepted" once the escalation record is saved.  fresh: updatedAt of    *)
(* the row still has the value the handler or the page read; it is kept    *)
(* only while a handler is yet to compare it.                              *)
Request == [op: VersionedOps \cup PlainOps \cup {"none"},
            pc: {"idle", "page", "read", "held", "flagged", "accepted"},
            ticket: Tickets \cup {NoOne}, snap: Row, to: Status,
            arg: Staff \cup Tickets \cup {NoOne}, fresh: BOOLEAN]

EmptyRow == [status |-> "open", owner |-> NoOne, dupOf |-> NoOne, rating |-> NoOne]

Idle == [op |-> "none", pc |-> "idle", ticket |-> NoOne, snap |-> EmptyRow,
         to |-> "open", arg |-> NoOne, fresh |-> FALSE]

TypeOK ==
  /\ row \in [Tickets -> Row]
  /\ esc \in [Tickets -> Escalation]
  /\ frozeFrom \in [Tickets -> {"none", "open", "assigned", "in_progress"}]
  /\ req \in [Requests -> Request]
  /\ lock \in Requests \cup {NoOne}

(* Tickets as createTicket leaves them: open and unassigned, or queued for *)
(* or started by a staff member.                                           *)
Created ==
  {EmptyRow} \cup {[status |-> s, owner |-> k, dupOf |-> NoOne, rating |-> NoOne] :
                      s \in {"assigned", "in_progress"}, k \in Staff}

Init ==
  /\ row \in [Tickets -> Created]
  /\ esc = [t \in Tickets |-> [latest |-> "none", to |-> NoOne, accepted |-> NoOne]]
  /\ frozeFrom = [t \in Tickets |-> "none"]
  /\ req = [r \in Requests |-> Idle]
  /\ lock = NoOne

-----------------------------------------------------------------------------
(* Reading and writing rows.                                               *)

(* enrichTicketsWithUsers: while a ticket is active, the entity's owner is *)
(* replaced by the target of its newest accepted escalation.               *)
Enriched(t) ==
  IF /\ esc[t].accepted # NoOne
     /\ row[t].status \notin {"resolved", "closed", "duplicate", "cancelled"}
  THEN [row[t] EXCEPT !.owner = esc[t].accepted]
  ELSE row[t]

(* Mutant: handlers run without waiting for the named lock.                *)
LockIgnored == TRUE

(* The named lock of withAutoAssignmentLock is free, so GET_LOCK succeeds. *)
LockFree == lock = NoOne

(* Mutant: updatedAt is not compared.                                      *)
VersionIgnored(r) == TRUE

(* The row's updatedAt is the one the handler or the page read.            *)
SameVersion(r) == req[r].fresh

(* Handler r starts operation op on ticket t with the entity it read.      *)
Start(r, op, t, entity, to, arg) ==
  /\ op \in Ops
  /\ req[r] = Idle
  /\ req' = [req EXCEPT ![r] = [op |-> op, pc |-> "read", ticket |-> t,
                                snap |-> entity, to |-> to, arg |-> arg,
                                fresh |-> op \notin PlainOps]]

(* Handler r takes the named lock and reads the row again.                 *)
Hold(r, entity, arg) ==
  /\ LockFree
  /\ lock' = r
  /\ req' = [req EXCEPT ![r] = [@ EXCEPT !.pc = "held", !.snap = entity,
                                             !.arg = arg, !.fresh = FALSE]]

(* Mutant: the write does not move updatedAt.                              *)
WriteKeepsVersion(r, t, entity, next) ==
  /\ row' = [row EXCEPT ![t] = entity]
  /\ req' = [req EXCEPT ![r] = next]

(* A write to row t by handler r, which goes on as next: updatedAt moves,  *)
(* so nobody else's reading of t is current any more.                      *)
Write(r, t, entity, next) ==
  /\ row' = [row EXCEPT ![t] = entity]
  /\ req' = [q \in Requests |->
               IF q = r THEN next
               ELSE IF req[q].ticket = t THEN [req[q] EXCEPT !.fresh = FALSE]
               ELSE req[q]]

At(r, op, pc) == req[r].op = op /\ req[r].pc = pc

Release(r) == lock' = IF lock = r THEN NoOne ELSE lock

(* The handler throws, or its process dies, before its next write; the     *)
(* named lock goes with the connection.                                    *)
Fail(r) ==
  /\ Crashes
  /\ req[r] # Idle
  /\ req' = [req EXCEPT ![r] = Idle]
  /\ Release(r)
  /\ UNCHANGED <<row, esc, frozeFrom>>

-----------------------------------------------------------------------------
(* updateTicket: edits and status changes.                                 *)

(* resolveFrozenReturnStatus: the newest freeze event on record decides.   *)
(* If that event was lost, an older one or the fallback does.              *)
FrozenReturn(t) ==
  IF frozeFrom[t] # "none" THEN {frozeFrom[t]} ELSE {"open", "assigned", "in_progress"}

(* The statuses some authorised account can ask for.  None while an        *)
(* escalation is pending; "duplicate" has a handler of its own below.      *)
UpdateTargets(t, entity) ==
  IF esc[t].latest = "pending" THEN {}
  ELSE (UNION {AllowedTransitions(role, entity.status, back) :
                 role \in IF entity.owner # NoOne THEN Roles ELSE StatusAdmins,
                 back \in FrozenReturn(t)}) \ {"duplicate"}

(* The checks before the write.  An edit leaves the status alone; the      *)
(* requester edits open tickets, staff any that is not terminal.           *)
ReadUpdate(r, t) ==
  LET entity == Enriched(t)
  IN  /\ entity.status \notin {"duplicate", "cancelled"}
      /\ \E to \in {entity.status} \cup UpdateTargets(t, entity) :
           Start(r, "update", t, entity, to, NoOne)
      /\ UNCHANGED <<row, esc, frozeFrom, lock>>

(* What the handler saves.  A ticket sent back to open loses its owner and *)
(* is at once assigned to an eligible technician when there is one.        *)
Updated(q) ==
  IF q.to = "open" /\ q.snap.status # "open"
  THEN {[q.snap EXCEPT !.status = "open", !.owner = NoOne]} \cup
       {[q.snap EXCEPT !.status = "assigned", !.owner = k] : k \in Staff}
  ELSE {[q.snap EXCEPT !.status = q.to]}

(* What the event log says afterwards of the freeze the ticket is in.  The *)
(* status_changed event is not awaited and may be lost.                    *)
FreezeEvents(q) ==
  IF q.to # "freeze" THEN {"none"}
  ELSE IF q.snap.status = "freeze" THEN {frozeFrom[q.ticket]}
  ELSE {q.snap.status, "none"}

(* persistTicketUpdate, then the event.                                    *)
CommitUpdate(r) ==
  LET q == req[r]
      t == req[r].ticket
  IN  /\ At(r, "update", "read")
      /\ row[t].status # "cancelled"
      /\ SameVersion(r)
      /\ \E entity \in Updated(q) : Write(r, t, entity, Idle)
      /\ \E s \in FreezeEvents(q) : frozeFrom' = [frozeFrom EXCEPT ![t] = s]
      /\ UNCHANGED <<esc, lock>>

-----------------------------------------------------------------------------
(* updateTicket with status duplicate.                                     *)

ValidSource(entity) == entity.status \in {"open", "assigned", "in_progress"}

ValidOriginal(t, o) ==
  /\ o < t
  /\ row[o].status \notin {"duplicate", "closed", "cancelled"}
  /\ row[o].dupOf = NoOne

EscalationActive(t) == esc[t].latest \in {"pending", "accepted"}

ReadDuplicate(r, t) ==
  /\ ~EscalationActive(t)
  /\ ValidSource(row[t])
  /\ \E o \in Tickets : /\ ValidOriginal(t, o)
                        /\ Start(r, "duplicate", t, Enriched(t), "duplicate", o)
  /\ UNCHANGED <<row, esc, frozeFrom, lock>>

(* Mutant: a ticket that is an original can become a duplicate.            *)
DependantsIgnored(t) == FALSE

HasDependants(t) == \E u \in Tickets : row[u].dupOf = t

(* persistDuplicateTicket: both rows are locked, in id order, and every    *)
(* check is made again on what the locks protect.                          *)
CommitDuplicate(r) ==
  LET t == req[r].ticket
      o == req[r].arg
  IN  /\ At(r, "duplicate", "read")
      /\ SameVersion(r)
      /\ ValidOriginal(t, o)
      /\ ~EscalationActive(t)
      /\ ~HasDependants(t)
      /\ ValidSource(row[t])
      /\ Write(r, t, [row[t] EXCEPT !.status = "duplicate", !.dupOf = o], Idle)
      /\ UNCHANGED <<esc, frozeFrom, lock>>

-----------------------------------------------------------------------------
(* Operations a page prepares: the client sends the updatedAt it showed.   *)

PageOps == {"cancel", "assign", "correctAssignee", "correctRequester"}

ReadPage(r, t) ==
  /\ req[r] = Idle
  /\ \E op \in PageOps \cap Ops :
       req' = [req EXCEPT ![r] = [Idle EXCEPT !.op = op, !.pc = "page", !.ticket = t,
                                              !.fresh = TRUE]]
  /\ UNCHANGED <<row, esc, frozeFrom, lock>>

(* cancelTicket: under the named lock, one row-locked transaction that     *)
(* also cancels the live escalation records.                               *)
CommitCancel(r) ==
  LET t == req[r].ticket
  IN  /\ At(r, "cancel", "page")
      /\ LockFree
      /\ row[t].status \in Cancellable
      /\ SameVersion(r)
      /\ Write(r, t, [row[t] EXCEPT !.status = "cancelled"], Idle)
      /\ esc' = [esc EXCEPT ![t] =
                   [latest |-> IF EscalationActive(t) THEN "cancelled" ELSE esc[t].latest,
                    to |-> NoOne, accepted |-> NoOne]]
      /\ UNCHANGED <<frozeFrom, lock>>

(* assignTicketInternal.  The new owner's workload decides whether the     *)
(* ticket starts or queues.                                                *)
HoldAssign(r) ==
  LET t == req[r].ticket
  IN  /\ At(r, "assign", "page")
      /\ SameVersion(r)
      /\ row[t].status \notin {"duplicate", "cancelled", "resolved", "closed"}
      /\ \E k \in Staff : Hold(r, Enriched(t), k)
      /\ UNCHANGED <<row, esc, frozeFrom>>

CommitAssign(r) ==
  LET q == req[r]
  IN  /\ At(r, "assign", "held")
      /\ \E s \in IF q.snap.status \in {"open", "assigned", "in_progress"}
                  THEN {"in_progress", "assigned"} ELSE {q.snap.status} :
           Write(r, q.ticket, [q.snap EXCEPT !.status = s, !.owner = q.arg], Idle)
      /\ Release(r)
      /\ UNCHANGED <<esc, frozeFrom>>

(* correctTicketAssignee: the check is made once, under the named lock;    *)
(* the save that follows is a plain one.                                   *)
HoldCorrectAssignee(r) ==
  LET t == req[r].ticket
  IN  /\ At(r, "correctAssignee", "page")
      /\ SameVersion(r)
      /\ row[t].status \in {"assigned", "in_progress", "resolved"}
      /\ row[t].owner # NoOne
      /\ \E k \in Staff \ {row[t].owner} : Hold(r, row[t], k)
      /\ UNCHANGED <<row, esc, frozeFrom>>

CommitCorrectAssignee(r) ==
  LET q == req[r]
  IN  /\ At(r, "correctAssignee", "held")
      /\ \E s \in IF q.snap.status = "resolved" THEN {"resolved"}
                  ELSE {"in_progress", "assigned"} :
           Write(r, q.ticket, [q.snap EXCEPT !.status = s, !.owner = q.arg], Idle)
      /\ Release(r)
      /\ UNCHANGED <<esc, frozeFrom>>

(* correctTicketRequester changes columns this module does not keep; its   *)
(* save still writes back every column it read.                            *)
HoldCorrectRequester(r) ==
  LET t == req[r].ticket
  IN  /\ At(r, "correctRequester", "page")
      /\ SameVersion(r)
      /\ row[t].status \in {"assigned", "in_progress", "resolved"}
      /\ Hold(r, row[t], NoOne)
      /\ UNCHANGED <<row, esc, frozeFrom>>

CommitCorrectRequester(r) ==
  /\ At(r, "correctRequester", "held")
  /\ Write(r, req[r].ticket, req[r].snap, Idle)
  /\ Release(r)
  /\ UNCHANGED <<esc, frozeFrom>>

-----------------------------------------------------------------------------
(* Assignment of unowned open tickets.                                     *)

(* claimOvertimeTicket: named lock, row lock and checks in one transaction *)
Claim(r, t) ==
  /\ "claim" \in Ops
  /\ req[r] = Idle
  /\ LockFree
  /\ row[t].status = "open" /\ row[t].owner = NoOne
  /\ \E k \in Staff, s \in {"in_progress", "assigned"} :
       Write(r, t, [row[t] EXCEPT !.status = s, !.owner = k], Idle)
  /\ UNCHANGED <<esc, frozeFrom, lock>>

(* assignPendingTicketsOnLogin and the pickup after a finished ticket: the *)
(* oldest open ticket is read, eligibility re-checked, the entity saved.   *)
HoldPickup(r, t) ==
  /\ "pickup" \in Ops
  /\ req[r] = Idle
  /\ LockFree
  /\ row[t].status = "open" /\ row[t].owner = NoOne
  /\ lock' = r
  /\ \E k \in Staff :
       req' = [req EXCEPT ![r] = [op |-> "pickup", pc |-> "held", ticket |-> t,
                                  snap |-> row[t], to |-> "open", arg |-> k,
                                  fresh |-> FALSE]]
  /\ UNCHANGED <<row, esc, frozeFrom>>

CommitPickup(r) ==
  LET q == req[r]
  IN  /\ At(r, "pickup", "held")
      /\ \E s \in {"in_progress", "assigned"} :
           Write(r, q.ticket, [q.snap EXCEPT !.status = s, !.owner = q.arg], Idle)
      /\ Release(r)
      /\ UNCHANGED <<esc, frozeFrom>>

-----------------------------------------------------------------------------
(* Handlers outside both the version check and the named lock.             *)

(* The requester closes a resolved ticket (first branch of updateTicket).  *)
ReadClose(r, t) ==
  /\ row[t].status = "resolved"
  /\ Start(r, "close", t, row[t], "closed", NoOne)
  /\ UNCHANGED <<row, esc, frozeFrom, lock>>

CommitClose(r) ==
  /\ At(r, "close", "read")
  /\ Write(r, req[r].ticket, [req[r].snap EXCEPT !.status = "closed"], Idle)
  /\ UNCHANGED <<esc, frozeFrom, lock>>

(* markTicketViewed clears an unread flag for any viewer; if the viewer is *)
(* the assignee of an assigned ticket, it then saves the ticket as started *)
ReadView(r, t) ==
  /\ Start(r, "view", t, Enriched(t), "in_progress", NoOne)
  /\ UNCHANGED <<row, esc, frozeFrom, lock>>

FlagView(r) ==
  LET q == req[r]
  IN  /\ At(r, "view", "read")
      /\ \/ Write(r, q.ticket, row[q.ticket], Idle)
         \/ /\ q.snap.status = "assigned" /\ q.snap.owner # NoOne
            /\ Write(r, q.ticket, row[q.ticket], [q EXCEPT !.pc = "flagged"])
      /\ UNCHANGED <<esc, frozeFrom, lock>>

CommitView(r) ==
  /\ At(r, "view", "flagged")
  /\ Write(r, req[r].ticket, [req[r].snap EXCEPT !.status = "in_progress"], Idle)
  /\ UNCHANGED <<esc, frozeFrom, lock>>

(* submitSatisfaction *)
ReadRate(r, t) ==
  /\ row[t].status \in {"resolved", "closed"}
  /\ row[t].rating = NoOne
  /\ Start(r, "rate", t, row[t], "closed", NoOne)
  /\ UNCHANGED <<row, esc, frozeFrom, lock>>

CommitRate(r) ==
  /\ At(r, "rate", "read")
  /\ Write(r, req[r].ticket,
           [req[r].snap EXCEPT !.status = "closed", !.rating = r], Idle)
  /\ UNCHANGED <<esc, frozeFrom, lock>>

(* The minute scheduler pauses or resumes the SLA clock of running tickets *)
(* (pauseAllActiveTickets enriches its entities, the resuming passes do    *)
(* not) and saves them as it read them.  One row of its batch is followed. *)
ReadSlaPass(r, t) ==
  /\ row[t].status = "in_progress"
  /\ \E entity \in {row[t], Enriched(t)} :
       Start(r, "slaPass", t, entity, "in_progress", NoOne)
  /\ UNCHANGED <<row, esc, frozeFrom, lock>>

CommitSlaPass(r) ==
  /\ At(r, "slaPass", "read")
  /\ Write(r, req[r].ticket, req[r].snap, Idle)
  /\ UNCHANGED <<esc, frozeFrom, lock>>

-----------------------------------------------------------------------------
(* Escalation, all of it under the named lock.                             *)

HoldEscalate(r, t) ==
  /\ "escalate" \in Ops
  /\ req[r] = Idle
  /\ LockFree
  /\ esc[t].latest # "pending"
  /\ row[t].status \notin {"closed", "duplicate", "resolved", "cancelled"}
  /\ lock' = r
  /\ \E k \in Staff :
       req' = [req EXCEPT ![r] = [op |-> "escalate", pc |-> "held", ticket |-> t,
                                  snap |-> row[t], to |-> "open", arg |-> k,
                                  fresh |-> FALSE]]
  /\ UNCHANGED <<row, esc, frozeFrom>>

CommitEscalate(r) ==
  LET t == req[r].ticket
  IN  /\ At(r, "escalate", "held")
      /\ esc' = [esc EXCEPT ![t] = [@ EXCEPT !.latest = "pending", !.to = req[r].arg]]
      /\ req' = [req EXCEPT ![r] = Idle]
      /\ Release(r)
      /\ UNCHANGED <<row, frozeFrom>>

HoldAccept(r, t) ==
  /\ "accept" \in Ops
  /\ req[r] = Idle
  /\ LockFree
  /\ esc[t].latest = "pending"
  /\ row[t].status # "cancelled"
  /\ lock' = r
  /\ req' = [req EXCEPT ![r] = [op |-> "accept", pc |-> "held", ticket |-> t,
                                snap |-> row[t], to |-> "in_progress",
                                arg |-> esc[t].to, fresh |-> FALSE]]
  /\ UNCHANGED <<row, esc, frozeFrom>>

(* The escalation record is saved first, the ticket afterwards.            *)
SaveAcceptance(r) ==
  LET t == req[r].ticket
  IN  /\ At(r, "accept", "held")
      /\ esc' = [esc EXCEPT ![t] = [@ EXCEPT !.latest = "accepted", !.to = NoOne,
                                             !.accepted = req[r].arg]]
      /\ req' = [req EXCEPT ![r] = [@ EXCEPT !.pc = "accepted"]]
      /\ UNCHANGED <<row, frozeFrom, lock>>

CommitAccept(r) ==
  LET q == req[r]
      s == IF q.snap.status \in {"resolved", "closed"} THEN q.snap.status
           ELSE "in_progress"
  IN  /\ At(r, "accept", "accepted")
      /\ Write(r, q.ticket, [q.snap EXCEPT !.status = s, !.owner = q.arg], Idle)
      /\ Release(r)
      /\ UNCHANGED <<esc, frozeFrom>>

(* Mutant: the record is given the name the notification uses.             *)
DeclineEscalation(t) ==
  /\ "return" \in Ops
  /\ LockFree
  /\ esc[t].latest = "pending"
  /\ esc' = [esc EXCEPT ![t] = [@ EXCEPT !.latest = "declined", !.to = NoOne]]
  /\ UNCHANGED <<row, frozeFrom, req, lock>>

(* returnEscalation reads and writes only the escalation record, which no  *)
(* handler outside the named lock touches.                                 *)
ReturnEscalation(t) ==
  /\ "return" \in Ops
  /\ LockFree
  /\ esc[t].latest = "pending"
  /\ esc' = [esc EXCEPT ![t] = [@ EXCEPT !.latest = "returned", !.to = NoOne]]
  /\ UNCHANGED <<row, frozeFrom, req, lock>>

-----------------------------------------------------------------------------
Begin(r, t) ==
  \/ ReadUpdate(r, t) \/ ReadDuplicate(r, t) \/ ReadPage(r, t)
  \/ ReadClose(r, t) \/ ReadView(r, t) \/ ReadRate(r, t) \/ ReadSlaPass(r, t)
  \/ Claim(r, t) \/ HoldPickup(r, t) \/ HoldEscalate(r, t) \/ HoldAccept(r, t)

Continue(r) ==
  \/ CommitUpdate(r) \/ CommitDuplicate(r) \/ CommitCancel(r)
  \/ HoldAssign(r) \/ CommitAssign(r)
  \/ HoldCorrectAssignee(r) \/ CommitCorrectAssignee(r)
  \/ HoldCorrectRequester(r) \/ CommitCorrectRequester(r)
  \/ CommitPickup(r) \/ CommitClose(r) \/ FlagView(r) \/ CommitView(r)
  \/ CommitRate(r) \/ CommitSlaPass(r)
  \/ CommitEscalate(r) \/ SaveAcceptance(r) \/ CommitAccept(r)

Next ==
  \/ \E r \in Requests : Fail(r) \/ Continue(r) \/ \E t \in Tickets : Begin(r, t)
  \/ \E t \in Tickets : ReturnEscalation(t)

Spec == Init /\ [][Next]_vars

-----------------------------------------------------------------------------
(* Properties.                                                             *)

(* A ticket that has an original points at an older one that is itself no  *)
(* duplicate: concurrent calls that mark duplicates never build a chain,   *)
(* because persistDuplicateTicket checks both ends again under row locks.  *)
DuplicatesPointAtOriginals ==
  \A t \in Tickets : row[t].dupOf # NoOne =>
     /\ row[t].dupOf < t
     /\ row[row[t].dupOf].dupOf = NoOne
     /\ row[row[t].dupOf].status # "duplicate"

(* A closed, duplicate or cancelled ticket keeps its status, as the        *)
(* messages of updateTicket say ("Duplicate or cancelled tickets are in a  *)
(* terminal state and cannot be updated").                                 *)
TerminalIsFinal ==
  [][\A t \in Tickets : row[t].status \in Terminal => row'[t].status = row[t].status]_vars

(* Seen from the statuses alone, the handlers make only the transitions    *)
(* the service is designed to make, whatever they read and when.           *)
Lifecycle == INSTANCE TicketLifecycle
               WITH status <- [t \in Tickets |-> row[t].status]
LifecycleImplemented == Lifecycle!LifecycleSpec

(* When updatedAt still has the value a handler read, the row still has    *)
(* the contents it read (its owner apart, which enrichTicketsWithUsers may *)
(* have replaced): every writer moves updatedAt.                           *)
SameButOwner(a, b) == a.status = b.status /\ a.dupOf = b.dupOf /\ a.rating = b.rating

FreshMeansCurrent ==
  \A r \in Requests : req[r].pc = "read" /\ req[r].fresh =>
     SameButOwner(req[r].snap, row[req[r].ticket])

(* Cancelling a ticket ends its escalations for good: no pending or        *)
(* accepted record remains on a cancelled ticket, although escalateTicket  *)
(* and acceptEscalation look at the ticket well before they write.         *)
CancelledEndsEscalation ==
  \A t \in Tickets : row[t].status = "cancelled" =>
     ~EscalationActive(t) /\ esc[t].accepted = NoOne

(* An escalation record is answered once: a returned or cancelled one is   *)
(* never accepted afterwards ("This escalation has already been            *)
(* processed").                                                            *)
AnsweredOnce ==
  [][\A t \in Tickets : esc[t].latest \in {"returned", "cancelled"} =>
       esc'[t].latest # "accepted"]_vars
=============================================================================
