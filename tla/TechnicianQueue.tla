-------------------------- MODULE TechnicianQueue --------------------------
(***************************************************************************)
(* Who works on which ticket.  A staff member has tickets in progress and  *)
(* a queue of waiting ones (isSlaWaiting); whatever frees a staff member   *)
(* must start the oldest waiting ticket.  The operations that run inside   *)
(* withAutoAssignmentLock are single actions here: they read the workload  *)
(* and write under the named lock.  updateTicket saves the ticket without  *)
(* that lock and takes it afterwards for the handoff, so it is two steps,  *)
(* and the minute job reads the breached tickets before it takes the lock. *)
(* That two requests race for one row is the subject of TicketRequests.    *)
(***************************************************************************)
EXTENDS TicketStatus, Integers

CONSTANTS
  Tickets,      \* numbered in order of creation (createdAt)
  Specialised,  \* the tickets of type specialized_concerns
  Staff,        \* accounts tickets are assigned to
  Handlers,     \* updateTicket requests that can be in flight together
  Ops,          \* the operations that happen
  Crashes,      \* whether a handler may die, or time out on the lock
  NoOne         \* no staff member

(* Operations that keep every queue served, and those that may not.        *)
ServingOps == {"create", "overtime", "pickup", "assign", "correct", "cancel",
               "start", "pause", "finish", "resume", "time", "cron"}
OtherOps == {"assignSame", "unfreeze", "reopen", "accept", "absence"}

ASSUME QueueOpsAssumption == Ops \subseteq ServingOps \cup OtherOps
ASSUME QueueCrashesAssumption == Crashes \in BOOLEAN
ASSUME QueueTicketsAssumption == Tickets \subseteq Nat
ASSUME QueueNoOneAssumption == NoOne \notin Staff

VARIABLES
  tk,           \* tk[t]: the columns of ticket t that the queue depends on
  req,          \* req[h]: what remains of updateTicket request h
  advanced,     \* advancedOverdueTickets, in the memory of the minute job
  scan          \* breached tickets the minute job has read and not yet served

vars == <<tk, req, advanced, scan>>

(* "none" is a ticket not filed yet.  overdue: the deadline has passed.    *)
Row == [status: Status \cup {"none"}, owner: Staff \cup {NoOne},
        waiting: BOOLEAN, overdue: BOOLEAN]

NotFiled == [status |-> "none", owner |-> NoOne, waiting |-> FALSE, overdue |-> FALSE]

(* A request owes a handoff to a staff member, or is resuming a ticket and *)
(* has found others to push back, or has pushed them back.                 *)
Request ==
  [pc: {"idle", "handoff", "pushing", "resuming"}, staff: Staff \cup {NoOne},
   ticket: Tickets \cup {NoOne}, seen: Row, others: SUBSET Tickets]

Idle == [pc |-> "idle", staff |-> NoOne, ticket |-> NoOne, seen |-> NotFiled,
         others |-> {}]

(* A breached ticket as the minute job read it.                            *)
Breach == [ticket: Tickets, staff: Staff]

TypeOK ==
  /\ tk \in [Tickets -> Row]
  /\ req \in [Handlers -> Request]
  /\ advanced \subseteq Tickets
  /\ scan \subseteq Breach

Init ==
  /\ tk = [t \in Tickets |-> NotFiled]
  /\ req = [h \in Handlers |-> Idle]
  /\ advanced = {}
  /\ scan = {}

-----------------------------------------------------------------------------
(* The workload of a staff member, in a table q of tickets.                *)

Held(q, k, statuses) ==
  {t \in Tickets : q[t].owner = k /\ q[t].status \in statuses}

(* activeTicketsCount and busyCount: any unfinished ticket counts.         *)
Busy(q, k) == Held(q, k, {"assigned", "in_progress", "pause"}) # {}

(* hasBreachedActiveTicket.                                                *)
Breached(q, k) == \E t \in Held(q, k, {"in_progress"}) : q[t].overdue

(* remainingActiveCount: everything but waiting tickets.                   *)
Active(q, k) ==
  {t \in Held(q, k, {"assigned", "in_progress", "pause"}) :
     q[t].status = "in_progress" \/ ~q[t].waiting}

Waiting(q, k) == {t \in Held(q, k, {"assigned", "pause"}) : q[t].waiting}

(* ORDER BY createdAt ASC.                                                 *)
OldestOf(W) == {t \in W : \A u \in W : t <= u}

InProgress(k, late) ==
  [status |-> "in_progress", owner |-> k, waiting |-> FALSE, overdue |-> late]

Queued(k, late) ==
  [status |-> "assigned", owner |-> k, waiting |-> TRUE, overdue |-> late]

(* unpauseNextWaitingTicketAndSetInProgress: the tables it can leave.  The *)
(* clock of the promoted ticket starts anew.                               *)
Promotions(q, k) ==
  IF Waiting(q, k) = {} THEN {q}
  ELSE {[q EXCEPT ![t] = InProgress(k, FALSE)] : t \in OldestOf(Waiting(q, k))}

(* Mutant: a handoff leaves the queue to a ticket that only waits.         *)
HandoversWhenAlone(q, k) ==
  IF ~Busy(q, k) THEN Promotions(q, k) ELSE {q}

(* The handoff to a staff member who may have nothing active any more.     *)
Handovers(q, k) ==
  IF k # NoOne /\ Active(q, k) = {} THEN Promotions(q, k) ELSE {q}

Unchanged == UNCHANGED <<req, advanced, scan>>

-----------------------------------------------------------------------------
(* Operations under the named lock.                                        *)

(* Mutant: a ticket starts only when its owner is free and late.           *)
ReceivedWrongly(q, k, breachStarts) ==
  IF ~Busy(q, k) /\ breachStarts /\ Breached(q, k)
  THEN InProgress(k, FALSE) ELSE Queued(k, FALSE)

(* A ticket that k receives while k's workload is as in q.                 *)
Received(q, k, breachStarts) ==
  IF ~Busy(q, k) \/ (breachStarts /\ Breached(q, k))
  THEN InProgress(k, FALSE) ELSE Queued(k, FALSE)

(* createTicket, with or without an assignee.  A request filed by overtime *)
(* staff for somebody else does not look for a breached ticket.            *)
Create(t) ==
  /\ "create" \in Ops
  /\ tk[t] = NotFiled
  /\ \A u \in Tickets : u < t => tk[u] # NotFiled
  /\ \/ tk' = [tk EXCEPT ![t] = [status |-> "open", owner |-> NoOne,
                                 waiting |-> TRUE, overdue |-> FALSE]]
     \/ \E k \in Staff :
          \/ tk' = [tk EXCEPT ![t] = Received(tk, k, TRUE)]
          \/ "overtime" \in Ops /\ tk' = [tk EXCEPT ![t] = Received(tk, k, FALSE)]
  /\ Unchanged

Unassigned(t) == tk[t].status = "open" /\ tk[t].owner = NoOne

(* claimOvertimeTicket.                                                    *)
Claim(t, k) ==
  /\ "overtime" \in Ops
  /\ Unassigned(t)
  /\ tk' = [tk EXCEPT ![t] = Received(tk, k, FALSE)]
  /\ Unchanged

(* assignPendingTicketsOnLogin.  Attendance, the strategy and the weekly   *)
(* cap decide whether and which; with the capped strategy a busy staff     *)
(* member also receives a ticket.                                          *)
Pickup(t, k) ==
  /\ "pickup" \in Ops
  /\ Unassigned(t)
  /\ t \notin Specialised
  /\ tk' = [tk EXCEPT ![t] = Received(tk, k, TRUE)]
  /\ Unchanged

(* assignTicket: the new owner's workload is counted before the ticket is  *)
(* moved, the previous owner's after.                                      *)
Reassigned(t, k) ==
  [tk[t] EXCEPT !.owner = k, !.waiting = Busy(tk, k),
                !.status = IF tk[t].status \notin {"open", "assigned", "in_progress"}
                           THEN tk[t].status
                           ELSE IF Busy(tk, k) THEN "assigned" ELSE "in_progress"]

Assign(t, k) ==
  LET moved == [tk EXCEPT ![t] = Reassigned(t, k)]
      from  == tk[t].owner
  IN  /\ tk[t].status \in {"open", "assigned", "in_progress", "pause", "freeze"}
      /\ IF from = k
         THEN "assignSame" \in Ops /\ tk' = moved
         ELSE "assign" \in Ops /\ tk' \in Handovers(moved, from)
      /\ Unchanged

(* correctTicketAssignee.  A waiting ticket moved to a free staff member   *)
(* is saved as waiting and then started by the promotion.                  *)
CorrectActive(t, k) ==
  LET from == tk[t].owner
      late == tk[t].overdue
      queued == [tk EXCEPT ![t] = Queued(k, late)]
      started == [tk EXCEPT ![t] = InProgress(k, late)]
  IN  /\ tk[t].status \in {"assigned", "in_progress"}
      /\ \E moved \in IF Busy(tk, k) THEN {queued}
                      ELSE IF tk[t].waiting THEN Promotions(queued, k)
                      ELSE {started} :
           tk' \in Handovers(moved, from)

CorrectResolved(t, k) ==
  /\ tk[t].status = "resolved"
  /\ tk' = [tk EXCEPT ![t].owner = k]

CorrectAssignee(t, k) ==
  /\ "correct" \in Ops
  /\ tk[t].owner \notin {NoOne, k}
  /\ CorrectActive(t, k) \/ CorrectResolved(t, k)
  /\ Unchanged

(* cancelTicket: the cancellation commits, then the queue moves unless     *)
(* another ticket is in progress.  A failed handoff is only reported.      *)
Cancel(t) ==
  LET k == tk[t].owner
      cancelled == [tk EXCEPT ![t].status = "cancelled", ![t].waiting = FALSE]
  IN  /\ "cancel" \in Ops
      /\ tk[t].status \in Cancellable
      /\ \/ tk' \in IF k # NoOne /\ Held(cancelled, k, {"in_progress"}) = {}
                    THEN Promotions(cancelled, k) ELSE {cancelled}
         \/ Crashes /\ tk' = cancelled
      /\ Unchanged

(* Mutant: an accepted ticket keeps its place in the queue.                *)
AcceptKeepsWaiting(t, k) ==
  /\ "accept" \in Ops
  /\ tk[t].status \notin {"none", "open", "cancelled"}
  /\ tk' = [tk EXCEPT ![t].owner = k, ![t].status = "in_progress"]
  /\ Unchanged

(* acceptEscalation: the ticket moves to the focal who accepts it.         *)
Accept(t, k) ==
  /\ "accept" \in Ops
  /\ tk[t].status \notin {"none", "open", "cancelled"}
  /\ tk' = [tk EXCEPT ![t].owner = k, ![t].waiting = FALSE,
                      ![t].status = IF @ \in {"resolved", "closed"} THEN @
                                    ELSE "in_progress"]
  /\ Unchanged

(* reassignUnavailableTechnicianTickets: the tickets of an absent staff    *)
(* member are returned and, unless specialised, offered to staff without   *)
(* assigned or started tickets, one each.                                  *)
Returned(t) ==
  [status |-> "open", owner |-> NoOne, waiting |-> FALSE,
   overdue |-> tk[t].overdue /\ t \in Specialised]

Absence(k) ==
  LET taken == Held(tk, k, {"assigned"}) \cup
               (Held(tk, k, {"in_progress"}) \cap Specialised)
      free  == {j \in Staff \ {k} : Held(tk, j, {"assigned", "in_progress"}) = {}}
  IN  /\ "absence" \in Ops
      /\ taken # {}
      /\ \E to \in [taken -> free \cup {NoOne}] :
           /\ \A t \in taken \cap Specialised : to[t] = NoOne
           /\ \A t, u \in taken : to[t] = to[u] => t = u \/ to[t] = NoOne
           /\ tk' = [t \in Tickets |->
                       IF t \notin taken THEN tk[t]
                       ELSE IF to[t] = NoOne THEN Returned(t)
                       ELSE [Returned(t) EXCEPT !.status = "assigned", !.owner = to[t]]]
      /\ Unchanged

-----------------------------------------------------------------------------
(* updateTicket.  The version check makes the save of the ticket itself    *)
(* atomic; the role that asks is one of those the matrix allows.           *)

Allowed(t, to) == to \in AllowedTransitions("super", tk[t].status, "open")

StartWork(t) ==
  /\ "start" \in Ops
  /\ tk[t].status = "assigned" /\ Allowed(t, "in_progress")
  /\ tk' = [tk EXCEPT ![t].status = "in_progress", ![t].waiting = FALSE]
  /\ Unchanged

(* markTicketViewed: the assignee opens an assigned ticket that does not    *)
(* wait.  Its clock starts anew.                                           *)
View(t) ==
  /\ "start" \in Ops
  /\ tk[t].status = "assigned" /\ tk[t].owner # NoOne /\ ~tk[t].waiting
  /\ tk' = [tk EXCEPT ![t] = InProgress(tk[t].owner, FALSE)]
  /\ Unchanged

PauseWork(t) ==
  /\ "pause" \in Ops
  /\ Allowed(t, "pause")
  /\ tk' = [tk EXCEPT ![t].status = "pause"]
  /\ Unchanged

(* Back from freeze to assigned.  slaPausedAt, which the work schedule     *)
(* sets as well, decides whether the queue flag is cleared.                *)
Unfreeze(t) ==
  /\ "unfreeze" \in Ops
  /\ tk[t].status = "freeze" /\ Allowed(t, "assigned")
  /\ \E w \in {FALSE, tk[t].waiting} :
       tk' = [tk EXCEPT ![t].status = "assigned", ![t].waiting = w]
  /\ Unchanged

(* A reopened ticket loses its owner and may be assigned at once.          *)
Reopen(t) ==
  /\ "reopen" \in Ops
  /\ Allowed(t, "open")
  /\ \/ tk' = [tk EXCEPT ![t] = [status |-> "open", owner |-> NoOne,
                                 waiting |-> FALSE, overdue |-> FALSE]]
     \/ /\ t \notin Specialised
        /\ \E k \in Staff :
             tk' = [tk EXCEPT ![t] = [status |-> "assigned", owner |-> k,
                                      waiting |-> FALSE, overdue |-> FALSE]]
  /\ Unchanged

(* The statuses after which the owner's queue is handed over.              *)
Frees == {"resolved", "closed", "duplicate", "freeze"}

Finish(h, t, to) ==
  /\ "finish" \in Ops
  /\ req[h] = Idle
  /\ to \in {"resolved", "closed", "duplicate", "freeze"} /\ Allowed(t, to)
  /\ \E w \in {tk[t].waiting, FALSE} :
       /\ w # tk[t].waiting => to = "duplicate" \/ tk[t].status \in {"pause", "freeze"}
       /\ to = "duplicate" => ~w
       /\ tk' = [tk EXCEPT ![t].status = to, ![t].waiting = w]
  /\ req' = IF tk[t].owner # NoOne /\ to \in Frees
            THEN [req EXCEPT ![h] = [Idle EXCEPT !.pc = "handoff", !.staff = tk[t].owner]]
            ELSE req
  /\ UNCHANGED <<advanced, scan>>

(* The handoff of a finished ticket's owner.  A present staff member below *)
(* senior rank whose only unfinished tickets are paused also moves on, or  *)
(* receives an open ticket.                                                *)
MovesOn(q, k) ==
  IF Active(q, k) \cap Held(q, k, {"assigned", "in_progress"}) # {} THEN {q}
  ELSE IF Waiting(q, k) # {} THEN Promotions(q, k)
  ELSE {q} \cup {[q EXCEPT ![t] = InProgress(k, FALSE)] :
                   t \in {u \in Tickets \ Specialised :
                            q[u].status = "open" /\ q[u].owner = NoOne}}

Handoff(h) ==
  LET k == req[h].staff
  IN  /\ req[h].pc = "handoff"
      /\ IF Active(tk, k) = {} /\ Waiting(tk, k) # {}
         THEN tk' \in Handovers(tk, k)
         ELSE tk' = tk \/ tk' \in MovesOn(tk, k)
      /\ req' = [req EXCEPT ![h] = Idle]
      /\ UNCHANGED <<advanced, scan>>

(* A paused or frozen ticket is resumed: its owner's assigned tickets that *)
(* do not wait are read, saved as waiting, and then the ticket is saved if *)
(* its version is still the one read.  Any edit in between refuses it.     *)
ReadResume(h, t) ==
  /\ "resume" \in Ops
  /\ req[h] = Idle
  /\ tk[t].status \in {"pause", "freeze"} /\ Allowed(t, "in_progress")
  /\ LET others == {u \in Held(tk, tk[t].owner, {"assigned"}) \ {t} : ~tk[u].waiting}
     IN  req' = [req EXCEPT ![h] =
           [pc |-> IF tk[t].owner = NoOne \/ others = {} THEN "resuming" ELSE "pushing",
            staff |-> tk[t].owner, ticket |-> t, seen |-> tk[t],
            others |-> IF tk[t].owner = NoOne THEN {} ELSE others]]
  /\ UNCHANGED <<tk, advanced, scan>>

PushBack(h) ==
  /\ req[h].pc = "pushing"
  /\ tk' = [t \in Tickets |-> IF t \in req[h].others
                              THEN Queued(req[h].staff, tk[t].overdue) ELSE tk[t]]
  /\ req' = [req EXCEPT ![h].pc = "resuming"]
  /\ UNCHANGED <<advanced, scan>>

CommitResume(h) ==
  LET t == req[h].ticket
  IN  /\ req[h].pc = "resuming"
      /\ tk[t] = req[h].seen
      /\ tk' = [tk EXCEPT ![t].status = "in_progress", ![t].waiting = FALSE]
      /\ req' = [req EXCEPT ![h] = Idle]
      /\ UNCHANGED <<advanced, scan>>

RefuseResume(h) ==
  /\ req[h].pc = "resuming"
  /\ req' = [req EXCEPT ![h] = Idle]
  /\ UNCHANGED <<tk, advanced, scan>>

-----------------------------------------------------------------------------
(* The clock and the minute job.                                           *)

BecomeOverdue(t) ==
  /\ "time" \in Ops
  /\ tk[t].status = "in_progress" /\ ~tk[t].overdue
  /\ tk' = [tk EXCEPT ![t].overdue = TRUE]
  /\ Unchanged

(* processOverdueTicketsUnpauseNext reads the breached tickets, forgets    *)
(* those that are not overdue any more, and serves them one by one.        *)
Overdue == {t \in Tickets : tk[t].status = "in_progress" /\ ~tk[t].waiting
                              /\ tk[t].overdue}

Scan ==
  /\ "cron" \in Ops
  /\ scan = {}
  /\ Overdue # {} \/ advanced # {}
  /\ advanced' = advanced \cap Overdue
  /\ scan' = {[ticket |-> t, staff |-> tk[t].owner] :
                t \in {u \in Overdue : tk[u].owner # NoOne /\ u \notin advanced}}
  /\ UNCHANGED <<tk, req>>

Advance(b) ==
  /\ b \in scan
  /\ scan' = scan \ {b}
  /\ tk' \in Promotions(tk, b.staff)
  /\ advanced' = IF Waiting(tk, b.staff) = {} THEN advanced ELSE advanced \cup {b.ticket}
  /\ UNCHANGED req

(* A request that dies, or whose wait for the lock times out.              *)
Lose(h) ==
  /\ Crashes
  /\ req[h] # Idle
  /\ req' = [req EXCEPT ![h] = Idle]
  /\ UNCHANGED <<tk, advanced, scan>>

Restart ==
  /\ Crashes
  /\ advanced' = {}
  /\ scan' = {}
  /\ req' = [h \in Handlers |-> Idle]
  /\ UNCHANGED tk

-----------------------------------------------------------------------------
Next ==
  \/ \E t \in Tickets :
       \/ Create(t) \/ Cancel(t) \/ StartWork(t) \/ View(t) \/ PauseWork(t)
       \/ Unfreeze(t) \/ Reopen(t) \/ BecomeOverdue(t)
       \/ \E k \in Staff : \/ Claim(t, k) \/ Pickup(t, k) \/ Assign(t, k)
                           \/ CorrectAssignee(t, k) \/ Accept(t, k)
       \/ \E h \in Handlers : ReadResume(h, t) \/ \E to \in Status : Finish(h, t, to)
  \/ \E h \in Handlers : Handoff(h) \/ PushBack(h) \/ CommitResume(h)
                           \/ RefuseResume(h) \/ Lose(h)
  \/ \E k \in Staff : Absence(k)
  \/ \E b \in scan : Advance(b)
  \/ Scan \/ Restart

Spec == Init /\ [][Next]_vars

(* A request that has saved its ticket goes on to the handoff: the node    *)
(* process runs its continuation, and the lock is released by its holder.  *)
FairSpec == Spec /\ \A h \in Handlers : WF_vars(Handoff(h))

-----------------------------------------------------------------------------
(* Properties.                                                             *)

Owed(k) == \E h \in Handlers : req[h].pc = "handoff" /\ req[h].staff = k

(***************************************************************************)
(* NoStuckQueue.  A staff member with waiting tickets has something active *)
(* or is owed a handoff: the workload checks of createTicket, assignTicket *)
(* and the others, which use three different counts, agree with the        *)
(* conditions under which cancelTicket, updateTicket and the reassignments *)
(* move a queue.  A queue that breaks this waits until somebody starts a   *)
(* ticket by hand.                                                         *)
(***************************************************************************)
NoStuckQueue ==
  \A k \in Staff : Waiting(tk, k) # {} => Active(tk, k) # {} \/ Owed(k)

(***************************************************************************)
(* IdleQueueMoves.  A queue with nothing active is eventually served, by   *)
(* the handoff the finishing request still owes.                           *)
(***************************************************************************)
IdleQueueMoves ==
  \A k \in Staff : (Waiting(tk, k) # {} /\ Active(tk, k) = {})
                     ~> (Waiting(tk, k) = {} \/ Active(tk, k) # {})

(***************************************************************************)
(* RunningNeverWaits.  A ticket in progress is never flagged as waiting,   *)
(* whatever the interleaving of saves: getters of the SLA clock read the   *)
(* flag before the status ("legacy queue flags must not hide a breach").   *)
(***************************************************************************)
RunningNeverWaits ==
  \A t \in Tickets : tk[t].status = "in_progress" => ~tk[t].waiting

Starts(t) ==
  /\ tk'[t].status = "in_progress"
  /\ tk[t].status # "in_progress" \/ tk[t].owner # tk'[t].owner

(* Started or resumed by a person, who may work on several tickets.        *)
ByHand(t) ==
  StartWork(t) \/ View(t) \/ \E h \in Handlers : req[h].ticket = t /\ CommitResume(h)

(***************************************************************************)
(* StartedAlone.  The assignment and handoff code never starts a ticket    *)
(* for a staff member who has others in progress, unless one of them has   *)
(* breached its deadline ("alongside the breached ticket").                *)
(***************************************************************************)
StartedAlone ==
  \A t \in Tickets : Starts(t) /\ ~ByHand(t) =>
       LET others == {u \in Tickets \ {t} : /\ tk'[u].owner = tk'[t].owner
                                            /\ tk'[u].status = "in_progress"}
       IN  others = {} \/ \E u \in others : tk'[u].overdue

Receives(t, k) ==
  /\ tk[t].owner # k /\ tk'[t].owner = k
  /\ tk'[t].status \in {"assigned", "in_progress"}

(***************************************************************************)
(* IdleStaffStart.  "A newly assigned ticket starts IN_PROGRESS when the   *)
(* selected technician has no active ticket" (README.md).                  *)
(***************************************************************************)
IdleStaffStart ==
  \A t \in Tickets, k \in Staff :
       Receives(t, k) /\ ~Busy(tk, k) => tk'[t].status = "in_progress"

(***************************************************************************)
(* StartsAsDue.  No assignment or handoff starts a ticket beside one that  *)
(* is on time, and none leaves a free staff member's new ticket standing.  *)
(***************************************************************************)
StartsAsDue == [][StartedAlone /\ IdleStaffStart]_vars
=============================================================================
