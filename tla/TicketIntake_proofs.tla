------------------------ MODULE TicketIntake_proofs ------------------------
(***************************************************************************)
(* Theorems about TicketRequests, for any tickets, staff, handlers and     *)
(* operations, and about AutoAssignment (the second half).                 *)
(***************************************************************************)
EXTENDS TicketRequests, AutoAssignment, FiniteSetTheorems, NaturalsInduction,
        WellFoundedInduction, TLAPS


Active == {"open", "assigned", "in_progress"}

(* The facts about a handler's own record that its remaining steps rely    *)
(* on: which ticket and argument they use, and what its snapshot may hold. *)
WellFormed ==
  {q \in Request :
    /\ q.op # "none" => q.ticket \in Tickets
    /\ q.op \in {"assign", "correctAssignee", "pickup", "escalate", "accept"}
         /\ q.pc \in {"held", "accepted"} => q.arg \in Staff
    /\ q.op = "duplicate" => q.arg \in Tickets
    /\ q.op = "update" =>
         /\ q.to \in {q.snap.status} \cup Lifecycle!Designed(q.snap.status)
         /\ q.to \notin {"duplicate", "cancelled"}
         /\ q.snap.status \notin {"duplicate", "cancelled"}
         /\ q.to = "freeze" => q.snap.status \in Active \cup {"freeze"}
    /\ q.op \in {"escalate", "accept"} => q.pc \in {"held", "accepted"}
    /\ q.snap.status = "cancelled" => q.pc = "read" /\ q.op = "view"}

(* A handler past its lock owns it; the ticket an escalation works on      *)
(* cannot be cancelled meanwhile, nor a pending record answered by another.*)
HandlersOK ==
  \A r \in Requests :
    /\ req[r].pc \in {"held", "accepted"} => lock = r
    /\ req[r].op \in {"escalate", "accept"} => row[req[r].ticket].status # "cancelled"
    /\ At(r, "accept", "held") => esc[req[r].ticket].latest = "pending"

(* The inductive invariant.  TypeOK alone is not inductive: a handler's    *)
(* record must say which ticket and which argument its next step uses.     *)
Inv ==
  /\ TypeOK
  /\ req \in [Requests -> WellFormed]
  /\ \A t \in Tickets : esc[t].latest = "pending" => esc[t].to \in Staff
  /\ HandlersOK
  /\ FreshMeansCurrent
  /\ CancelledEndsEscalation

-----------------------------------------------------------------------------
(* Lemmas on the operators the actions are built from.                     *)

LEMMA IdleWellFormed == Idle \in WellFormed /\ EmptyRow \in Row
BY DEF Idle, WellFormed, Request, Row, EmptyRow, Status, VersionedOps, PlainOps

LEMMA WellFormedRequest == WellFormed \subseteq Request
BY DEF WellFormed

(* Losing freshness changes nothing else.                                  *)
LEMMA StaleWellFormed ==
  ASSUME NEW q \in WellFormed
  PROVE  /\ [q EXCEPT !.fresh = FALSE] \in WellFormed
         /\ \A f \in {"op", "pc", "ticket", "snap", "arg"} :
               [q EXCEPT !.fresh = FALSE][f] = q[f]
         /\ [q EXCEPT !.fresh = FALSE].fresh = FALSE
BY DEF WellFormed, Request

(* The entity a handler works on is a row.                                 *)
LEMMA EnrichedTyped ==
  ASSUME TypeOK, NEW t \in Tickets
  PROVE  /\ Enriched(t) \in Row
         /\ Enriched(t).status = row[t].status
         /\ SameButOwner(Enriched(t), row[t])
BY DEF TypeOK, Enriched, Row, Escalation, SameButOwner

(* The matrix stays within the designed life cycle, and freezes only       *)
(* active tickets.                                                         *)
LEMMA MatrixDesigned ==
  ASSUME NEW role \in Roles, NEW from \in Status, NEW back \in Active,
         NEW to \in AllowedTransitions(role, from, back)
  PROVE  /\ to \in Lifecycle!Designed(from)
         /\ to # "cancelled"
         /\ to = "freeze" => from \in Active
<1>1. to \in Matrix(role, from, back)
  BY DEF AllowedTransitions
<1>. QED
  BY <1>1 DEF Matrix, Status, StatusAdmins, DuplicateMarkers, Lifecycle!Designed, Active

(* The statuses updateTicket can be asked for.                             *)
LEMMA UpdateDesigned ==
  ASSUME TypeOK, NEW t \in Tickets, NEW entity \in Row,
         NEW to \in UpdateTargets(t, entity)
  PROVE  /\ to \in Lifecycle!Designed(entity.status)
         /\ to \in Status \ {"duplicate", "cancelled"}
         /\ to = "freeze" => entity.status \in Active
<1>. entity.status \in Status
  BY DEF Row
<1>1. PICK role \in Roles, back \in FrozenReturn(t) :
        to \in AllowedTransitions(role, entity.status, back) \ {"duplicate"}
  BY DEF UpdateTargets, Roles, StatusAdmins
<1>2. back \in Active
  BY DEF FrozenReturn, TypeOK, Active
<1>3. /\ to \in Lifecycle!Designed(entity.status)
      /\ to # "cancelled" /\ to # "duplicate"
      /\ to = "freeze" => entity.status \in Active
  BY <1>1, <1>2, MatrixDesigned
<1>4. to \in Status
  BY <1>3 DEF Lifecycle!Designed, Status
<1>. QED BY <1>3, <1>4

(* What updateTicket saves.                                                *)
LEMMA UpdatedTyped ==
  ASSUME NEW q, q.snap \in Row, q.to \in Status, NEW entity \in Updated(q)
  PROVE  /\ entity \in Row
         /\ entity.dupOf = q.snap.dupOf
         /\ \/ entity.status = q.to
            \/ entity.status = "assigned" /\ q.to = "open" /\ q.snap.status # "open"
<1>. DEFINE snap == q.snap
<1>. snap \in Row /\ "open" \in Status /\ "assigned" \in Status
  BY DEF Status
<1>1. CASE q.to = "open" /\ snap.status # "open" /\ entity = [snap EXCEPT !.status = "open", !.owner = NoOne]
  BY <1>1 DEF Row
<1>2. ASSUME q.to = "open", snap.status # "open", NEW k \in Staff,
             entity = [snap EXCEPT !.status = "assigned", !.owner = k]
      PROVE  entity \in Row /\ entity.dupOf = snap.dupOf /\ entity.status = "assigned"
  BY <1>2 DEF Row
<1>3. CASE entity = [snap EXCEPT !.status = q.to]
  BY <1>3 DEF Row
<1>. QED BY <1>1, <1>2, <1>3 DEF Updated

(* A step that only moves handler r along, taking the named lock when its  *)
(* new record says so.                                                     *)
LEMMA ReadStep ==
  ASSUME Inv, NEW r \in Requests, NEW next \in WellFormed,
         req' = [req EXCEPT ![r] = next],
         UNCHANGED <<row, esc, frozeFrom>>,
         \/ lock' = lock
         \/ lock = NoOne /\ lock' = r
         \/ lock = r /\ lock' = NoOne,
         next.pc \in {"held", "accepted"} => lock' = r,
         next.op \in {"escalate", "accept"} => row[next.ticket].status # "cancelled",
         next.op = "accept" => esc[next.ticket].latest = "pending",
         next.pc = "read" /\ next.fresh => SameButOwner(next.snap, row[next.ticket])
  PROVE  Inv'
<1>1. TypeOK' /\ req' \in [Requests -> WellFormed]
  BY WellFormedRequest DEF Inv, TypeOK
<1>2. HandlersOK'
  BY NoOneAssumption DEF Inv, TypeOK, HandlersOK, At
<1>3. FreshMeansCurrent'
  BY DEF Inv, TypeOK, FreshMeansCurrent, SameButOwner
<1>4. CancelledEndsEscalation'
  BY DEF Inv, CancelledEndsEscalation, EscalationActive
<1>. QED BY <1>1, <1>2, <1>3, <1>4 DEF Inv

(* A step that writes row t, by a handler that is then done or has only    *)
(* its unguarded second write to make.                                     *)
LEMMA SaveStep ==
  ASSUME Inv, NEW r \in Requests, NEW t \in Tickets, NEW entity \in Row,
         NEW next \in WellFormed, Write(r, t, entity, next),
         entity.status = "cancelled" => entity = row[t],
         next.pc \notin {"held", "accepted", "read"},
         next.op \notin {"escalate", "accept"},
         UNCHANGED esc,
         frozeFrom' \in [Tickets -> {"none"} \cup Active],
         lock' = lock \/ Release(r)
  PROVE  Inv'
<1>1. /\ row' \in [Tickets -> Row]
      /\ \A u \in Tickets : row'[u].status = "cancelled" => row[u].status = "cancelled"
  BY DEF Write, Inv, TypeOK
<1>2. req' \in [Requests -> WellFormed]
  BY StaleWellFormed DEF Write, Inv
<1>3. TypeOK'
  BY <1>1, <1>2, WellFormedRequest, NoOneAssumption DEF Inv, TypeOK, Release, Active
<1>4. HandlersOK'
  <2>. SUFFICES ASSUME NEW q \in Requests
                PROVE  /\ req'[q].pc \in {"held", "accepted"} => lock' = q
                       /\ req'[q].op \in {"escalate", "accept"} =>
                            row'[req'[q].ticket].status # "cancelled"
                       /\ req'[q].op = "accept" /\ req'[q].pc = "held" =>
                            esc'[req'[q].ticket].latest = "pending"
    BY DEF HandlersOK, At
  <2>1. CASE q = r
    BY <2>1 DEF Write
  <2>2. CASE q # r
    <3>1. /\ req'[q].pc = req[q].pc /\ req'[q].op = req[q].op
          /\ req'[q].ticket = req[q].ticket
      BY <2>2, StaleWellFormed DEF Write, Inv
    <3>2. req[q] \in WellFormed
      BY DEF Inv
    <3>3. req[q].op \in {"escalate", "accept"} => req[q].ticket \in Tickets
      BY <3>2 DEF WellFormed
    <3>. QED BY <1>1, <2>2, <3>1, <3>3 DEF Inv, HandlersOK, At, Release
  <2>. QED BY <2>1, <2>2
<1>5. FreshMeansCurrent'
  <2>. SUFFICES ASSUME NEW q \in Requests, req'[q].pc = "read", req'[q].fresh
                PROVE  SameButOwner(req'[q].snap, row'[req'[q].ticket])
    BY DEF FreshMeansCurrent, SameButOwner
  <2>1. q # r
    BY DEF Write
  <2>2. req[q].ticket # t /\ req'[q] = req[q]
    BY <2>1, StaleWellFormed DEF Write, Inv
  <2>. QED BY <2>2 DEF Inv, TypeOK, FreshMeansCurrent, SameButOwner, Write
<1>6. CancelledEndsEscalation'
  BY <1>1 DEF Inv, CancelledEndsEscalation, EscalationActive
<1>. QED BY <1>2, <1>3, <1>4, <1>5, <1>6 DEF Inv

-----------------------------------------------------------------------------
(* One lemma per group of handlers.                                        *)

LEMMA FailStep ==
  ASSUME Inv, NEW r \in Requests, Fail(r)
  PROVE  Inv'
<1>. Idle \in WellFormed /\ Idle.pc = "idle" /\ Idle.op = "none"
  BY IdleWellFormed DEF Idle
<1>. QED BY ReadStep DEF Fail, Release

(* A record Start makes.                                                   *)
LEMMA StartStep ==
  ASSUME Inv, NEW r \in Requests, NEW t \in Tickets, NEW op, NEW entity \in Row,
         NEW to \in Status, NEW arg \in Staff \cup Tickets \cup {NoOne},
         Start(r, op, t, entity, to, arg),
         op \in {"update", "duplicate", "close", "view", "rate", "slaPass"},
         op = "duplicate" => arg \in Tickets,
         op = "update" =>
           /\ to \in {entity.status} \cup Lifecycle!Designed(entity.status)
           /\ to \notin {"duplicate", "cancelled"}
           /\ entity.status \notin {"duplicate", "cancelled"}
           /\ to = "freeze" => entity.status \in Active \cup {"freeze"},
         entity.status = "cancelled" => op = "view",
         SameButOwner(entity, row[t]),
         UNCHANGED <<row, esc, frozeFrom, lock>>
  PROVE  Inv'
<1>. DEFINE next == [op |-> op, pc |-> "read", ticket |-> t, snap |-> entity, to |-> to,
                     arg |-> arg, fresh |-> op \notin PlainOps]
<1>1. next \in Request
  BY DEF Request, VersionedOps, PlainOps
<1>2. next \in WellFormed
  BY <1>1 DEF WellFormed
<1>3. req' = [req EXCEPT ![r] = next]
  BY DEF Start
<1>4. /\ next.op = op /\ next.pc = "read" /\ next.snap = entity /\ next.ticket = t
  OBVIOUS
<1>. HIDE DEF next
<1>. QED BY <1>2, <1>3, <1>4, ReadStep

LEMMA UpdateStep ==
  ASSUME Inv, NEW r \in Requests
  PROVE  /\ \A t \in Tickets : ReadUpdate(r, t) => Inv'
         /\ CommitUpdate(r) => Inv'
<1>1. ASSUME NEW t \in Tickets, ReadUpdate(r, t) PROVE Inv'
  <2>. DEFINE entity == Enriched(t)
  <2>1. TypeOK /\ entity \in Row /\ SameButOwner(entity, row[t])
    BY EnrichedTyped DEF Inv
  <2>2. PICK to \in {entity.status} \cup UpdateTargets(t, entity) :
          Start(r, "update", t, entity, to, NoOne)
    BY <1>1 DEF ReadUpdate
  <2>3. entity.status \in Status \ {"duplicate", "cancelled"}
    BY <1>1, <2>1 DEF ReadUpdate, Row
  <2>4. /\ to \in {entity.status} \cup Lifecycle!Designed(entity.status)
        /\ to \in Status \ {"duplicate", "cancelled"}
        /\ to = "freeze" => entity.status \in Active \cup {"freeze"}
    BY <2>1, <2>2, <2>3, UpdateDesigned
  <2>5. UNCHANGED <<row, esc, frozeFrom, lock>>
    BY <1>1 DEF ReadUpdate
  <2>. HIDE DEF entity
  <2>. QED BY <2>1, <2>2, <2>3, <2>4, <2>5, StartStep
<1>2. ASSUME CommitUpdate(r) PROVE Inv'
  <2>. DEFINE q == req[r]
              t == req[r].ticket
  <2>1. q \in WellFormed /\ q.op = "update" /\ q \in Request
    BY <1>2, WellFormedRequest DEF Inv, CommitUpdate, At
  <2>2. t \in Tickets /\ q.snap \in Row /\ q.to \in Status \ {"cancelled"}
    BY <2>1 DEF WellFormed, Request
  <2>3. PICK entity \in Updated(q) : Write(r, t, entity, Idle)
    BY <1>2 DEF CommitUpdate
  <2>4. entity \in Row /\ entity.status # "cancelled"
    BY <2>2, <2>3, UpdatedTyped
  <2>5. q.to = "freeze" => q.snap.status \in Active \cup {"freeze"}
    BY <2>1 DEF WellFormed
  <2>6. frozeFrom' \in [Tickets -> {"none"} \cup Active]
    BY <1>2, <2>2, <2>5 DEF CommitUpdate, FreezeEvents, Inv, TypeOK, Active
  <2>7. UNCHANGED <<esc, lock>>
    BY <1>2 DEF CommitUpdate
  <2>8. Idle \in WellFormed /\ Idle.pc = "idle" /\ Idle.op = "none"
    BY IdleWellFormed DEF Idle
  <2>. HIDE DEF q, t
  <2>. QED BY <2>2, <2>3, <2>4, <2>6, <2>7, <2>8, SaveStep
<1>. QED BY <1>1, <1>2

(* What a handler in flight knows of its own record.                       *)
LEMMA InFlight ==
  ASSUME Inv, NEW r \in Requests, NEW op, NEW pc, op # "none", At(r, op, pc)
  PROVE  /\ req[r] \in WellFormed /\ req[r] \in Request
         /\ req[r].ticket \in Tickets /\ req[r].snap \in Row
         /\ row[req[r].ticket] \in Row
         /\ req[r].op = op /\ req[r].pc = pc
<1>1. req[r] \in WellFormed /\ req[r].op = op /\ req[r].pc = pc
  BY DEF Inv, At
<1>2. req[r] \in Request /\ req[r].ticket \in Tickets /\ req[r].snap \in Row
  BY <1>1 DEF WellFormed, Request
<1>. QED BY <1>1, <1>2 DEF Inv, TypeOK

LEMMA DuplicateStep ==
  ASSUME Inv, NEW r \in Requests
  PROVE  /\ \A t \in Tickets : ReadDuplicate(r, t) => Inv'
         /\ CommitDuplicate(r) => Inv'
<1>1. ASSUME NEW t \in Tickets, ReadDuplicate(r, t) PROVE Inv'
  <2>1. PICK o \in Tickets : Start(r, "duplicate", t, Enriched(t), "duplicate", o)
    BY <1>1 DEF ReadDuplicate
  <2>2. /\ Enriched(t) \in Row /\ SameButOwner(Enriched(t), row[t])
        /\ Enriched(t).status = row[t].status
    BY EnrichedTyped DEF Inv
  <2>3. Enriched(t).status # "cancelled" /\ "duplicate" \in Status
    BY <1>1, <2>2 DEF ReadDuplicate, ValidSource, Status
  <2>4. UNCHANGED <<row, esc, frozeFrom, lock>>
    BY <1>1 DEF ReadDuplicate
  <2>. QED BY <2>1, <2>2, <2>3, <2>4, StartStep
<1>2. ASSUME CommitDuplicate(r) PROVE Inv'
  <2>. DEFINE t == req[r].ticket
              entity == [row[t] EXCEPT !.status = "duplicate", !.dupOf = req[r].arg]
  <2>1. /\ req[r] \in WellFormed /\ req[r].op = "duplicate"
        /\ t \in Tickets /\ row[t] \in Row
    BY <1>2, InFlight DEF CommitDuplicate
  <2>2. entity \in Row /\ entity.status # "cancelled"
    BY <2>1 DEF WellFormed, Row, Status
  <2>3. Write(r, t, entity, Idle) /\ UNCHANGED <<esc, frozeFrom, lock>>
    BY <1>2 DEF CommitDuplicate
  <2>4. /\ Idle \in WellFormed /\ Idle.pc = "idle" /\ Idle.op = "none"
        /\ frozeFrom' \in [Tickets -> {"none"} \cup Active]
    BY <2>3, IdleWellFormed DEF Idle, Inv, TypeOK, Active
  <2>. HIDE DEF t, entity
  <2>. QED BY <2>1, <2>2, <2>3, <2>4, SaveStep
<1>. QED BY <1>1, <1>2

LEMMA PageStep ==
  ASSUME Inv, NEW r \in Requests, NEW t \in Tickets, ReadPage(r, t)
  PROVE  Inv'
<1>1. PICK op \in PageOps \cap Ops :
        req' = [req EXCEPT ![r] = [Idle EXCEPT !.op = op, !.pc = "page", !.ticket = t,
                                               !.fresh = TRUE]]
  BY DEF ReadPage
<1>. DEFINE next == [Idle EXCEPT !.op = op, !.pc = "page", !.ticket = t, !.fresh = TRUE]
<1>2. next \in Request /\ next.op = op /\ next.pc = "page" /\ next.snap.status = "open"
      /\ next.ticket = t
  BY IdleWellFormed DEF PageOps, WellFormed, Request, Idle, EmptyRow, VersionedOps, PlainOps
<1>3. next \in WellFormed
  BY <1>2 DEF WellFormed, PageOps
<1>4. req' = [req EXCEPT ![r] = next] /\ UNCHANGED <<row, esc, frozeFrom, lock>>
  BY <1>1 DEF ReadPage
<1>. HIDE DEF next
<1>. QED BY <1>2, <1>3, <1>4, ReadStep DEF PageOps

(* The handlers that end in one plain save of their own snapshot or of the *)
(* row itself.                                                             *)
LEMMA LastSave ==
  ASSUME Inv, NEW r \in Requests, NEW t \in Tickets, NEW entity \in Row,
         entity.status = "cancelled" => entity = row[t],
         Write(r, t, entity, Idle), UNCHANGED <<esc, frozeFrom>>,
         lock' = lock \/ Release(r)
  PROVE  Inv'
<1>1. /\ Idle \in WellFormed /\ Idle.pc = "idle" /\ Idle.op = "none"
      /\ frozeFrom' \in [Tickets -> {"none"} \cup Active]
  BY IdleWellFormed DEF Idle, Inv, TypeOK, Active
<1>. QED BY <1>1, SaveStep

(* Taking the named lock after preparing the request on a page.            *)
LEMMA HoldStep ==
  ASSUME Inv, NEW r \in Requests, NEW op \in {"assign", "correctAssignee", "correctRequester"},
         At(r, op, "page"), NEW entity \in Row, NEW arg \in Staff \cup {NoOne},
         Hold(r, entity, arg), entity.status # "cancelled",
         op # "correctRequester" => arg \in Staff,
         UNCHANGED <<row, esc, frozeFrom>>
  PROVE  Inv'
<1>. DEFINE q == req[r]
            next == [q EXCEPT !.pc = "held", !.snap = entity, !.arg = arg, !.fresh = FALSE]
<1>1. q \in WellFormed /\ q \in Request /\ q.op = op /\ q.ticket \in Tickets
  BY InFlight
<1>2. /\ next \in Request /\ next.op = op /\ next.pc = "held" /\ next.snap = entity
      /\ next.ticket = q.ticket /\ next.arg = arg
  BY <1>1 DEF Request
<1>3. next \in WellFormed
  BY <1>1, <1>2 DEF WellFormed
<1>4. req' = [req EXCEPT ![r] = next] /\ lock = NoOne /\ lock' = r
  BY DEF Hold, LockFree
<1>. HIDE DEF q, next
<1>. QED BY <1>2, <1>3, <1>4, ReadStep

LEMMA AssignStep ==
  ASSUME Inv, NEW r \in Requests
  PROVE  /\ HoldAssign(r) => Inv'
         /\ CommitAssign(r) => Inv'
<1>1. ASSUME HoldAssign(r) PROVE Inv'
  <2>. DEFINE t == req[r].ticket
  <2>1. At(r, "assign", "page") /\ row[t].status # "cancelled"
        /\ UNCHANGED <<row, esc, frozeFrom>>
    BY <1>1 DEF HoldAssign
  <2>2. PICK k \in Staff : Hold(r, Enriched(t), k)
    BY <1>1 DEF HoldAssign
  <2>3. Enriched(t) \in Row /\ Enriched(t).status # "cancelled"
    BY <2>1, InFlight, EnrichedTyped DEF Inv
  <2>. QED BY <2>1, <2>2, <2>3, HoldStep
<1>2. ASSUME CommitAssign(r) PROVE Inv'
  <2>. DEFINE q == req[r]
  <2>1. /\ q \in WellFormed /\ q.ticket \in Tickets /\ q.snap \in Row
        /\ q.op = "assign" /\ q.pc = "held"
    BY <1>2, InFlight DEF CommitAssign
  <2>2. PICK s \in {"in_progress", "assigned", q.snap.status} :
          Write(r, q.ticket, [q.snap EXCEPT !.status = s, !.owner = q.arg], Idle)
    BY <1>2 DEF CommitAssign
  <2>3. q.arg \in Staff /\ s \in Status /\ s # "cancelled"
    BY <2>1, <2>2 DEF WellFormed, Row, Status
  <2>4. UNCHANGED <<esc, frozeFrom>> /\ Release(r)
    BY <1>2 DEF CommitAssign
  <2>. DEFINE entity == [q.snap EXCEPT !.status = s, !.owner = q.arg]
  <2>5. entity \in Row /\ entity.status # "cancelled"
    BY <2>1, <2>3 DEF Row
  <2>6. Write(r, q.ticket, entity, Idle)
    BY <2>2
  <2>. HIDE DEF q, entity
  <2>. QED BY <2>1, <2>4, <2>5, <2>6, LastSave
<1>. QED BY <1>1, <1>2

LEMMA CorrectAssigneeStep ==
  ASSUME Inv, NEW r \in Requests
  PROVE  /\ HoldCorrectAssignee(r) => Inv'
         /\ CommitCorrectAssignee(r) => Inv'
<1>1. ASSUME HoldCorrectAssignee(r) PROVE Inv'
  <2>. DEFINE t == req[r].ticket
  <2>1. At(r, "correctAssignee", "page") /\ row[t].status # "cancelled"
        /\ UNCHANGED <<row, esc, frozeFrom>>
    BY <1>1 DEF HoldCorrectAssignee
  <2>2. PICK k \in Staff : Hold(r, row[t], k)
    BY <1>1 DEF HoldCorrectAssignee
  <2>3. row[t] \in Row
    BY <2>1, InFlight
  <2>. QED BY <2>1, <2>2, <2>3, HoldStep
<1>2. ASSUME CommitCorrectAssignee(r) PROVE Inv'
  <2>. DEFINE q == req[r]
  <2>1. /\ q \in WellFormed /\ q.ticket \in Tickets /\ q.snap \in Row
        /\ q.op = "correctAssignee" /\ q.pc = "held"
    BY <1>2, InFlight DEF CommitCorrectAssignee
  <2>2. PICK s \in {"in_progress", "assigned", "resolved"} :
          Write(r, q.ticket, [q.snap EXCEPT !.status = s, !.owner = q.arg], Idle)
    BY <1>2 DEF CommitCorrectAssignee
  <2>. DEFINE entity == [q.snap EXCEPT !.status = s, !.owner = q.arg]
  <2>3. q.arg \in Staff
    BY <2>1 DEF WellFormed
  <2>4. entity \in Row /\ entity.status # "cancelled"
    BY <2>1, <2>3 DEF Row, Status
  <2>5. Write(r, q.ticket, entity, Idle) /\ UNCHANGED <<esc, frozeFrom>> /\ Release(r)
    BY <1>2, <2>2 DEF CommitCorrectAssignee
  <2>. HIDE DEF q, entity
  <2>. QED BY <2>1, <2>4, <2>5, LastSave
<1>. QED BY <1>1, <1>2

LEMMA CorrectRequesterStep ==
  ASSUME Inv, NEW r \in Requests
  PROVE  /\ HoldCorrectRequester(r) => Inv'
         /\ CommitCorrectRequester(r) => Inv'
<1>1. ASSUME HoldCorrectRequester(r) PROVE Inv'
  <2>1. /\ At(r, "correctRequester", "page") /\ row[req[r].ticket].status # "cancelled"
        /\ Hold(r, row[req[r].ticket], NoOne) /\ UNCHANGED <<row, esc, frozeFrom>>
    BY <1>1 DEF HoldCorrectRequester
  <2>2. row[req[r].ticket] \in Row
    BY <2>1, InFlight
  <2>. QED BY <2>1, <2>2, HoldStep
<1>2. ASSUME CommitCorrectRequester(r) PROVE Inv'
  <2>1. /\ req[r] \in WellFormed /\ req[r].ticket \in Tickets /\ req[r].snap \in Row
        /\ req[r].pc = "held"
    BY <1>2, InFlight DEF CommitCorrectRequester
  <2>2. req[r].snap.status # "cancelled"
    BY <2>1 DEF WellFormed
  <2>. QED BY <1>2, <2>1, <2>2, LastSave DEF CommitCorrectRequester
<1>. QED BY <1>1, <1>2

LEMMA ClaimStep ==
  ASSUME Inv, NEW r \in Requests, NEW t \in Tickets, Claim(r, t)
  PROVE  Inv'
<1>1. PICK k \in Staff, s \in {"in_progress", "assigned"} :
        Write(r, t, [row[t] EXCEPT !.status = s, !.owner = k], Idle)
  BY DEF Claim
<1>. DEFINE entity == [row[t] EXCEPT !.status = s, !.owner = k]
<1>2. entity \in Row /\ entity.status # "cancelled"
  BY DEF Inv, TypeOK, Row, Status
<1>3. Write(r, t, entity, Idle) /\ UNCHANGED <<esc, frozeFrom, lock>>
  BY <1>1 DEF Claim
<1>. HIDE DEF entity
<1>. QED BY <1>2, <1>3, LastSave

(* The handlers that take the named lock with their first read.            *)
LEMMA HeldStep ==
  ASSUME Inv, NEW r \in Requests, NEW t \in Tickets, NEW k \in Staff,
         NEW op \in {"pickup", "escalate", "accept"}, NEW to \in Status,
         LockFree, lock' = r, row[t].status # "cancelled",
         op = "accept" => esc[t].latest = "pending",
         req' = [req EXCEPT ![r] = [op |-> op, pc |-> "held", ticket |-> t,
                                    snap |-> row[t], to |-> to, arg |-> k,
                                    fresh |-> FALSE]],
         UNCHANGED <<row, esc, frozeFrom>>
  PROVE  Inv'
<1>. DEFINE next == [op |-> op, pc |-> "held", ticket |-> t, snap |-> row[t], to |-> to,
                     arg |-> k, fresh |-> FALSE]
<1>1. next \in Request
  BY DEF Request, VersionedOps, PlainOps, Inv, TypeOK
<1>2. next \in WellFormed
  BY <1>1 DEF WellFormed
<1>3. req' = [req EXCEPT ![r] = next] /\ next.op = op /\ next.pc = "held" /\ next.ticket = t
  OBVIOUS
<1>. HIDE DEF next
<1>. QED BY <1>2, <1>3, ReadStep DEF LockFree

LEMMA PickupStep ==
  ASSUME Inv, NEW r \in Requests
  PROVE  /\ \A t \in Tickets : HoldPickup(r, t) => Inv'
         /\ CommitPickup(r) => Inv'
<1>1. ASSUME NEW t \in Tickets, HoldPickup(r, t) PROVE Inv'
  BY <1>1, HeldStep DEF HoldPickup, Status
<1>2. ASSUME CommitPickup(r) PROVE Inv'
  <2>. DEFINE q == req[r]
  <2>1. /\ q \in WellFormed /\ q.ticket \in Tickets /\ q.snap \in Row
        /\ q.op = "pickup" /\ q.pc = "held"
    BY <1>2, InFlight DEF CommitPickup
  <2>2. PICK s \in {"in_progress", "assigned"} :
          Write(r, q.ticket, [q.snap EXCEPT !.status = s, !.owner = q.arg], Idle)
    BY <1>2 DEF CommitPickup
  <2>. DEFINE entity == [q.snap EXCEPT !.status = s, !.owner = q.arg]
  <2>3. q.arg \in Staff
    BY <2>1 DEF WellFormed
  <2>4. entity \in Row /\ entity.status # "cancelled"
    BY <2>1, <2>3 DEF Row, Status
  <2>5. Write(r, q.ticket, entity, Idle) /\ UNCHANGED <<esc, frozeFrom>> /\ Release(r)
    BY <1>2, <2>2 DEF CommitPickup
  <2>. HIDE DEF q, entity
  <2>. QED BY <2>1, <2>4, <2>5, LastSave
<1>. QED BY <1>1, <1>2

(* Handlers outside the version check and the named lock.                  *)
LEMMA PlainStep ==
  ASSUME Inv, NEW r \in Requests
  PROVE  /\ \A t \in Tickets :
              ReadClose(r, t) \/ ReadView(r, t) \/ ReadRate(r, t) \/ ReadSlaPass(r, t) => Inv'
         /\ CommitClose(r) \/ CommitRate(r) \/ CommitSlaPass(r) => Inv'
<1>. /\ TypeOK /\ {"closed", "in_progress"} \subseteq Status
     /\ \A t \in Tickets : SameButOwner(row[t], row[t]) /\ row[t] \in Row
  BY DEF Inv, TypeOK, SameButOwner, Status
<1>1. ASSUME NEW t \in Tickets, ReadClose(r, t) PROVE Inv'
  BY <1>1, StartStep DEF ReadClose
<1>2. ASSUME NEW t \in Tickets, ReadView(r, t) PROVE Inv'
  BY <1>2, StartStep, EnrichedTyped DEF ReadView
<1>3. ASSUME NEW t \in Tickets, ReadRate(r, t) PROVE Inv'
  BY <1>3, StartStep DEF ReadRate
<1>4. ASSUME NEW t \in Tickets, ReadSlaPass(r, t) PROVE Inv'
  <2>1. PICK entity \in {row[t], Enriched(t)} :
          Start(r, "slaPass", t, entity, "in_progress", NoOne)
    BY <1>4 DEF ReadSlaPass
  <2>2. /\ entity \in Row /\ SameButOwner(entity, row[t])
        /\ entity.status # "cancelled" /\ UNCHANGED <<row, esc, frozeFrom, lock>>
    BY <1>4, EnrichedTyped DEF ReadSlaPass
  <2>. QED BY <2>1, <2>2, StartStep
<1>5. ASSUME CommitClose(r) PROVE Inv'
  <2>. DEFINE entity == [req[r].snap EXCEPT !.status = "closed"]
  <2>1. req[r].ticket \in Tickets /\ req[r].snap \in Row
    BY <1>5, InFlight DEF CommitClose
  <2>2. entity \in Row /\ entity.status # "cancelled"
    BY <2>1 DEF Row
  <2>3. Write(r, req[r].ticket, entity, Idle) /\ UNCHANGED <<esc, frozeFrom, lock>>
    BY <1>5 DEF CommitClose
  <2>. QED BY <2>1, <2>2, <2>3, LastSave
<1>6. ASSUME CommitRate(r) PROVE Inv'
  <2>. DEFINE entity == [req[r].snap EXCEPT !.status = "closed", !.rating = r]
  <2>1. req[r].ticket \in Tickets /\ req[r].snap \in Row
    BY <1>6, InFlight DEF CommitRate
  <2>2. entity \in Row /\ entity.status # "cancelled"
    BY <2>1 DEF Row
  <2>3. Write(r, req[r].ticket, entity, Idle) /\ UNCHANGED <<esc, frozeFrom, lock>>
    BY <1>6 DEF CommitRate
  <2>. QED BY <2>1, <2>2, <2>3, LastSave
<1>7. ASSUME CommitSlaPass(r) PROVE Inv'
  <2>1. req[r].ticket \in Tickets /\ req[r].snap \in Row /\ req[r].snap.status # "cancelled"
    BY <1>7, InFlight DEF CommitSlaPass, WellFormed
  <2>. QED BY <1>7, <2>1, LastSave DEF CommitSlaPass
<1>. QED BY <1>1, <1>2, <1>3, <1>4, <1>5, <1>6, <1>7

LEMMA ViewStep ==
  ASSUME Inv, NEW r \in Requests
  PROVE  /\ FlagView(r) => Inv'
         /\ CommitView(r) => Inv'
<1>1. ASSUME FlagView(r) PROVE Inv'
  <2>. DEFINE q == req[r]
              next == [q EXCEPT !.pc = "flagged"]
  <2>1. /\ q \in WellFormed /\ q \in Request /\ q.ticket \in Tickets /\ q.op = "view"
        /\ row[q.ticket] \in Row
    BY <1>1, InFlight DEF FlagView
  <2>2. UNCHANGED <<esc, frozeFrom, lock>>
    BY <1>1 DEF FlagView
  <2>3. CASE Write(r, q.ticket, row[q.ticket], Idle)
    BY <2>1, <2>2, <2>3, LastSave
  <2>4. CASE q.snap.status = "assigned" /\ Write(r, q.ticket, row[q.ticket], next)
    <3>1. next \in Request /\ next.pc = "flagged" /\ next.op = "view"
          /\ next.snap = q.snap /\ next.ticket = q.ticket
      BY <2>1 DEF Request
    <3>2. next \in WellFormed
      BY <2>1, <2>4, <3>1 DEF WellFormed
    <3>3. frozeFrom' \in [Tickets -> {"none"} \cup Active]
      BY <2>2 DEF Inv, TypeOK, Active
    <3>. HIDE DEF q, next
    <3>. QED BY <2>1, <2>2, <2>4, <3>1, <3>2, <3>3, SaveStep
  <2>. QED BY <1>1, <2>3, <2>4 DEF FlagView
<1>2. ASSUME CommitView(r) PROVE Inv'
  <2>. DEFINE entity == [req[r].snap EXCEPT !.status = "in_progress"]
  <2>1. req[r].ticket \in Tickets /\ req[r].snap \in Row
    BY <1>2, InFlight DEF CommitView
  <2>2. entity \in Row /\ entity.status # "cancelled"
    BY <2>1 DEF Row, Status
  <2>3. Write(r, req[r].ticket, entity, Idle) /\ UNCHANGED <<esc, frozeFrom, lock>>
    BY <1>2 DEF CommitView
  <2>. QED BY <2>1, <2>2, <2>3, LastSave
<1>. QED BY <1>1, <1>2

(* cancelTicket, the one action that makes a row cancelled.                *)
LEMMA CancelStep ==
  ASSUME Inv, NEW r \in Requests, CommitCancel(r)
  PROVE  Inv'
<1>. DEFINE t == req[r].ticket
            entity == [row[t] EXCEPT !.status = "cancelled"]
            closed == [latest |-> IF EscalationActive(t) THEN "cancelled" ELSE esc[t].latest,
                       to |-> NoOne, accepted |-> NoOne]
<1>1. t \in Tickets /\ row[t] \in Row /\ esc[t] \in Escalation
  BY InFlight DEF CommitCancel, Inv, TypeOK
<1>2. entity \in Row /\ entity.dupOf = row[t].dupOf
  BY <1>1 DEF Row, Status
<1>3. /\ closed \in Escalation /\ closed.latest \notin {"pending", "accepted"}
      /\ closed.accepted = NoOne
  BY <1>1 DEF Escalation, EscalationStatus, EscalationActive
<1>4. /\ Write(r, t, entity, Idle) /\ esc' = [esc EXCEPT ![t] = closed]
      /\ lock = NoOne /\ UNCHANGED <<frozeFrom, lock>>
  BY DEF CommitCancel, LockFree
<1>. HIDE DEF t, entity, closed
<1>5. /\ row' = [row EXCEPT ![t] = entity] /\ row' \in [Tickets -> Row]
      /\ esc' \in [Tickets -> Escalation]
  BY <1>1, <1>2, <1>3, <1>4 DEF Write, Inv, TypeOK
<1>6. req' \in [Requests -> WellFormed]
  BY <1>4, StaleWellFormed, IdleWellFormed DEF Write, Inv
<1>7. TypeOK'
  BY <1>4, <1>5, <1>6, WellFormedRequest DEF Inv, TypeOK
<1>8. \A u \in Tickets : esc'[u].latest = "pending" => esc'[u].to \in Staff
  BY <1>1, <1>3, <1>4 DEF Inv, TypeOK
<1>9. \A q \in Requests :
        /\ req'[q].pc \notin {"held", "accepted"}
        /\ req'[q].op \notin {"escalate", "accept"}
  <2>. SUFFICES ASSUME NEW q \in Requests
                PROVE  req'[q].pc \notin {"held", "accepted"} /\
                       req'[q].op \notin {"escalate", "accept"}
    OBVIOUS
  <2>1. req[q] \in WellFormed /\ req[q].pc \notin {"held", "accepted"}
    BY <1>4, NoOneAssumption DEF Inv, HandlersOK
  <2>2. req[q].op \notin {"escalate", "accept"}
    BY <2>1 DEF WellFormed
  <2>3. CASE q = r
    BY <1>4, <2>3 DEF Write, Idle
  <2>4. CASE q # r
    BY <1>4, <2>1, <2>2, <2>4, StaleWellFormed DEF Write
  <2>. QED BY <2>3, <2>4
<1>10. HandlersOK'
  BY <1>9 DEF HandlersOK, At
<1>11. FreshMeansCurrent'
  <2>. SUFFICES ASSUME NEW q \in Requests, req'[q].pc = "read", req'[q].fresh
                PROVE  SameButOwner(req'[q].snap, row'[req'[q].ticket])
    BY DEF FreshMeansCurrent, SameButOwner
  <2>1. q # r
    BY <1>4 DEF Write, Idle
  <2>2. req[q].ticket # t /\ req'[q] = req[q]
    BY <1>4, <2>1, StaleWellFormed DEF Write, Inv
  <2>. QED BY <1>5, <2>2 DEF Inv, TypeOK, FreshMeansCurrent, SameButOwner
<1>12. CancelledEndsEscalation'
  BY <1>1, <1>3, <1>4, <1>5 DEF Inv, TypeOK, CancelledEndsEscalation, EscalationActive
<1>. QED BY <1>6, <1>7, <1>8, <1>10, <1>11, <1>12 DEF Inv

(* The escalation handlers.  esc changes only in the hands of the lock     *)
(* holder, or while nobody holds it.                                       *)
LEMMA EscalationStep ==
  ASSUME Inv, NEW r \in Requests, NEW t \in Tickets, NEW record \in Escalation,
         NEW next \in WellFormed,
         lock = r, esc' = [esc EXCEPT ![t] = record], req' = [req EXCEPT ![r] = next],
         UNCHANGED <<row, frozeFrom>>,
         record.latest = "pending" => record.to \in Staff,
         row[t].status # "cancelled",
         \/ next = Idle /\ lock' = NoOne
         \/ /\ next.op = "accept" /\ next.pc = "accepted"
            /\ next.ticket = t /\ lock' = r
  PROVE  Inv'
<1>0. Idle.pc = "idle" /\ Idle.op = "none"
  BY DEF Idle
<1>1. TypeOK' /\ req' \in [Requests -> WellFormed]
  BY WellFormedRequest DEF Inv, TypeOK
<1>2. \A u \in Tickets : esc'[u].latest = "pending" => esc'[u].to \in Staff
  BY DEF Inv, TypeOK
<1>3. \A q \in Requests \ {r} :
        /\ req[q].pc \notin {"held", "accepted"}
        /\ req[q].op \notin {"escalate", "accept"}
  BY DEF Inv, HandlersOK, WellFormed
<1>4. HandlersOK'
  BY <1>0, <1>3 DEF Inv, HandlersOK, At
<1>5. FreshMeansCurrent'
  BY <1>0 DEF Inv, FreshMeansCurrent, SameButOwner
<1>6. CancelledEndsEscalation'
  BY DEF Inv, TypeOK, CancelledEndsEscalation, EscalationActive
<1>. QED BY <1>1, <1>2, <1>4, <1>5, <1>6 DEF Inv

LEMMA EscalateStep ==
  ASSUME Inv, NEW r \in Requests
  PROVE  /\ \A t \in Tickets : HoldEscalate(r, t) => Inv'
         /\ CommitEscalate(r) => Inv'
<1>1. ASSUME NEW t \in Tickets, HoldEscalate(r, t) PROVE Inv'
  <2>1. PICK k \in Staff :
       req' = [req EXCEPT ![r] = [op |-> "escalate", pc |-> "held", ticket |-> t,
                                  snap |-> row[t], to |-> "open", arg |-> k,
                                  fresh |-> FALSE]]
    BY <1>1 DEF HoldEscalate
  <2>. QED BY <1>1, <2>1, HeldStep DEF HoldEscalate, Status
<1>2. ASSUME CommitEscalate(r) PROVE Inv'
  <2>. DEFINE t == req[r].ticket
              record == [esc[t] EXCEPT !.latest = "pending", !.to = req[r].arg]
  <2>1. /\ req[r] \in WellFormed /\ t \in Tickets
        /\ req[r].op = "escalate" /\ req[r].pc = "held"
    BY <1>2, InFlight DEF CommitEscalate
  <2>2. req[r].arg \in Staff /\ lock = r /\ row[t].status # "cancelled"
    BY <2>1 DEF WellFormed, Inv, HandlersOK
  <2>3. record \in Escalation /\ record.to = req[r].arg
    BY <2>1, <2>2 DEF Inv, TypeOK, Escalation, EscalationStatus
  <2>4. /\ esc' = [esc EXCEPT ![t] = record] /\ req' = [req EXCEPT ![r] = Idle]
        /\ lock' = NoOne /\ UNCHANGED <<row, frozeFrom>>
    BY <1>2, <2>2 DEF CommitEscalate, Release
  <2>. HIDE DEF t, record
  <2>. QED BY <2>1, <2>2, <2>3, <2>4, IdleWellFormed, EscalationStep
<1>. QED BY <1>1, <1>2

LEMMA AcceptStep ==
  ASSUME Inv, NEW r \in Requests
  PROVE  /\ \A t \in Tickets : HoldAccept(r, t) => Inv'
         /\ SaveAcceptance(r) => Inv'
         /\ CommitAccept(r) => Inv'
<1>1. ASSUME NEW t \in Tickets, HoldAccept(r, t) PROVE Inv'
  <2>1. esc[t].to \in Staff
    BY <1>1 DEF HoldAccept, Inv
  <2>. QED BY <1>1, <2>1, HeldStep DEF HoldAccept, Status
<1>2. ASSUME SaveAcceptance(r) PROVE Inv'
  <2>. DEFINE q == req[r]
              record == [esc[q.ticket] EXCEPT !.latest = "accepted", !.to = NoOne,
                                              !.accepted = q.arg]
              next == [q EXCEPT !.pc = "accepted"]
  <2>1. /\ q \in WellFormed /\ q \in Request /\ q.ticket \in Tickets
        /\ q.op = "accept" /\ q.pc = "held"
    BY <1>2, InFlight DEF SaveAcceptance
  <2>2. q.arg \in Staff /\ lock = r /\ row[q.ticket].status # "cancelled"
    BY <2>1 DEF WellFormed, Inv, HandlersOK
  <2>3. record \in Escalation /\ record.latest = "accepted"
    BY <2>1, <2>2 DEF Inv, TypeOK, Escalation, EscalationStatus
  <2>4. /\ next \in Request /\ next.op = "accept" /\ next.pc = "accepted"
        /\ next.ticket = q.ticket /\ next.snap = q.snap /\ next.arg = q.arg
    BY <2>1 DEF Request
  <2>5. next \in WellFormed
    BY <2>1, <2>2, <2>4 DEF WellFormed
  <2>6. /\ esc' = [esc EXCEPT ![q.ticket] = record] /\ req' = [req EXCEPT ![r] = next]
        /\ lock' = r /\ UNCHANGED <<row, frozeFrom>>
    BY <1>2, <2>2 DEF SaveAcceptance
  <2>. HIDE DEF q, record, next
  <2>. QED BY <2>1, <2>2, <2>3, <2>4, <2>5, <2>6, EscalationStep
<1>3. ASSUME CommitAccept(r) PROVE Inv'
  <2>. DEFINE q == req[r]
              s == IF q.snap.status \in {"resolved", "closed"} THEN q.snap.status
                   ELSE "in_progress"
              entity == [q.snap EXCEPT !.status = s, !.owner = q.arg]
  <2>1. /\ q \in WellFormed /\ q.ticket \in Tickets /\ q.snap \in Row
        /\ q.op = "accept" /\ q.pc = "accepted"
    BY <1>3, InFlight DEF CommitAccept
  <2>2. q.arg \in Staff /\ s \in Status /\ s # "cancelled"
    BY <2>1 DEF WellFormed, Status
  <2>3. entity \in Row /\ entity.status # "cancelled"
    BY <2>1, <2>2 DEF Row
  <2>4. Write(r, q.ticket, entity, Idle) /\ UNCHANGED <<esc, frozeFrom>> /\ Release(r)
    BY <1>3 DEF CommitAccept
  <2>. HIDE DEF q, s, entity
  <2>. QED BY <2>1, <2>3, <2>4, LastSave
<1>. QED BY <1>1, <1>2, <1>3

LEMMA ReturnStep ==
  ASSUME Inv, NEW t \in Tickets, ReturnEscalation(t)
  PROVE  Inv'
<1>. DEFINE record == [esc[t] EXCEPT !.latest = "returned", !.to = NoOne]
<1>1. record \in Escalation /\ record.latest = "returned" /\ record.accepted = esc[t].accepted
  BY DEF Inv, TypeOK, Escalation, EscalationStatus
<1>2. /\ esc' = [esc EXCEPT ![t] = record] /\ lock = NoOne
      /\ UNCHANGED <<row, frozeFrom, req, lock>>
  BY DEF ReturnEscalation, LockFree
<1>. HIDE DEF record
<1>3. TypeOK' /\ req' \in [Requests -> WellFormed]
  BY <1>1, <1>2 DEF Inv, TypeOK
<1>4. \A u \in Tickets : esc'[u].latest = "pending" => esc'[u].to \in Staff
  BY <1>1, <1>2 DEF Inv, TypeOK
<1>5. HandlersOK'
  BY <1>2, NoOneAssumption DEF Inv, HandlersOK, At
<1>6. FreshMeansCurrent'
  BY <1>2 DEF Inv, FreshMeansCurrent, SameButOwner
<1>7. CancelledEndsEscalation'
  BY <1>1, <1>2 DEF Inv, TypeOK, CancelledEndsEscalation, EscalationActive
<1>. QED BY <1>3, <1>4, <1>5, <1>6, <1>7 DEF Inv

-----------------------------------------------------------------------------
(* Theorems for every set of operations.                                   *)

LEMMA InvStep == Inv /\ [Next]_vars => Inv'
<1>. SUFFICES ASSUME Inv, [Next]_vars PROVE Inv'
  OBVIOUS
<1>1. CASE UNCHANGED vars
  BY <1>1 DEF vars, Inv, TypeOK, HandlersOK, At, FreshMeansCurrent, SameButOwner,
              CancelledEndsEscalation, EscalationActive
<1>2. ASSUME NEW r \in Requests, NEW t \in Tickets, Begin(r, t) PROVE Inv'
  BY <1>2, UpdateStep, DuplicateStep, PageStep, PlainStep, ClaimStep, PickupStep,
     EscalateStep, AcceptStep DEF Begin
<1>3. ASSUME NEW r \in Requests, Continue(r) PROVE Inv'
  BY <1>3, UpdateStep, DuplicateStep, CancelStep, AssignStep, CorrectAssigneeStep,
     CorrectRequesterStep, PickupStep, PlainStep, ViewStep, EscalateStep, AcceptStep
     DEF Continue
<1>. QED BY <1>1, <1>2, <1>3, FailStep, ReturnStep DEF Next

LEMMA InvInit == Init => Inv
<1>. SUFFICES ASSUME Init PROVE Inv
  OBVIOUS
<1>1. Created \subseteq Row /\ \A e \in Created : e.status # "cancelled"
  <2>. SUFFICES ASSUME NEW e \in Created PROVE e \in Row /\ e.status # "cancelled"
    OBVIOUS
  <2>1. CASE e = EmptyRow
    BY <2>1, IdleWellFormed DEF EmptyRow
  <2>2. ASSUME NEW s \in {"assigned", "in_progress"}, NEW k \in Staff,
               e = [status |-> s, owner |-> k, dupOf |-> NoOne, rating |-> NoOne]
        PROVE  e \in Row /\ e.status # "cancelled"
    BY <2>2 DEF Row, Status
  <2>. QED BY <2>1, <2>2 DEF Created
<1>2. TypeOK
  BY <1>1, IdleWellFormed, WellFormedRequest
     DEF Init, TypeOK, Escalation, EscalationStatus
<1>3. req \in [Requests -> WellFormed] /\ \A r \in Requests : req[r].pc = "idle" /\ req[r].op = "none"
  BY IdleWellFormed DEF Init, Idle
<1>4. HandlersOK /\ FreshMeansCurrent
  BY <1>3 DEF HandlersOK, At, FreshMeansCurrent
<1>5. CancelledEndsEscalation /\ \A t \in Tickets : esc[t].latest # "pending"
  BY DEF Init, CancelledEndsEscalation, EscalationActive
<1>. QED BY <1>2, <1>3, <1>4, <1>5 DEF Inv

(* Every state the handlers reach satisfies the inductive invariant.       *)
THEOREM InvHolds == Spec => []Inv
BY InvInit, InvStep, PTL DEF Spec

(* The columns of the two tables and the handlers' records keep their      *)
(* types; a frozen ticket's freeze event names an active status, which is  *)
(* what resolveFrozenReturnStatus returns to.                              *)
THEOREM TypeCorrect == Spec => []TypeOK
<1>1. Inv => TypeOK
  BY DEF Inv
<1>. QED BY <1>1, InvHolds, PTL

(* The version check is sound: a handler whose updatedAt still matches     *)
(* writes over exactly what it read, whichever handlers run beside it.     *)
THEOREM FreshReads == Spec => []FreshMeansCurrent
<1>1. Inv => FreshMeansCurrent
  BY DEF Inv
<1>. QED BY <1>1, InvHolds, PTL

(* cancelTicket ends escalations for good: the named lock keeps            *)
(* escalateTicket and acceptEscalation from writing to a ticket that was   *)
(* cancelled after they looked at it.                                      *)
THEOREM CancellationIsComplete == Spec => []CancelledEndsEscalation
<1>1. Inv => CancelledEndsEscalation
  BY DEF Inv
<1>. QED BY <1>1, InvHolds, PTL

(* The status acceptEscalation checked under the named lock still holds    *)
(* when it saves the record.                                               *)
LEMMA AnsweredOnceStep ==
  ASSUME Inv, [Next]_vars, NEW t \in Tickets, esc[t].latest \in {"returned", "cancelled"}
  PROVE  esc'[t].latest # "accepted"
<1>1. CASE UNCHANGED esc
  BY <1>1
<1>2. ASSUME NEW r \in Requests, SaveAcceptance(r) PROVE esc'[t].latest # "accepted"
  BY <1>2 DEF SaveAcceptance, At, Inv, HandlersOK, TypeOK, Escalation
<1>3. ASSUME NEW r \in Requests, CommitEscalate(r) PROVE esc'[t].latest # "accepted"
  BY <1>3 DEF CommitEscalate, Inv, TypeOK, Escalation
<1>4. ASSUME NEW r \in Requests, CommitCancel(r) PROVE esc'[t].latest # "accepted"
  BY <1>4 DEF CommitCancel, Inv, TypeOK, Escalation, EscalationActive
<1>5. ASSUME NEW u \in Tickets, ReturnEscalation(u) PROVE esc'[t].latest # "accepted"
  BY <1>5 DEF ReturnEscalation, Inv, TypeOK, Escalation
<1>6. ASSUME NEW r \in Requests, NEW u \in Tickets, Begin(r, u) PROVE UNCHANGED esc
  BY <1>6 DEF Begin, ReadUpdate, ReadDuplicate, ReadPage, ReadClose, ReadView, ReadRate,
              ReadSlaPass, Claim, HoldPickup, HoldEscalate, HoldAccept
<1>7. ASSUME NEW r \in Requests, Continue(r),
             ~SaveAcceptance(r), ~CommitEscalate(r), ~CommitCancel(r)
      PROVE  UNCHANGED esc
  BY <1>7 DEF Continue, CommitUpdate, CommitDuplicate, HoldAssign, CommitAssign,
              HoldCorrectAssignee, CommitCorrectAssignee, HoldCorrectRequester,
              CommitCorrectRequester, CommitPickup, CommitClose, FlagView, CommitView,
              CommitRate, CommitSlaPass, CommitAccept
<1>. QED BY <1>1, <1>2, <1>3, <1>4, <1>5, <1>6, <1>7 DEF Next, Fail, vars

(* A returned or cancelled escalation is never accepted afterwards, even   *)
(* by an acceptEscalation that began before it was answered.               *)
THEOREM EscalationAnsweredOnce == Spec => AnsweredOnce
<1>1. Inv /\ [Next]_vars =>
        [\A t \in Tickets : esc[t].latest \in {"returned", "cancelled"} =>
           esc'[t].latest # "accepted"]_vars
  BY AnsweredOnceStep
<1>. QED BY <1>1, InvHolds, PTL DEF Spec, AnsweredOnce

-----------------------------------------------------------------------------
(* Theorems for the handlers that compare updatedAt under the row lock, or *)
(* do not write the ticket at all.                                         *)

OnlyVersioned == \A r \in Requests : req[r].op \in VersionedOps \cup {"none"}

VersionedInv == Inv /\ OnlyVersioned /\ DuplicatesPointAtOriginals

(* What such a handler does to ticket t: it moves the status as designed   *)
(* and keeps the link, or it links an unreferenced ticket to an original.  *)
MovesStatus(t, entity) ==
  /\ entity.status \in {row[t].status} \cup Lifecycle!Designed(row[t].status)
  /\ entity.status # "duplicate"
  /\ entity.dupOf = row[t].dupOf

LinksDuplicate(t, entity) ==
  /\ entity.status \in Lifecycle!Designed(row[t].status)
  /\ entity.dupOf \in Tickets
  /\ ValidOriginal(t, entity.dupOf)
  /\ ~HasDependants(t)

VersionedWrite ==
  \/ UNCHANGED row
  \/ \E t \in Tickets, entity \in Row :
       /\ row' = [row EXCEPT ![t] = entity]
       /\ MovesStatus(t, entity) \/ LinksDuplicate(t, entity)

LEMMA VersionedOpsDisjoint == VersionedOps \cap PlainOps = {} /\ "none" \notin VersionedOps \cup PlainOps
BY DEF VersionedOps, PlainOps

LEMMA VersionedUpdate ==
  ASSUME Inv, NEW r \in Requests, CommitUpdate(r)
  PROVE  VersionedWrite
<1>. DEFINE q == req[r]
            t == req[r].ticket
<1>1. /\ q \in WellFormed /\ q \in Request /\ q.op = "update" /\ q.pc = "read"
      /\ t \in Tickets /\ q.snap \in Row /\ row[t] \in Row
  BY InFlight DEF CommitUpdate
<1>2. q.snap.status = row[t].status /\ q.snap.dupOf = row[t].dupOf
  BY <1>1 DEF CommitUpdate, SameVersion, Inv, FreshMeansCurrent, SameButOwner
<1>3. PICK entity \in Updated(q) : Write(r, t, entity, Idle)
  BY DEF CommitUpdate
<1>4. /\ q.to \in {q.snap.status} \cup Lifecycle!Designed(q.snap.status)
      /\ q.to # "duplicate" /\ q.to \in Status
  BY <1>1 DEF WellFormed, Request
<1>5. /\ entity \in Row /\ entity.dupOf = q.snap.dupOf
      /\ \/ entity.status = q.to
         \/ entity.status = "assigned" /\ q.to = "open" /\ q.snap.status # "open"
  BY <1>1, <1>3, <1>4, UpdatedTyped
<1>6. row' = [row EXCEPT ![t] = entity]
  BY <1>3 DEF Write
<1>7. MovesStatus(t, entity)
  <2>1. CASE entity.status = q.to
    BY <1>2, <1>4, <1>5, <2>1 DEF MovesStatus
  <2>2. CASE entity.status = "assigned" /\ q.to = "open" /\ q.snap.status # "open"
    <3>1. q.snap.status \in {"assigned", "freeze"}
      BY <1>4, <2>2 DEF Lifecycle!Designed
    <3>. QED BY <1>2, <1>5, <2>2, <3>1 DEF MovesStatus, Lifecycle!Designed
  <2>. QED BY <1>5, <2>1, <2>2
<1>. HIDE DEF q, t
<1>. QED BY <1>1, <1>5, <1>6, <1>7 DEF VersionedWrite

LEMMA VersionedDuplicate ==
  ASSUME Inv, NEW r \in Requests, CommitDuplicate(r)
  PROVE  VersionedWrite
<1>. DEFINE t == req[r].ticket
            entity == [row[t] EXCEPT !.status = "duplicate", !.dupOf = req[r].arg]
<1>1. /\ req[r] \in WellFormed /\ req[r].op = "duplicate" /\ t \in Tickets
      /\ row[t] \in Row
  BY InFlight DEF CommitDuplicate
<1>2. req[r].arg \in Tickets
  BY <1>1 DEF WellFormed
<1>3. /\ entity \in Row /\ entity.status = "duplicate" /\ entity.dupOf = req[r].arg
  BY <1>1, <1>2 DEF Row, Status
<1>4. "duplicate" \in Lifecycle!Designed(row[t].status)
  BY DEF CommitDuplicate, ValidSource, Lifecycle!Designed
<1>5. ValidOriginal(t, req[r].arg) /\ ~HasDependants(t) /\ row' = [row EXCEPT ![t] = entity]
  BY DEF CommitDuplicate, Write
<1>. HIDE DEF t, entity
<1>. QED BY <1>1, <1>2, <1>3, <1>4, <1>5 DEF VersionedWrite, LinksDuplicate

LEMMA VersionedCancel ==
  ASSUME Inv, NEW r \in Requests, CommitCancel(r)
  PROVE  VersionedWrite
<1>. DEFINE t == req[r].ticket
            entity == [row[t] EXCEPT !.status = "cancelled"]
<1>1. t \in Tickets /\ row[t] \in Row
  BY InFlight DEF CommitCancel
<1>2. entity \in Row /\ entity.status = "cancelled" /\ entity.dupOf = row[t].dupOf
  BY <1>1 DEF Row, Status
<1>3. "cancelled" \in Lifecycle!Designed(row[t].status)
  BY DEF CommitCancel, Cancellable, Lifecycle!Designed
<1>4. row' = [row EXCEPT ![t] = entity]
  BY DEF CommitCancel, Write
<1>. HIDE DEF t, entity
<1>. QED BY <1>1, <1>2, <1>3, <1>4 DEF VersionedWrite, MovesStatus

LEMMA VersionedClaim ==
  ASSUME Inv, NEW r \in Requests, NEW t \in Tickets, Claim(r, t)
  PROVE  VersionedWrite
<1>1. PICK k \in Staff, s \in {"in_progress", "assigned"} :
        Write(r, t, [row[t] EXCEPT !.status = s, !.owner = k], Idle)
  BY DEF Claim
<1>. DEFINE entity == [row[t] EXCEPT !.status = s, !.owner = k]
<1>2. entity \in Row /\ entity.status = s /\ entity.dupOf = row[t].dupOf
  BY DEF Inv, TypeOK, Row, Status
<1>3. s \in Lifecycle!Designed(row[t].status)
  BY DEF Claim, Lifecycle!Designed
<1>4. row' = [row EXCEPT ![t] = entity]
  BY <1>1 DEF Write
<1>. HIDE DEF entity
<1>. QED BY <1>2, <1>3, <1>4 DEF VersionedWrite, MovesStatus

(* Every step of such handlers is of the two kinds.                        *)
LEMMA VersionedStep ==
  ASSUME Ops \subseteq VersionedOps, Inv, OnlyVersioned, [Next]_vars
  PROVE  VersionedWrite /\ OnlyVersioned'
<1>1. ASSUME NEW r \in Requests, NEW t \in Tickets, Begin(r, t)
      PROVE  VersionedWrite
  BY <1>1, VersionedClaim, VersionedOpsDisjoint
     DEF Begin, ReadUpdate, ReadDuplicate, ReadPage, ReadClose, ReadView, ReadRate,
         ReadSlaPass, HoldPickup, HoldEscalate, HoldAccept, VersionedWrite
<1>2. ASSUME NEW r \in Requests, Continue(r)
      PROVE  VersionedWrite
  <2>1. req[r].op \in VersionedOps \cup {"none"}
    BY DEF OnlyVersioned
  <2>2. req[r].op \notin PlainOps
    BY <2>1, VersionedOpsDisjoint
  <2>3. \/ CommitUpdate(r) \/ CommitDuplicate(r) \/ CommitCancel(r) \/ CommitEscalate(r)
    BY <1>2, <2>2
       DEF Continue, At, PlainOps, HoldAssign, CommitAssign, HoldCorrectAssignee,
           CommitCorrectAssignee, HoldCorrectRequester, CommitCorrectRequester,
           CommitPickup, CommitClose, FlagView, CommitView, CommitRate, CommitSlaPass,
           SaveAcceptance, CommitAccept
  <2>. QED BY <2>3, VersionedUpdate, VersionedDuplicate, VersionedCancel
           DEF CommitEscalate, VersionedWrite
<1>3. VersionedWrite
  BY <1>1, <1>2 DEF Next, Fail, ReturnEscalation, vars, VersionedWrite
<1>4. OnlyVersioned'
  <2>. SUFFICES ASSUME NEW q \in Requests
                PROVE  req'[q].op \in VersionedOps \cup {"none"}
    BY DEF OnlyVersioned
  <2>0. Idle.op = "none" /\ req \in [Requests -> WellFormed] /\ req[q].op \in VersionedOps \cup {"none"}
    BY DEF Idle, Inv, OnlyVersioned
  <2>1. CASE UNCHANGED req
    BY <2>0, <2>1
  <2>2. ASSUME NEW r \in Requests, NEW next, req' = [req EXCEPT ![r] = next],
               next.op \in VersionedOps \cup {"none"}
        PROVE  req'[q].op \in VersionedOps \cup {"none"}
    BY <2>0, <2>2
  <2>3. ASSUME NEW r \in Requests, NEW t, NEW entity, Write(r, t, entity, Idle)
        PROVE  req'[q].op \in VersionedOps \cup {"none"}
    BY <2>0, <2>3, StaleWellFormed DEF Write
  <2>4. ASSUME NEW r \in Requests, NEW op, NEW t, NEW entity, NEW to, NEW arg,
               Start(r, op, t, entity, to, arg)
        PROVE  req'[q].op \in VersionedOps \cup {"none"}
    BY <2>0, <2>4 DEF Start
  <2>5. ASSUME NEW r \in Requests, NEW t \in Tickets, Begin(r, t)
        PROVE  req'[q].op \in VersionedOps \cup {"none"}
    <3>1. CASE ReadUpdate(r, t)
      BY <2>4, <3>1 DEF ReadUpdate
    <3>2. CASE ReadDuplicate(r, t)
      BY <2>4, <3>2 DEF ReadDuplicate
    <3>3. CASE ReadPage(r, t)
      <4>1. PICK op \in PageOps \cap Ops :
              req' = [req EXCEPT ![r] = [Idle EXCEPT !.op = op, !.pc = "page",
                                                     !.ticket = t, !.fresh = TRUE]]
        BY <3>3 DEF ReadPage
      <4>2. [Idle EXCEPT !.op = op, !.pc = "page", !.ticket = t, !.fresh = TRUE].op = op
        BY DEF Idle
      <4>. QED BY <2>2, <4>1, <4>2
    <3>4. CASE ReadClose(r, t) \/ ReadView(r, t) \/ ReadRate(r, t) \/ ReadSlaPass(r, t)
      BY <2>4, <3>4 DEF ReadClose, ReadView, ReadRate, ReadSlaPass
    <3>5. CASE Claim(r, t)
      BY <2>3, <3>5 DEF Claim
    <3>6. CASE HoldPickup(r, t) \/ HoldAccept(r, t)
      BY <3>6, VersionedOpsDisjoint DEF HoldPickup, HoldAccept, PlainOps
    <3>7. CASE HoldEscalate(r, t)
      BY <2>2, <3>7 DEF HoldEscalate
    <3>. QED BY <2>5, <3>1, <3>2, <3>3, <3>4, <3>5, <3>6, <3>7 DEF Begin
  <2>6. ASSUME NEW r \in Requests, Continue(r)
        PROVE  req'[q].op \in VersionedOps \cup {"none"}
    <3>1. req[r].op \in VersionedOps \cup {"none"}
      BY DEF OnlyVersioned
    <3>2. req[r].op \notin PlainOps
      BY <3>1, VersionedOpsDisjoint
    <3>3. \/ CommitUpdate(r) \/ CommitDuplicate(r) \/ CommitCancel(r) \/ CommitEscalate(r)
      BY <2>6, <3>2
         DEF Continue, At, PlainOps, HoldAssign, CommitAssign, HoldCorrectAssignee,
             CommitCorrectAssignee, HoldCorrectRequester, CommitCorrectRequester,
             CommitPickup, CommitClose, FlagView, CommitView, CommitRate, CommitSlaPass,
             SaveAcceptance, CommitAccept
    <3>. QED BY <2>0, <2>2, <2>3, <3>3
             DEF CommitUpdate, CommitDuplicate, CommitCancel, CommitEscalate
  <2>. QED BY <2>0, <2>1, <2>2, <2>5, <2>6 DEF Next, Fail, ReturnEscalation, vars
<1>. QED BY <1>3, <1>4

(* Links stay flat under the two kinds of writes.                          *)
LEMMA DuplicatesStep ==
  ASSUME TypeOK, DuplicatesPointAtOriginals, VersionedWrite
  PROVE  DuplicatesPointAtOriginals'
<1>1. CASE UNCHANGED row
  BY <1>1 DEF DuplicatesPointAtOriginals
<1>2. ASSUME NEW t \in Tickets, NEW entity \in Row, row' = [row EXCEPT ![t] = entity],
             MovesStatus(t, entity)
      PROVE  DuplicatesPointAtOriginals'
  BY <1>2, TicketsAssumption, NoOneAssumption
     DEF TypeOK, Row, DuplicatesPointAtOriginals, MovesStatus
<1>3. ASSUME NEW t \in Tickets, NEW entity \in Row, row' = [row EXCEPT ![t] = entity],
             LinksDuplicate(t, entity)
      PROVE  DuplicatesPointAtOriginals'
  <2>. SUFFICES ASSUME NEW u \in Tickets, row'[u].dupOf # NoOne
                PROVE  /\ row'[u].dupOf < u
                       /\ row'[row'[u].dupOf].dupOf = NoOne
                       /\ row'[row'[u].dupOf].status # "duplicate"
    BY DEF DuplicatesPointAtOriginals
  <2>1. CASE u = t
    <3>1. entity.dupOf < t /\ entity.dupOf \in Tickets /\ entity.dupOf # t
      BY <1>3, TicketsAssumption DEF LinksDuplicate, ValidOriginal
    <3>. QED BY <1>3, <2>1, <3>1 DEF LinksDuplicate, ValidOriginal, TypeOK
  <2>2. CASE u # t
    <3>1. row'[u] = row[u] /\ row[u].dupOf \in Tickets
      BY <1>3, <2>2 DEF TypeOK, Row
    <3>2. row[u].dupOf # t
      BY <1>3 DEF LinksDuplicate, HasDependants
    <3>. QED BY <1>3, <3>1, <3>2 DEF DuplicatesPointAtOriginals, TypeOK
  <2>. QED BY <2>1, <2>2
<1>. QED BY <1>1, <1>2, <1>3 DEF VersionedWrite

LEMMA VersionedInvHolds ==
  ASSUME Ops \subseteq VersionedOps
  PROVE  Spec => []VersionedInv
<1>1. Init => VersionedInv
  BY InvInit DEF Init, Created, EmptyRow, Idle, VersionedInv, OnlyVersioned, DuplicatesPointAtOriginals
<1>2. VersionedInv /\ [Next]_vars => VersionedInv'
  BY InvStep, VersionedStep, DuplicatesStep DEF VersionedInv, Inv
<1>. QED BY <1>1, <1>2, PTL DEF Spec

(* Concurrent calls that mark duplicates never build a chain or a cycle,   *)
(* for any number of tickets and handlers: persistDuplicateTicket checks   *)
(* the source, the original and the source's dependants under row locks.   *)
THEOREM DuplicatesStayFlat ==
  ASSUME Ops \subseteq VersionedOps
  PROVE  Spec => []DuplicatesPointAtOriginals
<1>1. VersionedInv => DuplicatesPointAtOriginals
  BY DEF VersionedInv
<1>. QED BY <1>1, VersionedInvHolds, PTL

(* Handlers that compare updatedAt never move a ticket out of a terminal   *)
(* status, however late they write.                                        *)
THEOREM TerminalStatusesAreFinal ==
  ASSUME Ops \subseteq VersionedOps
  PROVE  Spec => TerminalIsFinal
<1>1. ASSUME TypeOK, VersionedWrite, NEW t \in Tickets, row[t].status \in Terminal
      PROVE  row'[t].status = row[t].status
  BY <1>1 DEF VersionedWrite, MovesStatus, LinksDuplicate, Terminal, Lifecycle!Designed, TypeOK
<1>2. VersionedInv /\ [Next]_vars =>
        [\A t \in Tickets : row[t].status \in Terminal => row'[t].status = row[t].status]_vars
  BY <1>1, VersionedStep DEF VersionedInv, Inv
<1>. QED BY <1>2, VersionedInvHolds, PTL DEF Spec, TerminalIsFinal

(* Handlers that compare updatedAt implement the designed life cycle.      *)
THEOREM LifecycleRefined ==
  ASSUME Ops \subseteq VersionedOps
  PROVE  Spec => LifecycleImplemented
<1>. DEFINE status == [t \in Tickets |-> row[t].status]
<1>1. Init => Lifecycle!LifecycleInit
  BY DEF Init, Created, EmptyRow, Lifecycle!LifecycleInit
<1>2. ASSUME TypeOK, VersionedWrite PROVE [Lifecycle!LifecycleNext]_status
  <2>1. CASE UNCHANGED row
    BY <2>1
  <2>2. ASSUME NEW t \in Tickets, NEW entity \in Row, row' = [row EXCEPT ![t] = entity],
               entity.status \in {row[t].status} \cup Lifecycle!Designed(row[t].status)
        PROVE  [Lifecycle!LifecycleNext]_status
    <3>1. status' = [status EXCEPT ![t] = entity.status]
      BY <1>2, <2>2 DEF TypeOK
    <3>2. CASE entity.status = row[t].status
      BY <3>1, <3>2
    <3>3. CASE entity.status \in Lifecycle!Designed(row[t].status)
      BY <3>1, <3>3 DEF Lifecycle!LifecycleNext, Lifecycle!Change
    <3>. QED BY <2>2, <3>2, <3>3
  <2>. QED BY <1>2, <2>1, <2>2 DEF VersionedWrite, MovesStatus, LinksDuplicate
<1>3. VersionedInv /\ [Next]_vars => [Lifecycle!LifecycleNext]_status
  BY <1>2, VersionedStep DEF VersionedInv, Inv
<1>. QED BY <1>1, <1>3, VersionedInvHolds, PTL
         DEF Spec, LifecycleImplemented, Lifecycle!LifecycleSpec
-----------------------------------------------------------------------------
(***************************************************************************)
(* AutoAssignment: what a handler chose under the named lock is still true *)
(* when it saves.  The invariant AaInv says what each                      *)
(* handler may rely on: the ticket it holds has no owner and stays as it   *)
(* was read (JobInv), a reopening holds a row that has one (OpeningInv),   *)
(* nobody received a ticket after their last turn (RowsInv), and the rule  *)
(* of the strategy holds of the chosen technician as long as nobody        *)
(* received a ticket since (ChoiceStands).                                 *)
(***************************************************************************)


-----------------------------------------------------------------------------
(* The invariant                                                           *)

(* The job of a handler, and what a ticket row may look like whoever       *)
(* holds it.                                                               *)
AaJobs == [op : {"none", "file", "pickup", "handoff", "alert", "open"}, ticket : AaTickets \cup {0}, row : AaRows,
           who : AaTechnicians \cup {AaNobody}, pool : AaTypes \cup {"all", "named"} \cup AaTechnicians,
           day : 0..AaLastDay, todo : SUBSET AaTickets, pending : BOOLEAN]

(* A ticket has an owner from the moment somebody receives it, and it is   *)
(* not the person who asked for ordinary work.                             *)
RowFits(r) ==
  /\ r \in AaRows /\ (r.owner = AaNobody <=> r.status \in {"none", "open"})
  /\ r.type = "specialized" \/ r.owner # r.req
  /\ r.week <= aaDay.week

RowsInv ==
  /\ aaRow = [t \in AaTickets |-> aaRow[t]] /\ \A t \in AaTickets : RowFits(aaRow[t])
  /\ \A t \in AaTickets : aaRow[t].owner # AaNobody => aaRow[t].at <= aaTurn[aaRow[t].owner]

DayInv ==
  /\ aaDay \in [no: 0..AaLastDay, week: 0..AaLastDay, kind: {"office", "free", "overtime"}] /\ aaDay.week <= aaDay.no
  /\ aaAtt \in [0..AaLastDay -> [AaTechnicians -> {"available", "withheld", "away"}]]
  /\ aaStrategy \in {"robin", "zero", "paused"} /\ aaOwed \subseteq AaTechnicians
  /\ aaTurn \in [AaTechnicians -> 0..AaMaxTurns] /\ aaMoves \in 0..AaMaxMoves

(* Under the lock the ticket a handler is going to save stays as it was    *)
(* read; an alert and a reopening compare it again.                        *)
JobInv ==
  /\ aaJob \in AaJobs /\ aaJob.op # "open" /\ RowFits(aaJob.row)
  /\ aaJob.op = "file" => /\ aaJob.ticket \in AaTickets /\ aaRow[aaJob.ticket] = AaUnfiled
                          /\ aaJob.row.owner = aaJob.who /\ aaJob.row.status # "none"
  /\ aaJob.op \in {"pickup", "handoff"} => /\ aaJob.ticket \in AaTickets /\ aaRow[aaJob.ticket].status = "open"
                                           /\ aaJob.row.owner = aaJob.who /\ aaJob.who \in AaTechnicians
                                           /\ aaJob.pool # "named"
  /\ aaJob.op = "alert" /\ aaJob.ticket # 0 => /\ aaJob.pool \in AaTechnicians
                                               /\ aaJob.row.status \in {"assigned", "in_progress"}
  /\ aaJob.op = "alert" => aaJob.who \in AaTechnicians
  /\ aaJob.op \in {"file", "pickup", "handoff"} /\ aaJob.who # AaNobody => aaJob.row.at <= AaNow
OpeningInv ==
  /\ aaOpening \in AaJobs /\ aaOpening.op \in {"none", "open"} /\ RowFits(aaOpening.row)
  /\ aaOpening.op = "open" => aaOpening.ticket \in AaTickets /\ aaOpening.row.status \in {"in_progress", "resolved"}

(* What the choice was made on is still true as long as nobody received a  *)
(* ticket since.                                                           *)
ChoiceStands ==
  (aaJob.op \in {"file", "pickup", "handoff"} /\ aaJob.pool # "named" /\ aaJob.who # AaNobody /\ AaUndisturbed) =>
    /\ aaStrategy = "robin" => AaLoad(aaJob.who) < AaCap
    /\ aaStrategy = "zero" /\ aaJob.op # "file" => AaHeld(aaJob.who, {"assigned", "in_progress"}) = {}

AaInv == RowsInv /\ DayInv /\ JobInv /\ OpeningInv /\ ChoiceStands

-----------------------------------------------------------------------------
(* Time                                                                    *)

LEMMA HasGreatest ==
  ASSUME NEW n \in Nat, NEW S \in SUBSET (0..n), S # {}
  PROVE  \E e \in S : \A d \in S : d <= e
<1> DEFINE R == OpToRel(<, Nat)
           left == {k \in Nat : \E e \in S : k = n - e}
<1>1. IsWellFoundedOn(R, Nat)
  BY NatLessThanWellFounded
<1>2. \A x, y \in Nat : <<y, x>> \in R <=> y < x
  BY DEF OpToRel
<1>3. \A e \in S : e \in 0..n /\ n - e \in left
  OBVIOUS
<1>4. left \subseteq Nat /\ left # {}
  BY <1>3
<1> HIDE DEF R
<1>5. PICK k \in left : \A j \in left : ~ (<<j, k>> \in R)
  BY <1>1, <1>4, WFMin
<1>6. PICK e \in S : k = n - e
  OBVIOUS
<1>7. \A d \in S : d <= e
  <2> TAKE d \in S
  <2>1. n - d \in Nat /\ k \in Nat /\ ~ (n - d < k)
    BY <1>2, <1>3, <1>5
  <2>2. e \in 0..n /\ d \in 0..n
    BY <1>3
  <2> QED
    BY <1>6, <2>1, <2>2
<1> QED
  BY <1>7

(* The next turn comes after all that were taken.                          *)
NextTurn(turns) == 1 + CHOOSE n \in {turns[k] : k \in AaTechnicians} : \A k \in AaTechnicians : turns[k] <= n

LEMMA TurnIsNext ==
  ASSUME NEW turns \in [AaTechnicians -> 0..AaMaxTurns], NEW i \in AaTechnicians
  PROVE  /\ NextTurn(turns) \in 1..(AaMaxTurns + 1) /\ \A k \in AaTechnicians : turns[k] < NextTurn(turns)
         /\ \E k \in AaTechnicians : NextTurn(turns) = 1 + turns[k]
<1> DEFINE S == {turns[k] : k \in AaTechnicians}
<1>1. S \in SUBSET (0..AaMaxTurns) /\ S # {} /\ AaMaxTurns \in Nat
  BY AaHoursAssumption
<1>2. \E n \in S : \A k \in AaTechnicians : turns[k] <= n
  <2>1. PICK M : M = S
    OBVIOUS
  <2>2. \E e \in M : \A d \in M : d <= e
    BY <1>1, <2>1, HasGreatest
  <2> QED
    BY <2>1, <2>2
<1>3. PICK n \in S : n = CHOOSE m \in S : \A k \in AaTechnicians : turns[k] <= m
  BY <1>2
<1>4. \A k \in AaTechnicians : turns[k] <= n
  BY <1>2, <1>3
<1>5. NextTurn(turns) = 1 + n
  BY <1>3 DEF NextTurn
<1> QED
  BY <1>1, <1>4, <1>5

LEMMA TurnCounted ==
  ASSUME DayInv, NEW k \in AaTechnicians, AaCountTurn(k)
  PROVE  /\ aaTurn' \in [AaTechnicians -> 0..AaMaxTurns] /\ aaTurn'[k] = AaNow /\ AaNow \in 1..AaMaxTurns
         /\ \A j \in AaTechnicians : aaTurn[j] <= aaTurn'[j]
         /\ AaNow' = AaNow + 1
<1>1. AaNow = NextTurn(aaTurn) /\ AaNow' = NextTurn(aaTurn')
  BY DEF AaNow, NextTurn
<1>2. /\ aaTurn \in [AaTechnicians -> 0..AaMaxTurns] /\ AaNow <= AaMaxTurns /\ aaTurn' = [aaTurn EXCEPT ![k] = AaNow]
      /\ AaMaxTurns \in Nat
  BY AaHoursAssumption DEF DayInv, AaCountTurn
<1>3. AaNow \in 1..(AaMaxTurns + 1) /\ \A j \in AaTechnicians : aaTurn[j] < AaNow
  BY <1>1, <1>2, TurnIsNext
<1>4. aaTurn' \in [AaTechnicians -> 0..AaMaxTurns] /\ \A j \in AaTechnicians : aaTurn'[j] = IF j = k THEN AaNow ELSE aaTurn[j]
  BY <1>2, <1>3
<1>5. /\ \A j \in AaTechnicians : aaTurn'[j] < NextTurn(aaTurn')
      /\ \E j \in AaTechnicians : NextTurn(aaTurn') = 1 + aaTurn'[j]
  BY <1>4, TurnIsNext
<1>6. AaNow' = AaNow + 1
  <2>1. PICK j \in AaTechnicians : AaNow' = 1 + aaTurn'[j]
    BY <1>1, <1>5
  <2>2. aaTurn'[k] < 1 + aaTurn'[j] /\ aaTurn'[k] = AaNow /\ aaTurn'[j] <= AaNow /\ aaTurn'[j] \in Nat
    BY <1>1, <1>3, <1>4, <1>5, <2>1
  <2> QED
    BY <1>3, <2>1, <2>2
<1> QED
  BY <1>2, <1>3, <1>4, <1>6

LEMMA NowIs ==
  ASSUME DayInv, NEW k \in AaTechnicians
  PROVE  AaNow \in 1..(AaMaxTurns + 1) /\ \A j \in AaTechnicians : aaTurn[j] < AaNow
BY TurnIsNext DEF DayInv, AaNow, NextTurn

-----------------------------------------------------------------------------
(* Rows                                                                    *)

LEMMA GivenFits ==
  ASSUME DayInv, NEW r, RowFits(r), NEW k \in AaTechnicians, r.type = "specialized" \/ k # r.req,
         NEW st \in {"assigned", "in_progress", "pause"}, NEW w \in BOOLEAN
  PROVE  /\ RowFits(AaGiven(r, k, st, w)) /\ AaGiven(r, k, st, w).owner = k /\ AaGiven(r, k, st, w).status = st
         /\ AaGiven(r, k, st, w).at = AaNow /\ AaGiven(r, k, st, w).req = r.req
<1>1. PICK n \in 0..(AaMaxTurns + 1), d \in 0..AaLastDay : n = AaNow /\ d = aaDay.week
  BY NowIs, AaHoursAssumption DEF DayInv
<1>2. PICK g : g = [r EXCEPT !.owner = k, !.status = st, !.waits = w, !.at = n, !.week = d]
  OBVIOUS
<1>3. AaGiven(r, k, st, w) = g
  BY <1>1, <1>2, Zenon DEF AaGiven
<1>4. r \in AaRows
  BY DEF RowFits
<1>5. g \in AaRows /\ g.owner = k /\ g.status = st /\ g.at = n /\ g.week = d /\ g.type = r.type /\ g.req = r.req
  BY <1>2, <1>4 DEF AaRows
<1>6. d <= d /\ k # AaNobody
  BY AaTicketsAssumption DEF AaAccounts
<1> QED
  BY <1>1, <1>3, <1>5, <1>6 DEF RowFits

LEMMA ReturnedFits ==
  ASSUME DayInv, NEW r, RowFits(r), r.status # "none", NEW w \in BOOLEAN
  PROVE  /\ RowFits([AaReturned(r) EXCEPT !.waits = w]) /\ [AaReturned(r) EXCEPT !.waits = w].owner = AaNobody
         /\ RowFits(AaReturned(r)) /\ AaReturned(r).owner = AaNobody
<1>1. PICK st \in {"none", "open", "assigned", "in_progress", "pause", "resolved"}, o \in AaTechnicians \cup {AaNobody} :
        st = "open" /\ o = AaNobody
  OBVIOUS
<1>2. PICK f \in BOOLEAN, z \in 0..(AaMaxTurns + 1), d \in 0..AaLastDay : f = FALSE /\ z = 0 /\ d = 0
  <2>1. FALSE \in BOOLEAN /\ 0 \in 0..(AaMaxTurns + 1) /\ 0 \in 0..AaLastDay
    BY AaHoursAssumption
  <2> QED
    BY <2>1, Zenon
<1>3. PICK g : g = [r EXCEPT !.owner = o, !.status = st, !.waits = f, !.at = z, !.week = d]
  OBVIOUS
<1>4. AaReturned(r) = g
  BY <1>1, <1>2, <1>3, Zenon DEF AaReturned
<1>5. r \in AaRows /\ r.req # AaNobody
  BY AaTicketsAssumption DEF RowFits, AaRows
<1>6. g \in AaRows /\ g.owner = o /\ g.status = st /\ g.week = d /\ g.req = r.req
  BY <1>3, <1>5 DEF AaRows
<1>7. PICK h : h = [g EXCEPT !.waits = w]
  OBVIOUS
<1>8. h \in AaRows /\ h.owner = o /\ h.status = st /\ h.week = d /\ h.req = r.req
  BY <1>6, <1>7 DEF AaRows
<1>9. 0 <= aaDay.week
  BY AaHoursAssumption DEF DayInv
<1>10. RowFits(g) /\ RowFits(h)
  BY <1>1, <1>2, <1>5, <1>6, <1>8, <1>9 DEF RowFits
<1>11. [AaReturned(r) EXCEPT !.waits = w] = h
  BY <1>4, <1>7, Zenon
<1> QED
  BY <1>1, <1>4, <1>6, <1>8, <1>10, <1>11, Zenon

LEMMA DatedFits ==
  ASSUME DayInv, NEW r, RowFits(r), NEW k \in AaTechnicians
  PROVE  /\ RowFits([r EXCEPT !.at = AaNow]) /\ [r EXCEPT !.at = AaNow].owner = r.owner /\ [r EXCEPT !.at = AaNow].at = AaNow
         /\ [r EXCEPT !.at = AaNow].status = r.status
<1>1. PICK n \in 0..(AaMaxTurns + 1) : n = AaNow
  BY NowIs, AaHoursAssumption
<1>2. PICK g : g = [r EXCEPT !.at = n]
  OBVIOUS
<1>3. r \in AaRows
  BY DEF RowFits
<1>4. g \in AaRows /\ g.owner = r.owner /\ g.at = n /\ g.status = r.status /\ g.week = r.week /\ g.type = r.type /\ g.req = r.req
  BY <1>2, <1>3 DEF AaRows
<1>5. [r EXCEPT !.at = AaNow] = g
  BY <1>1, <1>2, Zenon
<1> QED
  BY <1>1, <1>4, <1>5 DEF RowFits

(* The next of a queue starts; nothing else about a row changes.           *)
LEMMA StartedFits ==
  ASSUME NEW r, RowFits(r), r.status \in {"assigned", "pause"}
  PROVE  LET g == [r EXCEPT !.status = "in_progress", !.waits = FALSE]
         IN  RowFits(g) /\ g.owner = r.owner /\ g.at = r.at /\ g.status = "in_progress"
<1>1. PICK st \in {"none", "open", "assigned", "in_progress", "pause", "resolved"} : st = "in_progress"
  OBVIOUS
<1>2. PICK f \in BOOLEAN : f = FALSE
  BY Zenon
<1>3. PICK g : g = [r EXCEPT !.status = st, !.waits = f]
  OBVIOUS
<1>4. r \in AaRows
  BY DEF RowFits
<1>5. g \in AaRows /\ g.owner = r.owner /\ g.at = r.at /\ g.status = st /\ g.type = r.type /\ g.req = r.req /\ g.week = r.week
  BY <1>3, <1>4 DEF AaRows
<1>6. [r EXCEPT !.status = "in_progress", !.waits = FALSE] = g
  BY <1>1, <1>2, <1>3, Zenon
<1>7. RowFits(g)
  BY <1>1, <1>5 DEF RowFits
<1> QED
  BY <1>1, <1>5, <1>6, <1>7, Zenon

IsTable(q) == q = [t \in AaTickets |-> q[t]] /\ \A t \in AaTickets : RowFits(q[t])

LEMMA PromotedFits ==
  ASSUME NEW q, IsTable(q), NEW k
  PROVE  /\ IsTable(AaPromoted(q, k))
         /\ \A t \in AaTickets : /\ AaPromoted(q, k)[t].owner = q[t].owner /\ AaPromoted(q, k)[t].at = q[t].at
                                 /\ AaPromoted(q, k)[t].status # q[t].status =>
                                      q[t].status \in {"assigned", "pause"} /\ AaPromoted(q, k)[t].status = "in_progress"
<1> DEFINE own     == {t \in AaTickets : q[t].owner = k /\ q[t].status \in {"assigned", "in_progress", "pause"}}
           waiting == {t \in own : q[t].waits /\ q[t].status # "in_progress"}
           moved   == [t \in AaTickets |->
                         IF t \in waiting /\ \A u \in waiting : t <= u
                         THEN [q[t] EXCEPT !.status = "in_progress", !.waits = FALSE] ELSE q[t]]
<1>1. AaPromoted(q, k) = q \/ AaPromoted(q, k) = moved
  BY DEF AaPromoted
<1>2. \A t \in AaTickets : RowFits(q[t])
  BY DEF IsTable
<1>3. \A t \in waiting : t \in AaTickets /\ q[t].status \in {"assigned", "pause"}
  OBVIOUS
<1>4. ASSUME NEW t \in AaTickets
      PROVE  /\ RowFits(moved[t]) /\ moved[t].owner = q[t].owner /\ moved[t].at = q[t].at
             /\ moved[t].status # q[t].status => q[t].status \in {"assigned", "pause"} /\ moved[t].status = "in_progress"
  <2>1. PICK r : r = q[t]
    OBVIOUS
  <2>2. moved[t] = r \/ (moved[t] = [r EXCEPT !.status = "in_progress", !.waits = FALSE] /\ r.status \in {"assigned", "pause"})
    <3> HIDE DEF waiting
    <3> QED
      BY <1>3, <2>1, Zenon
  <2>3. RowFits(r)
    BY <1>2, <2>1
  <2> HIDE DEF moved
  <2> QED
    BY <2>1, <2>2, <2>3, StartedFits, Zenon
<1>5. moved = [t \in AaTickets |-> moved[t]]
  OBVIOUS
<1> HIDE DEF moved
<1>6. IsTable(moved)
  BY <1>4, <1>5, Zenon DEF IsTable
<1>7. CASE AaPromoted(q, k) = q
  BY <1>7, Zenon
<1>8. CASE AaPromoted(q, k) = moved
  BY <1>4, <1>6, <1>8, Zenon
<1> QED
  BY <1>1, <1>7, <1>8

(* One row of the table is replaced.                                       *)
LEMMA OneRow ==
  ASSUME NEW q, q = [t \in AaTickets |-> q[t]], NEW t \in AaTickets, NEW r
  PROVE  /\ [q EXCEPT ![t] = r] = [u \in AaTickets |-> [q EXCEPT ![t] = r][u]]
         /\ [q EXCEPT ![t] = r][t] = r /\ \A u \in AaTickets : u # t => [q EXCEPT ![t] = r][u] = q[u]
OBVIOUS

-----------------------------------------------------------------------------
(* Jobs                                                                    *)

LEMMA FreeIs ==
  ASSUME DayInv
  PROVE  /\ AaFree \in AaJobs /\ AaFree.op = "none" /\ AaFree.row = AaUnfiled /\ RowFits(AaUnfiled)
         /\ AaFree.ticket = 0 /\ AaUnfiled.status = "none" /\ AaUnfiled.owner = AaNobody
<1>1. 0 \in 0..AaLastDay /\ 0 \in 0..(AaMaxTurns + 1) /\ 0 <= aaDay.week
  BY AaHoursAssumption DEF DayInv
<1>2. AaUnfiled \in AaRows
  BY <1>1 DEF AaUnfiled, AaRows, AaTypes, AaAccounts
<1>3. PICK r \in AaRows : r = AaUnfiled
  BY <1>2
<1>4. r.status = "none" /\ r.owner = AaNobody /\ r.req = AaUser /\ r.week = 0
  BY <1>3 DEF AaUnfiled
<1>5. RowFits(r)
  BY <1>1, <1>4, AaTicketsAssumption DEF RowFits, AaAccounts
<1>6. AaFree = [op |-> "none", ticket |-> 0, row |-> r, who |-> AaNobody, pool |-> "all", day |-> 0, todo |-> {},
                pending |-> FALSE]
  BY <1>3 DEF AaFree
<1>7. AaFree \in AaJobs
  BY <1>1, <1>6 DEF AaJobs
<1> QED
  BY <1>3, <1>4, <1>5, <1>6, <1>7

(* x is a job just begun: what it works on, for whom and from which pool.  *)
Taken(x, op, t, r, k, p, d, b) ==
  \/ x = [AaFree EXCEPT !.op = op, !.ticket = t, !.row = r, !.who = k, !.pool = p, !.day = d, !.pending = b]
  \/ x = [AaFree EXCEPT !.op = op, !.ticket = t, !.row = r, !.who = k, !.pool = p, !.day = d]
  \/ p = "all" /\ x = [AaFree EXCEPT !.op = op, !.ticket = t, !.row = r, !.who = k]

LockOps == {"file", "pickup", "handoff"}
AaOps     == LockOps \cup {"open"}
Owners  == AaTechnicians \cup {AaNobody}
Pools   == AaTypes \cup {"all", "named"}

LEMMA TakenIs ==
  ASSUME DayInv, NEW op \in AaOps, NEW t \in AaTickets, NEW r \in AaRows, NEW k \in Owners, NEW p \in Pools,
         NEW d \in 0..AaLastDay, NEW b \in BOOLEAN, NEW x, Taken(x, op, t, r, k, p, d, b)
  PROVE  x \in AaJobs /\ x.op = op /\ x.ticket = t /\ x.row = r /\ x.who = k /\ x.pool = p
<1> USE DEF AaOps, LockOps, Owners, Pools
<1>1. PICK f \in AaJobs : f = AaFree
  BY FreeIs
<1>2. f.pool = "all"
  BY <1>1 DEF AaFree
<1>3. CASE x = [f EXCEPT !.op = op, !.ticket = t, !.row = r, !.who = k, !.pool = p, !.day = d, !.pending = b]
  BY <1>3 DEF AaJobs
<1>4. CASE x = [f EXCEPT !.op = op, !.ticket = t, !.row = r, !.who = k, !.pool = p, !.day = d]
  BY <1>4 DEF AaJobs
<1>5. CASE p = "all" /\ x = [f EXCEPT !.op = op, !.ticket = t, !.row = r, !.who = k]
  BY <1>2, <1>5 DEF AaJobs
<1> QED
  BY <1>1, <1>3, <1>4, <1>5, Zenon DEF Taken

-----------------------------------------------------------------------------
(* Choices                                                                 *)

LEMMA PoolIs ==
  ASSUME DayInv, NEW p, NEW d \in 0..AaLastDay, NEW k \in AaPool(p, d)
  PROVE  k \in AaTechnicians /\ aaAtt[d][k] = "available"
BY DEF AaPool

LEMMA ChoiceIs ==
  ASSUME DayInv, NEW E, NEW k \in AaChoice(E)
  PROVE  /\ k \in E
         /\ aaStrategy = "robin" =>
              AaBelowCap(k) /\ \A j \in E : AaBelowCap(j) => AaLastReceived(k) <= AaLastReceived(j)
         /\ aaStrategy = "zero" => AaHeld(k, {"assigned", "in_progress"}) = {}
<1>1. CASE aaStrategy = "robin"
  BY <1>1 DEF AaChoice, AaRobinChoice
<1>2. CASE aaStrategy = "zero"
  BY <1>2 DEF AaChoice, AaZeroChoice
<1>3. CASE aaStrategy = "paused"
  BY <1>3 DEF AaChoice
<1> QED
  BY <1>1, <1>2, <1>3 DEF DayInv

LEMMA FilingChoice ==
  ASSUME DayInv, NEW type \in AaTypes, NEW rq, NEW c \in AaFilingChoices(type, rq)
  PROVE  \E p \in AaTypes \cup {"all"} : c.pool = p /\ c.who \in AaChoice(AaPool(p, aaDay.no) \ {rq})
<1> DEFINE chain == AaChain(type)
           In(i) == IF chain[i] = "pantawid" \/ aaDay.kind = "office"
                    THEN AaChoice(AaPool(chain[i], aaDay.no) \ {rq}) ELSE {}
           asked == {i \in DOMAIN chain : In(i) # {}}
           first == {i \in asked : \A j \in asked : i <= j}
<1>1. c \in UNION {{[who |-> k, pool |-> chain[i]] : k \in In(i)} : i \in first}
  BY Zenon DEF AaFilingChoices
<1>2. \A i \in DOMAIN chain : chain[i] \in AaTypes \cup {"all"}
  <2>1. type \in {"it", "desktop", "pantawid", "specialized"}
    BY DEF AaTypes
  <2> QED
    BY <2>1 DEF AaChain, AaTypes
<1>3. first \subseteq DOMAIN chain
  OBVIOUS
<1> HIDE DEF chain, first, In
<1>4. PICK i \in first : \E k \in In(i) : c = [who |-> k, pool |-> chain[i]]
  BY <1>1, Zenon
<1>6. PICK k \in In(i) : c = [who |-> k, pool |-> chain[i]]
  BY <1>4, Zenon
<1>5. k \in AaChoice(AaPool(chain[i], aaDay.no) \ {rq})
  BY DEF In
<1> QED
  BY <1>2, <1>3, <1>5, <1>6

(* What a technician was given this week.                                  *)
LoadSet(k) == {t \in AaTickets : /\ aaRow[t].owner = k /\ aaRow[t].at # 0 /\ aaRow[t].week = aaDay.week
                                 /\ aaRow[t].by # AaUser}

LEMMA LoadLess ==
  ASSUME NEW A, NEW B, A \subseteq B, B \subseteq AaTickets
  PROVE  /\ AaIssueHours * Cardinality(A) \in Nat /\ AaIssueHours * Cardinality(B) \in Nat
         /\ AaIssueHours * Cardinality(A) <= AaIssueHours * Cardinality(B)
<1>1. IsFiniteSet(A) /\ IsFiniteSet(B)
  BY AaTicketsAssumption, FS_Subset
<1>2. Cardinality(A) \in Nat /\ Cardinality(B) \in Nat /\ Cardinality(A) <= Cardinality(B)
  BY <1>1, FS_Subset, FS_CardinalityType
<1>3. PICK m \in Nat, n \in Nat, h \in Nat : m = Cardinality(A) /\ n = Cardinality(B) /\ h = AaIssueHours
  BY <1>2, AaHoursAssumption
<1>4. h * m \in Nat /\ h * n \in Nat /\ h * m <= h * n
  BY <1>2, <1>3
<1> QED
  BY <1>3, <1>4

LEMMA LoadFalls ==
  ASSUME NEW k, LoadSet(k)' \subseteq LoadSet(k)
  PROVE  AaLoad(k) < AaCap => AaLoad(k)' < AaCap
<1>1. AaLoad(k) = AaIssueHours * Cardinality(LoadSet(k)) /\ AaLoad(k)' = AaIssueHours * Cardinality(LoadSet(k)')
  BY DEF AaLoad, LoadSet
<1>2. PICK A, B : A = LoadSet(k)' /\ B = LoadSet(k)
  OBVIOUS
<1>3. A \subseteq B /\ B \subseteq AaTickets
  BY <1>2 DEF LoadSet
<1>4. AaLoad(k)' \in Nat /\ AaLoad(k) \in Nat /\ AaLoad(k)' <= AaLoad(k)
  BY <1>1, <1>2, <1>3, LoadLess
<1> QED
  BY <1>4, AaHoursAssumption

-----------------------------------------------------------------------------
(* What a step leaves in place                                             *)

LEMMA RowStays ==
  ASSUME DayInv, DayInv', aaDay.week <= aaDay'.week, NEW r, RowFits(r)
  PROVE  RowFits(r)'
<1>1. aaDay.week \in Int /\ aaDay'.week \in Int /\ r.week \in Int
  BY AaHoursAssumption DEF DayInv, RowFits, AaRows
<1> QED
  BY <1>1 DEF RowFits

LEMMA TableStays ==
  ASSUME AaInv, aaRow' = aaRow, aaTurn' = aaTurn, DayInv', aaDay.week <= aaDay'.week
  PROVE  RowsInv'
<1>1. \A t \in AaTickets : RowFits(aaRow[t])'
  BY RowStays DEF AaInv, RowsInv
<1> QED
  BY <1>1 DEF AaInv, RowsInv

LEMMA OpeningStays ==
  ASSUME AaInv, aaOpening' = aaOpening, DayInv', aaDay.week <= aaDay'.week
  PROVE  OpeningInv'
<1>1. RowFits(aaOpening.row)'
  BY RowStays DEF AaInv, OpeningInv
<1> QED
  BY <1>1 DEF AaInv, OpeningInv

(* While a handler holds the lock nothing happens to a ticket without an   *)
(* owner but through it.                                                   *)
LEMMA JobStays ==
  ASSUME AaInv, aaJob' = aaJob, DayInv', aaDay.week <= aaDay'.week, AaNow' = AaNow \/ AaNow' = AaNow + 1,
         \A t \in AaTickets : aaRow[t].status \in {"none", "open"} => aaRow'[t] = aaRow[t]
  PROVE  JobInv'
<1>1. RowFits(aaJob.row)'
  BY RowStays DEF AaInv, JobInv
<1>2. aaJob.op = "file" => aaJob.ticket \in AaTickets /\ aaRow'[aaJob.ticket] = AaUnfiled
  BY FreeIs DEF AaInv, JobInv
<1>3. aaJob.op \in {"pickup", "handoff"} => aaJob.ticket \in AaTickets /\ aaRow'[aaJob.ticket].status = "open"
  BY DEF AaInv, JobInv
<1>4. aaJob.op \in {"file", "pickup", "handoff"} /\ aaJob.who # AaNobody => aaJob.row.at <= AaNow'
  <2> SUFFICES ASSUME aaJob.op \in {"file", "pickup", "handoff"}, aaJob.who # AaNobody
               PROVE  aaJob.row.at <= AaNow'
    OBVIOUS
  <2>1. aaJob.who \in AaTechnicians /\ aaJob.row.at \in Nat /\ aaJob.row.at <= AaNow
    BY AaHoursAssumption DEF AaInv, JobInv, AaJobs, AaRows
  <2>2. AaNow \in Nat
    BY <2>1, NowIs, AaHoursAssumption DEF AaInv
  <2> QED
    BY <2>1, <2>2
<1>5. /\ aaJob \in AaJobs /\ aaJob.op # "open"
      /\ aaJob.op = "file" => aaJob.row.owner = aaJob.who /\ aaJob.row.status # "none"
      /\ aaJob.op \in {"pickup", "handoff"} => aaJob.row.owner = aaJob.who /\ aaJob.who \in AaTechnicians /\ aaJob.pool # "named"
      /\ aaJob.op = "alert" /\ aaJob.ticket # 0 => aaJob.pool \in AaTechnicians /\ aaJob.row.status \in {"assigned", "in_progress"}
      /\ aaJob.op = "alert" => aaJob.who \in AaTechnicians
  BY DEF AaInv, JobInv
<1> QED
  BY <1>1, <1>2, <1>3, <1>4, <1>5 DEF JobInv

LEMMA NowStays ==
  ASSUME aaTurn' = aaTurn
  PROVE  AaNow' = AaNow
BY DEF AaNow

LEMMA ChoiceKept ==
  ASSUME AaInv, aaJob' = aaJob, aaStrategy' = aaStrategy,
         \/ \E k \in AaTechnicians : AaCountTurn(k)
         \/ /\ aaTurn' = aaTurn
            /\ \A k \in AaTechnicians : LoadSet(k)' \subseteq LoadSet(k)
            /\ \A k \in AaTechnicians : AaHeld(k, {"assigned", "in_progress"}) = {} => AaHeld(k, {"assigned", "in_progress"})' = {}
  PROVE  ChoiceStands'
<1> SUFFICES ASSUME aaJob.op \in {"file", "pickup", "handoff"}, aaJob.pool # "named", aaJob.who # AaNobody, aaJob.row.at = AaNow'
             PROVE  /\ aaStrategy = "robin" => AaLoad(aaJob.who)' < AaCap
                    /\ aaStrategy = "zero" /\ aaJob.op # "file" => AaHeld(aaJob.who, {"assigned", "in_progress"})' = {}
  BY DEF ChoiceStands, AaUndisturbed
<1>1. PICK w \in AaTechnicians : w = aaJob.who
  BY DEF AaInv, JobInv, AaJobs
<1>2. aaJob.row.at <= AaNow
  BY DEF AaInv, JobInv
<1>3. CASE \E k \in AaTechnicians : AaCountTurn(k)
  <2>1. AaNow' = AaNow + 1 /\ AaNow \in Nat
    BY <1>3, TurnCounted, AaHoursAssumption DEF AaInv
  <2> QED
    BY <1>2, <2>1
<1>4. CASE /\ aaTurn' = aaTurn
           /\ \A k \in AaTechnicians : LoadSet(k)' \subseteq LoadSet(k)
           /\ \A k \in AaTechnicians : AaHeld(k, {"assigned", "in_progress"}) = {} => AaHeld(k, {"assigned", "in_progress"})' = {}
  <2>1. AaUndisturbed
    BY <1>4, NowStays DEF AaUndisturbed
  <2>2. /\ aaStrategy = "robin" => AaLoad(w) < AaCap
        /\ aaStrategy = "zero" /\ aaJob.op # "file" => AaHeld(w, {"assigned", "in_progress"}) = {}
    BY <1>1, <2>1 DEF AaInv, ChoiceStands
  <2>3. AaLoad(w) < AaCap => AaLoad(w)' < AaCap
    BY <1>4, LoadFalls
  <2>4. aaJob'.who = w
    BY <1>1
  <2>5. AaLoad(aaJob.who)' = AaLoad(w)' /\ AaHeld(aaJob.who, {"assigned", "in_progress"})' = AaHeld(w, {"assigned", "in_progress"})'
    BY <2>4 DEF AaLoad, AaHeld
  <2> QED
    BY <1>4, <2>2, <2>3, <2>5
<1> QED
  BY <1>3, <1>4

-----------------------------------------------------------------------------
(* Handlers that choose                                                    *)

LEMMA DayKept ==
  ASSUME AaInv, AaKeepDay, aaTurn' = aaTurn \/ \E k \in AaTechnicians : AaCountTurn(k), aaOwed' \subseteq AaTechnicians
  PROVE  /\ DayInv' /\ aaDay' = aaDay /\ aaDay.week <= aaDay'.week /\ aaStrategy' = aaStrategy
         /\ AaNow' = AaNow \/ AaNow' = AaNow + 1
<1>1. aaTurn' \in [AaTechnicians -> 0..AaMaxTurns] /\ (AaNow' = AaNow \/ AaNow' = AaNow + 1)
  BY TurnCounted, NowStays DEF AaInv, DayInv
<1>2. /\ aaDay' = aaDay /\ aaAtt' = aaAtt /\ aaStrategy' = aaStrategy /\ aaMoves' = aaMoves
  BY DEF AaKeepDay
<1>3. aaDay.week \in Int
  BY AaHoursAssumption DEF AaInv, DayInv
<1> QED
  BY <1>1, <1>2, <1>3 DEF AaInv, DayInv

(* The rule of the strategy, which holds of whoever nobody named.          *)
RuleHolds(op, p, k) ==
  /\ op # "file" => p # "named"
  /\ p # "named" /\ k # AaNobody =>
       /\ aaStrategy = "robin" => AaLoad(k) < AaCap
       /\ aaStrategy = "zero" /\ op # "file" => AaHeld(k, {"assigned", "in_progress"}) = {}

(* The ticket nobody owns that op may hand to k, and the row k receives.   *)
MayTake(op, t, r, k) ==
  /\ RowFits(r) /\ r.owner = k /\ (k # AaNobody => r.at <= AaNow)
  /\ op = "file" => aaRow[t] = AaUnfiled /\ r.status # "none"
  /\ op # "file" => aaRow[t].status = "open" /\ k \in AaTechnicians

(* A handler that has chosen holds a ticket nobody owns and a technician   *)
(* for whom the strategy's rule holds.                                     *)
LEMMA Chosen ==
  ASSUME AaInv, AaKeepDay, aaRow' = aaRow, aaTurn' = aaTurn, aaOwed' \subseteq AaTechnicians,
         NEW op \in LockOps, NEW t \in AaTickets, NEW r, NEW k \in Owners, NEW p \in Pools, NEW b \in BOOLEAN,
         Taken(aaJob', op, t, r, k, p, aaDay.no, b), MayTake(op, t, r, k), RuleHolds(op, p, k)
  PROVE  JobInv' /\ ChoiceStands' /\ DayInv' /\ RowsInv'
<1>1. DayInv' /\ aaDay' = aaDay /\ aaDay.week <= aaDay'.week /\ aaStrategy' = aaStrategy /\ AaNow' = AaNow
  BY DayKept, NowStays
<1>2. PICK d \in 0..AaLastDay : d = aaDay.no
  BY DEF AaInv, DayInv
<1>3. r \in AaRows /\ RowFits(r)
  BY DEF RowFits, MayTake
<1>4. PICK x : x = aaJob'
  OBVIOUS
<1>5. x \in AaJobs /\ x.op = op /\ x.ticket = t /\ x.row = r /\ x.who = k /\ x.pool = p
  <2>1. op \in AaOps /\ DayInv
    BY DEF AaOps, AaInv
  <2>2. Taken(x, op, t, r, k, p, d, b)
    BY <1>2, <1>4, Zenon
  <2> QED
    BY <1>3, <2>1, <2>2, TakenIs
<1>6. RowFits(r)'
  <2>1. DayInv
    BY DEF AaInv
  <2> QED
    BY <1>1, <1>3, <2>1, RowStays
<1>7. aaJob' \in AaJobs /\ aaJob'.op = op /\ aaJob'.ticket = t /\ aaJob'.row = r /\ aaJob'.who = k /\ aaJob'.pool = p
  BY <1>4, <1>5
<1>8. JobInv'
  <2>1. RowFits(aaJob.row)'
    BY <1>6, <1>7, Zenon
  <2> QED
    BY <1>1, <1>7, <2>1 DEF JobInv, LockOps, MayTake, RuleHolds
<1>9. ChoiceStands'
  <2>1. AaLoad(aaJob.who)' = AaLoad(k) /\ AaHeld(aaJob.who, {"assigned", "in_progress"})' = AaHeld(k, {"assigned", "in_progress"})
    BY <1>1, <1>7 DEF AaLoad, AaHeld
  <2> QED
    BY <1>1, <1>7, <2>1 DEF ChoiceStands, LockOps, RuleHolds
<1>10. RowsInv'
  BY <1>1, TableStays
<1> QED
  BY <1>1, <1>8, <1>9, <1>10

(* Whoever receives a ticket receives it now.                              *)
LEMMA ReceptionFits ==
  ASSUME AaInv, NEW r, RowFits(r), NEW k \in AaTechnicians, r.type = "specialized" \/ k # r.req,
         NEW g \in AaReceptions(r, k)
  PROVE  RowFits(g) /\ g.owner = k /\ g.at = AaNow /\ g.status # "none" /\ g.req = r.req
<1>1. g = AaGiven(r, k, "in_progress", FALSE) \/ g = AaGiven(r, k, "assigned", TRUE)
  BY Zenon DEF AaReceptions
<1>2. DayInv
  BY DEF AaInv
<1>3. PICK s \in {"assigned", "in_progress", "pause"}, w \in BOOLEAN : g = AaGiven(r, k, s, w)
  <2>1. "assigned" \in {"assigned", "in_progress", "pause"} /\ "in_progress" \in {"assigned", "in_progress", "pause"}
    OBVIOUS
  <2>2. TRUE \in BOOLEAN /\ FALSE \in BOOLEAN
    OBVIOUS
  <2> QED
    BY <1>1, <2>1, <2>2, Zenon
<1>4. s # "none"
  OBVIOUS
<1>5. /\ RowFits(AaGiven(r, k, s, w)) /\ AaGiven(r, k, s, w).owner = k /\ AaGiven(r, k, s, w).status = s
      /\ AaGiven(r, k, s, w).at = AaNow /\ AaGiven(r, k, s, w).req = r.req
  BY <1>2, GivenFits
<1> QED
  BY <1>3, <1>4, <1>5, Zenon

LEMMA DraftFits ==
  ASSUME AaInv, NEW f \in AaFilings
  PROVE  LET draft == [AaUnfiled EXCEPT !.type = f.type, !.req = f.req, !.by = f.by, !.status = "open"]
         IN  RowFits(draft) /\ draft.owner = AaNobody /\ draft.status = "open" /\ draft.req = f.req /\ draft.type = f.type
<1>1. f.type \in AaTypes /\ f.req \in AaAccounts /\ f.by \in AaAccounts
  BY AaFilingsAssumption
<1>2. PICK u \in AaRows : u = AaUnfiled /\ RowFits(u) /\ u.owner = AaNobody
  BY FreeIs DEF AaInv, RowFits
<1>3. PICK s \in {"none", "open", "assigned", "in_progress", "pause", "resolved"} : s = "open"
  OBVIOUS
<1>4. PICK ty \in AaTypes, rq \in AaAccounts, by \in AaAccounts : ty = f.type /\ rq = f.req /\ by = f.by
  BY <1>1
<1>5. PICK g : g = [u EXCEPT !.type = ty, !.req = rq, !.by = by, !.status = s]
  OBVIOUS
<1>6. g \in AaRows /\ g.owner = u.owner /\ g.status = s /\ g.req = rq /\ g.type = ty /\ g.week = u.week
  BY <1>5 DEF AaRows
<1>7. RowFits(g)
  BY <1>2, <1>3, <1>6, AaTicketsAssumption DEF RowFits
<1>8. [AaUnfiled EXCEPT !.type = f.type, !.req = f.req, !.by = f.by, !.status = "open"] = g
  BY <1>2, <1>3, <1>4, <1>5, Zenon
<1> QED
  BY <1>2, <1>3, <1>4, <1>6, <1>7, <1>8, Zenon

LEMMA FilingChosen ==
  ASSUME AaInv, NEW t \in AaTickets, AaChooseForFiling(t)
  PROVE  AaInv'
<1>1. PICK f \in AaFilings :
       LET draft   == [AaUnfiled EXCEPT !.type = f.type, !.req = f.req, !.by = f.by, !.status = "open"]
           auto    == AaFilingChoices(f.type, f.req)
           none    == IF auto = {} THEN {[who |-> AaNobody, pool |-> "all"]} ELSE {}
           named   == {[who |-> k, pool |-> "named"] : k \in {n \in AaTechnicians : AaMayBeNamed(draft, n)}}
       IN  \E c \in auto \cup none \cup named :
             \E given \in IF c.who = AaNobody THEN {draft} ELSE AaReceptions(draft, c.who) :
               aaJob' = [AaFree EXCEPT !.op = "file", !.ticket = t, !.row = given, !.who = c.who,
                                       !.pool = c.pool, !.day = aaDay.no, !.pending = f.pending]
  BY Zenon DEF AaChooseForFiling
<1> DEFINE draft   == [AaUnfiled EXCEPT !.type = f.type, !.req = f.req, !.by = f.by, !.status = "open"]
           auto    == AaFilingChoices(f.type, f.req)
           none    == IF auto = {} THEN {[who |-> AaNobody, pool |-> "all"]} ELSE {}
           named   == {[who |-> k, pool |-> "named"] : k \in {n \in AaTechnicians : AaMayBeNamed(draft, n)}}
<1>2. PICK c \in auto \cup none \cup named :
             \E given \in IF c.who = AaNobody THEN {draft} ELSE AaReceptions(draft, c.who) :
               aaJob' = [AaFree EXCEPT !.op = "file", !.ticket = t, !.row = given, !.who = c.who,
                                       !.pool = c.pool, !.day = aaDay.no, !.pending = f.pending]
  BY <1>1, Zenon
<1>3. PICK given \in IF c.who = AaNobody THEN {draft} ELSE AaReceptions(draft, c.who) :
               aaJob' = [AaFree EXCEPT !.op = "file", !.ticket = t, !.row = given, !.who = c.who,
                                       !.pool = c.pool, !.day = aaDay.no, !.pending = f.pending]
  BY <1>2, Zenon
<1>4. RowFits(draft) /\ draft.owner = AaNobody /\ draft.status = "open" /\ draft.req = f.req /\ draft.type = f.type
  BY DraftFits, Zenon
<1>5. f.type \in AaTypes /\ f.req \in AaAccounts /\ f.pending \in BOOLEAN
  BY AaFilingsAssumption
<1>6. /\ AaKeepDay /\ aaRow' = aaRow /\ aaOpening' = aaOpening /\ aaOwed' = aaOwed /\ aaTurn' = aaTurn
      /\ aaRow[t] = AaUnfiled
  BY DEF AaChooseForFiling
<1>7. DayInv /\ aaOwed' \subseteq AaTechnicians
  BY <1>6 DEF AaInv, DayInv
<1>8. OpeningInv'
  BY <1>6, <1>7, DayKept, OpeningStays
<1> HIDE DEF draft
<1>9. /\ c.who \in AaTechnicians \cup {AaNobody} /\ c.pool \in AaTypes \cup {"all", "named"}
      /\ c.who # AaNobody => draft.type = "specialized" \/ c.who # draft.req
      /\ c.pool # "named" /\ c.who # AaNobody => (aaStrategy = "robin" => AaLoad(c.who) < AaCap)
  <2>1. CASE c \in auto
    <3>1. PICK p \in AaTypes \cup {"all"} : c.pool = p /\ c.who \in AaChoice(AaPool(p, aaDay.no) \ {f.req})
      BY <1>5, <1>7, <2>1, FilingChoice, Zenon
    <3>2. PICK E : E = AaPool(p, aaDay.no) \ {f.req}
      OBVIOUS
    <3>3. c.who \in E /\ (aaStrategy = "robin" => AaBelowCap(c.who))
      BY <1>7, <3>1, <3>2, ChoiceIs, Zenon
    <3>4. aaDay.no \in 0..AaLastDay
      BY <1>7 DEF DayInv
    <3>5. c.who \in AaTechnicians /\ c.who # f.req
      BY <1>7, <3>2, <3>3, <3>4, PoolIs, Zenon
    <3> QED
      BY <1>4, <3>1, <3>3, <3>5 DEF AaBelowCap
  <2>2. CASE c \in none
    <3>1. c = [who |-> AaNobody, pool |-> "all"]
      BY <2>2
    <3> QED
      BY <3>1
  <2>3. CASE c \in named
    <3>1. PICK k \in AaTechnicians : AaMayBeNamed(draft, k) /\ c = [who |-> k, pool |-> "named"]
      BY <2>3
    <3>2. draft.type = "specialized" \/ k # draft.req
      BY <3>1 DEF AaMayBeNamed
    <3> QED
      BY <3>1, <3>2
  <2> QED
    BY <2>1, <2>2, <2>3
<1> HIDE DEF auto, none, named
<1>10. RowFits(given) /\ given.owner = c.who /\ given.status # "none" /\ (c.who # AaNobody => given.at <= AaNow)
  <2>1. CASE c.who = AaNobody
    <3>1. given = draft
      BY <2>1
    <3> QED
      BY <1>4, <2>1, <3>1
  <2>2. CASE c.who # AaNobody
    <3>1. PICK k \in AaTechnicians : k = c.who /\ (draft.type = "specialized" \/ k # draft.req)
      BY <1>9, <2>2
    <3>2. given \in AaReceptions(draft, k)
      BY <2>2, <3>1
    <3>3. RowFits(given) /\ given.owner = k /\ given.at = AaNow /\ given.status # "none"
      BY <1>4, <3>1, <3>2, ReceptionFits, Zenon
    <3>4. AaNow \in Int
      BY <1>7, <3>1, NowIs, AaHoursAssumption
    <3> QED
      BY <3>1, <3>3, <3>4
  <2> QED
    BY <2>1, <2>2
<1>11. PICK who \in Owners, p \in Pools, b \in BOOLEAN : who = c.who /\ p = c.pool /\ b = f.pending
  <2>1. c.who \in Owners /\ c.pool \in Pools
    BY <1>9 DEF Owners, Pools
  <2> QED
    BY <1>5, <2>1, Zenon
<1>12. /\ aaJob' = [AaFree EXCEPT !.op = "file", !.ticket = t, !.row = given, !.who = who, !.pool = p, !.day = aaDay.no, !.pending = b]
       /\ given.owner = who /\ (who # AaNobody => given.at <= AaNow)
       /\ p # "named" /\ who # AaNobody => (aaStrategy = "robin" => AaLoad(who) < AaCap)
  BY <1>3, <1>9, <1>10, <1>11, Zenon
<1>13. PICK op \in LockOps : op = "file"
  BY DEF LockOps
<1>14. Taken(aaJob', op, t, given, who, p, aaDay.no, b) /\ MayTake(op, t, given, who) /\ RuleHolds(op, p, who)
  BY <1>6, <1>10, <1>12, <1>13, Zenon DEF Taken, MayTake, RuleHolds
<1>15. JobInv' /\ ChoiceStands' /\ DayInv' /\ RowsInv'
  BY <1>6, <1>7, <1>14, Chosen
<1> QED
  BY <1>8, <1>15 DEF AaInv

(* A handler that has ended leaves nothing to keep.                        *)
LEMMA JobEnded ==
  ASSUME DayInv, DayInv', aaDay.week <= aaDay'.week, aaJob' = AaFree
  PROVE  JobInv' /\ ChoiceStands'
<1>1. /\ AaFree \in AaJobs /\ AaFree.op = "none" /\ AaFree.row = AaUnfiled /\ RowFits(AaUnfiled)
  BY FreeIs
<1>2. RowFits(AaUnfiled)'
  BY <1>1, RowStays
<1>3. aaJob' \in AaJobs /\ aaJob'.op = "none" /\ aaJob'.row = AaUnfiled
  BY <1>1
<1>4. RowFits(aaJob.row)'
  BY <1>2, <1>3, Zenon
<1> QED
  BY <1>3, <1>4 DEF JobInv, ChoiceStands

LEMMA OpeningEnded ==
  ASSUME DayInv, DayInv', aaDay.week <= aaDay'.week, aaOpening' = AaFree
  PROVE  OpeningInv'
<1>1. /\ AaFree \in AaJobs /\ AaFree.op = "none" /\ AaFree.row = AaUnfiled /\ RowFits(AaUnfiled)
  BY FreeIs
<1>2. RowFits(AaUnfiled)'
  BY <1>1, RowStays
<1>3. aaOpening' \in AaJobs /\ aaOpening'.op = "none" /\ aaOpening'.row = AaUnfiled
  BY <1>1
<1>4. RowFits(aaOpening.row)'
  BY <1>2, <1>3, Zenon
<1> QED
  BY <1>3, <1>4 DEF OpeningInv

(* A table in which whoever received a ticket received it in their turn.   *)
LEMMA OwnedTable ==
  ASSUME AaInv, AaKeepDay, aaTurn' = aaTurn \/ \E k \in AaTechnicians : AaCountTurn(k), aaOwed' \subseteq AaTechnicians,
         NEW q, IsTable(q), aaRow' = q,
         \A u \in AaTickets : \/ q[u].owner = aaRow[u].owner /\ q[u].at = aaRow[u].at
                              \/ q[u].owner = AaNobody
                              \/ q[u].owner \in AaTechnicians /\ q[u].at = aaTurn'[q[u].owner]
  PROVE  RowsInv' /\ DayInv'
<1>1. DayInv' /\ aaDay.week <= aaDay'.week
  BY DayKept
<1>2. \A u \in AaTickets : RowFits(q[u]) /\ q[u] \in AaRows /\ aaRow[u] \in AaRows
  BY DEF IsTable, AaInv, RowsInv, RowFits
<1>3. \A u \in AaTickets : RowFits(aaRow[u])'
  <2> TAKE u \in AaTickets
  <2>1. PICK r : r = q[u]
    OBVIOUS
  <2>2. RowFits(r)'
    BY <1>1, <1>2, <2>1, RowStays DEF AaInv
  <2>3. aaRow'[u] = r
    BY <2>1
  <2> QED
    BY <2>2, <2>3, Zenon
<1>4. \A u \in AaTickets : aaRow'[u].owner # AaNobody => aaRow'[u].at <= aaTurn'[aaRow'[u].owner]
  <2> SUFFICES ASSUME NEW u \in AaTickets, q[u].owner # AaNobody
               PROVE  q[u].at <= aaTurn'[q[u].owner]
    OBVIOUS
  <2>1. PICK o \in AaTechnicians : o = q[u].owner
    BY <1>2 DEF AaRows
  <2>2. /\ aaTurn[o] \in Nat /\ aaTurn'[o] \in Nat /\ q[u].at \in Nat
    BY <1>1, <1>2, AaHoursAssumption DEF AaInv, DayInv, AaRows
  <2>3. aaTurn[o] <= aaTurn'[o]
    BY <2>2, TurnCounted DEF AaInv
  <2>4. CASE q[u].owner = aaRow[u].owner /\ q[u].at = aaRow[u].at
    <3>1. aaRow[u].at <= aaTurn[o]
      BY <2>1, <2>4 DEF AaInv, RowsInv
    <3> QED
      BY <2>1, <2>2, <2>3, <2>4, <3>1
  <2>5. CASE q[u].at = aaTurn'[q[u].owner]
    BY <2>1, <2>2, <2>5
  <2> QED
    BY <2>4, <2>5
<1>5. aaRow' = [t \in AaTickets |-> aaRow'[t]]
  BY DEF IsTable
<1> QED
  BY <1>1, <1>3, <1>4, <1>5 DEF RowsInv

LEMMA PickableIs ==
  ASSUME NEW k, NEW t \in AaPickable(k)
  PROVE  t \in AaOpenFor(k)
<1> DEFINE order == AaPendingTypes(AaTeam[k])
           Of(i) == {u \in AaOpenFor(k) : aaRow[u].type = order[i]}
           first == {i \in DOMAIN order : Of(i) # {} /\ \A j \in 1..(i - 1) : Of(j) = {}}
<1>1. t \in UNION {AaOldest(Of(i)) : i \in first}
  BY Zenon DEF AaPickable
<1> HIDE DEF first
<1>2. PICK i \in first : t \in AaOldest(Of(i))
  BY <1>1, Zenon
<1>3. t \in Of(i)
  <2> HIDE DEF Of
  <2> QED
    BY <1>2 DEF AaOldest
<1> QED
  BY <1>3

LEMMA PickupChosen ==
  ASSUME AaInv, NEW k \in AaTechnicians, AaChooseForPickup(k)
  PROVE  AaInv'
<1>1. PICK t \in AaPickable(k) : \E given \in AaReceptions(aaRow[t], k) : AaTake("pickup", k, t, given, AaTeam[k])
  BY DEF AaChooseForPickup
<1>2. PICK given \in AaReceptions(aaRow[t], k) : AaTake("pickup", k, t, given, AaTeam[k])
  BY <1>1
<1>3. /\ AaKeepDay /\ aaRow' = aaRow /\ aaOpening' = aaOpening /\ aaOwed' = aaOwed /\ aaTurn' = aaTurn
      /\ IF aaStrategy = "robin" THEN AaBelowCap(k) ELSE ~AaBusy(k)
  BY DEF AaChooseForPickup
<1>4. DayInv /\ aaOwed' \subseteq AaTechnicians /\ DayInv' /\ aaDay.week <= aaDay'.week
  BY <1>3, DayKept DEF AaInv, DayInv
<1>5. OpeningInv'
  BY <1>3, <1>4, OpeningStays
<1>6. t \in AaOpenFor(k)
  BY <1>1, PickableIs
<1>7. t \in AaTickets /\ aaRow[t].status = "open" /\ aaRow[t].req # k /\ RowFits(aaRow[t])
  BY <1>6 DEF AaOpenFor, AaInv, RowsInv
<1>8. RowFits(given) /\ given.owner = k /\ given.at = AaNow
  BY <1>2, <1>7, ReceptionFits
<1>9. AaNow \in Int /\ k # AaNobody
  BY <1>4, NowIs, AaHoursAssumption, AaTicketsAssumption DEF AaAccounts
<1>10. PICK op \in LockOps, p \in Pools, w \in Owners, b \in BOOLEAN : op = "pickup" /\ p = AaTeam[k] /\ w = k
  <2>1. AaTeam[k] \in Pools /\ "pickup" \in LockOps /\ k \in Owners /\ TRUE \in BOOLEAN
    BY AaTeamAssumption DEF LockOps, Pools, Owners, AaTypes
  <2> QED
    BY <2>1, Zenon
<1>11. Taken(aaJob', op, t, given, w, p, aaDay.no, b)
  BY <1>2, <1>10, Zenon DEF AaTake, Taken
<1>12. MayTake(op, t, given, w)
  BY <1>7, <1>8, <1>9, <1>10 DEF MayTake
<1>13. RuleHolds(op, p, w)
  <2>1. ~AaBusy(k) => AaHeld(k, {"assigned", "in_progress"}) = {}
    BY DEF AaBusy, AaHeld
  <2> QED
    BY <1>3, <1>10, <2>1, AaTeamAssumption DEF RuleHolds, AaBelowCap
<1>14. JobInv' /\ ChoiceStands' /\ DayInv' /\ RowsInv'
  BY <1>3, <1>4, <1>7, <1>11, <1>12, <1>13, Chosen
<1> QED
  BY <1>5, <1>14 DEF AaInv

LEMMA AlertRead ==
  ASSUME AaInv, NEW k \in AaTechnicians, AaReadAlert(k)
  PROVE  AaInv'
<1>1. /\ AaKeepDay /\ aaRow' = aaRow /\ aaOpening' = aaOpening /\ aaOwed' = aaOwed /\ aaTurn' = aaTurn
      /\ aaJob' = [AaFree EXCEPT !.op = "alert", !.who = k, !.day = aaDay.no, !.todo = AaHeld(k, {"assigned", "in_progress"})]
  BY DEF AaReadAlert
<1>2. /\ DayInv /\ aaOwed' \subseteq AaTechnicians /\ DayInv' /\ aaDay.week <= aaDay'.week
  BY <1>1, DayKept DEF AaInv, DayInv
<1>3. OpeningInv' /\ RowsInv'
  BY <1>1, <1>2, OpeningStays, TableStays
<1>4. PICK T \in SUBSET AaTickets, d \in 0..AaLastDay, op \in {"none", "file", "pickup", "handoff", "alert", "open"} :
        T = AaHeld(k, {"assigned", "in_progress"}) /\ d = aaDay.no /\ op = "alert"
  <2>1. /\ AaHeld(k, {"assigned", "in_progress"}) \in SUBSET AaTickets /\ aaDay.no \in 0..AaLastDay
        /\ "alert" \in {"none", "file", "pickup", "handoff", "alert", "open"}
    BY <1>2 DEF AaHeld, DayInv
  <2> QED
    BY <2>1, Zenon
<1>5. PICK f \in AaJobs : f = AaFree /\ f.op = "none" /\ f.row = AaUnfiled /\ f.ticket = 0 /\ RowFits(AaUnfiled)
  BY <1>2, FreeIs
<1>6. PICK g : g = [f EXCEPT !.op = op, !.who = k, !.day = d, !.todo = T]
  OBVIOUS
<1>7. g \in AaJobs /\ g.op = op /\ g.who = k /\ g.row = f.row /\ g.ticket = f.ticket
  BY <1>6 DEF AaJobs
<1>8. aaJob' = g
  BY <1>1, <1>4, <1>5, <1>6, Zenon
<1>9. RowFits(AaUnfiled)'
  BY <1>2, <1>5, RowStays
<1>10. RowFits(aaJob.row)'
  <2>1. aaJob'.row = AaUnfiled
    BY <1>5, <1>7, <1>8
  <2> QED
    BY <1>9, <2>1, Zenon
<1>11. JobInv' /\ ChoiceStands'
  BY <1>4, <1>5, <1>7, <1>8, <1>10 DEF JobInv, ChoiceStands
<1> QED
  BY <1>2, <1>3, <1>11 DEF AaInv

LEMMA HandoffChosen ==
  ASSUME AaInv, NEW k \in AaTechnicians, AaChooseForHandoff(k)
  PROVE  AaInv'
<1> DEFINE queued == AaPromoted(aaRow, k)
           idle   == {t \in AaHeld(k, {"assigned", "in_progress"}) :
                        ~aaRow[t].waits \/ aaRow[t].status = "in_progress"} = {}
           waiting == {t \in AaHeld(k, {"assigned", "pause"}) : aaRow[t].waits}
           started == [t \in AaTickets |->
                         IF t \in AaOldest(waiting)
                         THEN [aaRow[t] EXCEPT !.status = "in_progress", !.waits = FALSE] ELSE aaRow[t]]
           offered == IF /\ k \in AaPool("all", aaDay.no) /\ idle /\ waiting = {}
                         /\ aaStrategy = "robin" => AaBelowCap(k)
                      THEN AaOldest(AaOpenFor(k)) ELSE {}
<1>1. /\ AaKeepDay /\ aaOpening' = aaOpening /\ aaOwed' = aaOwed \ {k} /\ aaTurn' = aaTurn /\ aaJob = AaFree
      /\ \/ aaRow' = queued /\ aaJob' = aaJob
         \/ aaRow' = started /\ aaJob' = aaJob
         \/ aaRow' = aaRow /\ aaJob' = aaJob
         \/ /\ \E t \in offered : AaTake("handoff", k, t, AaGiven(aaRow[t], k, "in_progress", FALSE), "all")
            /\ aaRow' = aaRow
  BY Zenon DEF AaChooseForHandoff, AaLockFree
<1>2. DayInv /\ aaOwed' \subseteq AaTechnicians
  BY <1>1 DEF AaInv, DayInv
<1>3. DayInv' /\ aaDay.week <= aaDay'.week
  BY <1>1, <1>2, DayKept
<1>4. OpeningInv'
  BY <1>1, <1>3, OpeningStays
<1>5. IsTable(aaRow)
  BY DEF AaInv, RowsInv, IsTable
<1>6. CASE aaRow' = queued /\ aaJob' = aaJob
  <2>1. PICK q : q = queued
    OBVIOUS
  <2>2. IsTable(q) /\ \A t \in AaTickets : q[t].owner = aaRow[t].owner /\ q[t].at = aaRow[t].at
    <3>1. PICK p : p = aaRow
      OBVIOUS
    <3>2. IsTable(p)
      BY <1>5, <3>1
    <3>3. IsTable(AaPromoted(p, k)) /\ \A t \in AaTickets : AaPromoted(p, k)[t].owner = p[t].owner /\ AaPromoted(p, k)[t].at = p[t].at
      BY <3>2, PromotedFits
    <3> QED
      BY <2>1, <3>1, <3>3, Zenon
  <2>3. aaRow' = q /\ aaJob' = AaFree
    BY <1>1, <1>6, <2>1
  <2> HIDE DEF queued, idle, waiting, started, offered
  <2>4. RowsInv'
    BY <1>1, <1>2, <2>2, <2>3, OwnedTable
  <2>5. JobInv' /\ ChoiceStands'
    BY <1>2, <1>3, <2>3, JobEnded
  <2> QED
    BY <1>3, <1>4, <2>4, <2>5 DEF AaInv
<1>7. CASE aaRow' = started /\ aaJob' = aaJob
  <2>1. PICK q : q = started
    OBVIOUS
  <2>2. ASSUME NEW t \in AaTickets
        PROVE  RowFits(q[t]) /\ q[t].owner = aaRow[t].owner /\ q[t].at = aaRow[t].at
    <3>1. PICK r : r = aaRow[t]
      OBVIOUS
    <3>2. RowFits(r)
      BY <1>5, <3>1 DEF IsTable
    <3>3. q[t] = r \/ (q[t] = [r EXCEPT !.status = "in_progress", !.waits = FALSE] /\ r.status \in {"assigned", "pause"})
      <4>1. \A u \in AaOldest(waiting) : aaRow[u].status \in {"assigned", "pause"}
        BY DEF AaOldest, AaHeld
      <4>2. q[t] = IF t \in AaOldest(waiting) THEN [aaRow[t] EXCEPT !.status = "in_progress", !.waits = FALSE] ELSE aaRow[t]
        BY <2>1
      <4> HIDE DEF waiting
      <4> QED
        BY <3>1, <4>1, <4>2, Zenon
    <3> QED
      BY <3>1, <3>2, <3>3, StartedFits, Zenon
  <2>3. q = [t \in AaTickets |-> q[t]]
    BY <2>1
  <2>4. aaRow' = q /\ aaJob' = AaFree
    BY <1>1, <1>7, <2>1
  <2> HIDE DEF queued, idle, waiting, started, offered
  <2>5. IsTable(q)
    BY <2>2, <2>3 DEF IsTable
  <2>6. RowsInv'
    BY <1>1, <1>2, <2>2, <2>4, <2>5, OwnedTable
  <2>7. JobInv' /\ ChoiceStands'
    BY <1>2, <1>3, <2>4, JobEnded
  <2> QED
    BY <1>3, <1>4, <2>6, <2>7 DEF AaInv
<1>8. CASE aaRow' = aaRow /\ aaJob' = aaJob
  <2>1. JobInv' /\ ChoiceStands'
    BY <1>1, <1>2, <1>3, <1>8, JobEnded
  <2>2. RowsInv'
    BY <1>1, <1>3, <1>8, TableStays
  <2> QED
    BY <1>3, <1>4, <2>1, <2>2 DEF AaInv
<1>9. CASE /\ \E t \in offered : AaTake("handoff", k, t, AaGiven(aaRow[t], k, "in_progress", FALSE), "all")
           /\ aaRow' = aaRow
  <2>1. PICK t \in offered : AaTake("handoff", k, t, AaGiven(aaRow[t], k, "in_progress", FALSE), "all")
    BY <1>9
  <2>2. t \in AaOpenFor(k) /\ idle /\ waiting = {} /\ (aaStrategy = "robin" => AaBelowCap(k))
    BY <2>1 DEF AaOldest
  <2>3. AaHeld(k, {"assigned", "in_progress"}) = {}
    <3> SUFFICES ASSUME NEW u \in AaTickets, aaRow[u].owner = k, aaRow[u].status \in {"assigned", "in_progress"}
                 PROVE  FALSE
      BY DEF AaHeld
    <3>1. aaRow[u].waits /\ aaRow[u].status # "in_progress"
      BY <2>2 DEF AaHeld
    <3>2. u \in waiting
      BY <3>1 DEF AaHeld
    <3> QED
      BY <2>2, <3>2
  <2>4. t \in AaTickets /\ aaRow[t].status = "open" /\ aaRow[t].req # k /\ RowFits(aaRow[t])
    BY <1>5, <2>2 DEF AaOpenFor, IsTable
  <2>5. PICK given : given = AaGiven(aaRow[t], k, "in_progress", FALSE)
    OBVIOUS
  <2>6. RowFits(given) /\ given.owner = k /\ given.at = AaNow
    <3>1. PICK s \in {"assigned", "in_progress", "pause"} : s = "in_progress"
      OBVIOUS
    <3>2. PICK b \in BOOLEAN : b = FALSE
      BY Zenon
    <3>3. given = AaGiven(aaRow[t], k, s, b)
      BY <2>5, <3>1, <3>2, Zenon
    <3> QED
      BY <1>2, <2>4, <3>3, GivenFits
  <2>7. AaNow \in Int /\ k # AaNobody
    BY <1>2, NowIs, AaHoursAssumption, AaTicketsAssumption DEF AaAccounts
  <2> HIDE DEF queued, idle, waiting, started, offered
  <2>8. PICK op \in LockOps, p \in Pools, w \in Owners, b \in BOOLEAN : op = "handoff" /\ p = "all" /\ w = k
    <3>1. "all" \in Pools /\ "handoff" \in LockOps /\ k \in Owners /\ TRUE \in BOOLEAN
      BY DEF LockOps, Pools, Owners
    <3> QED
      BY <3>1, Zenon
  <2>9. Taken(aaJob', op, t, given, w, p, aaDay.no, b)
    BY <2>1, <2>5, <2>8, Zenon DEF AaTake, Taken
  <2>10. MayTake(op, t, given, w)
    BY <2>4, <2>6, <2>7, <2>8 DEF MayTake
  <2>11. RuleHolds(op, p, w)
    BY <2>2, <2>3, <2>8 DEF RuleHolds, AaBelowCap
  <2>12. JobInv' /\ ChoiceStands' /\ DayInv' /\ RowsInv'
    BY <1>1, <1>2, <1>9, <2>4, <2>9, <2>10, <2>11, Chosen
  <2> QED
    BY <1>4, <2>12 DEF AaInv
<1> HIDE DEF queued, idle, waiting, started, offered
<1> QED
  BY <1>1, <1>6, <1>7, <1>8, <1>9, Zenon

-----------------------------------------------------------------------------
(* Handlers that save                                                      *)

(* The next turn is taken and only row t changes, to what k receives.      *)
LEMMA ReceivedNow ==
  ASSUME AaInv, AaKeepDay, NEW k \in AaTechnicians, AaCountTurn(k), aaOwed' \subseteq AaTechnicians,
         NEW t \in AaTickets, NEW r, RowFits(r), r.owner = k, r.at = AaNow, aaRow' = [aaRow EXCEPT ![t] = r]
  PROVE  RowsInv' /\ DayInv'
<1>1. IsTable(aaRow)
  BY DEF AaInv, RowsInv, IsTable
<1>2. PICK q : q = aaRow'
  OBVIOUS
<1>3. q = [u \in AaTickets |-> q[u]] /\ q[t] = r /\ \A u \in AaTickets : u # t => q[u] = aaRow[u]
  BY <1>1, <1>2 DEF IsTable
<1>4. IsTable(q)
  BY <1>1, <1>3 DEF IsTable
<1>5. aaTurn'[k] = AaNow
  BY TurnCounted DEF AaInv
<1>6. \A u \in AaTickets : \/ q[u].owner = aaRow[u].owner /\ q[u].at = aaRow[u].at
                           \/ q[u].owner = AaNobody
                           \/ q[u].owner \in AaTechnicians /\ q[u].at = aaTurn'[q[u].owner]
  BY <1>3, <1>5
<1>7. aaTurn' = aaTurn \/ \E j \in AaTechnicians : AaCountTurn(j)
  OBVIOUS
<1> QED
  BY <1>2, <1>4, <1>6, <1>7, OwnedTable

LEMMA ReturnedNow ==
  ASSUME AaInv, AaKeepDay, aaTurn' = aaTurn, aaOwed' \subseteq AaTechnicians,
         NEW t \in AaTickets, NEW r, RowFits(r), r.owner = AaNobody, aaRow' = [aaRow EXCEPT ![t] = r]
  PROVE  RowsInv' /\ DayInv'
<1>1. IsTable(aaRow)
  BY DEF AaInv, RowsInv, IsTable
<1>2. PICK q : q = aaRow'
  OBVIOUS
<1>3. q = [u \in AaTickets |-> q[u]] /\ q[t] = r /\ \A u \in AaTickets : u # t => q[u] = aaRow[u]
  BY <1>1, <1>2 DEF IsTable
<1>4. IsTable(q)
  BY <1>1, <1>3 DEF IsTable
<1>5. \A u \in AaTickets : \/ q[u].owner = aaRow[u].owner /\ q[u].at = aaRow[u].at
                           \/ q[u].owner = AaNobody
                           \/ q[u].owner \in AaTechnicians /\ q[u].at = aaTurn'[q[u].owner]
  BY <1>3
<1> QED
  BY <1>2, <1>4, <1>5, OwnedTable

LEMMA Filed ==
  ASSUME AaInv, AaFile
  PROVE  AaInv'
<1> DEFINE kept == /\ aaJob.who # AaNobody
                   /\ aaJob.pool = "named" \/ AaStillEligible(aaJob.who, aaJob.pool, aaDay.no, aaJob.row.req)
<1>1. /\ aaJob.op = "file" /\ aaJob' = AaFree /\ AaKeepDay /\ aaOpening' = aaOpening /\ aaOwed' = aaOwed
      /\ \/ aaRow' = aaRow /\ aaTurn' = aaTurn
         \/ /\ kept /\ aaRow' = [aaRow EXCEPT ![aaJob.ticket] = [aaJob.row EXCEPT !.at = AaNow]]
            /\ AaCountTurn(aaJob.who)
         \/ /\ aaRow' = [aaRow EXCEPT ![aaJob.ticket] = [AaReturned(aaJob.row) EXCEPT !.waits = TRUE]]
            /\ aaTurn' = aaTurn
  BY Zenon DEF AaFile
<1>2. PICK t \in AaTickets, r \in AaRows, k \in Owners : t = aaJob.ticket /\ r = aaJob.row /\ k = aaJob.who
  BY <1>1 DEF AaInv, JobInv, AaJobs, Owners
<1>3. RowFits(r) /\ r.owner = k /\ r.status # "none"
  BY <1>1, <1>2 DEF AaInv, JobInv
<1>4. DayInv /\ aaOwed' \subseteq AaTechnicians
  BY <1>1 DEF AaInv, DayInv
<1>5. RowsInv' /\ DayInv'
  <2>1. CASE aaRow' = aaRow /\ aaTurn' = aaTurn
    BY <1>1, <1>4, <2>1, DayKept, TableStays
  <2>2. CASE /\ kept /\ aaRow' = [aaRow EXCEPT ![aaJob.ticket] = [aaJob.row EXCEPT !.at = AaNow]]
             /\ AaCountTurn(aaJob.who)
    <3>1. PICK o \in AaTechnicians : o = k
      BY <1>2, <2>2 DEF Owners
    <3>2. PICK g : g = [r EXCEPT !.at = AaNow]
      OBVIOUS
    <3>3. RowFits(g) /\ g.owner = o /\ g.at = AaNow
      BY <1>3, <1>4, <3>1, <3>2, DatedFits
    <3>4. aaRow' = [aaRow EXCEPT ![t] = g] /\ AaCountTurn(o)
      BY <1>2, <2>2, <3>1, <3>2, Zenon
    <3> QED
      BY <1>1, <1>4, <3>3, <3>4, ReceivedNow
  <2>3. CASE /\ aaRow' = [aaRow EXCEPT ![aaJob.ticket] = [AaReturned(aaJob.row) EXCEPT !.waits = TRUE]]
             /\ aaTurn' = aaTurn
    <3>1. PICK w \in BOOLEAN : w = TRUE
      BY Zenon
    <3>2. PICK g : g = [AaReturned(r) EXCEPT !.waits = w]
      OBVIOUS
    <3>3. RowFits(g) /\ g.owner = AaNobody
      BY <1>3, <1>4, <3>2, ReturnedFits
    <3>4. aaRow' = [aaRow EXCEPT ![t] = g]
      BY <1>2, <2>3, <3>1, <3>2, Zenon
    <3> QED
      BY <1>1, <1>4, <2>3, <3>3, <3>4, ReturnedNow
  <2> QED
    BY <1>1, <2>1, <2>2, <2>3
<1>6. aaDay.week <= aaDay'.week
  BY <1>1, <1>4, <1>5, AaHoursAssumption DEF AaKeepDay, DayInv
<1>7. JobInv' /\ ChoiceStands' /\ OpeningInv'
  BY <1>1, <1>4, <1>5, <1>6, JobEnded, OpeningStays
<1> QED
  BY <1>5, <1>7 DEF AaInv

LEMMA HandedOut ==
  ASSUME AaInv, AaHandOut
  PROVE  AaInv'
<1>1. /\ aaJob.op \in {"pickup", "handoff"} /\ aaJob' = AaFree /\ AaKeepDay /\ aaOpening' = aaOpening /\ aaOwed' = aaOwed
      /\ \/ aaRow' = aaRow /\ aaTurn' = aaTurn
         \/ /\ aaRow' = [aaRow EXCEPT ![aaJob.ticket] = [aaJob.row EXCEPT !.at = AaNow]]
            /\ AaCountTurn(aaJob.who)
  BY Zenon DEF AaHandOut
<1>2. PICK t \in AaTickets, r \in AaRows, k \in AaTechnicians : t = aaJob.ticket /\ r = aaJob.row /\ k = aaJob.who
  BY <1>1 DEF AaInv, JobInv, AaJobs
<1>3. RowFits(r) /\ r.owner = k
  BY <1>1, <1>2 DEF AaInv, JobInv
<1>4. DayInv /\ aaOwed' \subseteq AaTechnicians
  BY <1>1 DEF AaInv, DayInv
<1>5. RowsInv' /\ DayInv'
  <2>1. CASE aaRow' = aaRow /\ aaTurn' = aaTurn
    BY <1>1, <1>4, <2>1, DayKept, TableStays
  <2>2. CASE /\ aaRow' = [aaRow EXCEPT ![aaJob.ticket] = [aaJob.row EXCEPT !.at = AaNow]]
             /\ AaCountTurn(aaJob.who)
    <3>1. PICK g : g = [r EXCEPT !.at = AaNow]
      OBVIOUS
    <3>2. RowFits(g) /\ g.owner = k /\ g.at = AaNow
      BY <1>3, <1>4, <3>1, DatedFits
    <3>3. aaRow' = [aaRow EXCEPT ![t] = g] /\ AaCountTurn(k)
      BY <1>2, <2>2, <3>1, Zenon
    <3> QED
      BY <1>1, <1>4, <3>2, <3>3, ReceivedNow
  <2> QED
    BY <1>1, <2>1, <2>2
<1>6. aaDay.week <= aaDay'.week
  BY <1>1, <1>4, <1>5, AaHoursAssumption DEF AaKeepDay, DayInv
<1>7. JobInv' /\ ChoiceStands' /\ OpeningInv'
  BY <1>1, <1>4, <1>5, <1>6, JobEnded, OpeningStays
<1> QED
  BY <1>5, <1>7 DEF AaInv

(* The new owner has the ticket now; the previous one's queue moves.       *)
LEMMA MovedFits ==
  ASSUME AaInv, AaKeepDay, NEW t \in AaTickets, NEW k \in AaTechnicians, AaCountTurn(k), aaOwed' \subseteq AaTechnicians,
         aaRow[t].type = "specialized" \/ k # aaRow[t].req, aaRow' = AaMoved(t, k)
  PROVE  RowsInv' /\ DayInv'
<1>1. DayInv /\ IsTable(aaRow)
  BY DEF AaInv, RowsInv, IsTable
<1>2. PICK r : r = aaRow[t]
  OBVIOUS
<1>3. RowFits(r) /\ (r.type = "specialized" \/ k # r.req)
  BY <1>1, <1>2 DEF IsTable
<1>4. PICK s \in {"assigned", "in_progress", "pause"} :
        s = IF r.status = "pause" THEN "pause" ELSE IF AaBusy(k) THEN "assigned" ELSE "in_progress"
  OBVIOUS
<1>5. PICK b \in BOOLEAN : b = AaBusy(k)
  BY DEF AaBusy
<1>6. PICK g : g = AaGiven(r, k, s, b)
  OBVIOUS
<1>7. RowFits(g) /\ g.owner = k /\ g.at = AaNow
  BY <1>1, <1>3, <1>6, GivenFits
<1>8. PICK q : q = [aaRow EXCEPT ![t] = g]
  OBVIOUS
<1>9. q = [u \in AaTickets |-> q[u]] /\ q[t] = g /\ \A u \in AaTickets : u # t => q[u] = aaRow[u]
  BY <1>1, <1>8 DEF IsTable
<1>10. IsTable(q)
  BY <1>1, <1>7, <1>9 DEF IsTable
<1>11. PICK o : o = aaRow[t].owner
  OBVIOUS
<1>12. aaRow' = AaPromoted(q, o)
  <2>1. AaMoved(t, k) = AaPromoted([aaRow EXCEPT ![t] = AaGiven(aaRow[t], k,
            IF aaRow[t].status = "pause" THEN "pause" ELSE IF AaBusy(k) THEN "assigned" ELSE "in_progress", AaBusy(k))],
            aaRow[t].owner)
    BY Zenon DEF AaMoved
  <2>2. g = AaGiven(aaRow[t], k, IF aaRow[t].status = "pause" THEN "pause" ELSE IF AaBusy(k) THEN "assigned" ELSE "in_progress",
                    AaBusy(k))
    BY <1>2, <1>4, <1>5, <1>6, Zenon
  <2> QED
    BY <1>8, <1>11, <2>1, <2>2, Zenon
<1>13. PICK p : p = AaPromoted(q, o)
  OBVIOUS
<1>14. IsTable(p) /\ \A u \in AaTickets : p[u].owner = q[u].owner /\ p[u].at = q[u].at
  BY <1>10, <1>13, PromotedFits
<1>15. aaTurn'[k] = AaNow
  BY <1>1, TurnCounted
<1>16. \A u \in AaTickets : \/ p[u].owner = aaRow[u].owner /\ p[u].at = aaRow[u].at
                            \/ p[u].owner = AaNobody
                            \/ p[u].owner \in AaTechnicians /\ p[u].at = aaTurn'[p[u].owner]
  BY <1>7, <1>9, <1>14, <1>15
<1>17. aaTurn' = aaTurn \/ \E j \in AaTechnicians : AaCountTurn(j)
  OBVIOUS
<1> QED
  BY <1>12, <1>13, <1>14, <1>16, <1>17, OwnedTable

LEMMA Assigned ==
  ASSUME AaInv, NEW t \in AaTickets, NEW k \in AaTechnicians, AaAssign(t, k)
  PROVE  AaInv'
<1>1. /\ AaKeepDay /\ aaJob = AaFree /\ aaJob' = AaFree /\ aaOpening' = aaOpening /\ aaOwed' = aaOwed
      /\ aaRow' = AaMoved(t, k) /\ AaCountTurn(k) /\ AaMayBeNamed(aaRow[t], k)
  BY DEF AaAssign, AaLockFree
<1>2. DayInv /\ aaOwed' \subseteq AaTechnicians
  BY <1>1 DEF AaInv, DayInv
<1>3. aaRow[t].type = "specialized" \/ k # aaRow[t].req
  BY <1>1 DEF AaMayBeNamed
<1>4. RowsInv' /\ DayInv'
  BY <1>1, <1>2, <1>3, MovedFits
<1>5. aaDay.week <= aaDay'.week
  BY <1>1, <1>2, AaHoursAssumption DEF AaKeepDay, DayInv
<1>6. JobInv' /\ ChoiceStands' /\ OpeningInv'
  BY <1>1, <1>2, <1>4, <1>5, JobEnded, OpeningStays
<1> QED
  BY <1>4, <1>6 DEF AaInv

LEMMA AlertPicked ==
  ASSUME AaInv, NEW t \in AaTickets, AaPickForAlert(t)
  PROVE  AaInv'
<1> DEFINE r == aaRow[t]
           candidates == {k \in AaPool(r.type, aaJob.day) \ {aaJob.who, r.req, r.by} : ~AaBusy(k)}
           left == aaJob.todo \ {t}
<1>1. /\ AaKeepDay /\ aaRow' = aaRow /\ aaOpening' = aaOpening /\ aaOwed' = aaOwed /\ aaTurn' = aaTurn
      /\ aaJob.op = "alert" /\ aaJob.ticket = 0
      /\ \/ /\ r.status \in {"assigned", "in_progress"}
            /\ \E k \in candidates : aaJob' = [aaJob EXCEPT !.ticket = t, !.row = r, !.pool = k, !.todo = left]
         \/ aaJob' = AaFree
         \/ aaJob' = [aaJob EXCEPT !.todo = left]
  BY Zenon DEF AaPickForAlert
<1>2. DayInv /\ aaOwed' \subseteq AaTechnicians /\ DayInv' /\ aaDay.week <= aaDay'.week
  BY <1>1, DayKept DEF AaInv, DayInv
<1>3. RowsInv' /\ OpeningInv'
  BY <1>1, <1>2, TableStays, OpeningStays
<1>4. PICK j \in AaJobs : j = aaJob /\ RowFits(j.row) /\ j.who \in AaTechnicians /\ j.op = "alert" /\ j.ticket = 0
  BY <1>1 DEF AaInv, JobInv
<1>5. PICK T \in SUBSET AaTickets : T = left
  <2>1. left \in SUBSET AaTickets
    BY <1>4 DEF AaJobs
  <2> QED
    BY <2>1, Zenon
<1>6. CASE aaJob' = AaFree
  <2>1. JobInv' /\ ChoiceStands'
    BY <1>2, <1>6, JobEnded
  <2> QED
    BY <1>2, <1>3, <2>1 DEF AaInv
<1>7. CASE aaJob' = [aaJob EXCEPT !.todo = left]
  <2>1. PICK g : g = [j EXCEPT !.todo = T]
    OBVIOUS
  <2>2. g \in AaJobs /\ g.op = j.op /\ g.ticket = j.ticket /\ g.row = j.row /\ g.who = j.who
    BY <2>1 DEF AaJobs
  <2>3. aaJob' = g
    BY <1>4, <1>5, <1>7, <2>1, Zenon
  <2>4. RowFits(j.row)'
    BY <1>2, <1>4, RowStays
  <2>5. RowFits(aaJob.row)'
    BY <2>2, <2>3, <2>4, Zenon
  <2>6. JobInv' /\ ChoiceStands'
    BY <1>4, <2>2, <2>3, <2>5 DEF JobInv, ChoiceStands
  <2> QED
    BY <1>2, <1>3, <2>6 DEF AaInv
<1>8. CASE /\ r.status \in {"assigned", "in_progress"}
           /\ \E k \in candidates : aaJob' = [aaJob EXCEPT !.ticket = t, !.row = r, !.pool = k, !.todo = left]
  <2>1. PICK k \in candidates : aaJob' = [aaJob EXCEPT !.ticket = t, !.row = r, !.pool = k, !.todo = left]
    BY <1>8
  <2>2. k \in AaTechnicians
    BY DEF AaPool
  <2>3. PICK held \in AaRows : held = r /\ RowFits(held) /\ held.status \in {"assigned", "in_progress"}
    BY <1>8 DEF AaInv, RowsInv, RowFits
  <2>4. PICK g : g = [j EXCEPT !.ticket = t, !.row = held, !.pool = k, !.todo = T]
    OBVIOUS
  <2>5. g \in AaJobs /\ g.op = j.op /\ g.ticket = t /\ g.row = held /\ g.who = j.who /\ g.pool = k
    BY <2>2, <2>4 DEF AaJobs
  <2>6. aaJob' = g
    BY <1>4, <1>5, <2>1, <2>3, <2>4, Zenon
  <2>7. RowFits(held)'
    BY <1>2, <2>3, RowStays
  <2>8. RowFits(aaJob.row)'
    BY <2>5, <2>6, <2>7, Zenon
  <2>9. JobInv' /\ ChoiceStands'
    BY <1>4, <2>2, <2>3, <2>5, <2>6, <2>8 DEF JobInv, ChoiceStands
  <2> QED
    BY <1>2, <1>3, <2>9 DEF AaInv
<1> HIDE DEF r, candidates, left
<1> QED
  BY <1>1, <1>6, <1>7, <1>8, Zenon

LEMMA AlertAssigned ==
  ASSUME AaInv, AaAssignForAlert
  PROVE  AaInv'
<1>1. /\ AaKeepDay /\ aaOpening' = aaOpening /\ aaOwed' = aaOwed /\ aaJob.op = "alert" /\ aaJob.ticket # 0
      /\ \/ /\ AaSameVersion(aaJob.ticket) /\ AaStillEligible(aaJob.pool, aaJob.row.type, aaJob.day, aaJob.row.req)
            /\ aaRow' = AaMoved(aaJob.ticket, aaJob.pool) /\ AaCountTurn(aaJob.pool)
         \/ aaRow' = aaRow /\ aaTurn' = aaTurn
      /\ aaJob' = AaFree \/ aaJob' = [aaJob EXCEPT !.ticket = 0, !.row = AaUnfiled, !.pool = "all"]
  BY Zenon DEF AaAssignForAlert
<1>2. DayInv /\ aaOwed' \subseteq AaTechnicians
  BY <1>1 DEF AaInv, DayInv
<1>3. PICK j \in AaJobs : j = aaJob /\ j.who \in AaTechnicians /\ j.op = "alert" /\ j.pool \in AaTechnicians /\ j.ticket \in AaTickets
  BY <1>1 DEF AaInv, JobInv, AaJobs
<1>4. RowsInv' /\ DayInv'
  <2>1. CASE aaRow' = aaRow /\ aaTurn' = aaTurn
    BY <1>1, <1>2, <2>1, DayKept, TableStays
  <2>2. CASE /\ AaSameVersion(aaJob.ticket) /\ AaStillEligible(aaJob.pool, aaJob.row.type, aaJob.day, aaJob.row.req)
             /\ aaRow' = AaMoved(aaJob.ticket, aaJob.pool) /\ AaCountTurn(aaJob.pool)
    <3>1. PICK t \in AaTickets, k \in AaTechnicians : t = aaJob.ticket /\ k = aaJob.pool
      BY <1>3
    <3>2. k # aaRow[t].req
      BY <2>2, <3>1 DEF AaSameVersion, AaStillEligible
    <3>3. aaRow' = AaMoved(t, k) /\ AaCountTurn(k)
      BY <2>2, <3>1, Zenon
    <3> QED
      BY <1>1, <1>2, <3>2, <3>3, MovedFits
  <2> QED
    BY <1>1, <2>1, <2>2
<1>5. aaDay.week <= aaDay'.week
  BY <1>1, <1>2, AaHoursAssumption DEF AaKeepDay, DayInv
<1>6. OpeningInv'
  BY <1>1, <1>4, <1>5, OpeningStays
<1>7. CASE aaJob' = AaFree
  <2>1. JobInv' /\ ChoiceStands'
    BY <1>2, <1>4, <1>5, <1>7, JobEnded
  <2> QED
    BY <1>4, <1>6, <2>1 DEF AaInv
<1>8. CASE aaJob' = [aaJob EXCEPT !.ticket = 0, !.row = AaUnfiled, !.pool = "all"]
  <2>1. PICK held \in AaRows, n \in AaTickets \cup {0}, p \in AaTypes \cup {"all", "named"} \cup AaTechnicians :
          held = AaUnfiled /\ RowFits(held) /\ n = 0 /\ p = "all"
    <3>1. AaUnfiled \in AaRows /\ RowFits(AaUnfiled)
      BY <1>2, FreeIs DEF RowFits
    <3>2. 0 \in AaTickets \cup {0} /\ "all" \in AaTypes \cup {"all", "named"} \cup AaTechnicians
      OBVIOUS
    <3> QED
      BY <3>1, <3>2, Zenon
  <2>2. PICK g : g = [j EXCEPT !.ticket = n, !.row = held, !.pool = p]
    OBVIOUS
  <2>3. g \in AaJobs /\ g.op = j.op /\ g.ticket = n /\ g.row = held /\ g.who = j.who
    BY <2>2 DEF AaJobs
  <2>4. aaJob' = g
    BY <1>3, <1>8, <2>1, <2>2, Zenon
  <2>5. RowFits(held)'
    BY <1>2, <1>4, <1>5, <2>1, RowStays
  <2>6. RowFits(aaJob.row)'
    BY <2>3, <2>4, <2>5, Zenon
  <2>7. JobInv' /\ ChoiceStands'
    BY <1>3, <2>1, <2>3, <2>4, <2>6 DEF JobInv, ChoiceStands
  <2> QED
    BY <1>4, <1>6, <2>7 DEF AaInv
<1> QED
  BY <1>1, <1>7, <1>8

-----------------------------------------------------------------------------
(* Steps beside the lock                                                   *)

(* The rows of no owner and the choice of whoever holds the lock survive a *)
(* step that takes no lock and writes one row that had an owner.           *)
LEMMA BesideTheLock ==
  ASSUME AaInv, AaKeepDay, aaJob' = aaJob, aaOwed' \subseteq AaTechnicians,
         NEW t \in AaTickets, NEW r, RowFits(r), aaRow[t].status \notin {"none", "open"}, aaRow' = [aaRow EXCEPT ![t] = r],
         \/ \E k \in AaTechnicians : AaCountTurn(k) /\ r.owner = k /\ r.at = AaNow
         \/ aaTurn' = aaTurn /\ r.owner = AaNobody
         \/ /\ aaTurn' = aaTurn /\ r.owner = aaRow[t].owner /\ r.at = aaRow[t].at
            /\ r.week = aaRow[t].week /\ r.by = aaRow[t].by
            /\ r.status \in {"assigned", "in_progress"} => aaRow[t].status \in {"assigned", "in_progress"}
  PROVE  RowsInv' /\ DayInv' /\ JobInv' /\ ChoiceStands'
<1>1. IsTable(aaRow) /\ DayInv
  BY DEF AaInv, RowsInv, IsTable
<1>2. PICK q : q = aaRow'
  OBVIOUS
<1>3. q = [u \in AaTickets |-> q[u]] /\ q[t] = r /\ \A u \in AaTickets : u # t => q[u] = aaRow[u]
  BY <1>1, <1>2 DEF IsTable
<1>4. IsTable(q)
  BY <1>1, <1>3 DEF IsTable
<1>5. \A k \in AaTechnicians : AaCountTurn(k) => aaTurn'[k] = AaNow
  BY <1>1, TurnCounted
<1>6. \A u \in AaTickets : \/ q[u].owner = aaRow[u].owner /\ q[u].at = aaRow[u].at
                           \/ q[u].owner = AaNobody
                           \/ q[u].owner \in AaTechnicians /\ q[u].at = aaTurn'[q[u].owner]
  BY <1>3, <1>5
<1>7. aaTurn' = aaTurn \/ \E j \in AaTechnicians : AaCountTurn(j)
  OBVIOUS
<1>8. RowsInv' /\ DayInv'
  BY <1>2, <1>4, <1>6, <1>7, OwnedTable
<1>9. aaDay' = aaDay /\ aaStrategy' = aaStrategy /\ aaDay.week <= aaDay'.week /\ (AaNow' = AaNow \/ AaNow' = AaNow + 1)
  BY <1>7, DayKept
<1>10. \A u \in AaTickets : aaRow[u].status \in {"none", "open"} => aaRow'[u] = aaRow[u]
  BY <1>2, <1>3
<1>11. JobInv'
  BY <1>8, <1>9, <1>10, JobStays
<1>12. CASE \E k \in AaTechnicians : AaCountTurn(k)
  <2>1. ChoiceStands'
    BY <1>9, <1>12, ChoiceKept
  <2> QED
    BY <1>8, <1>11, <2>1
<1>13. CASE aaTurn' = aaTurn /\ ~ \E k \in AaTechnicians : AaCountTurn(k)
  <2>1. \A u \in AaTickets : aaRow'[u].owner # AaNobody =>
          /\ aaRow'[u].owner = aaRow[u].owner /\ aaRow'[u].at = aaRow[u].at
          /\ aaRow'[u].week = aaRow[u].week /\ aaRow'[u].by = aaRow[u].by
          /\ aaRow'[u].status \in {"assigned", "in_progress"} => aaRow[u].status \in {"assigned", "in_progress"}
    BY <1>2, <1>3, <1>13
  <2>2. \A k \in AaTechnicians : LoadSet(k)' \subseteq LoadSet(k)
    <3> SUFFICES ASSUME NEW k \in AaTechnicians, NEW u \in AaTickets,
                        aaRow'[u].owner = k, aaRow'[u].at # 0, aaRow'[u].week = aaDay.week, aaRow'[u].by # AaUser
                 PROVE  u \in LoadSet(k)
      BY <1>9 DEF LoadSet
    <3>1. k # AaNobody
      BY AaTicketsAssumption DEF AaAccounts
    <3> QED
      BY <2>1, <3>1 DEF LoadSet
  <2>3. \A k \in AaTechnicians : AaHeld(k, {"assigned", "in_progress"}) = {} => AaHeld(k, {"assigned", "in_progress"})' = {}
    <3> SUFFICES ASSUME NEW k \in AaTechnicians, NEW u \in AaTickets,
                        aaRow'[u].owner = k, aaRow'[u].status \in {"assigned", "in_progress"}
                 PROVE  u \in AaHeld(k, {"assigned", "in_progress"})
      BY DEF AaHeld
    <3>1. k # AaNobody
      BY AaTicketsAssumption DEF AaAccounts
    <3> QED
      BY <2>1, <3>1 DEF AaHeld
  <2>4. ChoiceStands'
    BY <1>9, <1>13, <2>2, <2>3, ChoiceKept
  <2> QED
    BY <1>8, <1>11, <2>4
<1> QED
  BY <1>7, <1>12, <1>13

(* Nothing that the lock protects changes.                                 *)
LEMMA LockUntouched ==
  ASSUME AaInv, DayInv', aaDay.week <= aaDay'.week, aaRow' = aaRow, aaJob' = aaJob, aaTurn' = aaTurn,
         aaStrategy' = aaStrategy, \A k \in AaTechnicians : LoadSet(k)' \subseteq LoadSet(k)
  PROVE  RowsInv' /\ JobInv' /\ ChoiceStands'
<1>1. AaNow' = AaNow
  BY NowStays
<1>2. RowsInv' /\ JobInv'
  BY <1>1, TableStays, JobStays
<1>3. \A k \in AaTechnicians : AaHeld(k, {"assigned", "in_progress"})' = AaHeld(k, {"assigned", "in_progress"})
  BY DEF AaHeld
<1> QED
  BY <1>2, <1>3, ChoiceKept

LEMMA OpeningRead ==
  ASSUME AaInv, NEW t \in AaTickets, AaReadOpening(t)
  PROVE  AaInv'
<1>1. /\ AaKeepDay /\ aaRow' = aaRow /\ aaJob' = aaJob /\ aaOwed' = aaOwed /\ aaTurn' = aaTurn
      /\ aaRow[t].status \in {"in_progress", "resolved"}
      /\ \E k \in IF AaOpeningChoices(aaRow[t]) = {} THEN {AaNobody} ELSE AaOpeningChoices(aaRow[t]) :
           aaOpening' = [AaFree EXCEPT !.op = "open", !.ticket = t, !.row = aaRow[t], !.who = k]
  BY DEF AaReadOpening
<1>2. DayInv /\ aaOwed' \subseteq AaTechnicians
  BY <1>1 DEF AaInv, DayInv
<1>3. DayInv' /\ aaDay.week <= aaDay'.week /\ aaDay' = aaDay /\ aaStrategy' = aaStrategy
  BY <1>1, <1>2, DayKept
<1>4. \A k \in AaTechnicians : LoadSet(k)' \subseteq LoadSet(k)
  BY <1>1, <1>3 DEF LoadSet
<1>5. RowsInv' /\ JobInv' /\ ChoiceStands'
  BY <1>1, <1>3, <1>4, LockUntouched
<1>6. PICK k \in IF AaOpeningChoices(aaRow[t]) = {} THEN {AaNobody} ELSE AaOpeningChoices(aaRow[t]) :
        aaOpening' = [AaFree EXCEPT !.op = "open", !.ticket = t, !.row = aaRow[t], !.who = k]
  BY <1>1
<1>7. k \in Owners
  <2>1. AaOpeningChoices(aaRow[t]) \subseteq AaTechnicians
    BY DEF AaOpeningChoices, AaRobinChoice, AaPool
  <2> QED
    BY <2>1 DEF Owners
<1>8. PICK r \in AaRows : r = aaRow[t] /\ RowFits(r) /\ r.status \in {"in_progress", "resolved"}
  BY <1>1 DEF AaInv, RowsInv, RowFits
<1>9. PICK op \in AaOps, p \in Pools, d \in 0..AaLastDay, b \in BOOLEAN : op = "open" /\ p = "all"
  <2>1. "open" \in AaOps /\ "all" \in Pools /\ 0 \in 0..AaLastDay /\ TRUE \in BOOLEAN
    BY AaHoursAssumption DEF AaOps, Pools
  <2> QED
    BY <2>1, Zenon
<1>10. PICK x : x = aaOpening'
  OBVIOUS
<1>11. Taken(x, op, t, r, k, p, d, b)
  BY <1>6, <1>8, <1>9, <1>10, Zenon DEF Taken
<1>12. x \in AaJobs /\ x.op = op /\ x.ticket = t /\ x.row = r /\ x.who = k
  BY <1>2, <1>7, <1>11, TakenIs
<1>13. RowFits(r)'
  BY <1>2, <1>3, <1>8, RowStays
<1>14. RowFits(aaOpening.row)'
  <2>1. aaOpening'.row = r
    BY <1>10, <1>12
  <2> QED
    BY <1>13, <2>1, Zenon
<1>15. OpeningInv'
  BY <1>8, <1>9, <1>10, <1>12, <1>14 DEF OpeningInv
<1> QED
  BY <1>3, <1>5, <1>15 DEF AaInv

LEMMA Opened ==
  ASSUME AaInv, AaOpen
  PROVE  AaInv'
<1> DEFINE o == aaOpening
<1>1. /\ AaKeepDay /\ aaJob' = aaJob /\ aaOwed' = aaOwed /\ aaOpening' = AaFree /\ o.op = "open"
      /\ \/ aaRow' = aaRow /\ aaTurn' = aaTurn
         \/ /\ aaRow[o.ticket] = o.row /\ o.who # AaNobody /\ AaStillEligible(o.who, o.row.type, aaDay.no, o.row.req)
            /\ aaRow' = [aaRow EXCEPT ![o.ticket] = AaGiven(o.row, o.who, "assigned", FALSE)] /\ AaCountTurn(o.who)
         \/ /\ aaRow[o.ticket] = o.row
            /\ aaRow' = [aaRow EXCEPT ![o.ticket] = AaReturned(o.row)] /\ aaTurn' = aaTurn
  BY Zenon DEF AaOpen
<1>2. DayInv /\ aaOwed' \subseteq AaTechnicians
  BY <1>1 DEF AaInv, DayInv
<1>3. PICK t \in AaTickets, r \in AaRows, k \in Owners : t = o.ticket /\ r = o.row /\ k = o.who
  BY <1>1 DEF AaInv, OpeningInv, AaJobs, Owners
<1>4. RowFits(r) /\ r.status \in {"in_progress", "resolved"}
  BY <1>1, <1>3 DEF AaInv, OpeningInv
<1>5. RowsInv' /\ DayInv' /\ JobInv' /\ ChoiceStands'
  <2>1. CASE aaRow' = aaRow /\ aaTurn' = aaTurn
    <3>1. DayInv' /\ aaDay.week <= aaDay'.week /\ aaDay' = aaDay /\ aaStrategy' = aaStrategy
      BY <1>1, <1>2, <2>1, DayKept
    <3>2. \A u \in AaTechnicians : LoadSet(u)' \subseteq LoadSet(u)
      BY <2>1, <3>1 DEF LoadSet
    <3> QED
      BY <1>1, <2>1, <3>1, <3>2, LockUntouched
  <2>2. CASE /\ aaRow[o.ticket] = o.row /\ o.who # AaNobody /\ AaStillEligible(o.who, o.row.type, aaDay.no, o.row.req)
             /\ aaRow' = [aaRow EXCEPT ![o.ticket] = AaGiven(o.row, o.who, "assigned", FALSE)] /\ AaCountTurn(o.who)
    <3>1. PICK w \in AaTechnicians : w = k
      BY <1>3, <2>2 DEF Owners
    <3>2. w # r.req
      BY <1>3, <2>2, <3>1 DEF AaStillEligible
    <3>3. PICK s \in {"assigned", "in_progress", "pause"} : s = "assigned"
      OBVIOUS
    <3>4. PICK b \in BOOLEAN : b = FALSE
      BY Zenon
    <3>5. PICK g : g = AaGiven(r, w, s, b)
      OBVIOUS
    <3>6. RowFits(g) /\ g.owner = w /\ g.at = AaNow
      BY <1>2, <1>4, <3>2, <3>5, GivenFits
    <3>7. aaRow' = [aaRow EXCEPT ![t] = g] /\ AaCountTurn(w)
      BY <1>3, <2>2, <3>1, <3>3, <3>4, <3>5, Zenon
    <3>8. aaRow[t].status \notin {"none", "open"}
      BY <1>3, <1>4, <2>2
    <3> QED
      BY <1>1, <1>2, <3>6, <3>7, <3>8, BesideTheLock
  <2>3. CASE /\ aaRow[o.ticket] = o.row
             /\ aaRow' = [aaRow EXCEPT ![o.ticket] = AaReturned(o.row)] /\ aaTurn' = aaTurn
    <3>1. PICK g : g = AaReturned(r)
      OBVIOUS
    <3>2. PICK w \in BOOLEAN : w = TRUE
      BY Zenon
    <3>3. RowFits(g) /\ g.owner = AaNobody
      BY <1>2, <1>4, <3>1, ReturnedFits
    <3>4. aaRow' = [aaRow EXCEPT ![t] = g]
      BY <1>3, <2>3, <3>1, Zenon
    <3>5. aaRow[t].status \notin {"none", "open"}
      BY <1>3, <1>4, <2>3
    <3> QED
      BY <1>1, <1>2, <2>3, <3>3, <3>4, <3>5, BesideTheLock
  <2> HIDE DEF o
  <2> QED
    BY <1>1, <2>1, <2>2, <2>3, Zenon
<1>6. aaDay.week <= aaDay'.week
  BY <1>1, <1>2, AaHoursAssumption DEF AaKeepDay, DayInv
<1>7. OpeningInv'
  BY <1>1, <1>2, <1>5, <1>6, OpeningEnded
<1> QED
  BY <1>5, <1>7 DEF AaInv

LEMMA Worked ==
  ASSUME AaInv, NEW t \in AaTickets, AaWork(t)
  PROVE  AaInv'
<1>1. PICK s \in {"in_progress", "pause", "resolved"} :
        /\ aaRow[t].status \in {"assigned", "in_progress"} /\ aaRow' = [aaRow EXCEPT ![t].status = s]
        /\ aaOwed' = aaOwed \/ aaOwed' = aaOwed \cup {aaRow[t].owner}
  BY DEF AaWork
<1>2. AaKeepDay /\ aaJob' = aaJob /\ aaOpening' = aaOpening /\ aaTurn' = aaTurn
  BY DEF AaWork
<1>3. PICK r \in AaRows : r = aaRow[t] /\ RowFits(r) /\ r.status \in {"assigned", "in_progress"}
  BY <1>1 DEF AaInv, RowsInv, RowFits
<1>4. DayInv /\ aaOwed' \subseteq AaTechnicians
  BY <1>1, <1>3 DEF AaInv, DayInv, RowFits, AaRows
<1>5. PICK g : g = [r EXCEPT !.status = s]
  OBVIOUS
<1>6. /\ g \in AaRows /\ g.owner = r.owner /\ g.at = r.at /\ g.week = r.week /\ g.by = r.by /\ g.status = s
      /\ g.type = r.type /\ g.req = r.req
  BY <1>5 DEF AaRows
<1>7. RowFits(g)
  BY <1>3, <1>6 DEF RowFits
<1>8. aaRow' = [aaRow EXCEPT ![t] = g]
  BY <1>1, <1>3, <1>5
<1>9. RowsInv' /\ DayInv' /\ JobInv' /\ ChoiceStands'
  BY <1>2, <1>3, <1>4, <1>6, <1>7, <1>8, BesideTheLock
<1>10. aaDay.week <= aaDay'.week
  BY <1>2, <1>4, AaHoursAssumption DEF AaKeepDay, DayInv
<1> QED
  BY <1>2, <1>9, <1>10, OpeningStays DEF AaInv

LEMMA Attended ==
  ASSUME AaInv, NEW k \in AaTechnicians, NEW s \in {"available", "withheld", "away"}, AaAttend(k, s)
  PROVE  AaInv'
<1>1. /\ aaMoves < AaMaxMoves /\ aaMoves' = aaMoves + 1 /\ aaAtt' = [aaAtt EXCEPT ![aaDay.no][k] = s]
      /\ aaRow' = aaRow /\ aaStrategy' = aaStrategy /\ aaDay' = aaDay /\ aaJob' = aaJob /\ aaOpening' = aaOpening
      /\ aaOwed' = aaOwed /\ aaTurn' = aaTurn
  BY DEF AaAttend
<1>2. DayInv'
  <2>1. DayInv /\ aaMoves' \in 0..AaMaxMoves
    BY <1>1, AaHoursAssumption DEF AaInv, DayInv
  <2>2. PICK d \in 0..AaLastDay : d = aaDay.no
    BY <2>1 DEF DayInv
  <2>3. PICK a \in [AaTechnicians -> {"available", "withheld", "away"}] : a = [aaAtt[d] EXCEPT ![k] = s]
    BY <2>1 DEF DayInv
  <2>4. aaAtt' = [aaAtt EXCEPT ![d] = a]
    BY <1>1, <2>2, <2>3
  <2>5. aaAtt' \in [0..AaLastDay -> [AaTechnicians -> {"available", "withheld", "away"}]]
    BY <2>1, <2>4 DEF DayInv
  <2> QED
    BY <1>1, <2>1, <2>5 DEF DayInv
<1>3. aaDay.week <= aaDay'.week
  BY <1>1, AaHoursAssumption DEF AaInv, DayInv
<1>4. \A j \in AaTechnicians : LoadSet(j)' \subseteq LoadSet(j)
  BY <1>1 DEF LoadSet
<1>5. RowsInv' /\ JobInv' /\ ChoiceStands'
  BY <1>1, <1>2, <1>3, <1>4, LockUntouched
<1>6. OpeningInv'
  BY <1>1, <1>2, <1>3, OpeningStays
<1> QED
  BY <1>2, <1>5, <1>6 DEF AaInv

(* A new week begins with nothing received.                                *)
LEMMA DayBegun ==
  ASSUME AaInv, NEW kind \in {"office", "free", "overtime"}, NEW w \in {0, 1}, AaNewDay(kind, w)
  PROVE  AaInv'
<1>1. /\ aaDay.no < AaLastDay /\ aaDay' = [no |-> aaDay.no + 1, week |-> aaDay.week + w, kind |-> kind]
      /\ aaRow' = aaRow /\ aaStrategy' = aaStrategy /\ aaAtt' = aaAtt /\ aaJob' = aaJob /\ aaOpening' = aaOpening
      /\ aaOwed' = aaOwed /\ aaTurn' = aaTurn /\ aaMoves' = aaMoves
  BY DEF AaNewDay
<1>2. aaDay.no \in 0..AaLastDay /\ aaDay.week \in 0..AaLastDay /\ aaDay.week <= aaDay.no /\ AaLastDay \in Nat
  BY AaHoursAssumption DEF AaInv, DayInv
<1>3. DayInv' /\ aaDay.week <= aaDay'.week /\ aaDay'.week = aaDay.week + w
  BY <1>1, <1>2 DEF AaInv, DayInv
<1>4. \A j \in AaTechnicians : LoadSet(j)' \subseteq LoadSet(j)
  <2> SUFFICES ASSUME NEW j \in AaTechnicians, NEW u \in LoadSet(j)'
               PROVE  u \in LoadSet(j)
    OBVIOUS
  <2>1. /\ u \in AaTickets /\ aaRow[u].owner = j /\ aaRow[u].at # 0 /\ aaRow[u].week = aaDay'.week
        /\ aaRow[u].by # AaUser
    BY <1>1 DEF LoadSet
  <2>2. aaRow[u].week <= aaDay.week
    BY <2>1 DEF AaInv, RowsInv, RowFits
  <2>3. aaRow[u].week = aaDay.week
    BY <1>2, <1>3, <2>1, <2>2
  <2> QED
    BY <2>1, <2>3 DEF LoadSet
<1>5. RowsInv' /\ JobInv' /\ ChoiceStands'
  BY <1>1, <1>3, <1>4, LockUntouched
<1>6. OpeningInv'
  BY <1>1, <1>3, OpeningStays
<1> QED
  BY <1>3, <1>5, <1>6 DEF AaInv

-----------------------------------------------------------------------------
(* The invariant                                                           *)

LEMMA Begins ==
  AaInit => AaInv
<1> SUFFICES ASSUME AaInit PROVE AaInv
  OBVIOUS
<1>1. /\ aaRow = [t \in AaTickets |-> AaUnfiled] /\ aaStrategy \in {"robin", "zero", "paused"}
      /\ aaDay \in [no: {0}, week: {0}, kind: {"office", "free", "overtime"}]
      /\ aaJob = AaFree /\ aaOpening = AaFree /\ aaOwed = {} /\ aaTurn = [k \in AaTechnicians |-> 0] /\ aaMoves = 0
  BY DEF AaInit
<1>2. aaAtt \in [0..AaLastDay -> [AaTechnicians -> {"available", "withheld", "away"}]]
  <2>1. PICK today \in [AaTechnicians -> {"available", "withheld", "away"}] :
          aaAtt = [d \in 0..AaLastDay |-> IF d = 0 THEN today ELSE [k \in AaTechnicians |-> "away"]]
    BY DEF AaInit
  <2> QED
    BY <2>1
<1>3. 0 \in 0..AaLastDay /\ 0 \in 0..AaMaxTurns /\ 0 \in 0..AaMaxMoves
  BY AaHoursAssumption
<1>4. DayInv
  BY <1>1, <1>2, <1>3 DEF DayInv
<1>5. PICK f \in AaJobs : /\ f = AaFree /\ f.op = "none" /\ f.row = AaUnfiled /\ RowFits(AaUnfiled) /\ AaUnfiled.owner = AaNobody
  BY <1>4, FreeIs
<1>6. \A t \in AaTickets : aaRow[t] = AaUnfiled
  BY <1>1
<1>7. RowsInv
  <2>1. aaRow = [t \in AaTickets |-> aaRow[t]]
    BY <1>1
  <2> QED
    BY <1>5, <1>6, <2>1 DEF RowsInv
<1>8. JobInv /\ OpeningInv /\ ChoiceStands
  BY <1>1, <1>5 DEF JobInv, OpeningInv, ChoiceStands
<1> QED
  BY <1>4, <1>7, <1>8 DEF AaInv

LEMMA Stuttered ==
  ASSUME AaInv, UNCHANGED aaVars
  PROVE  AaInv'
<1>1. /\ aaRow' = aaRow /\ aaStrategy' = aaStrategy /\ aaDay' = aaDay /\ aaAtt' = aaAtt /\ aaJob' = aaJob
      /\ aaOpening' = aaOpening /\ aaOwed' = aaOwed /\ aaTurn' = aaTurn /\ aaMoves' = aaMoves
  BY DEF aaVars
<1>2. DayInv' /\ aaDay.week <= aaDay'.week
  BY <1>1, AaHoursAssumption DEF AaInv, DayInv
<1>3. \A j \in AaTechnicians : LoadSet(j)' \subseteq LoadSet(j)
  BY <1>1 DEF LoadSet
<1>4. RowsInv' /\ JobInv' /\ ChoiceStands'
  BY <1>1, <1>2, <1>3, LockUntouched
<1>5. OpeningInv'
  BY <1>1, <1>2, OpeningStays
<1> QED
  BY <1>2, <1>4, <1>5 DEF AaInv

LEMMA AaInvStep ==
  AaInv /\ [AaNext]_aaVars => AaInv'
<1> SUFFICES ASSUME AaInv, [AaNext]_aaVars PROVE AaInv'
  OBVIOUS
<1>1. ASSUME NEW t \in AaTickets, AaChooseForFiling(t) PROVE AaInv'
  BY <1>1, FilingChosen
<1>2. ASSUME NEW t \in AaTickets, AaPickForAlert(t) PROVE AaInv'
  BY <1>2, AlertPicked
<1>3. ASSUME NEW t \in AaTickets, AaReadOpening(t) PROVE AaInv'
  BY <1>3, OpeningRead
<1>4. ASSUME NEW t \in AaTickets, AaWork(t) PROVE AaInv'
  BY <1>4, Worked
<1>5. CASE AaFile
  BY <1>5, Filed
<1>6. CASE AaHandOut
  BY <1>6, HandedOut
<1>7. CASE AaAssignForAlert
  BY <1>7, AlertAssigned
<1>8. CASE AaOpen
  BY <1>8, Opened
<1>9. ASSUME NEW k \in AaTechnicians, AaChooseForPickup(k) PROVE AaInv'
  BY <1>9, PickupChosen
<1>10. ASSUME NEW k \in AaTechnicians, AaChooseForHandoff(k) PROVE AaInv'
  BY <1>10, HandoffChosen
<1>11. ASSUME NEW k \in AaTechnicians, AaReadAlert(k) PROVE AaInv'
  BY <1>11, AlertRead
<1>12. ASSUME NEW t \in AaTickets, NEW k \in AaTechnicians, AaAssign(t, k) PROVE AaInv'
  BY <1>12, Assigned
<1>13. ASSUME NEW k \in AaTechnicians, NEW s \in {"available", "withheld", "away"}, AaAttend(k, s) PROVE AaInv'
  BY <1>13, Attended
<1>14. ASSUME NEW kind \in {"office", "free", "overtime"}, NEW w \in {0, 1}, AaNewDay(kind, w) PROVE AaInv'
  BY <1>14, DayBegun
<1>15. CASE UNCHANGED aaVars
  BY <1>15, Stuttered
<1> QED
  BY <1>1, <1>2, <1>3, <1>4, <1>5, <1>6, <1>7, <1>8, <1>9, <1>10, <1>11, <1>12, <1>13, <1>14, <1>15, Zenon DEF AaNext

(* Whatever is received keeps its shape, and ordinary work never belongs   *)
(* to the person who asked for it, however many technicians and tickets    *)
(* there are and whatever happens between a choice and its save (the       *)
(* requester is left out at 1141-1157 and looked at again by               *)
(* canAutomaticallyAssign).                                                *)
THEOREM OwnersAlwaysFit ==
  AaSpec => []AaOwnersFit
<1>1. AaInv => AaOwnersFit
  <2> SUFFICES ASSUME AaInv PROVE AaOwnersFit
    OBVIOUS
  <2>1. aaRow \in [AaTickets -> AaRows]
    <3>1. PICK q : q = aaRow
      OBVIOUS
    <3>2. q = [t \in AaTickets |-> q[t]] /\ \A t \in AaTickets : q[t] \in AaRows
      BY <3>1 DEF AaInv, RowsInv, RowFits
    <3> QED
      BY <3>1, <3>2
  <2>2. aaJob.op \in {"none", "file", "pickup", "handoff", "alert"} /\ aaJob.row \in AaRows
    BY DEF AaInv, JobInv, AaJobs
  <2>3. aaOpening.op \in {"none", "open"} /\ aaOpening.row \in AaRows
    BY DEF AaInv, OpeningInv, AaJobs
  <2>4. AaTypeOK
    BY <2>1, <2>2, <2>3 DEF AaInv, DayInv, AaTypeOK
  <2>5. AaNobodyServesThemselves
    BY DEF AaInv, RowsInv, RowFits, AaNobodyServesThemselves
  <2> QED
    BY <2>4, <2>5 DEF AaOwnersFit
<1> QED
  BY <1>1, Begins, AaInvStep, PTL DEF AaSpec

-----------------------------------------------------------------------------
(* Choices that are saved                                                  *)

LEMMA LastReceivedIs ==
  ASSUME AaInv, NEW k \in AaTechnicians
  PROVE  /\ AaLastReceived(k) \in Nat /\ AaLastReceived(k) <= aaTurn[k] /\ aaTurn[k] \in Nat
         /\ \A t \in AaTickets : aaRow[t].owner = k => aaRow[t].at \in Nat /\ aaRow[t].at <= AaLastReceived(k)
<1> DEFINE ats == {aaRow[t].at : t \in {u \in AaTickets : aaRow[u].owner = k}}
<1>1. aaTurn[k] \in Nat /\ k # AaNobody
  BY AaHoursAssumption, AaTicketsAssumption DEF AaInv, DayInv, AaAccounts
<1>2. \A a \in ats : a \in 0..(AaMaxTurns + 1) /\ a <= aaTurn[k]
  BY <1>1 DEF AaInv, RowsInv, RowFits, AaRows
<1>3. \A t \in AaTickets : aaRow[t].owner = k => aaRow[t].at \in ats
  OBVIOUS
<1>4. AaLastReceived(k) = IF ats = {} THEN 0 ELSE CHOOSE a \in ats : \A b \in ats : a >= b
  BY Zenon DEF AaLastReceived
<1> HIDE DEF ats
<1>5. CASE ats = {}
  BY <1>1, <1>3, <1>4, <1>5
<1>6. CASE ats # {}
  <2>1. PICK n \in Nat : n = AaMaxTurns + 1
    BY AaHoursAssumption
  <2>2. ats \in SUBSET (0..n)
    BY <1>2, <2>1
  <2>3. \E e \in ats : \A d \in ats : d <= e
    BY <1>6, <2>2, HasGreatest
  <2>4. \E e \in ats : \A d \in ats : e >= d
    BY <1>2, <2>1, <2>3
  <2>5. PICK a : a = AaLastReceived(k)
    OBVIOUS
  <2>6. a \in ats /\ \A d \in ats : a >= d
    BY <1>4, <1>6, <2>4, <2>5
  <2>7. \A d \in ats : d \in Nat /\ d <= aaTurn[k] /\ d <= a
    BY <1>2, <2>1, <2>6
  <2> QED
    BY <1>1, <1>3, <2>5, <2>6, <2>7
<1> QED
  BY <1>5, <1>6

LEMMA PromotedKeeps ==
  ASSUME NEW q, NEW k, NEW t \in AaTickets
  PROVE  AaPromoted(q, k)[t] = q[t] \/ q[t].status \in {"assigned", "pause"}
<1> DEFINE own     == {u \in AaTickets : q[u].owner = k /\ q[u].status \in {"assigned", "in_progress", "pause"}}
           waiting == {u \in own : q[u].waits /\ q[u].status # "in_progress"}
           moved   == [u \in AaTickets |->
                         IF u \in waiting /\ \A v \in waiting : u <= v
                         THEN [q[u] EXCEPT !.status = "in_progress", !.waits = FALSE] ELSE q[u]]
<1>1. AaPromoted(q, k) = q \/ AaPromoted(q, k) = moved
  BY DEF AaPromoted
<1>2. t \in waiting => q[t].status \in {"assigned", "pause"}
  OBVIOUS
<1>3. moved[t] = q[t] \/ t \in waiting
  <2> HIDE DEF waiting
  <2> QED
    BY Zenon
<1> HIDE DEF moved, waiting
<1> QED
  BY <1>1, <1>2, <1>3, Zenon

LEMMA MovedKeeps ==
  ASSUME AaInv, NEW t \in AaTickets, NEW k, aaRow[t].status # "resolved",
         NEW u \in AaTickets, aaRow[u].status = "resolved"
  PROVE  AaMoved(t, k)[u].status = "resolved"
<1>1. PICK g : g = AaGiven(aaRow[t], k, IF aaRow[t].status = "pause" THEN "pause"
                                        ELSE IF AaBusy(k) THEN "assigned" ELSE "in_progress", AaBusy(k))
  OBVIOUS
<1>2. PICK q : q = [aaRow EXCEPT ![t] = g]
  OBVIOUS
<1>3. q[u] = aaRow[u]
  BY <1>2 DEF AaInv, RowsInv
<1>4. AaMoved(t, k) = AaPromoted(q, aaRow[t].owner)
  BY <1>1, <1>2, Zenon DEF AaMoved
<1> QED
  BY <1>3, <1>4, PromotedKeeps

(* The ticket a handler holds goes to the technician it chose or stays     *)
(* without an owner; no other ticket without an owner moves meanwhile.     *)
LEMMA OnlyTheHolderHandsOut ==
  ASSUME AaInv, AaNext, aaJob.op \in LockOps, NEW t \in AaTickets, aaRow[t].owner = AaNobody
  PROVE  \/ aaRow'[t] = aaRow[t]
         \/ AaFile /\ aaRow'[t].owner = AaNobody
         \/ AaFile /\ aaJob.op = "file" /\ t = aaJob.ticket /\ aaRow'[t].owner = aaJob.who /\ aaJob.who \in AaTechnicians
              /\ (aaJob.pool = "named" \/ AaStillEligible(aaJob.who, aaJob.pool, aaDay.no, aaJob.row.req))
         \/ AaHandOut /\ aaJob.op \in {"pickup", "handoff"} /\ t = aaJob.ticket /\ aaRow'[t].owner = aaJob.who
              /\ aaJob.who \in AaTechnicians
<1>1. DayInv /\ aaJob # AaFree /\ aaJob.op # "alert"
  <2>1. DayInv /\ AaFree.op = "none"
    BY FreeIs DEF AaInv
  <2> QED
    BY <2>1 DEF LockOps
<1>2. RowFits(aaRow[t]) /\ aaRow = [u \in AaTickets |-> aaRow[u]]
  BY DEF AaInv, RowsInv
<1>3. aaRow[t].status \in {"none", "open"}
  BY <1>2 DEF RowFits
<1>4. CASE AaFile
  <2> DEFINE kept == /\ aaJob.who # AaNobody
                     /\ aaJob.pool = "named" \/ AaStillEligible(aaJob.who, aaJob.pool, aaDay.no, aaJob.row.req)
  <2>1. /\ aaJob.op = "file"
        /\ \/ aaRow' = aaRow
           \/ kept /\ aaRow' = [aaRow EXCEPT ![aaJob.ticket] = [aaJob.row EXCEPT !.at = AaNow]]
           \/ aaRow' = [aaRow EXCEPT ![aaJob.ticket] = [AaReturned(aaJob.row) EXCEPT !.waits = TRUE]]
    BY <1>4, Zenon DEF AaFile
  <2>2. PICK v \in AaTickets, r \in AaRows, k \in Owners : v = aaJob.ticket /\ r = aaJob.row /\ k = aaJob.who
    BY <2>1 DEF AaInv, JobInv, AaJobs, Owners
  <2>3. RowFits(r) /\ r.owner = k /\ r.status # "none"
    BY <2>1, <2>2 DEF AaInv, JobInv
  <2>4. CASE aaRow' = aaRow
    BY <2>4
  <2>5. CASE kept /\ aaRow' = [aaRow EXCEPT ![aaJob.ticket] = [aaJob.row EXCEPT !.at = AaNow]]
    <3>1. PICK w \in AaTechnicians : w = k
      BY <2>2, <2>5 DEF Owners
    <3>2. PICK g : g = [r EXCEPT !.at = AaNow]
      OBVIOUS
    <3>3. g.owner = w
      BY <1>1, <2>3, <3>1, <3>2, DatedFits
    <3>4. aaRow' = [aaRow EXCEPT ![v] = g]
      BY <2>2, <2>5, <3>2, Zenon
    <3>5. aaRow'[t] = IF t = v THEN g ELSE aaRow[t]
      BY <1>2, <3>4
    <3> QED
      BY <1>4, <2>1, <2>2, <2>5, <3>1, <3>3, <3>5
  <2>6. CASE aaRow' = [aaRow EXCEPT ![aaJob.ticket] = [AaReturned(aaJob.row) EXCEPT !.waits = TRUE]]
    <3>1. PICK w \in BOOLEAN : w = TRUE
      BY Zenon
    <3>2. PICK g : g = [AaReturned(r) EXCEPT !.waits = w]
      OBVIOUS
    <3>3. g.owner = AaNobody
      BY <1>1, <2>3, <3>2, ReturnedFits
    <3>4. aaRow' = [aaRow EXCEPT ![v] = g]
      BY <2>2, <2>6, <3>1, <3>2, Zenon
    <3>5. aaRow'[t] = IF t = v THEN g ELSE aaRow[t]
      BY <1>2, <3>4
    <3> QED
      BY <1>4, <3>3, <3>5
  <2> QED
    BY <2>1, <2>4, <2>5, <2>6
<1>5. CASE AaHandOut
  <2>1. /\ aaJob.op \in {"pickup", "handoff"}
        /\ aaRow' = aaRow \/ aaRow' = [aaRow EXCEPT ![aaJob.ticket] = [aaJob.row EXCEPT !.at = AaNow]]
    BY <1>5, Zenon DEF AaHandOut
  <2>2. PICK v \in AaTickets, r \in AaRows, k \in AaTechnicians : v = aaJob.ticket /\ r = aaJob.row /\ k = aaJob.who
    BY <2>1 DEF AaInv, JobInv, AaJobs
  <2>3. RowFits(r) /\ r.owner = k
    BY <2>1, <2>2 DEF AaInv, JobInv
  <2>4. CASE aaRow' = aaRow
    BY <2>4
  <2>5. CASE aaRow' = [aaRow EXCEPT ![aaJob.ticket] = [aaJob.row EXCEPT !.at = AaNow]]
    <3>1. PICK g : g = [r EXCEPT !.at = AaNow]
      OBVIOUS
    <3>2. g.owner = k
      BY <1>1, <2>3, <3>1, DatedFits
    <3>3. aaRow' = [aaRow EXCEPT ![v] = g]
      BY <2>2, <2>5, <3>1, Zenon
    <3>4. aaRow'[t] = IF t = v THEN g ELSE aaRow[t]
      BY <1>2, <3>3
    <3> QED
      BY <1>5, <2>1, <2>2, <3>2, <3>4
  <2> QED
    BY <2>1, <2>4, <2>5
<1>6. CASE AaOpen
  <2>1. /\ aaOpening.op = "open"
        /\ \/ aaRow' = aaRow
           \/ aaRow[aaOpening.ticket] = aaOpening.row /\ \E g : aaRow' = [aaRow EXCEPT ![aaOpening.ticket] = g]
    BY <1>6, Zenon DEF AaOpen
  <2>2. aaOpening.row.status \in {"in_progress", "resolved"}
    BY <2>1 DEF AaInv, OpeningInv
  <2>3. CASE aaRow' = aaRow
    BY <2>3
  <2>4. CASE aaRow[aaOpening.ticket] = aaOpening.row /\ \E g : aaRow' = [aaRow EXCEPT ![aaOpening.ticket] = g]
    <3>1. t # aaOpening.ticket
      BY <1>3, <2>2, <2>4
    <3> QED
      BY <1>2, <2>4, <3>1
  <2> QED
    BY <2>1, <2>3, <2>4
<1>7. ASSUME NEW u \in AaTickets, AaWork(u)
      PROVE  aaRow'[t] = aaRow[t]
  <2>1. PICK s : aaRow[u].status \in {"assigned", "in_progress"} /\ aaRow' = [aaRow EXCEPT ![u].status = s]
    BY <1>7 DEF AaWork
  <2>2. u # t
    BY <1>3, <2>1
  <2> QED
    BY <1>2, <2>1, <2>2
<1>8. CASE \E k \in AaTechnicians, s \in {"available", "withheld", "away"} : AaAttend(k, s)
  BY <1>8 DEF AaAttend
<1>9. CASE \E kind \in {"office", "free", "overtime"}, w \in {0, 1} : AaNewDay(kind, w)
  BY <1>9 DEF AaNewDay
<1>10. ASSUME NEW u \in AaTickets, AaReadOpening(u)
       PROVE  aaRow'[t] = aaRow[t]
  BY <1>10 DEF AaReadOpening
<1>11. ~ AaLockFree
  BY <1>1 DEF AaLockFree
<1>12. \A u \in AaTickets : ~ AaChooseForFiling(u) /\ ~ AaPickForAlert(u)
  BY <1>1, <1>11 DEF AaChooseForFiling, AaPickForAlert
<1>13. ~ AaAssignForAlert
  BY <1>1 DEF AaAssignForAlert
<1>14. \A k \in AaTechnicians : ~ AaChooseForPickup(k) /\ ~ AaReadAlert(k) /\ ~ AaChooseForHandoff(k)
  BY <1>11 DEF AaChooseForPickup, AaReadAlert, AaChooseForHandoff
<1>15. \A u \in AaTickets, k \in AaTechnicians : ~ AaAssign(u, k)
  BY <1>11 DEF AaAssign
<1> QED
  BY <1>4, <1>5, <1>6, <1>7, <1>8, <1>9, <1>10, <1>12, <1>13, <1>14, <1>15, Zenon DEF AaNext

LEMMA LooksAgain ==
  ASSUME AaInv, AaNext
  PROVE  AaFilingLooksAgain
<1> SUFFICES ASSUME NEW t \in AaTickets, aaJob.op = "file", aaJob.pool # "named", aaRow[t].owner = AaNobody,
                    aaRow'[t].owner # AaNobody, aaJob.ticket = t
             PROVE  aaAtt[aaDay.no][aaRow'[t].owner] = "available"
  BY Zenon DEF AaFilingLooksAgain
<1>1. /\ aaRow'[t].owner = aaJob.who
      /\ AaStillEligible(aaJob.who, aaJob.pool, aaDay.no, aaJob.row.req)
  BY OnlyTheHolderHandsOut DEF LockOps
<1>2. DayInv /\ aaDay.no \in 0..AaLastDay
  BY DEF AaInv, DayInv
<1>3. aaJob.who \in AaPool(aaJob.pool, aaDay.no)
  BY <1>1 DEF AaStillEligible
<1>4. aaAtt[aaDay.no][aaJob.who] = "available"
  BY <1>2, <1>3, PoolIs
<1> QED
  BY <1>1, <1>4

LEMMA StaysBelowTheCap ==
  ASSUME AaInv, AaNext
  PROVE  AaCapHolds
<1> SUFFICES ASSUME NEW k \in AaTechnicians, aaStrategy = "robin", aaJob.op \in {"file", "pickup", "handoff"},
                    aaJob.pool # "named", aaRow[aaJob.ticket].owner = AaNobody, aaRow'[aaJob.ticket].owner = k,
                    AaUndisturbed
             PROVE  AaLoad(k) < AaCap
  BY Zenon DEF AaCapHolds
<1>1. PICK t \in AaTickets : t = aaJob.ticket
  BY DEF AaInv, JobInv
<1>2. k # AaNobody
  BY AaTicketsAssumption DEF AaAccounts
<1>3. k = aaJob.who
  BY <1>1, <1>2, OnlyTheHolderHandsOut DEF LockOps
<1>4. AaLoad(aaJob.who) < AaCap
  BY <1>2, <1>3 DEF AaInv, ChoiceStands
<1> QED
  BY <1>3, <1>4

LEMMA StartsWithNothingElse ==
  ASSUME AaInv, AaNext
  PROVE  AaStartsAlone
<1> SUFFICES ASSUME NEW t \in AaTickets, aaJob.op \in {"pickup", "handoff"}, aaJob.ticket = t, aaStrategy = "zero",
                    aaRow[t].owner = AaNobody, aaRow'[t].status = "in_progress", AaUndisturbed
             PROVE  AaHeld(aaJob.who, {"in_progress"}) = {}
  BY Zenon DEF AaStartsAlone
<1>1. aaJob.who \in AaTechnicians /\ aaJob.who # AaNobody /\ aaJob.pool # "named"
  BY AaTicketsAssumption DEF AaInv, JobInv, AaAccounts
<1>2. AaHeld(aaJob.who, {"assigned", "in_progress"}) = {}
  BY <1>1 DEF AaInv, ChoiceStands
<1> QED
  BY <1>2 DEF AaHeld

LEMMA FinishedStays ==
  ASSUME AaInv, AaNext
  PROVE  AaFinishedStays
<1> SUFFICES ASSUME NEW t \in AaTickets, aaRow[t].status = "resolved", ~ (aaOpening.op = "open" /\ aaOpening.ticket = t)
             PROVE  aaRow'[t].status = "resolved"
  BY Zenon DEF AaFinishedStays
<1>1. DayInv /\ aaRow = [u \in AaTickets |-> aaRow[u]]
  BY DEF AaInv, RowsInv
<1>2. CASE AaFile
  <2>1. /\ aaJob.op = "file"
        /\ aaRow' = aaRow \/ \E g : aaRow' = [aaRow EXCEPT ![aaJob.ticket] = g]
    BY <1>2, Zenon DEF AaFile
  <2>2. t # aaJob.ticket
    BY <1>1, <2>1, FreeIs DEF AaInv, JobInv
  <2> QED
    BY <1>1, <2>1, <2>2
<1>3. CASE AaHandOut
  <2>1. /\ aaJob.op \in {"pickup", "handoff"}
        /\ aaRow' = aaRow \/ \E g : aaRow' = [aaRow EXCEPT ![aaJob.ticket] = g]
    BY <1>3, Zenon DEF AaHandOut
  <2>2. t # aaJob.ticket
    BY <2>1 DEF AaInv, JobInv
  <2> QED
    BY <1>1, <2>1, <2>2
<1>4. CASE AaAssignForAlert
  <2>1. /\ aaJob.op = "alert" /\ aaJob.ticket # 0
        /\ \/ AaSameVersion(aaJob.ticket) /\ aaRow' = AaMoved(aaJob.ticket, aaJob.pool)
           \/ aaRow' = aaRow
    BY <1>4, Zenon DEF AaAssignForAlert
  <2>2. PICK u \in AaTickets : u = aaJob.ticket
    BY <2>1 DEF AaInv, JobInv, AaJobs
  <2>5. PICK k : k = aaJob.pool
    OBVIOUS
  <2>3. aaJob.row.status # "resolved"
    BY <2>1 DEF AaInv, JobInv
  <2>4. CASE AaSameVersion(aaJob.ticket) /\ aaRow' = AaMoved(aaJob.ticket, aaJob.pool)
    <3>1. aaRow[u].status # "resolved" /\ aaRow' = AaMoved(u, k)
      BY <2>2, <2>3, <2>4, <2>5 DEF AaSameVersion
    <3> QED
      BY <3>1, MovedKeeps
  <2> QED
    BY <2>1, <2>4
<1>5. CASE AaOpen
  <2>1. /\ aaOpening.op = "open"
        /\ aaRow' = aaRow \/ \E g : aaRow' = [aaRow EXCEPT ![aaOpening.ticket] = g]
    BY <1>5, Zenon DEF AaOpen
  <2> QED
    BY <1>1, <2>1
<1>6. ASSUME NEW u \in AaTickets, AaWork(u)
      PROVE  aaRow'[t].status = "resolved"
  <2>1. PICK s : aaRow[u].status \in {"assigned", "in_progress"} /\ aaRow' = [aaRow EXCEPT ![u].status = s]
    BY <1>6 DEF AaWork
  <2>2. u # t
    BY <2>1
  <2> QED
    BY <1>1, <2>1, <2>2
<1>7. ASSUME NEW u \in AaTickets, NEW k \in AaTechnicians, AaAssign(u, k)
      PROVE  aaRow'[t].status = "resolved"
  <2>1. aaRow[u].status # "resolved" /\ aaRow' = AaMoved(u, k)
    BY <1>7 DEF AaAssign
  <2> QED
    BY <2>1, MovedKeeps
<1>8. ASSUME NEW k \in AaTechnicians, AaChooseForHandoff(k)
      PROVE  aaRow'[t].status = "resolved"
  <2> DEFINE waiting == {u \in AaHeld(k, {"assigned", "pause"}) : aaRow[u].waits}
             started == [u \in AaTickets |->
                           IF u \in AaOldest(waiting)
                           THEN [aaRow[u] EXCEPT !.status = "in_progress", !.waits = FALSE] ELSE aaRow[u]]
  <2>1. aaRow' = AaPromoted(aaRow, k) \/ aaRow' = started \/ aaRow' = aaRow
    BY <1>8, Zenon DEF AaChooseForHandoff
  <2>2. AaPromoted(aaRow, k)[t] = aaRow[t]
    BY PromotedKeeps
  <2>3. started[t] = aaRow[t]
    <3>1. t \notin AaOldest(waiting)
      BY DEF AaOldest, AaHeld
    <3> HIDE DEF waiting
    <3> QED
      BY <3>1
  <2> HIDE DEF started
  <2> QED
    BY <2>1, <2>2, <2>3
<1>9. CASE \E k \in AaTechnicians, s \in {"available", "withheld", "away"} : AaAttend(k, s)
  BY <1>9 DEF AaAttend
<1>10. CASE \E kind \in {"office", "free", "overtime"}, w \in {0, 1} : AaNewDay(kind, w)
  BY <1>10 DEF AaNewDay
<1>11. ASSUME NEW u \in AaTickets, AaReadOpening(u) \/ AaPickForAlert(u) \/ AaChooseForFiling(u)
       PROVE  aaRow'[t].status = "resolved"
  BY <1>11 DEF AaReadOpening, AaPickForAlert, AaChooseForFiling
<1>12. ASSUME NEW k \in AaTechnicians, AaChooseForPickup(k) \/ AaReadAlert(k)
       PROVE  aaRow'[t].status = "resolved"
  BY <1>12 DEF AaChooseForPickup, AaReadAlert
<1> QED
  BY <1>2, <1>3, <1>4, <1>5, <1>6, <1>7, <1>8, <1>9, <1>10, <1>11, <1>12, Zenon DEF AaNext

(* Only a filing begins a filing.                                          *)
LEMMA TakesItsOp ==
  ASSUME DayInv, NEW op, NEW t, NEW r, NEW k, NEW p, AaTake(op, k, t, r, p)
  PROVE  aaJob'.op = op
<1>1. PICK f \in AaJobs : f = AaFree
  BY FreeIs
<1>2. PICK d : d = aaDay.no
  OBVIOUS
<1>3. PICK x : x = aaJob'
  OBVIOUS
<1>4. x = [f EXCEPT !.op = op, !.ticket = t, !.row = r, !.who = k, !.pool = p, !.day = d]
  BY <1>1, <1>2, <1>3, Zenon DEF AaTake
<1>5. x.op = op
  BY <1>4 DEF AaJobs
<1> QED
  BY <1>3, <1>5, Zenon

LEMMA FilingBegins ==
  ASSUME AaInv, AaNext, aaJob.op = "none", aaJob'.op = "file"
  PROVE  \E t \in AaTickets : AaChooseForFiling(t)
<1>1. DayInv /\ aaJob' # aaJob
  BY DEF AaInv
<1>2. ~ AaFile /\ ~ AaHandOut /\ ~ AaAssignForAlert /\ ~ AaOpen
  BY <1>1 DEF AaFile, AaHandOut, AaAssignForAlert, AaOpen
<1>3. \A t \in AaTickets : ~ AaPickForAlert(t) /\ ~ AaReadOpening(t) /\ ~ AaWork(t)
  BY <1>1 DEF AaPickForAlert, AaReadOpening, AaWork
<1>4. \A t \in AaTickets, k \in AaTechnicians : ~ AaAssign(t, k)
  BY <1>1 DEF AaAssign
<1>5. ~ \E k \in AaTechnicians, s \in {"available", "withheld", "away"} : AaAttend(k, s)
  BY <1>1 DEF AaAttend
<1>6. ~ \E kind \in {"office", "free", "overtime"}, w \in {0, 1} : AaNewDay(kind, w)
  BY <1>1 DEF AaNewDay
<1>7. \A k \in AaTechnicians : ~ AaChooseForPickup(k)
  <2> SUFFICES ASSUME NEW k \in AaTechnicians, AaChooseForPickup(k)
               PROVE  FALSE
    OBVIOUS
  <2>1. \E t \in AaPickable(k) : \E given \in AaReceptions(aaRow[t], k) : AaTake("pickup", k, t, given, AaTeam[k])
    BY DEF AaChooseForPickup
  <2>2. PICK t, given : AaTake("pickup", k, t, given, AaTeam[k])
    BY <2>1
  <2>3. aaJob'.op = "pickup"
    BY <1>1, <2>2, TakesItsOp
  <2> QED
    BY <2>3
<1>8. \A k \in AaTechnicians : ~ AaChooseForHandoff(k)
  <2> SUFFICES ASSUME NEW k \in AaTechnicians, AaChooseForHandoff(k)
               PROVE  FALSE
    OBVIOUS
  <2>1. aaJob' = aaJob \/ \E t : AaTake("handoff", k, t, AaGiven(aaRow[t], k, "in_progress", FALSE), "all")
    BY Zenon DEF AaChooseForHandoff
  <2>2. PICK t : AaTake("handoff", k, t, AaGiven(aaRow[t], k, "in_progress", FALSE), "all")
    BY <1>1, <2>1
  <2>3. PICK given : AaTake("handoff", k, t, given, "all")
    BY <2>2
  <2>4. aaJob'.op = "handoff"
    BY <1>1, <2>3, TakesItsOp
  <2> QED
    BY <2>4
<1>9. \A k \in AaTechnicians : ~ AaReadAlert(k)
  <2> SUFFICES ASSUME NEW k \in AaTechnicians, AaReadAlert(k)
               PROVE  FALSE
    OBVIOUS
  <2>1. PICK f \in AaJobs : f = AaFree
    BY <1>1, FreeIs
  <2>2. PICK op, d, T : op = "alert" /\ d = aaDay.no /\ T = AaHeld(k, {"assigned", "in_progress"})
    OBVIOUS
  <2>3. PICK x : x = aaJob'
    OBVIOUS
  <2>4. x = [f EXCEPT !.op = op, !.who = k, !.day = d, !.todo = T]
    BY <2>1, <2>2, <2>3, Zenon DEF AaReadAlert
  <2>5. x.op = op
    BY <2>4 DEF AaJobs
  <2> QED
    BY <2>2, <2>3, <2>5
<1> QED
  BY <1>2, <1>3, <1>4, <1>5, <1>6, <1>7, <1>8, <1>9, Zenon DEF AaNext

LEMMA TurnsKept ==
  ASSUME AaInv, AaNext
  PROVE  AaTurnsAreKept
<1> SUFFICES ASSUME aaJob.op = "none", aaJob'.op = "file", aaStrategy = "robin",
                    aaJob'.who # AaNobody, aaJob'.pool # "named",
                    NEW j \in AaPool(aaJob'.pool, aaDay.no) \ {aaJob'.row.req}, AaBelowCap(j),
                    NEW t0 \in AaTickets, aaRow[t0].owner = aaJob'.who, aaRow[t0].at = aaTurn[aaJob'.who]
             PROVE  aaTurn[j] >= aaTurn[aaJob'.who]
  BY Zenon DEF AaTurnsAreKept
<1>1. PICK t \in AaTickets : AaChooseForFiling(t)
  BY FilingBegins
<1>2. PICK f \in AaFilings :
       LET draft   == [AaUnfiled EXCEPT !.type = f.type, !.req = f.req, !.by = f.by, !.status = "open"]
           auto    == AaFilingChoices(f.type, f.req)
           none    == IF auto = {} THEN {[who |-> AaNobody, pool |-> "all"]} ELSE {}
           named   == {[who |-> k, pool |-> "named"] : k \in {n \in AaTechnicians : AaMayBeNamed(draft, n)}}
       IN  \E c \in auto \cup none \cup named :
             \E given \in IF c.who = AaNobody THEN {draft} ELSE AaReceptions(draft, c.who) :
               aaJob' = [AaFree EXCEPT !.op = "file", !.ticket = t, !.row = given, !.who = c.who,
                                       !.pool = c.pool, !.day = aaDay.no, !.pending = f.pending]
  BY <1>1, Zenon DEF AaChooseForFiling
<1> DEFINE draft   == [AaUnfiled EXCEPT !.type = f.type, !.req = f.req, !.by = f.by, !.status = "open"]
           auto    == AaFilingChoices(f.type, f.req)
           none    == IF auto = {} THEN {[who |-> AaNobody, pool |-> "all"]} ELSE {}
           named   == {[who |-> k, pool |-> "named"] : k \in {n \in AaTechnicians : AaMayBeNamed(draft, n)}}
<1>3. PICK c \in auto \cup none \cup named :
             \E given \in IF c.who = AaNobody THEN {draft} ELSE AaReceptions(draft, c.who) :
               aaJob' = [AaFree EXCEPT !.op = "file", !.ticket = t, !.row = given, !.who = c.who,
                                       !.pool = c.pool, !.day = aaDay.no, !.pending = f.pending]
  BY <1>2, Zenon
<1>4. PICK given \in IF c.who = AaNobody THEN {draft} ELSE AaReceptions(draft, c.who) :
               aaJob' = [AaFree EXCEPT !.op = "file", !.ticket = t, !.row = given, !.who = c.who,
                                       !.pool = c.pool, !.day = aaDay.no, !.pending = f.pending]
  BY <1>3, Zenon
<1>5. DayInv /\ aaDay.no \in 0..AaLastDay /\ f.type \in AaTypes
  BY AaFilingsAssumption DEF AaInv, DayInv
<1>6. aaJob'.who = c.who /\ aaJob'.pool = c.pool /\ aaJob'.row = given
  <2>1. PICK g \in AaJobs : g = AaFree
    BY <1>5, FreeIs
  <2>2. PICK op, who, pool, d, b : op = "file" /\ who = c.who /\ pool = c.pool /\ d = aaDay.no /\ b = f.pending
    OBVIOUS
  <2>3. PICK x : x = aaJob'
    OBVIOUS
  <2>4. x = [g EXCEPT !.op = op, !.ticket = t, !.row = given, !.who = who, !.pool = pool, !.day = d, !.pending = b]
    BY <1>4, <2>1, <2>2, <2>3, Zenon
  <2>5. x.who = who /\ x.pool = pool /\ x.row = given
    BY <2>4 DEF AaJobs
  <2> QED
    BY <2>2, <2>3, <2>5
<1>7. c \in auto
  <2>1. ASSUME c \in none PROVE FALSE
    <3>1. c = [who |-> AaNobody, pool |-> "all"]
      BY <2>1
    <3> QED
      BY <1>6, <3>1
  <2>2. ASSUME c \in named PROVE FALSE
    <3>1. PICK k : c = [who |-> k, pool |-> "named"]
      BY <2>2
    <3> QED
      BY <1>6, <3>1
  <2> HIDE DEF auto, none, named
  <2> QED
    BY <1>3, <2>1, <2>2
<1>8. RowFits(draft) /\ draft.req = f.req /\ draft.type = f.type
  BY DraftFits, Zenon
<1>9. PICK p \in AaTypes \cup {"all"} : c.pool = p /\ c.who \in AaChoice(AaPool(p, aaDay.no) \ {f.req})
  BY <1>5, <1>7, FilingChoice, Zenon
<1>10. PICK E : E = AaPool(p, aaDay.no) \ {f.req}
  OBVIOUS
<1> HIDE DEF draft, auto, none, named
<1>11. c.who \in E /\ \A i \in E : AaBelowCap(i) => AaLastReceived(c.who) <= AaLastReceived(i)
  BY <1>5, <1>9, <1>10, ChoiceIs
<1>12. PICK k \in AaTechnicians : k = c.who /\ k # f.req
  <2>1. c.who \in AaPool(p, aaDay.no) /\ c.who # f.req
    BY <1>10, <1>11
  <2> QED
    BY <1>5, <2>1, PoolIs
<1>13. given.req = f.req
  <2>1. given \in AaReceptions(draft, k)
    BY <1>6, <1>12
  <2> QED
    BY <1>8, <1>12, <2>1, ReceptionFits
<1>14. j \in E /\ j \in AaTechnicians
  <2>1. j \in AaPool(p, aaDay.no) /\ j # f.req
    BY <1>6, <1>9, <1>13
  <2> QED
    BY <1>5, <1>10, <2>1, PoolIs
<1>15. AaLastReceived(k) <= AaLastReceived(j)
  BY <1>11, <1>12, <1>14
<1>16. /\ AaLastReceived(k) \in Nat /\ aaTurn[k] <= AaLastReceived(k) /\ aaTurn[k] \in Nat
  BY <1>6, <1>12, LastReceivedIs
<1>17. AaLastReceived(j) \in Nat /\ AaLastReceived(j) <= aaTurn[j] /\ aaTurn[j] \in Nat
  BY <1>14, LastReceivedIs
<1>18. aaTurn[j] >= aaTurn[k]
  BY <1>15, <1>16, <1>17
<1> QED
  BY <1>6, <1>12, <1>18

(* What was true of the technician a handler chose is still true, or is    *)
(* looked at again, when it saves: a filing finds the technician           *)
(* available on the day it is saved; the cap and an empty desk hold unless *)
(* a reopening handed a ticket out in between; the round robin passes over *)
(* nobody who waits longer; and a finished ticket stays finished until it  *)
(* is reopened (1379-1387, 1649-1662, 1830-1832, 5505, 5543).              *)
THEOREM ChoicesStand ==
  AaSpec => AaChoicesHold
<1>1. AaInv /\ [AaNext]_aaVars =>
        [AaFilingLooksAgain /\ AaCapHolds /\ AaTurnsAreKept /\ AaStartsAlone /\ AaFinishedStays]_aaVars
  <2> SUFFICES ASSUME AaInv, AaNext
               PROVE  AaFilingLooksAgain /\ AaCapHolds /\ AaTurnsAreKept /\ AaStartsAlone /\ AaFinishedStays
    OBVIOUS
  <2> QED
    BY LooksAgain, StaysBelowTheCap, TurnsKept, StartsWithNothingElse, FinishedStays
<1> QED
  BY <1>1, Begins, AaInvStep, PTL DEF AaSpec, AaChoicesHold
=============================================================================
