----------------------- MODULE TechnicianQueue_proofs -----------------------
(***************************************************************************)
(* Proofs about TechnicianQueue.  Every operation rewrites a table of      *)
(* tickets, in one or two moves of a single row; the lemmas say what such  *)
(* a move does to one staff member's queue.  Sound is the part of the      *)
(* invariant that holds whatever happens; Served is what the operations in *)
(* ServingOps maintain on top of it.  And about DutyRoster: a              *)
(* reconciliation, stage by stage, begins no duty and makes no absence     *)
(* (Follows); DutyInv says what a handler cut off between two saves still  *)
(* owes the coverage and the log.                                          *)
(***************************************************************************)
EXTENDS TechnicianQueue, DutyRoster, NaturalsInduction, WellFoundedInduction, TLAPS

Table == [Tickets -> Row]

(* In table q, tickets in progress do not wait.                            *)
Runs(q) == \A t \in Tickets : q[t].status = "in_progress" => ~q[t].waiting

(* In table q, assigned tickets wait.                                      *)
Waits(q) == \A t \in Tickets : q[t].status = "assigned" => q[t].waiting

(* In table q, the queue of k is empty or k has something active.          *)
Served(q, k) == Waiting(q, k) # {} => Active(q, k) # {}

Sound ==
  /\ TypeOK
  /\ Runs(tk)
  /\ \A h \in Handlers : req[h].pc = "handoff" => req[h].staff \in Staff

Serving ==
  /\ Sound
  /\ Waits(tk)
  /\ \A h \in Handlers : req[h].pc # "pushing"
  /\ \A k \in Staff : Served(tk, k) \/ Owed(k)

-----------------------------------------------------------------------------
(* Rows and tables.                                                        *)

LEMMA RowsTyped ==
  /\ NotFiled \in Row
  /\ \A k \in Staff \cup {NoOne}, late \in BOOLEAN :
       InProgress(k, late) \in Row /\ Queued(k, late) \in Row
BY DEF NotFiled, InProgress, Queued, Row, Status

(* One row replaced.                                                       *)
LEMMA MoveTyped ==
  ASSUME NEW q \in Table, NEW t \in Tickets, NEW r \in Row
  PROVE  [q EXCEPT ![t] = r] \in Table
BY DEF Table

LEMMA MoveRuns ==
  ASSUME NEW q \in Table, NEW t \in Tickets, NEW r \in Row, Runs(q),
         r.status = "in_progress" => ~r.waiting
  PROVE  Runs([q EXCEPT ![t] = r])
BY DEF Table, Runs

LEMMA MoveWaits ==
  ASSUME NEW q \in Table, NEW t \in Tickets, NEW r \in Row, Waits(q),
         r.status = "assigned" => r.waiting
  PROVE  Waits([q EXCEPT ![t] = r])
BY DEF Table, Waits

(* A row that is active for k after the move: k is served.                 *)
LEMMA MoveActive ==
  ASSUME NEW q \in Table, NEW t \in Tickets, NEW r \in Row, NEW k \in Staff,
         r.owner = k, r.status \in {"assigned", "in_progress", "pause"},
         r.status = "in_progress" \/ ~r.waiting
  PROVE  Served([q EXCEPT ![t] = r], k)
<1> DEFINE p == [q EXCEPT ![t] = r]
<1>1. p[t] = r
  BY DEF Table
<1>2. t \in Active(p, k)
  BY <1>1 DEF Active, Held
<1> QED
  BY <1>2 DEF Served

(* A row that was not active for k and does not wait for k afterwards.     *)
LEMMA MoveElsewhere ==
  ASSUME NEW q \in Table, NEW t \in Tickets, NEW r \in Row, NEW k \in Staff,
         Served(q, k), t \notin Active(q, k),
         r.owner # k \/ ~r.waiting \/ r.status \notin {"assigned", "pause"}
  PROVE  Served([q EXCEPT ![t] = r], k)
<1> DEFINE p == [q EXCEPT ![t] = r]
<1>1. p[t] = r /\ \A u \in Tickets \ {t} : p[u] = q[u]
  BY DEF Table
<1>2. \A u \in Active(q, k) : u \in Active(p, k)
  BY <1>1 DEF Active, Held
<1>3. \A u \in Waiting(p, k) : u \in Waiting(q, k)
  BY <1>1 DEF Waiting, Held
<1> QED
  BY <1>2, <1>3 DEF Served

(* A row queued for somebody busy: what keeps k busy is active.            *)
LEMMA MoveToBusy ==
  ASSUME NEW q \in Table, NEW t \in Tickets, NEW r \in Row, NEW k \in Staff,
         Served(q, k), Busy(q, k), t \notin Active(q, k)
  PROVE  Served([q EXCEPT ![t] = r], k)
<1> DEFINE p == [q EXCEPT ![t] = r]
<1>1. \A u \in Tickets \ {t} : p[u] = q[u]
  BY DEF Table
<1>2. \A u \in Active(q, k) : u \in Active(p, k)
  BY <1>1 DEF Active, Held
<1>3. Active(q, k) # {}
  BY DEF Busy, Served, Active, Waiting, Held
<1> QED
  BY <1>2, <1>3 DEF Served

-----------------------------------------------------------------------------
(* Promotions and handovers.                                               *)

LEMMA Promotion ==
  ASSUME NEW q \in Table, NEW k \in Staff, NEW p \in Promotions(q, k)
  PROVE  /\ p \in Table
         /\ Runs(q) => Runs(p)
         /\ Waits(q) => Waits(p)
         /\ Served(p, k)
         /\ \A j \in Staff : Served(q, j) => Served(p, j)
<1>1. CASE Waiting(q, k) = {}
  BY <1>1 DEF Promotions, Served
<1>2. CASE Waiting(q, k) # {}
  <2>1. PICK t \in OldestOf(Waiting(q, k)) : p = [q EXCEPT ![t] = InProgress(k, FALSE)]
    BY <1>2 DEF Promotions
  <2>2. t \in Waiting(q, k)
    BY DEF OldestOf
  <2>3. t \in Tickets /\ q[t].owner = k /\ q[t].waiting /\ q[t].status # "in_progress"
    BY <2>2 DEF Waiting, Held
  <2> DEFINE r == InProgress(k, FALSE)
  <2>4. /\ r \in Row /\ r.owner = k /\ r.status = "in_progress" /\ ~r.waiting
    BY RowsTyped DEF InProgress
  <2>5. p = [q EXCEPT ![t] = r]
    BY <2>1
  <2> HIDE DEF r
  <2>6. p \in Table
    BY <2>3, <2>4, <2>5, MoveTyped
  <2>7. Runs(q) => Runs(p)
    BY <2>3, <2>4, <2>5, MoveRuns
  <2>8. Waits(q) => Waits(p)
    BY <2>3, <2>4, <2>5, MoveWaits
  <2>9. Served(p, k)
    BY <2>3, <2>4, <2>5, MoveActive
  <2>10. ASSUME NEW j \in Staff, Served(q, j), j # k
         PROVE  Served(p, j)
    <3>1. t \notin Active(q, j)
      BY <2>3, <2>10 DEF Active, Held
    <3>2. r.owner # j
      BY <2>4, <2>10
    <3> QED
      BY <2>3, <2>4, <2>5, <2>10, <3>1, <3>2, MoveElsewhere
  <2> QED
    BY <2>6, <2>7, <2>8, <2>9, <2>10
<1> QED
  BY <1>1, <1>2

LEMMA Handover ==
  ASSUME NEW q \in Table, NEW k \in Staff \cup {NoOne}, NEW p \in Handovers(q, k)
  PROVE  /\ p \in Table
         /\ Runs(q) => Runs(p)
         /\ Waits(q) => Waits(p)
         /\ k \in Staff => Served(p, k)
         /\ \A j \in Staff : Served(q, j) => Served(p, j)
<1>1. CASE k # NoOne /\ Active(q, k) = {}
  <2>1. k \in Staff /\ p \in Promotions(q, k)
    BY <1>1 DEF Handovers
  <2> QED
    BY <2>1, Promotion
<1>2. CASE ~(k # NoOne /\ Active(q, k) = {})
  <2>1. p = q
    BY <1>2 DEF Handovers
  <2>2. k \in Staff => Active(q, k) # {}
    BY <1>2, QueueNoOneAssumption
  <2> QED
    BY <2>1, <2>2 DEF Served
<1> QED
  BY <1>1, <1>2

LEMMA MovingOn ==
  ASSUME NEW q \in Table, NEW k \in Staff, NEW p \in MovesOn(q, k)
  PROVE  /\ p \in Table
         /\ Runs(q) => Runs(p)
         /\ Waits(q) => Waits(p)
         /\ \A j \in Staff : Served(q, j) => Served(p, j)
<1>1. CASE p = q
  BY <1>1
<1>2. CASE p \in Promotions(q, k)
  BY <1>2, Promotion
<1>3. ASSUME NEW t \in Tickets, q[t].status = "open", q[t].owner = NoOne,
             p = [q EXCEPT ![t] = InProgress(k, FALSE)]
      PROVE  /\ p \in Table
             /\ Runs(q) => Runs(p)
             /\ Waits(q) => Waits(p)
             /\ \A j \in Staff : Served(q, j) => Served(p, j)
  <2> DEFINE r == InProgress(k, FALSE)
  <2>1. r \in Row /\ r.owner = k /\ r.status = "in_progress" /\ ~r.waiting
    BY RowsTyped DEF InProgress
  <2>2. p = [q EXCEPT ![t] = r]
    BY <1>3
  <2> HIDE DEF r
  <2>3. \A j \in Staff : t \notin Active(q, j)
    BY <1>3 DEF Active, Held
  <2>4. ASSUME NEW j \in Staff, Served(q, j) PROVE Served(p, j)
    BY <2>1, <2>2, <2>3, <2>4, MoveElsewhere
  <2> QED
    BY <2>1, <2>2, <2>4, MoveTyped, MoveRuns, MoveWaits
<1> QED
  BY <1>1, <1>2, <1>3 DEF MovesOn

-----------------------------------------------------------------------------
(* Single actions.  Each lemma says that the table stays sound and, for    *)
(* the operations in ServingOps, that nobody's queue is left unserved.     *)

SoundAfter == tk' \in Table /\ Runs(tk')

ServedAfter == Waits(tk') /\ \A k \in Staff : Served(tk, k) => Served(tk', k)

LEMMA Facts ==
  ASSUME Sound
  PROVE  /\ tk \in Table /\ Runs(tk)
         /\ \A t \in Tickets : /\ tk[t] \in Row /\ tk[t].owner \in Staff \cup {NoOne}
                                 /\ tk[t].waiting \in BOOLEAN /\ tk[t].overdue \in BOOLEAN
                                 /\ tk[t].status \in Status \cup {"none"}
BY DEF Sound, TypeOK, Table, Row

LEMMA ReceivedFits ==
  ASSUME NEW k \in Staff, NEW b, NEW r, r = Received(tk, k, b)
  PROVE  /\ r \in Row /\ r.owner = k
         /\ r.status = "in_progress" => ~r.waiting
         /\ r.status = "assigned" => r.waiting
         /\ r.status = "in_progress" \/ Busy(tk, k)
<1>1. r = InProgress(k, FALSE) \/ (r = Queued(k, FALSE) /\ Busy(tk, k))
  BY DEF Received
<1>2. CASE r = InProgress(k, FALSE)
  <2>1. r \in Row
    BY <1>2, RowsTyped
  <2> QED
    BY <2>1, <1>2 DEF InProgress
<1>3. CASE r = Queued(k, FALSE) /\ Busy(tk, k)
  <2>1. r \in Row
    BY <1>3, RowsTyped
  <2> QED
    BY <2>1, <1>3 DEF Queued
<1> QED
  BY <1>1, <1>2, <1>3

(* A ticket that nobody owns moves to k, who may be busy.                  *)
LEMMA Reception ==
  ASSUME Sound, NEW t \in Tickets, tk[t].owner = NoOne, NEW k \in Staff,
         NEW r \in Row, r.owner = k, r.status = "in_progress" => ~r.waiting,
         r.status = "assigned" => r.waiting,
         r.status = "in_progress" \/ Busy(tk, k),
         tk' = [tk EXCEPT ![t] = r]
  PROVE  SoundAfter /\ (Waits(tk) => ServedAfter)
<1>1. SoundAfter
  BY Facts, MoveTyped, MoveRuns DEF SoundAfter
<1>2. ASSUME Waits(tk) PROVE Waits(tk')
  BY <1>2, Facts, MoveWaits
<1>3. \A j \in Staff : t \notin Active(tk, j)
  BY QueueNoOneAssumption DEF Active, Held
<1>4. ASSUME NEW j \in Staff, Served(tk, j) PROVE Served(tk', j)
  <2>1. CASE j # k
    BY <1>3, <1>4, <2>1, Facts, MoveElsewhere
  <2>2. CASE j = k /\ r.status = "in_progress"
    BY <2>2, Facts, MoveActive
  <2>3. CASE j = k /\ Busy(tk, k)
    BY <1>3, <1>4, <2>3, Facts, MoveToBusy
  <2> QED
    BY <2>1, <2>2, <2>3
<1> QED
  BY <1>1, <1>2, <1>4 DEF ServedAfter

(* A row that keeps its owner and stays, or becomes, active.               *)
LEMMA StaysActive ==
  ASSUME Sound, NEW t \in Tickets, NEW r \in Row, r.owner = tk[t].owner,
         r.status \in {"in_progress", "pause"}, ~r.waiting,
         tk' = [tk EXCEPT ![t] = r]
  PROVE  SoundAfter /\ (Waits(tk) => ServedAfter)
<1>1. SoundAfter
  BY Facts, MoveTyped, MoveRuns DEF SoundAfter
<1>2. ASSUME Waits(tk) PROVE Waits(tk')
  BY <1>2, Facts, MoveWaits
<1>3. ASSUME NEW j \in Staff, Served(tk, j) PROVE Served(tk', j)
  <2>1. CASE r.owner = j
    BY <2>1, Facts, MoveActive
  <2>2. CASE r.owner # j
    <3>1. t \notin Active(tk, j)
      BY <2>2 DEF Active, Held
    <3> QED
      BY <1>3, <2>2, <3>1, Facts, MoveElsewhere
  <2> QED
    BY <2>1, <2>2
<1> QED
  BY <1>1, <1>2, <1>3 DEF ServedAfter

(* A row moved off the queues: only its owner may be left unserved.        *)
LEMMA Leaves ==
  ASSUME Sound, NEW t \in Tickets, NEW r \in Row,
         r.status \notin {"assigned", "in_progress", "pause"}
  PROVE  LET q == [tk EXCEPT ![t] = r]
         IN  /\ q \in Table /\ Runs(q) /\ (Waits(tk) => Waits(q))
             /\ \A j \in Staff : j # tk[t].owner /\ Served(tk, j) => Served(q, j)
<1> DEFINE q == [tk EXCEPT ![t] = r]
<1>1. q \in Table /\ Runs(q)
  BY Facts, MoveTyped, MoveRuns
<1>2. Waits(tk) => Waits(q)
  BY Facts, MoveWaits
<1>3. ASSUME NEW j \in Staff, j # tk[t].owner, Served(tk, j) PROVE Served(q, j)
  <2>1. t \notin Active(tk, j)
    BY <1>3 DEF Active, Held
  <2> QED
    BY <1>3, <2>1, Facts, MoveElsewhere
<1> QED
  BY <1>1, <1>2, <1>3

LEMMA CreateStep ==
  ASSUME Sound, NEW t \in Tickets, Create(t)
  PROVE  SoundAfter /\ (Waits(tk) => ServedAfter)
<1> DEFINE unowned == [status |-> "open", owner |-> NoOne, waiting |-> TRUE, overdue |-> FALSE]
<1>1. tk[t].owner = NoOne
  BY DEF Create, NotFiled
<1>2. CASE tk' = [tk EXCEPT ![t] = unowned]
  <2>1. unowned \in Row /\ unowned.status = "open"
    BY DEF Row, Status
  <2> HIDE DEF unowned
  <2>2. /\ tk' \in Table /\ Runs(tk') /\ (Waits(tk) => Waits(tk'))
        /\ \A j \in Staff : j # tk[t].owner /\ Served(tk, j) => Served(tk', j)
    BY <1>2, <2>1, Leaves
  <2> QED
    BY <1>1, <2>2, QueueNoOneAssumption DEF SoundAfter, ServedAfter
<1>3. ASSUME NEW k \in Staff, NEW b \in BOOLEAN,
             tk' = [tk EXCEPT ![t] = Received(tk, k, b)]
      PROVE  SoundAfter /\ (Waits(tk) => ServedAfter)
  <2>1. PICK r : r = Received(tk, k, b)
    OBVIOUS
  <2>2. tk' = [tk EXCEPT ![t] = r]
    BY <1>3, <2>1
  <2> QED
    BY <1>1, <2>1, <2>2, Reception, ReceivedFits
<1> QED
  BY <1>2, <1>3 DEF Create

LEMMA ClaimStep ==
  ASSUME Sound, NEW t \in Tickets, NEW k \in Staff, Claim(t, k) \/ Pickup(t, k)
  PROVE  SoundAfter /\ (Waits(tk) => ServedAfter)
<1>1. tk[t].owner = NoOne
  BY DEF Claim, Pickup, Unassigned
<1>2. PICK b \in BOOLEAN : tk' = [tk EXCEPT ![t] = Received(tk, k, b)]
  BY DEF Claim, Pickup
<1>3. PICK r : r = Received(tk, k, b)
  OBVIOUS
<1>4. tk' = [tk EXCEPT ![t] = r]
  BY <1>2, <1>3
<1> QED
  BY <1>1, <1>3, <1>4, Reception, ReceivedFits

LEMMA AssignStep ==
  ASSUME Sound, NEW t \in Tickets, NEW k \in Staff, Assign(t, k)
  PROVE  /\ SoundAfter
         /\ "assignSame" \notin Ops /\ Waits(tk) => ServedAfter
<1> DEFINE r == Reassigned(t, k)
           q == [tk EXCEPT ![t] = r]
           from == tk[t].owner
<1>1. Busy(tk, k) \in BOOLEAN
  BY DEF Busy
<1>2. /\ r \in Row /\ r.owner = k /\ r.waiting = Busy(tk, k)
      /\ tk[t].status \in {"open", "assigned", "in_progress"} =>
           r.status = IF Busy(tk, k) THEN "assigned" ELSE "in_progress"
      /\ tk[t].status \notin {"open", "assigned", "in_progress"} => r.status = tk[t].status
  BY <1>1, Facts DEF Reassigned, Row, Status
<1>3. /\ r.status = "in_progress" => ~r.waiting
      /\ r.status = "assigned" => r.waiting
  BY <1>2
<1> HIDE DEF r
<1>4. q \in Table /\ Runs(q) /\ (Waits(tk) => Waits(q))
  BY <1>2, <1>3, Facts, MoveTyped, MoveRuns, MoveWaits
<1>5. \/ tk' = q /\ from = k /\ "assignSame" \in Ops
      \/ tk' \in Handovers(q, from) /\ from # k
  BY DEF Assign, r
<1>6. ASSUME NEW j \in Staff, j # from, Served(tk, j), from # k PROVE Served(q, j)
  <2>1. t \notin Active(tk, j)
    BY <1>6 DEF Active, Held
  <2>2. CASE j # k
    BY <1>2, <1>6, <2>1, <2>2, Facts, MoveElsewhere
  <2>3. CASE j = k /\ Busy(tk, k)
    BY <1>2, <1>6, <2>1, <2>3, Facts, MoveToBusy
  <2>4. CASE j = k /\ ~Busy(tk, k)
    BY <1>2, <1>6, <2>1, <2>4, Facts, MoveElsewhere
  <2> QED
    BY <2>2, <2>3, <2>4
<1>7. from \in Staff \cup {NoOne}
  BY Facts
<1> HIDE DEF q, from
<1>8. CASE tk' = q /\ "assignSame" \in Ops
  BY <1>4, <1>8 DEF SoundAfter
<1>9. CASE tk' \in Handovers(q, from) /\ from # k
  <2>1. /\ tk' \in Table /\ Runs(tk') /\ (Waits(tk) => Waits(tk'))
        /\ from \in Staff => Served(tk', from)
        /\ \A j \in Staff : Served(q, j) => Served(tk', j)
    BY <1>4, <1>7, <1>9, Handover
  <2> QED
    BY <1>6, <1>9, <2>1 DEF SoundAfter, ServedAfter
<1> QED
  BY <1>5, <1>8, <1>9

LEMMA CorrectStep ==
  ASSUME Sound, NEW t \in Tickets, NEW k \in Staff, CorrectAssignee(t, k)
  PROVE  SoundAfter /\ (Waits(tk) => ServedAfter)
<1> DEFINE from == tk[t].owner
           late == tk[t].overdue
           queued == Queued(k, late)
           started == InProgress(k, late)
<1>1. from \in Staff /\ from # k /\ late \in BOOLEAN
  BY Facts DEF CorrectAssignee
<1>2. /\ queued \in Row /\ queued.owner = k /\ queued.status = "assigned" /\ queued.waiting
      /\ started \in Row /\ started.owner = k /\ started.status = "in_progress"
      /\ ~started.waiting
  BY <1>1, RowsTyped DEF Queued, InProgress
<1>3. \A j \in Staff : j # from => t \notin Active(tk, j)
  BY DEF Active, Held
<1> HIDE DEF queued, started
<1> DEFINE wait == [tk EXCEPT ![t] = queued]
           run == [tk EXCEPT ![t] = started]
<1>4. wait \in Table /\ Runs(wait) /\ (Waits(tk) => Waits(wait))
  BY <1>2, Facts, MoveTyped, MoveRuns, MoveWaits
<1>5. run \in Table /\ Runs(run) /\ (Waits(tk) => Waits(run))
  BY <1>2, Facts, MoveTyped, MoveRuns, MoveWaits
<1>6. ASSUME NEW j \in Staff, j # from, Served(tk, j)
      PROVE  /\ Served(run, j)
             /\ j # k \/ Busy(tk, k) => Served(wait, j)
  <2>1. CASE j # k
    BY <1>2, <1>3, <1>6, <2>1, Facts, MoveElsewhere
  <2>2. CASE j = k
    <3>1. Served(run, j)
      BY <1>2, <2>2, Facts, MoveActive
    <3>2. Busy(tk, k) => Served(wait, j)
      BY <1>2, <1>3, <1>6, <2>2, Facts, MoveToBusy
    <3> QED
      BY <3>1, <3>2, <2>2
  <2> QED
    BY <2>1, <2>2
<1>7. CASE CorrectActive(t, k)
  <2>1. PICK m \in (IF Busy(tk, k) THEN {wait}
                    ELSE IF tk[t].waiting THEN Promotions(wait, k) ELSE {run}) :
               tk' \in Handovers(m, from)
    BY <1>7 DEF CorrectActive, queued, started
  <2> HIDE DEF wait, run
  <2>2. /\ m \in Table /\ Runs(m) /\ (Waits(tk) => Waits(m))
        /\ \A j \in Staff : j # from /\ Served(tk, j) => Served(m, j)
    <3>1. CASE m = wait /\ Busy(tk, k)
      BY <1>4, <1>6, <3>1
    <3>2. CASE m = run
      BY <1>5, <1>6, <3>2
    <3>3. CASE m \in Promotions(wait, k)
      BY <1>4, <1>6, <3>3, Promotion
    <3> QED
      BY <3>1, <3>2, <3>3
  <2> HIDE DEF from
  <2>3. /\ tk' \in Table /\ Runs(tk') /\ (Waits(tk) => Waits(tk'))
        /\ from \in Staff => Served(tk', from)
        /\ \A j \in Staff : Served(m, j) => Served(tk', j)
    BY <1>1, <2>1, <2>2, Handover
  <2> QED
    BY <2>2, <2>3 DEF SoundAfter, ServedAfter
<1>8. CASE CorrectResolved(t, k)
  <2> DEFINE r == [tk[t] EXCEPT !.owner = k]
  <2>1. r \in Row /\ r.status = "resolved" /\ tk' = [tk EXCEPT ![t] = r]
    BY <1>8, Facts DEF CorrectResolved, Row, Table
  <2>2. t \notin Active(tk, from)
    BY <1>8 DEF CorrectResolved, Active, Held
  <2> HIDE DEF r
  <2>3. /\ tk' \in Table /\ Runs(tk') /\ (Waits(tk) => Waits(tk'))
        /\ \A j \in Staff : j # tk[t].owner /\ Served(tk, j) => Served(tk', j)
    BY <2>1, Leaves
  <2>4. Served(tk, from) => Served(tk', from)
    BY <1>1, <2>1, <2>2, Facts, MoveElsewhere
  <2> QED
    BY <2>3, <2>4 DEF SoundAfter, ServedAfter
<1> QED
  BY <1>7, <1>8 DEF CorrectAssignee

LEMMA CancelStep ==
  ASSUME Sound, NEW t \in Tickets, Cancel(t)
  PROVE  SoundAfter /\ (~Crashes /\ Waits(tk) => ServedAfter)
<1> DEFINE k == tk[t].owner
           r == [tk[t] EXCEPT !.status = "cancelled", !.waiting = FALSE]
           q == [tk EXCEPT ![t] = r]
<1>1. r \in Row /\ r.status = "cancelled"
  BY Facts DEF Row, Status
<1>2. \/ tk' \in IF k # NoOne /\ Held(q, k, {"in_progress"}) = {}
                 THEN Promotions(q, k) ELSE {q}
      \/ Crashes /\ tk' = q
  <2>1. q = [tk EXCEPT ![t].status = "cancelled", ![t].waiting = FALSE]
    BY Facts DEF Table
  <2> QED
    BY <2>1 DEF Cancel
<1> HIDE DEF r
<1>3. /\ q \in Table /\ Runs(q) /\ (Waits(tk) => Waits(q))
      /\ \A j \in Staff : j # k /\ Served(tk, j) => Served(q, j)
  BY <1>1, Leaves
<1>4. k \in Staff \cup {NoOne}
  BY Facts
<1> HIDE DEF q, k
<1>5. CASE k # NoOne /\ Held(q, k, {"in_progress"}) = {} /\ tk' \in Promotions(q, k)
  BY <1>3, <1>4, <1>5, Promotion DEF SoundAfter, ServedAfter
<1>6. CASE tk' = q /\ ~(k # NoOne /\ Held(q, k, {"in_progress"}) = {})
  <2>1. k \in Staff => Active(q, k) # {}
    BY <1>6, QueueNoOneAssumption DEF Active, Held
  <2> QED
    BY <1>3, <1>6, <2>1 DEF SoundAfter, ServedAfter, Served
<1>7. CASE Crashes /\ tk' = q
  BY <1>3, <1>7 DEF SoundAfter
<1> QED
  BY <1>2, <1>5, <1>6, <1>7

(* StartWork, View, PauseWork and BecomeOverdue keep the ticket active.    *)
LEMMA WorkStep ==
  ASSUME Sound, NEW t \in Tickets,
         StartWork(t) \/ View(t) \/ PauseWork(t) \/ BecomeOverdue(t)
  PROVE  SoundAfter /\ (Waits(tk) => ServedAfter)
<1>1. ASSUME NEW r \in Row, r.owner = tk[t].owner, ~r.waiting,
             r.status \in {"in_progress", "pause"}, tk' = [tk EXCEPT ![t] = r]
      PROVE  SoundAfter /\ (Waits(tk) => ServedAfter)
  BY <1>1, StaysActive
<1>2. CASE StartWork(t)
  <2> DEFINE r == [tk[t] EXCEPT !.status = "in_progress", !.waiting = FALSE]
  <2>1. r \in Row /\ r.owner = tk[t].owner /\ ~r.waiting /\ r.status = "in_progress"
    BY Facts DEF Row, Status
  <2>2. tk' = [tk EXCEPT ![t] = r]
    BY <1>2, Facts DEF StartWork, Table
  <2> HIDE DEF r
  <2> QED
    BY <1>1, <2>1, <2>2
<1>3. CASE PauseWork(t)
  <2> DEFINE r == [tk[t] EXCEPT !.status = "pause"]
  <2>1. tk[t].status = "in_progress"
    BY <1>3, Facts DEF PauseWork, Allowed, AllowedTransitions, Matrix, Status, DuplicateMarkers
  <2>2. ~tk[t].waiting
    BY <2>1, Facts DEF Runs
  <2>3. r \in Row /\ r.owner = tk[t].owner /\ ~r.waiting /\ r.status = "pause"
    BY <2>2, Facts DEF Row, Status
  <2>4. tk' = [tk EXCEPT ![t] = r]
    BY <1>3, Facts DEF PauseWork, Table
  <2> HIDE DEF r
  <2> QED
    BY <1>1, <2>3, <2>4
<1>4. CASE BecomeOverdue(t)
  <2> DEFINE r == [tk[t] EXCEPT !.overdue = TRUE]
  <2>1. tk[t].status = "in_progress" /\ ~tk[t].waiting
    BY <1>4, Facts DEF BecomeOverdue, Runs
  <2>2. r \in Row /\ r.owner = tk[t].owner /\ ~r.waiting /\ r.status = "in_progress"
    BY <2>1, Facts DEF Row
  <2>3. tk' = [tk EXCEPT ![t] = r]
    BY <1>4, Facts DEF BecomeOverdue, Table
  <2> HIDE DEF r
  <2> QED
    BY <1>1, <2>2, <2>3
<1>5. CASE View(t)
  <2> DEFINE r == InProgress(tk[t].owner, FALSE)
  <2>1. r \in Row /\ r.owner = tk[t].owner /\ ~r.waiting /\ r.status = "in_progress"
    BY Facts DEF InProgress, Row, Status
  <2>2. tk' = [tk EXCEPT ![t] = r]
    BY <1>5 DEF View
  <2> HIDE DEF r
  <2> QED
    BY <1>1, <2>1, <2>2
<1> QED
  BY <1>2, <1>3, <1>4, <1>5

(* The operations outside ServingOps keep the table sound.                 *)
LEMMA UnservingStep ==
  ASSUME Sound, NEW t \in Tickets,
         Unfreeze(t) \/ Reopen(t) \/ \E k \in Staff : Accept(t, k)
  PROVE  SoundAfter
<1> DEFINE Fits == \E r \in Row : /\ r.status = "in_progress" => ~r.waiting
                                  /\ tk' = [tk EXCEPT ![t] = r]
<1>1. Fits
  <2>1. CASE Unfreeze(t)
    <3>1. PICK w \in {FALSE, tk[t].waiting} :
                 tk' = [tk EXCEPT ![t].status = "assigned", ![t].waiting = w]
      BY <2>1 DEF Unfreeze
    <3>2. tk' = [tk EXCEPT ![t] = [tk[t] EXCEPT !.status = "assigned", !.waiting = w]]
      BY <3>1, Facts DEF Table
    <3>3. [tk[t] EXCEPT !.status = "assigned", !.waiting = w] \in Row
      BY <3>1, Facts DEF Row, Status
    <3> QED
      BY <3>2, <3>3, Facts DEF Row
  <2>2. CASE Reopen(t)
    BY <2>2 DEF Reopen, Row, Status
  <2>3. ASSUME NEW k \in Staff, Accept(t, k) PROVE Fits
    <3> DEFINE s == IF tk[t].status \in {"resolved", "closed"} THEN tk[t].status
                    ELSE "in_progress"
               r == [tk[t] EXCEPT !.owner = k, !.waiting = FALSE, !.status = s]
    <3>1. r \in Row /\ ~r.waiting
      BY Facts DEF Row, Status
    <3>2. tk' = [tk EXCEPT ![t] = r]
      BY <2>3, Facts DEF Accept, Table
    <3> HIDE DEF r
    <3> QED
      BY <3>1, <3>2
  <2> HIDE DEF Fits
  <2> QED
    BY <2>1, <2>2, <2>3
<1>2. PICK r \in Row : /\ r.status = "in_progress" => ~r.waiting
                       /\ tk' = [tk EXCEPT ![t] = r]
  BY <1>1
<1> QED
  BY <1>2, Facts, MoveTyped, MoveRuns DEF SoundAfter

LEMMA AbsenceStep ==
  ASSUME Sound, NEW k \in Staff, Absence(k)
  PROVE  SoundAfter
<1> DEFINE taken == Held(tk, k, {"assigned"}) \cup
                    (Held(tk, k, {"in_progress"}) \cap Specialised)
           free == {j \in Staff \ {k} : Held(tk, j, {"assigned", "in_progress"}) = {}}
<1>1. PICK to \in [taken -> free \cup {NoOne}] :
             tk' = [t \in Tickets |->
                      IF t \notin taken THEN tk[t]
                      ELSE IF to[t] = NoOne THEN Returned(t)
                      ELSE [Returned(t) EXCEPT !.status = "assigned", !.owner = to[t]]]
  BY DEF Absence
<1>2. free \subseteq Staff
  OBVIOUS
<1> HIDE DEF taken, free
<1>3. ASSUME NEW t \in Tickets
      PROVE  tk'[t] \in Row /\ (tk'[t].status = "in_progress" => ~tk'[t].waiting)
  <2>1. Returned(t) \in Row /\ ~Returned(t).waiting
    BY Facts DEF Returned, Row, Status
  <2>2. CASE t \notin taken
    BY <1>1, <2>2, Facts DEF Runs
  <2>3. CASE t \in taken /\ to[t] = NoOne
    BY <1>1, <2>1, <2>3
  <2>4. CASE t \in taken /\ to[t] # NoOne
    <3>1. to[t] \in Staff
      BY <1>2, <2>4
    <3>2. tk'[t] = [Returned(t) EXCEPT !.status = "assigned", !.owner = to[t]]
      BY <1>1, <2>4
    <3> QED
      BY <2>1, <3>1, <3>2 DEF Row, Status
  <2> QED
    BY <2>2, <2>3, <2>4
<1> QED
  BY <1>1, <1>3 DEF SoundAfter, Table, Runs

(* A finished or frozen ticket leaves its owner owed a handoff.            *)
LEMMA FinishStep ==
  ASSUME Sound, NEW h \in Handlers, NEW t \in Tickets, NEW to, Finish(h, t, to)
  PROVE  /\ SoundAfter
         /\ Waits(tk) => Waits(tk')
         /\ \A j \in Staff : j # tk[t].owner /\ Served(tk, j) => Served(tk', j)
<1>1. to \in {"resolved", "closed", "duplicate", "freeze"}
  BY DEF Finish
<1>2. PICK w \in {tk[t].waiting, FALSE} :
             tk' = [tk EXCEPT ![t].status = to, ![t].waiting = w]
  BY DEF Finish
<1> DEFINE r == [tk[t] EXCEPT !.status = to, !.waiting = w]
<1>3. r \in Row /\ r.status = to
  BY <1>1, <1>2, Facts DEF Row, Status
<1>4. tk' = [tk EXCEPT ![t] = r]
  BY <1>2, Facts DEF Table
<1>5. r.status \notin {"assigned", "in_progress", "pause"}
  BY <1>1, <1>3
<1> HIDE DEF r
<1> QED
  BY <1>3, <1>4, <1>5, Leaves DEF SoundAfter

LEMMA HandoffStep ==
  ASSUME Sound, NEW h \in Handlers, Handoff(h), req[h].staff \in Staff
  PROVE  /\ SoundAfter
         /\ Waits(tk) => ServedAfter
         /\ Served(tk', req[h].staff)
<1> DEFINE k == req[h].staff
<1>1. CASE Active(tk, k) = {} /\ Waiting(tk, k) # {}
  <2>1. tk' \in Handovers(tk, k)
    BY <1>1 DEF Handoff
  <2> QED
    BY <2>1, Facts, Handover DEF SoundAfter, ServedAfter
<1>2. CASE ~(Active(tk, k) = {} /\ Waiting(tk, k) # {})
  <2>1. tk' = tk \/ tk' \in MovesOn(tk, k)
    BY <1>2 DEF Handoff
  <2>2. Served(tk, k)
    BY <1>2 DEF Served
  <2>3. /\ tk' \in Table /\ Runs(tk') /\ (Waits(tk) => Waits(tk'))
        /\ \A j \in Staff : Served(tk, j) => Served(tk', j)
    BY <2>1, Facts, MovingOn
  <2> QED
    BY <2>2, <2>3 DEF SoundAfter, ServedAfter
<1> QED
  BY <1>1, <1>2

LEMMA PushBackStep ==
  ASSUME Sound, NEW h \in Handlers, PushBack(h)
  PROVE  SoundAfter
<1>1. req[h].staff \in Staff \cup {NoOne}
  BY DEF Sound, TypeOK, Request
<1>2. ASSUME NEW t \in Tickets
      PROVE  tk'[t] \in Row /\ (tk'[t].status = "in_progress" => ~tk'[t].waiting)
  <2> DEFINE r == Queued(req[h].staff, tk[t].overdue)
  <2>1. r \in Row /\ r.status = "assigned"
    BY <1>1, Facts, RowsTyped DEF Queued
  <2>2. tk'[t] = r \/ tk'[t] = tk[t]
    BY DEF PushBack
  <2> HIDE DEF r
  <2> QED
    BY <2>1, <2>2, Facts DEF Runs
<1> QED
  BY <1>2 DEF PushBack, SoundAfter, Table, Runs

LEMMA CommitResumeStep ==
  ASSUME Sound, NEW h \in Handlers, CommitResume(h)
  PROVE  SoundAfter /\ (Waits(tk) => ServedAfter)
<1> DEFINE t == req[h].ticket
           r == [tk[t] EXCEPT !.status = "in_progress", !.waiting = FALSE]
<1>1. CASE t \in Tickets
  <2>1. r \in Row /\ r.owner = tk[t].owner /\ ~r.waiting /\ r.status = "in_progress"
    BY <1>1, Facts DEF Row, Status
  <2>2. tk' = [tk EXCEPT ![t] = r]
    BY <1>1, Facts DEF CommitResume, Table
  <2> HIDE DEF r, t
  <2> QED
    BY <1>1, <2>1, <2>2, StaysActive
<1>2. CASE t \notin Tickets
  <2>1. tk' = tk
    BY <1>2, Facts DEF CommitResume, Table
  <2> QED
    BY <2>1, Facts DEF SoundAfter, ServedAfter
<1> QED
  BY <1>1, <1>2

LEMMA AdvanceStep ==
  ASSUME Sound, NEW b \in scan, Advance(b)
  PROVE  SoundAfter /\ (Waits(tk) => ServedAfter)
<1>1. b.staff \in Staff
  BY DEF Sound, TypeOK, Breach
<1> QED
  BY <1>1, Facts, Promotion DEF Advance, SoundAfter, ServedAfter

-----------------------------------------------------------------------------
(* Requests and the minute job.                                            *)

Bookkeeping ==
  /\ req \in [Handlers -> Request]
  /\ \A h \in Handlers : req[h].pc = "handoff" => req[h].staff \in Staff
  /\ advanced \subseteq Tickets
  /\ scan \subseteq Breach

LEMMA IdleTyped == Idle \in Request /\ Idle.pc = "idle"
BY RowsTyped DEF Idle, Request

LEMMA OwedTyped ==
  ASSUME NEW k \in Staff
  PROVE  LET r == [Idle EXCEPT !.pc = "handoff", !.staff = k]
         IN  r \in Request /\ r.pc = "handoff" /\ r.staff = k
BY RowsTyped DEF Idle, Request

LEMMA BookkeepingStep ==
  ASSUME Sound, Next PROVE Bookkeeping'
<1> USE DEF Bookkeeping
<1>1. Bookkeeping
  BY DEF Sound, TypeOK
<1>2. CASE Unchanged
  BY <1>1, <1>2 DEF Unchanged
<1>3. ASSUME NEW h \in Handlers, NEW t \in Tickets, NEW to, Finish(h, t, to)
      PROVE  Bookkeeping'
  <2>1. tk[t].owner \in Staff \cup {NoOne}
    BY Facts
  <2> QED
    BY <1>1, <1>3, <2>1, OwedTyped DEF Finish
<1>4. ASSUME NEW h \in Handlers, NEW t \in Tickets, ReadResume(h, t)
      PROVE  Bookkeeping'
  <2> DEFINE k == tk[t].owner
             found == {u \in Held(tk, k, {"assigned"}) \ {t} : ~tk[u].waiting}
             r == [pc |-> IF k = NoOne \/ found = {} THEN "resuming" ELSE "pushing",
                   staff |-> k, ticket |-> t, seen |-> tk[t],
                   others |-> IF k = NoOne THEN {} ELSE found]
  <2>1. found \subseteq Tickets
    BY DEF Held
  <2>2. r \in Request
    <3> HIDE DEF found
    <3> QED
      BY <2>1, Facts DEF Request
  <2>3. req' = [req EXCEPT ![h] = r] /\ UNCHANGED <<advanced, scan>>
    BY <1>4 DEF ReadResume
  <2>4. r.pc # "handoff"
    OBVIOUS
  <2> HIDE DEF r
  <2> QED
    BY <1>1, <2>2, <2>3, <2>4
<1>5. ASSUME NEW h \in Handlers, PushBack(h) PROVE Bookkeeping'
  BY <1>1, <1>5 DEF PushBack, Request
<1>6. ASSUME NEW h \in Handlers,
             Handoff(h) \/ CommitResume(h) \/ RefuseResume(h) \/ Lose(h)
      PROVE  Bookkeeping'
  BY <1>1, <1>6, IdleTyped DEF Handoff, CommitResume, RefuseResume, Lose
<1>7. ASSUME NEW b \in scan, Advance(b) PROVE Bookkeeping'
  BY <1>1, <1>7 DEF Advance, Breach
<1>8. CASE Scan
  <2>1. Overdue \subseteq Tickets
    BY DEF Overdue
  <2>2. scan' \subseteq Breach
    BY <1>8, <2>1, Facts DEF Scan, Breach
  <2> QED
    BY <1>1, <1>8, <2>1, <2>2 DEF Scan
<1>9. CASE Restart
  BY <1>9, IdleTyped DEF Restart
<1> QED
  BY <1>2, <1>3, <1>4, <1>5, <1>6, <1>7, <1>8, <1>9
  DEF Next, Create, Cancel, StartWork, View, PauseWork, Unfreeze, Reopen, BecomeOverdue,
      Claim, Pickup, Assign, CorrectAssignee, Accept, Absence

LEMMA SoundStep ==
  ASSUME Sound, [Next]_vars PROVE Sound'
<1>1. CASE UNCHANGED vars
  BY <1>1 DEF vars, Sound, TypeOK, Runs
<1>2. CASE Next
  <2>1. Bookkeeping'
    BY <1>2, BookkeepingStep
  <2>2. SoundAfter
    <3>1. CASE \E t \in Tickets : Create(t) \/ Cancel(t) \/ StartWork(t) \/ View(t)
                                   \/ PauseWork(t) \/ BecomeOverdue(t)
      BY <3>1, CreateStep, CancelStep, WorkStep
    <3>2. CASE \E t \in Tickets, k \in Staff : Claim(t, k) \/ Pickup(t, k)
                                               \/ Assign(t, k) \/ CorrectAssignee(t, k)
      BY <3>2, ClaimStep, AssignStep, CorrectStep
    <3>3. CASE \E t \in Tickets : Unfreeze(t) \/ Reopen(t) \/ \E k \in Staff : Accept(t, k)
      BY <3>3, UnservingStep
    <3>4. CASE \E k \in Staff : Absence(k)
      BY <3>4, AbsenceStep
    <3>5. CASE \E h \in Handlers, t \in Tickets, to \in Status : Finish(h, t, to)
      BY <3>5, FinishStep
    <3>6. CASE \E h \in Handlers : PushBack(h) \/ CommitResume(h)
      BY <3>6, PushBackStep, CommitResumeStep
    <3>7. CASE \E b \in scan : Advance(b)
      BY <3>7, AdvanceStep
    <3>8. CASE UNCHANGED tk
      BY <3>8, Facts DEF SoundAfter
    <3>9. ASSUME NEW h \in Handlers, Handoff(h) PROVE SoundAfter
      <4>1. req[h].staff \in Staff
        BY <3>9 DEF Handoff, Sound
      <4> QED
        BY <3>9, <4>1, HandoffStep
    <3> QED
      BY <1>2, <3>1, <3>2, <3>3, <3>4, <3>5, <3>6, <3>7, <3>8, <3>9
      DEF Next, ReadResume, RefuseResume, Lose, Scan, Restart
  <2> QED
    BY <2>1, <2>2 DEF Bookkeeping, SoundAfter, Sound, TypeOK, Table
<1> QED
  BY <1>1, <1>2

(* With the operations of ServingOps and no crash, nobody is left without  *)
(* a handoff.                                                              *)
LEMMA ServingStep ==
  ASSUME Ops \subseteq ServingOps, Crashes = FALSE, Serving, [Next]_vars
  PROVE  Serving'
<1> DEFINE Inactive == \A h \in Handlers : req'[h].pc # "pushing"
           Ready == \A k \in Staff : Served(tk', k) \/ Owed(k)'
<1>1. Sound /\ Waits(tk) /\ Sound'
  BY SoundStep DEF Serving
<1>2. Waits(tk') /\ Inactive /\ Ready
  <2>1. CASE UNCHANGED vars
    BY <2>1 DEF vars, Serving, Waits, Owed
  <2>2. CASE ServedAfter /\ UNCHANGED req
    BY <2>2 DEF Serving, ServedAfter, Owed
  <2>3. ASSUME NEW t \in Tickets,
               Create(t) \/ Cancel(t) \/ StartWork(t) \/ View(t) \/ PauseWork(t)
                 \/ BecomeOverdue(t)
        PROVE  ServedAfter /\ UNCHANGED req
    BY <1>1, <2>3, CreateStep, CancelStep, WorkStep
    DEF Create, Cancel, StartWork, View, PauseWork, BecomeOverdue, Unchanged
  <2>4. ASSUME NEW t \in Tickets, NEW k \in Staff,
               Claim(t, k) \/ Pickup(t, k) \/ Assign(t, k) \/ CorrectAssignee(t, k)
        PROVE  ServedAfter /\ UNCHANGED req
    <3>1. "assignSame" \notin Ops
      BY DEF ServingOps
    <3> QED
      BY <1>1, <2>4, <3>1, ClaimStep, AssignStep, CorrectStep
      DEF Claim, Pickup, Assign, CorrectAssignee, Unchanged
  <2>5. ASSUME NEW b \in scan, Advance(b) PROVE ServedAfter /\ UNCHANGED req
    BY <1>1, <2>5, AdvanceStep DEF Advance
  <2>6. CASE Scan
    BY <2>6 DEF Scan, Serving, Waits, Owed
  <2>7. ASSUME NEW h \in Handlers, NEW t \in Tickets, NEW to, Finish(h, t, to)
        PROVE  Waits(tk') /\ Inactive /\ Ready
    <3> DEFINE r == [Idle EXCEPT !.pc = "handoff", !.staff = tk[t].owner]
    <3>1. to \in Frees /\ req[h] = Idle
      BY <2>7 DEF Finish, Frees
    <3>2. req' = IF tk[t].owner # NoOne THEN [req EXCEPT ![h] = r] ELSE req
      BY <2>7, <3>1 DEF Finish
    <3>3. tk[t].owner # NoOne => r.pc = "handoff" /\ r.staff = tk[t].owner
      BY <1>1, Facts, OwedTyped
    <3> HIDE DEF r
    <3>4. req \in [Handlers -> Request]
      BY <1>1 DEF Sound, TypeOK
    <3>5. Inactive
      BY <3>2, <3>3, <3>4 DEF Serving
    <3>6. ASSUME NEW k \in Staff PROVE Served(tk', k) \/ Owed(k)'
      <4>1. CASE k = tk[t].owner
        BY <3>2, <3>3, <3>4, <4>1, QueueNoOneAssumption DEF Owed
      <4>2. CASE k # tk[t].owner /\ Served(tk, k)
        BY <1>1, <2>7, <4>2, FinishStep
      <4>3. CASE Owed(k)
        <5>1. PICK g \in Handlers : req[g].pc = "handoff" /\ req[g].staff = k
          BY <4>3 DEF Owed
        <5>2. g # h
          BY <3>1, <5>1, IdleTyped
        <5>3. req'[g] = req[g]
          BY <3>2, <3>4, <5>2
        <5> QED
          BY <5>1, <5>3 DEF Owed
      <4> QED
        BY <4>1, <4>2, <4>3 DEF Serving
    <3> QED
      BY <1>1, <2>7, <3>5, <3>6, FinishStep
  <2>8. ASSUME NEW h \in Handlers, Handoff(h)
        PROVE  Waits(tk') /\ Inactive /\ Ready
    <3>1. req[h].staff \in Staff
      BY <1>1, <2>8 DEF Handoff, Sound
    <3>2. ServedAfter /\ Served(tk', req[h].staff)
      BY <1>1, <2>8, <3>1, HandoffStep
    <3>3. req \in [Handlers -> Request] /\ req' = [req EXCEPT ![h] = Idle]
      BY <1>1, <2>8 DEF Sound, TypeOK, Handoff
    <3>4. Inactive
      BY <3>3, IdleTyped DEF Serving
    <3>5. ASSUME NEW k \in Staff PROVE Served(tk', k) \/ Owed(k)'
      <4>1. CASE k = req[h].staff
        BY <3>2, <4>1
      <4>2. CASE Served(tk, k)
        BY <3>2, <4>2 DEF ServedAfter
      <4>3. CASE Owed(k) /\ k # req[h].staff
        BY <3>3, <4>3 DEF Owed
      <4> QED
        BY <4>1, <4>2, <4>3 DEF Serving
    <3> QED
      BY <3>2, <3>4, <3>5 DEF ServedAfter
  <2>9. ASSUME NEW h \in Handlers, NEW t \in Tickets, ReadResume(h, t)
        PROVE  Waits(tk') /\ Inactive /\ Ready
    <3> DEFINE k == tk[t].owner
               found == {u \in Held(tk, k, {"assigned"}) \ {t} : ~tk[u].waiting}
               r == [pc |-> IF k = NoOne \/ found = {} THEN "resuming" ELSE "pushing",
                     staff |-> k, ticket |-> t, seen |-> tk[t],
                     others |-> IF k = NoOne THEN {} ELSE found]
    <3>1. found = {}
      BY <1>1 DEF Waits, Held
    <3>2. req' = [req EXCEPT ![h] = r] /\ UNCHANGED tk /\ req[h] = Idle
      BY <2>9 DEF ReadResume
    <3>3. r.pc = "resuming"
      BY <3>1
    <3> HIDE DEF r
    <3>4. req \in [Handlers -> Request]
      BY <1>1 DEF Sound, TypeOK
    <3>5. Inactive
      BY <3>2, <3>3, <3>4 DEF Serving
    <3>6. ASSUME NEW j \in Staff, Owed(j) PROVE Owed(j)'
      BY <3>2, <3>4, <3>6, IdleTyped DEF Owed
    <3>7. ASSUME NEW j \in Staff, Served(tk, j) PROVE Served(tk', j)
      BY <3>2, <3>7
    <3> QED
      BY <1>1, <3>2, <3>5, <3>6, <3>7 DEF Serving
  <2>10. ASSUME NEW h \in Handlers, CommitResume(h) \/ RefuseResume(h)
         PROVE  Waits(tk') /\ Inactive /\ Ready
    <3>1. ServedAfter
      <4>1. CASE CommitResume(h)
        BY <1>1, <4>1, CommitResumeStep
      <4>2. CASE RefuseResume(h)
        BY <1>1, <4>2 DEF RefuseResume, ServedAfter
      <4> QED
        BY <2>10, <4>1, <4>2
    <3>2. /\ req \in [Handlers -> Request] /\ req' = [req EXCEPT ![h] = Idle]
          /\ req[h].pc = "resuming"
      BY <1>1, <2>10 DEF Sound, TypeOK, CommitResume, RefuseResume
    <3>3. Inactive
      BY <3>2, IdleTyped DEF Serving
    <3>4. ASSUME NEW j \in Staff, Owed(j) PROVE Owed(j)'
      BY <3>2, <3>4 DEF Owed
    <3> QED
      BY <3>1, <3>3, <3>4 DEF Serving, ServedAfter
  <2>11. ASSUME NEW h \in Handlers PROVE ~PushBack(h) /\ ~Lose(h) /\ ~Restart
    BY DEF PushBack, Lose, Restart, Serving
  <2>12. /\ \A t \in Tickets : ~Unfreeze(t) /\ ~Reopen(t)
         /\ \A t \in Tickets, k \in Staff : ~Accept(t, k)
         /\ \A k \in Staff : ~Absence(k)
         /\ ~Restart
    BY DEF Unfreeze, Reopen, Accept, Absence, ServingOps, Restart
  <2> HIDE DEF Inactive, Ready
  <2> QED
    BY <2>1, <2>2, <2>3, <2>4, <2>5, <2>6, <2>7, <2>8, <2>9, <2>10, <2>11, <2>12
    DEF Next
<1> QED
  BY <1>1, <1>2 DEF Serving, Waits

LEMMA InitialServing == Init => Serving
<1> SUFFICES ASSUME Init PROVE Serving
  OBVIOUS
<1>1. \A t \in Tickets : tk[t] = NotFiled
  BY DEF Init
<1>2. \A h \in Handlers : req[h] = Idle
  BY DEF Init
<1>3. TypeOK
  BY RowsTyped, IdleTyped DEF Init, TypeOK
<1>4. Runs(tk) /\ Waits(tk)
  BY <1>1 DEF Runs, Waits, NotFiled
<1>5. \A h \in Handlers : req[h].pc = "idle"
  BY <1>2, IdleTyped
<1>6. \A k \in Staff : Served(tk, k)
  BY <1>1 DEF Served, Waiting, Held, NotFiled
<1> QED
  BY <1>3, <1>4, <1>5, <1>6 DEF Serving, Sound

-----------------------------------------------------------------------------
(* Type correctness of TechnicianQueue for any number of tickets, staff    *)
(* members and concurrent updateTicket requests.                           *)
THEOREM QueueTypeCorrect == Spec => []TypeOK
<1>1. Init => Sound
  BY InitialServing DEF Serving
<1>2. Sound /\ [Next]_vars => Sound'
  BY SoundStep
<1>3. Sound => TypeOK
  BY DEF Sound
<1> QED
  BY <1>1, <1>2, <1>3, PTL DEF Spec

(* Whatever operations happen and whoever crashes, a ticket in progress is *)
(* never flagged as waiting.                                               *)
THEOREM RunningTicketsDoNotWait == Spec => []RunningNeverWaits
<1>1. Init => Sound
  BY InitialServing DEF Serving
<1>2. Sound /\ [Next]_vars => Sound'
  BY SoundStep
<1>3. Sound => RunningNeverWaits
  BY DEF Sound, Runs, RunningNeverWaits
<1> QED
  BY <1>1, <1>2, <1>3, PTL DEF Spec

(* As long as only the operations of ServingOps happen and no request is   *)
(* lost, every staff member with waiting tickets has something active or a *)
(* handoff on its way.                                                     *)
THEOREM QueuesAreServed ==
  ASSUME Ops \subseteq ServingOps, Crashes = FALSE
  PROVE  Spec => []NoStuckQueue
<1>1. Init => Serving
  BY InitialServing
<1>2. Serving /\ [Next]_vars => Serving'
  BY ServingStep
<1>3. Serving => NoStuckQueue
  BY DEF Serving, Served, NoStuckQueue
<1> QED
  BY <1>1, <1>2, <1>3, PTL DEF Spec

-----------------------------------------------------------------------------
(* How work starts.                                                        *)

(* The operations that start work only when its owner is free or late.     *)
(* The minute job serves a breach it read some time ago; the others start  *)
(* a ticket beside whatever its owner has.                                 *)
StartOps == ServingOps \ {"cron"}

(* Others of k's that are in progress leave room for t in table q.         *)
Room(q, t, k) ==
  LET others == {u \in Tickets \ {t} : q[u].owner = k /\ q[u].status = "in_progress"}
  IN  others = {} \/ \E u \in others : q[u].overdue

Due == StartedAlone /\ IdleStaffStart

(* One row changes: it starts where there is room, and whoever is free     *)
(* starts what they receive.                                               *)
LEMMA OneMoveIsDue ==
  ASSUME Sound, NEW t \in Tickets, NEW r, tk' = [tk EXCEPT ![t] = r],
         r.status = "in_progress" /\ (tk[t].status # "in_progress" \/ tk[t].owner # r.owner) =>
           Room(tk, t, r.owner) \/ ByHand(t),
         \A k \in Staff : r.owner = k /\ tk[t].owner # k /\ r.status = "assigned" => Busy(tk, k)
  PROVE  Due
<1>1. tk'[t] = r /\ \A u \in Tickets \ {t} : tk'[u] = tk[u]
  BY Facts DEF Table
<1>2. StartedAlone
  <2> SUFFICES ASSUME NEW v \in Tickets, Starts(v), ~ByHand(v)
               PROVE  LET others == {u \in Tickets \ {v} : /\ tk'[u].owner = tk'[v].owner
                                                           /\ tk'[u].status = "in_progress"}
                      IN  others = {} \/ \E u \in others : tk'[u].overdue
    BY Zenon DEF StartedAlone
  <2>1. v = t
    BY <1>1 DEF Starts
  <2>2. Room(tk, t, r.owner)
    BY <1>1, <2>1 DEF Starts
  <2> QED
    BY <1>1, <2>1, <2>2 DEF Room
<1>3. IdleStaffStart
  <2> SUFFICES ASSUME NEW v \in Tickets, NEW k \in Staff, Receives(v, k), ~Busy(tk, k)
               PROVE  tk'[v].status = "in_progress"
    BY DEF IdleStaffStart
  <2>1. v = t
    BY <1>1 DEF Receives
  <2> QED
    BY <1>1, <2>1 DEF Receives
<1> QED
  BY <1>2, <1>3 DEF Due

(* What the promotion writes.                                              *)
LEMMA PromotedRow ==
  ASSUME NEW k
  PROVE  InProgress(k, FALSE).owner = k /\ InProgress(k, FALSE).status = "in_progress"
BY DEF InProgress

(* One row changes in table q, and then another one of staff member k, who *)
(* has nothing in progress, starts.                                        *)
LEMMA TwoMovesAreDue ==
  ASSUME Sound, NEW t \in Tickets, NEW r, NEW q, q = [tk EXCEPT ![t] = r],
         r.status = "in_progress" /\ (tk[t].status # "in_progress" \/ tk[t].owner # r.owner) => Room(tk, t, r.owner),
         \A j \in Staff : r.owner = j /\ tk[t].owner # j /\ r.status = "assigned" => Busy(tk, j),
         NEW k, Held(q, k, {"in_progress"}) = {}, tk' \in Promotions(q, k)
  PROVE  Due
<1>1. q[t] = r /\ \A u \in Tickets \ {t} : q[u] = tk[u]
  BY Facts DEF Table
<1>2. CASE tk' = q
  BY <1>2, OneMoveIsDue
<1>3. CASE \E w \in Waiting(q, k) : tk' = [q EXCEPT ![w] = InProgress(k, FALSE)]
  <2>1. PICK w \in Waiting(q, k) : tk' = [q EXCEPT ![w] = InProgress(k, FALSE)]
    BY <1>3
  <2>2. w \in Tickets /\ q[w].owner = k
    BY DEF Waiting, Held
  <2>0. PICK g : g = InProgress(k, FALSE)
    OBVIOUS
  <2>3. g = InProgress(k, FALSE) /\ g.owner = k /\ g.status = "in_progress"
    BY <2>0, PromotedRow
  <2>4. q = [u \in Tickets |-> q[u]]
    BY Facts DEF Table
  <2>5. tk'[w] = g /\ \A u \in Tickets \ {w} : tk'[u] = q[u]
    BY <2>1, <2>2, <2>3, <2>4
  <2>6. \A u \in Tickets : q[u].owner = k => q[u].status # "in_progress"
    BY DEF Held
  <2>7. StartedAlone
    <3> SUFFICES ASSUME NEW v \in Tickets, Starts(v), ~ByHand(v)
                 PROVE  LET others == {u \in Tickets \ {v} : /\ tk'[u].owner = tk'[v].owner
                                                             /\ tk'[u].status = "in_progress"}
                        IN  others = {} \/ \E u \in others : tk'[u].overdue
      BY Zenon DEF StartedAlone
    <3>1. CASE v = w
      <4>1. \A u \in Tickets \ {v} : tk'[u].owner = k => tk'[u].status # "in_progress"
        BY <2>5, <2>6, <3>1
      <4> QED
        BY <2>3, <2>5, <3>1, <4>1
    <3>2. CASE v # w
      <4>1. v = t /\ tk'[v] = r
        BY <1>1, <2>5, <3>2 DEF Starts
      <4>2. r.owner # k /\ Room(tk, t, r.owner)
        BY <1>1, <2>6, <4>1 DEF Starts
      <4>3. \A u \in Tickets \ {t} : tk'[u].owner = r.owner => tk'[u] = tk[u]
        BY <1>1, <2>3, <2>5, <4>2
      <4>4. \A u \in Tickets \ {t} : tk[u].owner = r.owner => tk'[u] = tk[u]
        BY <1>1, <2>2, <2>5, <4>2
      <4> QED
        BY <4>1, <4>2, <4>3, <4>4 DEF Room
    <3> QED
      BY <3>1, <3>2
  <2>8. IdleStaffStart
    <3> SUFFICES ASSUME NEW v \in Tickets, NEW j \in Staff, Receives(v, j), ~Busy(tk, j)
                 PROVE  tk'[v].status = "in_progress"
      BY DEF IdleStaffStart
    <3>1. CASE v = w
      BY <2>3, <2>5, <3>1
    <3>2. CASE v # w
      <4>1. v = t /\ tk'[v] = r
        BY <1>1, <2>5, <3>2 DEF Receives
      <4> QED
        BY <4>1 DEF Receives
    <3> QED
      BY <3>1, <3>2
  <2> QED
    BY <2>7, <2>8 DEF Due
<1>4. tk' = q \/ \E w \in Waiting(q, k) : tk' = [q EXCEPT ![w] = InProgress(k, FALSE)]
  BY DEF Promotions, OldestOf
<1> QED
  BY <1>2, <1>3, <1>4

LEMMA HandoverIsDue ==
  ASSUME Sound, NEW t \in Tickets, NEW r, NEW q, q = [tk EXCEPT ![t] = r],
         r.status = "in_progress" /\ (tk[t].status # "in_progress" \/ tk[t].owner # r.owner) => Room(tk, t, r.owner),
         \A j \in Staff : r.owner = j /\ tk[t].owner # j /\ r.status = "assigned" => Busy(tk, j),
         NEW k, tk' \in Handovers(q, k)
  PROVE  Due
<1>1. CASE tk' = q
  BY <1>1, OneMoveIsDue
<1>2. CASE Active(q, k) = {} /\ tk' \in Promotions(q, k)
  <2>1. Held(q, k, {"in_progress"}) = {}
    BY <1>2 DEF Active, Held
  <2> QED
    BY <1>2, <2>1, TwoMovesAreDue
<1> QED
  BY <1>1, <1>2 DEF Handovers

(* Nobody's owner or status changes.                                       *)
LEMMA StillDue ==
  ASSUME Sound, \A t \in Tickets : tk'[t].owner = tk[t].owner /\ (tk'[t].status = "in_progress" => tk[t].status = "in_progress")
  PROVE  Due
BY DEF Due, StartedAlone, IdleStaffStart, Starts, Receives

LEMMA IdleHasRoom ==
  ASSUME NEW q, NEW t, NEW k, Held(q, k, {"in_progress"}) = {}
  PROVE  Room(q, t, k)
BY DEF Room, Held

LEMMA ReceivedIsDue ==
  ASSUME Sound, NEW t \in Tickets, tk[t].owner = NoOne, NEW k \in Staff, NEW b, tk' = [tk EXCEPT ![t] = Received(tk, k, b)]
  PROVE  Due
<1>1. PICK r : r = Received(tk, k, b)
  OBVIOUS
<1>2. r.owner = k /\ (r.status = "in_progress" \/ Busy(tk, k))
  BY <1>1, ReceivedFits
<1>3. r.status = "in_progress" => Room(tk, t, k)
  <2>1. CASE ~Busy(tk, k)
    BY <2>1 DEF Room, Busy, Held
  <2>2. CASE Busy(tk, k) /\ Breached(tk, k)
    <3>1. PICK u \in Tickets : tk[u].owner = k /\ tk[u].status = "in_progress" /\ tk[u].overdue
      BY <2>2 DEF Breached, Held
    <3>2. u # t
      BY <3>1, QueueNoOneAssumption
    <3> QED
      BY <3>1, <3>2 DEF Room
  <2>3. CASE Busy(tk, k) /\ ~Breached(tk, k)
    BY <1>1, <2>3 DEF Received, Queued
  <2> QED
    BY <2>1, <2>2, <2>3
<1>4. tk' = [tk EXCEPT ![t] = r]
  BY <1>1
<1>5. \A j \in Staff : r.owner = j /\ tk[t].owner # j /\ r.status = "assigned" => Busy(tk, j)
  BY <1>2
<1> QED
  BY <1>2, <1>3, <1>4, <1>5, OneMoveIsDue

LEMMA CreateIsDue ==
  ASSUME Sound, NEW t \in Tickets, Create(t)
  PROVE  Due
<1>1. tk[t].owner = NoOne
  BY DEF Create, NotFiled
<1>2. CASE tk' = [tk EXCEPT ![t] = [status |-> "open", owner |-> NoOne, waiting |-> TRUE, overdue |-> FALSE]]
  <2>1. tk'[t].owner = NoOne /\ tk'[t].status = "open" /\ \A u \in Tickets \ {t} : tk'[u] = tk[u]
    BY <1>2, Facts DEF Table
  <2> QED
    BY <1>1, <2>1, StillDue
<1>3. ASSUME NEW k \in Staff, NEW b \in BOOLEAN, tk' = [tk EXCEPT ![t] = Received(tk, k, b)]
      PROVE  Due
  BY <1>1, <1>3, ReceivedIsDue
<1> QED
  BY <1>2, <1>3 DEF Create

LEMMA ClaimIsDue ==
  ASSUME Sound, NEW t \in Tickets, NEW k \in Staff, Claim(t, k) \/ Pickup(t, k)
  PROVE  Due
<1>1. tk[t].owner = NoOne
  BY DEF Claim, Pickup, Unassigned
<1>2. PICK b \in BOOLEAN : tk' = [tk EXCEPT ![t] = Received(tk, k, b)]
  BY DEF Claim, Pickup
<1> QED
  BY <1>1, <1>2, ReceivedIsDue

LEMMA AssignIsDue ==
  ASSUME Sound, NEW t \in Tickets, NEW k \in Staff, Assign(t, k), "assignSame" \notin Ops
  PROVE  Due
<1>1. PICK r : r = Reassigned(t, k)
  OBVIOUS
<1>2. PICK q : q = [tk EXCEPT ![t] = r]
  OBVIOUS
<1>3. tk' \in Handovers(q, tk[t].owner) /\ tk[t].owner # k
  BY <1>1, <1>2 DEF Assign
<1>4. /\ r.owner = k
      /\ tk[t].status \in {"open", "assigned", "in_progress"} => r.status = IF Busy(tk, k) THEN "assigned" ELSE "in_progress"
      /\ tk[t].status \notin {"open", "assigned", "in_progress"} => r.status = tk[t].status
  BY <1>1, Facts DEF Reassigned, Row
<1>5. r.status = "in_progress" => Room(tk, t, k)
  <2>1. r.status = "in_progress" => ~Busy(tk, k)
    BY <1>4
  <2> QED
    BY <2>1 DEF Room, Busy, Held
<1>6. \A j \in Staff : r.owner = j /\ tk[t].owner # j /\ r.status = "assigned" => Busy(tk, j)
  BY <1>4
<1> QED
  BY <1>2, <1>3, <1>4, <1>5, <1>6, HandoverIsDue

LEMMA CorrectIsDue ==
  ASSUME Sound, NEW t \in Tickets, NEW k \in Staff, CorrectAssignee(t, k)
  PROVE  Due
<1> DEFINE late == tk[t].overdue
           from == tk[t].owner
<1>1. late \in BOOLEAN /\ from \in Staff /\ from # k
  BY Facts DEF CorrectAssignee
<1>2. CASE CorrectResolved(t, k)
  <2>1. PICK r : r = [tk[t] EXCEPT !.owner = k]
    OBVIOUS
  <2>2. r.status = "resolved" /\ tk' = [tk EXCEPT ![t] = r]
    BY <1>2, <2>1, Facts DEF CorrectResolved, Row, Table
  <2> QED
    BY <2>2, OneMoveIsDue
<1>3. CASE CorrectActive(t, k)
  <2>1. PICK a, g : a = Queued(k, late) /\ g = InProgress(k, late)
    OBVIOUS
  <2>2. a.owner = k /\ a.status = "assigned" /\ g.owner = k /\ g.status = "in_progress"
    BY <2>1 DEF Queued, InProgress
  <2>0. PICK s : s = InProgress(k, FALSE)
    OBVIOUS
  <2>3. s = InProgress(k, FALSE) /\ s.owner = k /\ s.status = "in_progress"
    BY <2>0, PromotedRow
  <2>4. PICK wait, run : wait = [tk EXCEPT ![t] = a] /\ run = [tk EXCEPT ![t] = g]
    OBVIOUS
  <2>5. PICK m \in (IF Busy(tk, k) THEN {wait} ELSE IF tk[t].waiting THEN Promotions(wait, k) ELSE {run}) :
          tk' \in Handovers(m, from)
    BY <1>3, <2>1, <2>4 DEF CorrectActive
  <2>6. CASE Busy(tk, k) /\ m = wait
    <3>1. \A j \in Staff : a.owner = j /\ tk[t].owner # j /\ a.status = "assigned" => Busy(tk, j)
      BY <2>2, <2>6
    <3> QED
      BY <2>2, <2>4, <2>5, <2>6, <3>1, HandoverIsDue
  <2>7. ~Busy(tk, k) => Room(tk, t, k)
    BY DEF Room, Busy, Held
  <2>8. CASE ~Busy(tk, k) /\ m = run
    BY <2>2, <2>4, <2>5, <2>7, <2>8, HandoverIsDue
  <2>9. CASE ~Busy(tk, k) /\ m \in Promotions(wait, k)
    <3>1. wait[t] = a /\ \A u \in Tickets \ {t} : wait[u] = tk[u]
      BY <2>4, Facts DEF Table
    <3>2. Waiting(wait, k) = {t}
      <4>1. a.waiting
        BY <2>1 DEF Queued
      <4>2. \A u \in Tickets : tk[u].owner = k => tk[u].status \notin {"assigned", "in_progress", "pause"}
        BY <2>9 DEF Busy, Held
      <4> QED
        BY <2>2, <3>1, <4>1, <4>2 DEF Waiting, Held
    <3>3. m = [wait EXCEPT ![t] = s]
      <4>1. OldestOf({t}) \subseteq {t}
        BY DEF OldestOf
      <4> QED
        BY <2>3, <2>9, <3>2, <4>1 DEF Promotions
    <3>4. m = [tk EXCEPT ![t] = s]
      BY <2>4, <3>3, Facts DEF Table
    <3> QED
      BY <2>3, <2>5, <2>7, <2>9, <3>4, HandoverIsDue
  <2> QED
    BY <2>5, <2>6, <2>8, <2>9
<1> QED
  BY <1>2, <1>3 DEF CorrectAssignee

LEMMA CancelIsDue ==
  ASSUME Sound, NEW t \in Tickets, Cancel(t)
  PROVE  Due
<1>1. PICK r : r = [tk[t] EXCEPT !.status = "cancelled", !.waiting = FALSE]
  OBVIOUS
<1>2. r.owner = tk[t].owner /\ r.status = "cancelled"
  BY <1>1, Facts DEF Row
<1>3. PICK q : q = [tk EXCEPT ![t] = r]
  OBVIOUS
<1>4. q = [tk EXCEPT ![t].status = "cancelled", ![t].waiting = FALSE]
  BY <1>1, <1>3, Facts DEF Table
<1>5. tk' = q \/ (Held(q, tk[t].owner, {"in_progress"}) = {} /\ tk' \in Promotions(q, tk[t].owner))
  BY <1>4 DEF Cancel
<1> QED
  BY <1>2, <1>3, <1>5, OneMoveIsDue, TwoMovesAreDue

LEMMA WorkIsDue ==
  ASSUME Sound, NEW t \in Tickets, StartWork(t) \/ View(t) \/ PauseWork(t) \/ BecomeOverdue(t)
  PROVE  Due
<1>1. CASE StartWork(t)
  <2>1. tk'[t].owner = tk[t].owner /\ \A u \in Tickets \ {t} : tk'[u] = tk[u]
    BY <1>1, Facts DEF StartWork, Table, Row
  <2> QED
    BY <1>1, <2>1 DEF Due, StartedAlone, IdleStaffStart, Starts, Receives, ByHand
<1>2. CASE View(t)
  <2>1. tk'[t].owner = tk[t].owner /\ \A u \in Tickets \ {t} : tk'[u] = tk[u]
    BY <1>2, Facts DEF View, Table, Row, InProgress
  <2> QED
    BY <1>2, <2>1 DEF Due, StartedAlone, IdleStaffStart, Starts, Receives, ByHand
<1>3. CASE PauseWork(t)
  <2>1. tk'[t].owner = tk[t].owner /\ tk'[t].status = "pause" /\ \A u \in Tickets \ {t} : tk'[u] = tk[u]
    BY <1>3, Facts DEF PauseWork, Table, Row
  <2> QED
    BY <2>1, StillDue
<1>4. CASE BecomeOverdue(t)
  <2>1. tk'[t].owner = tk[t].owner /\ tk'[t].status = tk[t].status /\ \A u \in Tickets \ {t} : tk'[u] = tk[u]
    BY <1>4, Facts DEF BecomeOverdue, Table, Row
  <2> QED
    BY <2>1, StillDue
<1> QED
  BY <1>1, <1>2, <1>3, <1>4

LEMMA FinishIsDue ==
  ASSUME Sound, NEW h \in Handlers, NEW t \in Tickets, NEW to, Finish(h, t, to)
  PROVE  Due
<1>1. PICK w : tk' = [tk EXCEPT ![t].status = to, ![t].waiting = w]
  BY DEF Finish
<1>2. to # "in_progress"
  BY DEF Finish
<1>3. tk'[t].owner = tk[t].owner /\ tk'[t].status = to /\ \A u \in Tickets \ {t} : tk'[u] = tk[u]
  BY <1>1, Facts DEF Table, Row
<1> QED
  BY <1>2, <1>3, StillDue

LEMMA HandoffIsDue ==
  ASSUME Sound, NEW h \in Handlers, Handoff(h)
  PROVE  Due
<1>1. PICK k \in Staff : k = req[h].staff
  BY DEF Sound, Handoff
<1>2. CASE Tickets = {}
  BY <1>2, StillDue
<1>3. CASE Tickets # {}
  <2>1. PICK v \in Tickets : TRUE
    BY <1>3
  <2>2. PICK r : r = tk[v]
    OBVIOUS
  <2>3. tk = [tk EXCEPT ![v] = r]
    BY <2>2, Facts DEF Table
  <2>4. \A j \in Staff : r.owner = j /\ tk[v].owner # j /\ r.status = "assigned" => Busy(tk, j)
    BY <2>2
  <2>5. CASE tk' = tk
    BY <2>5, StillDue
  <2>6. CASE tk' \in Handovers(tk, k)
    BY <2>2, <2>3, <2>4, <2>6, HandoverIsDue
  <2>7. CASE tk' \in MovesOn(tk, k)
    <3>1. CASE Held(tk, k, {"in_progress"}) = {} /\ tk' \in Promotions(tk, k)
      BY <2>2, <2>3, <2>4, <3>1, TwoMovesAreDue
    <3>2. CASE /\ Held(tk, k, {"in_progress"}) = {}
               /\ \E u \in Tickets : tk' = [tk EXCEPT ![u] = InProgress(k, FALSE)]
      <4>0. PICK s : s = InProgress(k, FALSE)
        OBVIOUS
      <4>1. PICK u \in Tickets : tk' = [tk EXCEPT ![u] = s]
        BY <3>2, <4>0
      <4>3. s.owner = k /\ s.status = "in_progress"
        BY <4>0, PromotedRow
      <4>2. Room(tk, u, k)
        BY <3>2, IdleHasRoom
      <4> QED
        BY <4>1, <4>2, <4>3, OneMoveIsDue
    <3>3. Active(tk, k) \cap Held(tk, k, {"assigned", "in_progress"}) = {} => Held(tk, k, {"in_progress"}) = {}
      BY DEF Active, Held
    <3> QED
      BY <2>5, <2>7, <3>1, <3>2, <3>3 DEF MovesOn
  <2> QED
    BY <1>1, <2>5, <2>6, <2>7 DEF Handoff
<1> QED
  BY <1>2, <1>3

LEMMA CommitResumeIsDue ==
  ASSUME Sound, NEW h \in Handlers, CommitResume(h)
  PROVE  Due
<1>1. PICK t : t = req[h].ticket
  OBVIOUS
<1>2. tk' = [tk EXCEPT ![t].status = "in_progress", ![t].waiting = FALSE]
  BY <1>1 DEF CommitResume
<1>3. \A u \in Tickets : tk'[u].owner = tk[u].owner /\ (u # t => tk'[u] = tk[u])
  BY <1>2, Facts DEF Table, Row
<1>4. ByHand(t)
  BY <1>1 DEF ByHand
<1> QED
  BY <1>3, <1>4 DEF Due, StartedAlone, IdleStaffStart, Starts, Receives

(* The minute job is not among the operations: it has read nothing.        *)
LEMMA NothingScanned ==
  ASSUME Ops \subseteq StartOps, scan = {}, [Next]_vars
  PROVE  scan' = {}
<1>1. "cron" \notin Ops
  BY DEF StartOps
<1>2. CASE UNCHANGED vars
  BY <1>2 DEF vars
<1>3. ~ Scan
  BY <1>1 DEF Scan
<1>4. CASE Restart
  BY <1>4 DEF Restart
<1>5. ASSUME NEW t \in Tickets, \/ Create(t) \/ Cancel(t) \/ StartWork(t) \/ View(t) \/ PauseWork(t)
                                \/ Unfreeze(t) \/ Reopen(t) \/ BecomeOverdue(t)
      PROVE  scan' = {}
  BY <1>5 DEF Create, Cancel, StartWork, View, PauseWork, Unfreeze, Reopen, BecomeOverdue, Unchanged
<1>6. ASSUME NEW t \in Tickets, NEW k \in Staff, \/ Claim(t, k) \/ Pickup(t, k) \/ Assign(t, k)
                                                 \/ CorrectAssignee(t, k) \/ Accept(t, k)
      PROVE  scan' = {}
  BY <1>6 DEF Claim, Pickup, Assign, CorrectAssignee, Accept, Unchanged
<1>7. ASSUME NEW h \in Handlers, NEW t \in Tickets, ReadResume(h, t) \/ \E to \in Status : Finish(h, t, to)
      PROVE  scan' = {}
  BY <1>7 DEF ReadResume, Finish
<1>8. ASSUME NEW h \in Handlers, Handoff(h) \/ PushBack(h) \/ CommitResume(h) \/ RefuseResume(h) \/ Lose(h)
      PROVE  scan' = {}
  BY <1>8 DEF Handoff, PushBack, CommitResume, RefuseResume, Lose
<1>9. ASSUME NEW k \in Staff, Absence(k)
      PROVE  scan' = {}
  BY <1>9 DEF Absence, Unchanged
<1>10. ~ \E b \in scan : Advance(b)
  OBVIOUS
<1> QED
  BY <1>2, <1>3, <1>4, <1>5, <1>6, <1>7, <1>8, <1>9, <1>10 DEF Next

LEMMA DueWhenStarted ==
  ASSUME Ops \subseteq StartOps, Serving, scan = {}, Next
  PROVE  Due
<1>1. Sound /\ "assignSame" \notin Ops /\ "cron" \notin Ops
  BY DEF Serving, StartOps, ServingOps
<1>2. ASSUME NEW t \in Tickets, Create(t) \/ Cancel(t) \/ StartWork(t) \/ View(t) \/ PauseWork(t) \/ BecomeOverdue(t)
      PROVE  Due
  BY <1>1, <1>2, CreateIsDue, CancelIsDue, WorkIsDue
<1>3. ASSUME NEW t \in Tickets, NEW k \in Staff, Claim(t, k) \/ Pickup(t, k) \/ Assign(t, k) \/ CorrectAssignee(t, k)
      PROVE  Due
  BY <1>1, <1>3, ClaimIsDue, AssignIsDue, CorrectIsDue
<1>4. ASSUME NEW h \in Handlers, NEW t \in Tickets, NEW to, Finish(h, t, to)
      PROVE  Due
  BY <1>1, <1>4, FinishIsDue
<1>5. ASSUME NEW h \in Handlers, Handoff(h) \/ CommitResume(h)
      PROVE  Due
  BY <1>1, <1>5, HandoffIsDue, CommitResumeIsDue
<1>6. \A h \in Handlers : ~ PushBack(h)
  BY DEF PushBack, Serving
<1>7. ~ \E b \in scan : Advance(b)
  OBVIOUS
<1>8. ASSUME UNCHANGED tk
      PROVE  Due
  BY <1>1, <1>8, StillDue
<1>9. \A t \in Tickets : ~ Unfreeze(t) /\ ~ Reopen(t) /\ \A k \in Staff : ~ Accept(t, k)
  BY DEF Unfreeze, Reopen, Accept, StartOps, ServingOps
<1>10. \A k \in Staff : ~ Absence(k)
  BY DEF Absence, StartOps, ServingOps
<1>11. ASSUME Scan \/ Restart \/ (\E h \in Handlers : RefuseResume(h) \/ Lose(h) \/ \E t \in Tickets : ReadResume(h, t))
       PROVE  UNCHANGED tk
  BY <1>11 DEF Scan, Restart, RefuseResume, Lose, ReadResume
<1> QED
  BY <1>2, <1>3, <1>4, <1>5, <1>6, <1>7, <1>8, <1>9, <1>10, <1>11, Zenon DEF Next

(* Without the minute job and the operations outside ServingOps, and as    *)
(* long as no request is lost, no assignment or handoff starts a ticket    *)
(* beside one that is on time, and a free staff member starts whatever     *)
(* they receive.                                                           *)
THEOREM WorkStartsAsDue ==
  ASSUME Ops \subseteq StartOps, Crashes = FALSE
  PROVE  Spec => StartsAsDue
<1>1. Init => Serving /\ scan = {}
  BY InitialServing DEF Init
<1>2. Serving /\ scan = {} /\ [Next]_vars => (Serving /\ scan = {})'
  <2>1. Ops \subseteq ServingOps
    BY DEF StartOps
  <2> QED
    BY <2>1, ServingStep, NothingScanned
<1>3. Serving /\ scan = {} /\ [Next]_vars => [StartedAlone /\ IdleStaffStart]_vars
  BY DueWhenStarted DEF Due
<1> QED
  BY <1>1, <1>2, <1>3, PTL DEF Spec, StartsAsDue

-----------------------------------------------------------------------------
(* Attendance and duty coverage                                            *)
AttendanceRows == [status : Attendance, clock : BOOLEAN, manual : BOOLEAN, note : Types \cup {None}]
CoverageRows == [status : CoverageStatus, primary : Techs \cup {None}, assigned : Techs \cup {None},
                 sub : BOOLEAN, over : BOOLEAN, pnote : Types \cup {None}]
AttendanceTable == [Techs -> AttendanceRows]

(* Somebody is named for a duty that runs.                                 *)
CoverageTable ==
  {c \in [Slots -> CoverageRows] : \A s \in Slots : c[s].status = "active" => c[s].assigned # None}

Stages == [a : AttendanceTable, c : CoverageTable, cur : BOOLEAN, done : {None, "null", "row", "error"}]

(* What a reconciliation leaves alone: it never makes an absence, and no   *)
(* duty runs or is completed that did not before.                          *)
KeepsAttendance(a, b) == \A t \in Techs : b[t] = a[t] \/ b[t].status \in {"present", "out_of_office"}
KeepsCoverage(c, d) == \A s \in Slots : d[s].status \in {"active", "completed"} => d[s] = c[s]
Follows(a, c, g) == g \in Stages /\ KeepsAttendance(a, g.a) /\ KeepsCoverage(c, g.c)

LEMMA SlotsTyped ==
  /\ OD \in Slots /\ \A m \in Meetings : Slot(m) \in Slots
  /\ \A s \in Slots : s[1] \in Types
  /\ "OD" \in Types
<1>1. "OD" \in Types
  BY DutyConstants DEF Types, Range
<1>2. \A m \in Meetings : Slot(m)[1] \in Types
  BY DutyConstants DEF Slot
<1> QED
  BY <1>1, <1>2 DEF Slots, OD

LEMMA RowsAreTyped ==
  /\ NoRow \in AttendanceRows /\ NoCoverage \in CoverageRows /\ NoCoverage.status = "none"
  /\ \A st \in Attendance, clock, manual \in BOOLEAN, note \in Types \cup {None} :
       AttendanceRow(st, clock, manual, note) \in AttendanceRows
BY DEF NoRow, NoCoverage, AttendanceRow, AttendanceRows, CoverageRows, Attendance, CoverageStatus

(* A stage that changes nothing, and one after another.                    *)
LEMMA FollowsItself ==
  ASSUME NEW g \in Stages
  PROVE  Follows(g.a, g.c, g)
BY DEF Follows, KeepsAttendance, KeepsCoverage

LEMMA FollowsOn ==
  ASSUME NEW a, NEW c, NEW g, NEW h, Follows(a, c, g), Follows(g.a, g.c, h)
  PROVE  Follows(a, c, h)
<1>1. KeepsAttendance(a, h.a)
  BY DEF Follows, KeepsAttendance
<1>2. KeepsCoverage(c, h.c)
  <2> SUFFICES ASSUME NEW s \in Slots, h.c[s].status \in {"active", "completed"}
               PROVE  h.c[s] = c[s]
    BY DEF KeepsCoverage
  <2>1. h.c[s] = g.c[s]
    BY DEF Follows, KeepsCoverage
  <2>2. g.c[s] = c[s]
    BY <2>1 DEF Follows, KeepsCoverage
  <2> QED
    BY <2>1, <2>2
<1> QED
  BY <1>1, <1>2 DEF Follows

LEMMA RowOf ==
  ASSUME NEW c \in CoverageTable, NEW s \in Slots
  PROVE  /\ c[s] \in CoverageRows
         /\ c[s].status = "active" => c[s].assigned \in Techs
         /\ coverageCandidateUserId(c[s]) \in Techs \cup {None}
BY DEF CoverageTable, CoverageRows, coverageCandidateUserId

(* One row of either table replaced.                                       *)
LEMMA AttendanceReplaced ==
  ASSUME NEW a \in AttendanceTable, NEW t \in Techs, NEW r \in AttendanceRows
  PROVE  /\ [a EXCEPT ![t] = r] \in AttendanceTable
         /\ r.status \in {"present", "out_of_office"} => KeepsAttendance(a, [a EXCEPT ![t] = r])
BY DEF AttendanceTable, KeepsAttendance

LEMMA CoverageReplaced ==
  ASSUME NEW c \in CoverageTable, NEW s \in Slots, NEW r \in CoverageRows,
         r.status = "active" => r.assigned # None
  PROVE  /\ [c EXCEPT ![s] = r] \in CoverageTable
         /\ r.status \notin {"active", "completed"} => KeepsCoverage(c, [c EXCEPT ![s] = r])
BY DEF CoverageTable, KeepsCoverage

Marked(r, st, note) == [r EXCEPT !.status = st, !.note = note]
MarkedByHand(r, st, note, manual) == [r EXCEPT !.status = st, !.note = note, !.manual = manual]

LEMMA RowChanged ==
  ASSUME NEW r \in AttendanceRows, NEW st \in Attendance, NEW note \in Types \cup {None}, NEW manual \in BOOLEAN
  PROVE  /\ Marked(r, st, note) \in AttendanceRows /\ Marked(r, st, note).status = st
         /\ MarkedByHand(r, st, note, manual) \in AttendanceRows /\ MarkedByHand(r, st, note, manual).status = st
<1>1. Marked(r, st, note) \in AttendanceRows
  BY DEF AttendanceRows, Marked
<1>2. MarkedByHand(r, st, note, manual) \in AttendanceRows
  BY DEF AttendanceRows, MarkedByHand
<1> QED
  BY <1>1, <1>2 DEF AttendanceRows, Marked, MarkedByHand

LEMMA RestoreFits ==
  ASSUME NEW a \in AttendanceTable, NEW row \in CoverageRows
  PROVE  restoreAttendance(a, row) \in AttendanceTable /\ KeepsAttendance(a, restoreAttendance(a, row))
<1>1. CASE row.assigned # None /\ row.over /\ a[row.assigned] # NoRow
  <2>1. row.assigned \in Techs /\ row.pnote \in Types \cup {None}
    BY <1>1 DEF CoverageRows
  <2> DEFINE t == row.assigned
             r == Marked(a[t], "present", row.pnote)
  <2>2. r \in AttendanceRows /\ r.status = "present"
    <3>1. a[t] \in AttendanceRows /\ "present" \in Attendance
      BY <2>1 DEF AttendanceTable, Attendance
    <3> QED
      BY <2>1, <3>1, RowChanged
  <2>3. restoreAttendance(a, row) = [a EXCEPT ![t] = r]
    BY <1>1, <2>1 DEF restoreAttendance, AttendanceTable, AttendanceRows, Marked
  <2> HIDE DEF r, t
  <2>4. t \in Techs
    BY <2>1 DEF t
  <2> QED
    BY <2>4, <2>2, <2>3, AttendanceReplaced
<1>2. CASE ~(row.assigned # None /\ row.over /\ a[row.assigned] # NoRow)
  <2>1. restoreAttendance(a, row) = a
    BY <1>2 DEF restoreAttendance
  <2> QED
    BY <2>1 DEF KeepsAttendance
<1> QED
  BY <1>1, <1>2

-----------------------------------------------------------------------------
(* The stages of a reconciliation                                          *)
LEMMA StageFits ==
  ASSUME NEW a, NEW c, NEW b \in AttendanceTable, NEW d \in CoverageTable, NEW cur \in BOOLEAN,
         NEW done \in {None, "null", "row", "error"}, KeepsAttendance(a, b), KeepsCoverage(c, d)
  PROVE  Follows(a, c, Stage(b, d, cur, done))
BY DEF Stage, Stages, Follows

LEMMA StageParts ==
  ASSUME NEW g \in Stages
  PROVE  /\ g.a \in AttendanceTable /\ g.c \in CoverageTable /\ g.cur \in BOOLEAN
         /\ g.done \in {None, "null", "row", "error"}
         /\ KeepsAttendance(g.a, g.a) /\ KeepsCoverage(g.c, g.c)
BY DEF Stages, KeepsAttendance, KeepsCoverage

LEMMA ReplaceFits ==
  ASSUME NEW g \in Stages, NEW s \in Slots
  PROVE  Follows(g.a, g.c, ReplaceByRelievers(g, s))
<1> DEFINE row == g.c[s]
           r == IF row = NoCoverage THEN row
                ELSE [row EXCEPT !.status = "cancelled", !.assigned = None, !.sub = FALSE, !.over = FALSE]
<1>1. row \in CoverageRows
  BY StageParts, RowOf
<1>2. r \in CoverageRows /\ r.status \in {"none", "cancelled"}
  BY <1>1, RowsAreTyped DEF CoverageRows, CoverageStatus
<1>3. [g.c EXCEPT ![s] = r] \in CoverageTable /\ KeepsCoverage(g.c, [g.c EXCEPT ![s] = r])
  <2> HIDE DEF r
  <2> QED
    BY <1>2, StageParts, CoverageReplaced
<1>4. restoreAttendance(g.a, row) \in AttendanceTable /\ KeepsAttendance(g.a, restoreAttendance(g.a, row))
  BY <1>1, StageParts, RestoreFits
<1>5. ReplaceByRelievers(g, s) = Stage(restoreAttendance(g.a, row), [g.c EXCEPT ![s] = r], TRUE, "null")
  BY DEF ReplaceByRelievers
<1> QED
  <2> HIDE DEF r, row
  <2> QED
    BY <1>3, <1>4, <1>5, StageFits

LEMMA YieldFits ==
  ASSUME NEW g \in Stages, NEW s \in Slots
  PROVE  Follows(g.a, g.c, YieldToPriorDuty(g, s))
<1> DEFINE row == g.c[s]
           t == coverageCandidateUserId(row)
           prior == {p \in ReservedByPriorDuty(g.c, s[1], s[2]) : coverageCandidateUserId(g.c[p]) = t}
           note == (CHOOSE p \in prior : TRUE)[1]
           b == IF row.over /\ g.a[t] # NoRow
                  THEN [g.a EXCEPT ![t].status = "out_of_office", ![t].manual = TRUE, ![t].note = note]
                  ELSE g.a
           d == [g.c EXCEPT ![s].status = "cancelled", ![s].assigned = None, ![s].over = FALSE]
<1>1. CASE t = None \/ prior = {}
  BY <1>1, FollowsItself DEF YieldToPriorDuty
<1>2. CASE t # None /\ prior # {}
  <2>1. row \in CoverageRows /\ t \in Techs
    BY <1>2, StageParts, RowOf
  <2>2. note \in Types
    <3>1. prior \subseteq Slots
      BY DEF ReservedByPriorDuty
    <3>2. (CHOOSE p \in prior : TRUE) \in Slots
      BY <1>2, <3>1
    <3> QED
      BY <3>2, SlotsTyped
  <2>3. b \in AttendanceTable /\ KeepsAttendance(g.a, b)
    <3> HIDE DEF note, t, row
    <3> DEFINE r == MarkedByHand(g.a[t], "out_of_office", note, TRUE)
    <3>1. r \in AttendanceRows /\ r.status = "out_of_office"
      <4>1. g.a[t] \in AttendanceRows /\ "out_of_office" \in Attendance
        BY <2>1, StageParts DEF AttendanceTable, Attendance
      <4> QED
        BY <2>2, <4>1, RowChanged
    <3>2. [g.a EXCEPT ![t].status = "out_of_office", ![t].manual = TRUE, ![t].note = note] = [g.a EXCEPT ![t] = r]
      BY <2>1, StageParts DEF AttendanceTable, AttendanceRows, MarkedByHand
    <3> HIDE DEF r
    <3>3. [g.a EXCEPT ![t] = r] \in AttendanceTable /\ KeepsAttendance(g.a, [g.a EXCEPT ![t] = r])
      BY <2>1, <3>1, StageParts, AttendanceReplaced
    <3> QED
      BY <3>2, <3>3, StageParts
  <2>4. d \in CoverageTable /\ KeepsCoverage(g.c, d)
    <3> DEFINE r == [row EXCEPT !.status = "cancelled", !.assigned = None, !.over = FALSE]
    <3>1. r \in CoverageRows /\ r.status = "cancelled"
      BY <2>1 DEF CoverageRows, CoverageStatus
    <3>2. d = [g.c EXCEPT ![s] = r]
      BY StageParts DEF CoverageTable, CoverageRows
    <3> HIDE DEF r, d
    <3> QED
      BY <3>1, <3>2, StageParts, CoverageReplaced
  <2>5. YieldToPriorDuty(g, s) = Stage(b, d, TRUE, g.done)
    BY <1>2 DEF YieldToPriorDuty
  <2> HIDE DEF b, d, t, prior, row
  <2> QED
    BY <2>3, <2>4, <2>5, StageParts, StageFits
<1> QED
  BY <1>1, <1>2

LEMMA DropFits ==
  ASSUME NEW w, NEW g \in Stages, NEW s \in Slots
  PROVE  Follows(g.a, g.c, DropUnavailable(w, g, s))
<1> DEFINE row == g.c[s]
           r == [row EXCEPT !.status = "cancelled"]
           b == restoreAttendance(g.a, row)
           d == [g.c EXCEPT ![s] = r]
<1>1. row \in CoverageRows
  BY StageParts, RowOf
<1>2. r \in CoverageRows /\ r.status = "cancelled"
  BY <1>1 DEF CoverageRows, CoverageStatus
<1>3. [g.c EXCEPT ![s].status = "cancelled"] = [g.c EXCEPT ![s] = r]
  BY StageParts DEF CoverageTable, CoverageRows
<1>4. d \in CoverageTable /\ KeepsCoverage(g.c, d)
  <2> HIDE DEF r
  <2> QED
    BY <1>2, StageParts, CoverageReplaced
<1>5. b \in AttendanceTable /\ KeepsAttendance(g.a, b)
  BY <1>1, StageParts, RestoreFits
<1>6. \/ DropUnavailable(w, g, s) = Stage(b, d, FALSE, g.done)
      \/ DropUnavailable(w, g, s) = g
  BY <1>3 DEF DropUnavailable
<1> HIDE DEF b, d
<1> QED
  BY <1>4, <1>5, <1>6, StageParts, StageFits, FollowsItself

LEMMA RevokeFits ==
  ASSUME NEW g \in Stages, NEW s \in Slots
  PROVE  Follows(g.a, g.c, RevokeSubstitute(g, s))
<1> DEFINE row == g.c[s]
           r == [row EXCEPT !.status = "intervention_required", !.assigned = None, !.sub = FALSE, !.over = FALSE]
           b == restoreAttendance(g.a, row)
           d == [g.c EXCEPT ![s] = r]
<1>1. row \in CoverageRows
  BY StageParts, RowOf
<1>2. r \in CoverageRows /\ r.status = "intervention_required"
  BY <1>1 DEF CoverageRows, CoverageStatus
<1>4. d \in CoverageTable /\ KeepsCoverage(g.c, d)
  <2> HIDE DEF r
  <2> QED
    BY <1>2, StageParts, CoverageReplaced
<1>5. b \in AttendanceTable /\ KeepsAttendance(g.a, b)
  BY <1>1, StageParts, RestoreFits
<1>6. \/ RevokeSubstitute(g, s) = Stage(b, d, TRUE, g.done)
      \/ RevokeSubstitute(g, s) = g
  BY DEF RevokeSubstitute
<1> HIDE DEF b, d
<1> QED
  BY <1>4, <1>5, <1>6, StageParts, StageFits, FollowsItself


(* Some candidate comes before every other: of those who have not served   *)
(* today, or else of all, the one with the least position.                 *)
LEMMA LeastPosition ==
  ASSUME NEW P \in SUBSET Techs, P # {}
  PROVE  \E t \in P : \A u \in P : Position(t) <= Position(u)
<1> DEFINE R == OpToRel(<, Nat)
           places == {n \in Nat : \E t \in P : n = Position(t)}
<1>1. IsWellFoundedOn(R, Nat)
  BY NatLessThanWellFounded
<1>2. \A x, y \in Nat : <<y, x>> \in R <=> y < x
  BY DEF OpToRel
<1>3. \A t \in Techs : Position(t) \in Nat
  <2> TAKE t \in Techs
  <2>1. \E i \in DOMAIN Order : Order[i] = t
    BY DutyConstants DEF Range
  <2>2. Position(t) \in DOMAIN Order
    BY <2>1 DEF Position
  <2> QED
    BY <2>2, DutyConstants
<1>4. places \subseteq Nat /\ places # {}
  BY <1>3
<1> HIDE DEF R
<1>5. PICK n \in places : \A k \in places : ~ (<<k, n>> \in R)
  BY <1>1, <1>4, WFMin
<1>6. PICK t \in P : n = Position(t)
  OBVIOUS
<1>7. \A u \in P : Position(t) <= Position(u)
  <2> TAKE u \in P
  <2>1. Position(u) \in places /\ Position(u) \in Nat /\ n \in Nat
    BY <1>3
  <2>2. ~ (Position(u) < n)
    BY <1>2, <1>5, <2>1
  <2> QED
    BY <1>6, <2>1, <2>2
<1> QED
  BY <1>7

LEMMA FirstInRotation ==
  ASSUME NEW w, NEW type, NEW P \in SUBSET Techs, P # {}
  PROVE  \E t \in P : \A u \in P : Before(w, t, u, type)
<1> DEFINE fresh == {t \in P : ~ServedToday(w, t, type)}
<1>1. CASE fresh # {}
  <2>1. PICK t \in fresh : \A u \in fresh : Position(t) <= Position(u)
    BY <1>1, LeastPosition
  <2>2. \A u \in P : Before(w, t, u, type)
    BY <2>1 DEF Before
  <2> QED
    BY <2>2
<1>2. CASE fresh = {}
  <2>1. PICK t \in P : \A u \in P : Position(t) <= Position(u)
    BY LeastPosition
  <2>2. \A u \in P : Before(w, t, u, type)
    BY <1>2, <2>1 DEF Before
  <2> QED
    BY <2>2
<1> QED
  BY <1>1, <1>2

LEMMA ProposeFits ==
  ASSUME NEW w, NEW g \in Stages, NEW s \in Slots, NEW excludedIds
  PROVE  Follows(g.a, g.c, ProposePrimary(w, g, s, excludedIds))
<1> DEFINE taken == {coverageCandidateUserId(g.c[p]) : p \in ReservedByPriorDuty(g.c, s[1], s[2])}
           rotation == getRotation(w, s[1])
           candidates == {t \in rotation : /\ isAttendanceRecordEligible(g.a, t, FALSE)
                                           /\ t \notin taken \cup excludedIds}
           first == CHOOSE t \in candidates : \A u \in candidates : Before(w, t, u, s[1])
           r == [NoCoverage EXCEPT !.status = "intervention_required", !.primary = first]
           p == [g.c EXCEPT ![s] = r]
           q == [g.c[s] EXCEPT !.status = "cancelled"]
           d == [g.c EXCEPT ![s] = q]
<1>1. candidates \in SUBSET Techs
  BY DEF getRotation
<1>2. ASSUME candidates # {}
      PROVE  p \in CoverageTable /\ KeepsCoverage(g.c, p)
  <2>1. first \in Techs
    <3>1. \E t \in candidates : \A u \in candidates : Before(w, t, u, s[1])
      BY <1>1, <1>2, FirstInRotation
    <3>2. first \in candidates
      BY <3>1
    <3> QED
      BY <1>1, <3>2
  <2>2. r \in CoverageRows /\ r.status = "intervention_required"
    <3> HIDE DEF first
    <3> QED
      BY <2>1, RowsAreTyped DEF CoverageRows, CoverageStatus
  <2> HIDE DEF r
  <2> QED
    BY <2>2, StageParts, CoverageReplaced
<1>3. d \in CoverageTable /\ KeepsCoverage(g.c, d)
  <2>1. g.c[s] \in CoverageRows
    BY StageParts, RowOf
  <2>2. q \in CoverageRows /\ q.status = "cancelled"
    BY <2>1 DEF CoverageRows, CoverageStatus
  <2> HIDE DEF q
  <2> QED
    BY <2>2, StageParts, CoverageReplaced
<1>4. [g.c EXCEPT ![s].status = "cancelled"] = d
  BY StageParts DEF CoverageTable, CoverageRows
<1>5. /\ [g EXCEPT !.done = "row"] = Stage(g.a, g.c, g.cur, "row")
      /\ [g EXCEPT !.done = "error"] = Stage(g.a, g.c, g.cur, "error")
  BY DEF Stages, Stage
<1>6. \/ ProposePrimary(w, g, s, excludedIds) \in {Stage(g.a, g.c, g.cur, x) : x \in {"row", "error", "null"}}
      \/ ProposePrimary(w, g, s, excludedIds) = Stage(g.a, d, g.cur, "null")
      \/ candidates # {} /\ ProposePrimary(w, g, s, excludedIds) = Stage(g.a, p, TRUE, "row")
  <2> HIDE DEF d, p
  <2> QED
    BY <1>4, <1>5 DEF ProposePrimary, p
<1> HIDE DEF d, p, candidates
<1> QED
  BY <1>2, <1>3, <1>6, StageParts, StageFits

LEMMA OnlyOne == ASSUME NEW x PROVE Only({x}) = x
BY DEF Only

LEMMA SlotFits ==
  ASSUME NEW w, NEW a \in AttendanceTable, NEW c \in CoverageTable, NEW s \in Slots, NEW excludedIds
  PROVE  Follows(a, c, ReconcileSlot(w, a, c, s, excludedIds))
<1> DEFINE g0 == Stage(a, c, TRUE, None)
           g1 == YieldToPriorDuty(g0, s)
           g2 == DropUnavailable(w, g1, s)
           g3 == RevokeSubstitute(g2, s)
           g4 == ProposePrimary(w, g3, s, excludedIds)
<1>1. g0 \in Stages /\ g0.a = a /\ g0.c = c
  BY DEF Stages, Stage
<1> HIDE DEF g0
<1>2. Follows(a, c, ReplaceByRelievers(g0, s))
  BY <1>1, ReplaceFits
<1>3. Follows(a, c, g1) /\ g1 \in Stages
  BY <1>1, YieldFits DEF Follows
<1> HIDE DEF g1
<1>4. Follows(a, c, g2) /\ g2 \in Stages
  BY <1>3, DropFits, FollowsOn DEF Follows
<1> HIDE DEF g2
<1>5. Follows(a, c, g3) /\ g3 \in Stages
  BY <1>4, RevokeFits, FollowsOn DEF Follows
<1> HIDE DEF g3
<1>6. Follows(a, c, g4)
  BY <1>5, ProposeFits, FollowsOn
<1>7. \/ ReconcileSlot(w, a, c, s, excludedIds) = ReplaceByRelievers(g0, s)
      \/ ReconcileSlot(w, a, c, s, excludedIds) = g4
  <2>1. {YieldToPriorDuty(g, s) : g \in {g0}} = {g1}
    BY DEF g1
  <2>2. Only({ProposePrimary(w, g, s, excludedIds) :
                 g \in {RevokeSubstitute(d, s) :
                 d \in {DropUnavailable(w, y, s) : y \in {YieldToPriorDuty(g0, s)}}}}) = g4
    <3>1. {DropUnavailable(w, y, s) : y \in {YieldToPriorDuty(g0, s)}} = {g2}
      BY DEF g1, g2
    <3>2. {RevokeSubstitute(d, s) : d \in {g2}} = {g3}
      BY DEF g3
    <3>3. {ProposePrimary(w, g, s, excludedIds) : g \in {g3}} = {g4}
      OBVIOUS
    <3> HIDE DEF g4
    <3> QED
      BY <3>1, <3>2, <3>3, OnlyOne
  <2> HIDE DEF g4
  <2> QED
    BY <2>2 DEF ReconcileSlot, g0
<1> HIDE DEF g4
<1> QED
  BY <1>2, <1>6, <1>7

LEMMA CoverageFits ==
  ASSUME NEW w, NEW a \in AttendanceTable, NEW c \in CoverageTable, NEW type, NEW excludedIds
  PROVE  Follows(a, c, reconcileCoverage(w, a, c, type, excludedIds))
<1>1. CASE type = "OD"
  BY <1>1, SlotsTyped, SlotFits DEF reconcileCoverage
<1>2. CASE type # "OD" /\ selectedReservation(w.res, type) = {}
  <2>1. reconcileCoverage(w, a, c, type, excludedIds) = Stage(a, c, TRUE, "null")
    BY <1>2 DEF reconcileCoverage
  <2>2. KeepsAttendance(a, a) /\ KeepsCoverage(c, c)
    BY DEF KeepsAttendance, KeepsCoverage
  <2> QED
    BY <2>1, <2>2, StageFits
<1>3. CASE type # "OD" /\ selectedReservation(w.res, type) # {}
  <2> DEFINE m == CHOOSE m \in selectedReservation(w.res, type) : TRUE
  <2>1. m \in Meetings
    BY <1>3 DEF selectedReservation
  <2>2. reconcileCoverage(w, a, c, type, excludedIds) = ReconcileSlot(w, a, c, Slot(m), excludedIds)
    BY <1>3 DEF reconcileCoverage
  <2> HIDE DEF m
  <2> QED
    BY <2>1, <2>2, SlotsTyped, SlotFits
<1> QED
  BY <1>1, <1>2, <1>3

-----------------------------------------------------------------------------
(* The reconciliation of a day                                             *)

(* Induction along the duty types, for sets of positions.                  *)
LEMMA Reaches ==
  ASSUME NEW N \in Nat, NEW S, 0 \in S, \A n \in 1..N : n - 1 \in S => n \in S
  PROVE  \A n \in 0..N : n \in S
<1> DEFINE R == OpToRel(<, Nat)
           left == {n \in 0..N : n \notin S}
<1>1. IsWellFoundedOn(R, Nat)
  BY NatLessThanWellFounded
<1>2. \A x, y \in Nat : <<y, x>> \in R <=> y < x
  BY DEF OpToRel
<1> SUFFICES ASSUME left # {} PROVE FALSE
  OBVIOUS
<1>3. left \subseteq Nat
  OBVIOUS
<1> HIDE DEF R
<1>4. PICK n \in left : \A k \in left : ~ (<<k, n>> \in R)
  BY <1>1, <1>3, WFMin
<1>5. n \in 1..N
  BY <1>4
<1>6. n - 1 \in 0..N /\ n - 1 < n /\ n - 1 \in Nat /\ n \in Nat
  BY <1>5
<1>7. n - 1 \notin left
  BY <1>2, <1>4, <1>6
<1> QED
  BY <1>5, <1>6, <1>7

LEMMA OrphansFit ==
  ASSUME NEW a \in AttendanceTable, NEW c \in CoverageTable
  PROVE  /\ restoreOrphanedDutyAttendance(a, c) \in AttendanceTable
         /\ KeepsAttendance(a, restoreOrphanedDutyAttendance(a, c))
<1> DEFINE b == restoreOrphanedDutyAttendance(a, c)
           free(t) == MarkedByHand(a[t], "present", None, FALSE)
<1>1. b = [t \in Techs |-> b[t]] /\ \A t \in Techs : b[t] = a[t] \/ b[t] = free(t)
  BY DEF restoreOrphanedDutyAttendance, MarkedByHand
<1>2. \A t \in Techs : a[t] \in AttendanceRows /\ free(t) \in AttendanceRows /\ free(t).status = "present"
  <2> TAKE t \in Techs
  <2>1. a[t] \in AttendanceRows /\ "present" \in Attendance
    BY DEF AttendanceTable, Attendance
  <2> QED
    BY <2>1, RowChanged
<1> HIDE DEF b, free
<1>3. b \in AttendanceTable
  BY <1>1, <1>2 DEF AttendanceTable
<1>4. KeepsAttendance(a, b)
  BY <1>1, <1>2 DEF KeepsAttendance
<1> QED
  BY <1>3, <1>4 DEF b

LEMMA TodayFits ==
  ASSUME NEW w, NEW a \in AttendanceTable, NEW c \in CoverageTable
  PROVE  Follows(a, c, reconcileToday(w, a, c))
<1> DEFINE N == Len(DUTY_PRIORITY)
           start == Stage(restoreOrphanedDutyAttendance(a, c), c, TRUE, None)
           next(g, n) == Only({ReconcileNext(w, h, DUTY_PRIORITY[n]) : h \in {g}})
           Walks(f, k) == f = [n \in 0..k |-> IF n = 0 THEN start ELSE next(f[n - 1], n)]
           upTo == CHOOSE f : Walks(f, N)
<1>1. N \in Nat
  BY DutyConstants
<1>2. reconcileToday(w, a, c) = upTo[N]
  BY DEF reconcileToday
<1>3. Follows(a, c, start)
  <2>1. KeepsCoverage(c, c)
    BY DEF KeepsCoverage
  <2> QED
    BY <2>1, OrphansFit, StageFits
<1>4. ASSUME NEW g, NEW n, Follows(a, c, g)
      PROVE  Follows(a, c, next(g, n))
  <2>1. next(g, n) = ReconcileNext(w, g, DUTY_PRIORITY[n])
    <3>1. {ReconcileNext(w, h, DUTY_PRIORITY[n]) : h \in {g}} = {ReconcileNext(w, g, DUTY_PRIORITY[n])}
      OBVIOUS
    <3> QED
      BY <3>1, OnlyOne
  <2>2. g \in Stages
    BY <1>4 DEF Follows
  <2>3. CASE g.done = "error"
    BY <1>4, <2>1, <2>3 DEF ReconcileNext
  <2>4. CASE g.done # "error"
    <3> DEFINE h == reconcileCoverage(w, g.a, g.c, DUTY_PRIORITY[n], {})
    <3>1. next(g, n) = h
      BY <2>1, <2>4 DEF ReconcileNext
    <3>2. Follows(g.a, g.c, h)
      BY <2>2, StageParts, CoverageFits
    <3> HIDE DEF h
    <3> QED
      BY <1>4, <3>1, <3>2, FollowsOn
  <2> QED
    BY <2>3, <2>4
<1> HIDE DEF start, next
<1>5. \E f : Walks(f, N)
  <2> DEFINE S == {k \in 0..N : \E f : Walks(f, k)}
  <2>1. 0 \in S
    <3>1. \A n \in 0..0 : n = 0
      OBVIOUS
    <3>2. Walks([n \in 0..0 |-> start], 0)
      <4> DEFINE f == [n \in 0..0 |-> start]
                 e == [n \in 0..0 |-> IF n = 0 THEN start ELSE next(f[n - 1], n)]
      <4>1. \A n \in 0..0 : f[n] = e[n]
        BY <3>1
      <4>2. f = [n \in 0..0 |-> f[n]] /\ e = [n \in 0..0 |-> e[n]]
        OBVIOUS
      <4>3. f = e
        <5> HIDE DEF f, e
        <5> QED
          BY <4>1, <4>2
      <4> QED
        BY <4>3
    <3> HIDE DEF Walks
    <3> QED
      BY <1>1, <3>2
  <2>2. ASSUME NEW k \in 1..N, k - 1 \in S
        PROVE  k \in S
    <3>1. PICK f : Walks(f, k - 1)
      BY <2>2
    <3> DEFINE h == [n \in 0..k |-> IF n = k THEN next(f[k - 1], k) ELSE f[n]]
    <3>2. \A n \in 0..k : n # 0 => n - 1 \in 0..(k - 1) /\ h[n - 1] = f[n - 1]
      BY <1>1
    <3>3. \A n \in 0..(k - 1) : f[n] = IF n = 0 THEN start ELSE next(f[n - 1], n)
      BY <3>1
    <3>4. \A n \in 0..k : h[n] = IF n = 0 THEN start ELSE next(h[n - 1], n)
      <4> TAKE n \in 0..k
      <4>1. CASE n = k
        BY <1>1, <3>2, <4>1
      <4>2. CASE n # k
        BY <1>1, <3>2, <3>3, <4>2
      <4> QED
        BY <4>1, <4>2
    <3>5. h = [n \in 0..k |-> h[n]]
      OBVIOUS
    <3> HIDE DEF h
    <3>6. Walks(h, k)
      <4> DEFINE e == [n \in 0..k |-> IF n = 0 THEN start ELSE next(h[n - 1], n)]
      <4>1. \A n \in 0..k : h[n] = e[n]
        BY <3>4
      <4>2. e = [n \in 0..k |-> e[n]]
        OBVIOUS
      <4>3. h = e
        <5> HIDE DEF e
        <5> QED
          BY <3>5, <4>1, <4>2
      <4> QED
        BY <4>3
    <3> QED
      BY <3>6
  <2> HIDE DEF S
  <2>3. N \in S
    <3> HIDE DEF N
    <3>1. N \in 0..N
      BY <1>1
    <3> QED
      BY <1>1, <2>1, <2>2, <3>1, Reaches
  <2> QED
    BY <2>3 DEF S
<1>6. Walks(upTo, N)
  BY <1>5
<1> HIDE DEF upTo
<1>7. \A n \in 0..N : upTo[n] = IF n = 0 THEN start ELSE next(upTo[n - 1], n)
  <2> DEFINE e == [n \in 0..N |-> IF n = 0 THEN start ELSE next(upTo[n - 1], n)]
  <2>1. \A n \in 0..N : e[n] = IF n = 0 THEN start ELSE next(upTo[n - 1], n)
    OBVIOUS
  <2>2. upTo = e
    BY <1>6
  <2> HIDE DEF e
  <2> QED
    BY <2>1, <2>2
<1> DEFINE S == {n \in 0..N : Follows(a, c, upTo[n])}
<1>8. 0 \in S
  BY <1>1, <1>3, <1>7
<1>9. \A n \in 1..N : n - 1 \in S => n \in S
  BY <1>1, <1>4, <1>7
<1>10. N \in S
  <2> HIDE DEF S, N
  <2>1. N \in 0..N
    BY <1>1
  <2> QED
    BY <1>1, <1>8, <1>9, <2>1, Reaches
<1> QED
  BY <1>2, <1>10

-----------------------------------------------------------------------------
(* The invariant of the day                                                *)
LogKeys  == (Slots \cup Meetings) \X Techs
LogTable == [LogKeys -> {0, 1}]
Grows(l, k) == k \in LogTable /\ \A x \in LogKeys : l[x] = 1 => k[x] = 1

(* A completed duty has somebody who served it, and that is in the log.    *)
Logged(c, l) ==
  \A s \in Slots : c[s].status = "completed" => c[s].assigned \in Techs /\ l[<<s, c[s].assigned>>] = 1

DayOK ==
  /\ res \in [Meetings -> Open \cup {"none", "cancelled", "completed"}]
  /\ rel \in [Meetings -> SUBSET Techs]
  /\ exc \subseteq Techs \X (Types \cup {None})
  /\ dtr \subseteq Techs /\ busy \subseteq Techs /\ closed \in BOOLEAN /\ online \in BOOLEAN

SyncOK == sync # None => \E due \in SUBSET Techs : sync \in [due -> AttendanceRows]

(* A coverage about to be saved as active names its technician, and one    *)
(* about to be saved as completed is in the log.                           *)
ActivationOK(x) ==
  x \in [s : Slots, row : CoverageRows] /\ x.row.status = "active" /\ x.row.assigned \in Techs
FinalOK(x, l) ==
  x \in [s : Slots, row : CoverageRows] /\ x.row.assigned \in Techs /\ l[<<x.s, x.row.assigned>>] = 1

HandlersOK ==
  /\ SyncOK /\ overlap \in BOOLEAN
  /\ \A x \in act : ActivationOK(x)
  /\ fin # None => FinalOK(fin, log)

(* Nobody is on two duties at a time, nor will be when the activation      *)
(* under way is saved, if it is the only one.                              *)
Apart(c) ==
  \A s, x \in Slots : /\ s # x /\ c[s].status = "active" /\ c[x].status = "active" /\ periodsOverlap(s[2], x[2])
                      => c[s].assigned # c[x].assigned
StaysApart(c, x) ==
  \A s \in Slots : /\ s # x.s /\ c[s].status = "active" /\ periodsOverlap(s[2], x.s[2])
                   => c[s].assigned # x.row.assigned
OneAtATime ==
  ~overlap => /\ Apart(cov)
              /\ \A x \in act : StaysApart(cov, x)
              /\ \A x, y \in act : x = y

DutyInv ==
  /\ att \in AttendanceTable /\ cov \in CoverageTable /\ log \in LogTable
  /\ DayOK /\ HandlersOK /\ Logged(cov, log) /\ OneAtATime

(* What a step may do to attendance.                                       *)
FillsGaps == \A t \in Techs : (att'[t].status = "absent" /\ ~att'[t].manual /\ att'[t] # att[t]) => att[t] = NoRow

LEMMA KeepsFillsGaps == ASSUME KeepsAttendance(att, att') PROVE FillsGaps
BY DEF KeepsAttendance, FillsGaps

LEMMA KeepsOn ==
  ASSUME NEW a, NEW b, NEW c, KeepsAttendance(a, b), KeepsAttendance(b, c)
  PROVE  KeepsAttendance(a, c)
BY DEF KeepsAttendance

LEMMA OverlapIsMutual == ASSUME NEW p, NEW q PROVE periodsOverlap(p, q) <=> periodsOverlap(q, p)
BY DEF periodsOverlap

(* No duty begins.                                                         *)
NoneBegins(c, d) == \A s \in Slots : d[s].status = "active" => d[s] = c[s]

LEMMA KeepsBeginsNone ==
  ASSUME NEW c, NEW d, KeepsCoverage(c, d)
  PROVE  NoneBegins(c, d)
BY DEF KeepsCoverage, NoneBegins

LEMMA LoggedStays ==
  ASSUME NEW c, NEW d, NEW l, NEW k, KeepsCoverage(c, d), Grows(l, k), Logged(c, l)
  PROVE  Logged(d, k)
<1> SUFFICES ASSUME NEW s \in Slots, d[s].status = "completed"
             PROVE  d[s].assigned \in Techs /\ k[<<s, d[s].assigned>>] = 1
  BY DEF Logged
<1>1. d[s] = c[s]
  BY DEF KeepsCoverage
<1>2. c[s].assigned \in Techs /\ l[<<s, c[s].assigned>>] = 1
  BY <1>1 DEF Logged
<1>3. <<s, c[s].assigned>> \in LogKeys
  BY <1>2 DEF LogKeys
<1> QED
  BY <1>1, <1>2, <1>3 DEF Grows

LEMMA ApartStays ==
  ASSUME NEW c, NEW d, NoneBegins(c, d)
  PROVE  /\ Apart(c) => Apart(d)
         /\ \A x : StaysApart(c, x) => StaysApart(d, x)
<1>1. ASSUME Apart(c) PROVE Apart(d)
  BY <1>1 DEF Apart, NoneBegins
<1>2. ASSUME NEW x, StaysApart(c, x) PROVE StaysApart(d, x)
  BY <1>2 DEF StaysApart, NoneBegins
<1> QED
  BY <1>1, <1>2

(* The handlers that neither begin an activation nor save one.             *)
LEMMA StepKeeps ==
  ASSUME DutyInv, att' \in AttendanceTable, cov' \in CoverageTable, NoneBegins(cov, cov'),
         Grows(log, log'), Logged(cov', log'), DayOK', SyncOK', overlap' = overlap,
         act' = act \/ act' = {}, fin' = fin \/ fin' = None
  PROVE  DutyInv'
<1>1. log' \in LogTable
  BY DEF Grows
<1>2. OneAtATime'
  BY ApartStays DEF DutyInv, OneAtATime
<1>3. fin' # None => FinalOK(fin', log')
  <2> SUFFICES ASSUME fin' # None PROVE FinalOK(fin', log')
    OBVIOUS
  <2>1. fin' = fin /\ FinalOK(fin, log)
    BY DEF DutyInv, HandlersOK
  <2>2. <<fin.s, fin.row.assigned>> \in LogKeys
    BY <2>1 DEF FinalOK, LogKeys
  <2> QED
    BY <2>1, <2>2 DEF FinalOK, Grows
<1>4. HandlersOK'
  BY <1>3 DEF DutyInv, HandlersOK
<1> QED
  BY <1>1, <1>2, <1>4 DEF DutyInv

LEMMA LogStays == ASSUME DutyInv, UNCHANGED log PROVE Grows(log, log')
BY DEF DutyInv, Grows

LEMMA Recorded ==
  ASSUME NEW l \in LogTable, NEW k \in Slots \cup Meetings, NEW t \in Techs
  PROVE  Grows(l, Record(l, k, t)) /\ Record(l, k, t)[<<k, t>>] = 1
<1>1. <<k, t>> \in LogKeys /\ l[<<k, t>>] \in {0, 1} /\ t # None
  BY DutyConstants DEF LogKeys, LogTable
<1>2. CASE l[<<k, t>>] = 1
  BY <1>1, <1>2 DEF Record, Grows
<1>3. CASE l[<<k, t>>] = 0
  <2>1. Record(l, k, t) = [l EXCEPT ![<<k, t>>] = 1]
    BY <1>1, <1>3 DEF Record
  <2> QED
    BY <1>1, <2>1 DEF LogTable, Grows
<1> QED
  BY <1>1, <1>2, <1>3

LEMMA RunningStays ==
  ASSUME DutyInv, UNCHANGED running
  PROVE  SyncOK' /\ UNCHANGED <<sync, mark, act, overlap, fin>>
BY DEF DutyInv, HandlersOK, SyncOK, running

(* Handlers that write one table, or none.                                 *)
LEMMA OnlyAttendance ==
  ASSUME DutyInv, att' \in AttendanceTable, UNCHANGED <<cov, log, running>>, DayOK'
  PROVE  DutyInv'
<1>1. cov' \in CoverageTable /\ NoneBegins(cov, cov') /\ Logged(cov', log') /\ Grows(log, log')
  BY LogStays DEF DutyInv, NoneBegins
<1> QED
  BY <1>1, RunningStays, StepKeeps

LEMMA OnlyLog ==
  ASSUME DutyInv, Grows(log, log'), UNCHANGED <<att, cov, running>>, DayOK'
  PROVE  DutyInv'
<1>1. cov' \in CoverageTable /\ att' \in AttendanceTable /\ KeepsCoverage(cov, cov')
  BY DEF DutyInv, KeepsCoverage
<1>2. Logged(cov', log')
  BY <1>1, LoggedStays DEF DutyInv
<1> QED
  BY <1>1, <1>2, KeepsBeginsNone, RunningStays, StepKeeps

(* Handlers that reconcile: Apply.                                         *)
LEMMA Applied ==
  ASSUME DutyInv, NEW a, NEW c, NEW g, Follows(a, c, g), Apply(g)
  PROVE  /\ att' \in AttendanceTable /\ cov' \in CoverageTable
         /\ KeepsAttendance(a, att') /\ KeepsCoverage(c, cov')
BY StageParts DEF Apply, Follows

LEMMA Reconciled ==
  ASSUME DutyInv, NEW g, Follows(att, cov, g), Apply(g), Grows(log, log'), DayOK', UNCHANGED running
  PROVE  DutyInv' /\ FillsGaps
<1>1. /\ att' \in AttendanceTable /\ cov' \in CoverageTable
      /\ KeepsAttendance(att, att') /\ KeepsCoverage(cov, cov')
  BY Applied
<1>2. Logged(cov', log')
  BY <1>1, LoggedStays DEF DutyInv
<1> QED
  BY <1>1, <1>2, KeepsBeginsNone, KeepsFillsGaps, RunningStays, StepKeeps

-----------------------------------------------------------------------------
(* Attendance                                                              *)
LEMMA NothingFilled == ASSUME UNCHANGED att PROVE FillsGaps
BY DEF FillsGaps

LEMMA DayStays == ASSUME DutyInv, UNCHANGED <<dtr, res, rel, exc, busy, closed, online>> PROVE DayOK'
BY DEF DutyInv, DayOK

LEMMA setAttendanceFits ==
  ASSUME DutyInv, NEW t \in Techs, NEW status \in {"present", "absent", "out_of_office"},
         setAttendance(t, status)
  PROVE  DutyInv' /\ FillsGaps
<1>1. PICK note \in {None, att[t].note} : att' = [att EXCEPT ![t] = AttendanceRow(status, att[t].clock, TRUE, note)]
  BY DEF setAttendance, DutyInv, AttendanceTable
<1> DEFINE r == AttendanceRow(status, att[t].clock, TRUE, note)
<1>2. r \in AttendanceRows /\ r.manual
  <2>1. att[t].clock \in BOOLEAN /\ note \in Types \cup {None} /\ status \in Attendance
    BY DEF DutyInv, AttendanceTable, AttendanceRows, Attendance
  <2>2. r \in AttendanceRows
    BY <2>1, RowsAreTyped
  <2> QED
    BY <2>2 DEF AttendanceRow
<1>3. att' = [att EXCEPT ![t] = r]
  BY <1>1
<1> HIDE DEF r
<1>4. att' \in AttendanceTable
  BY <1>2, <1>3, AttendanceReplaced DEF DutyInv
<1>5. FillsGaps
  BY <1>2, <1>3 DEF FillsGaps, DutyInv, AttendanceTable
<1> QED
  BY <1>4, <1>5, OnlyAttendance, DayStays DEF setAttendance

LEMMA deleteAttendanceFits ==
  ASSUME DutyInv, NEW t \in Techs, deleteAttendance(t)
  PROVE  DutyInv' /\ FillsGaps
<1>1. att' = [att EXCEPT ![t] = NoRow] /\ NoRow \in AttendanceRows /\ NoRow.status = "none"
  BY RowsAreTyped DEF deleteAttendance, NoRow, AttendanceRow
<1>2. att' \in AttendanceTable
  BY <1>1, AttendanceReplaced DEF DutyInv
<1>3. FillsGaps
  BY <1>1 DEF FillsGaps, DutyInv, AttendanceTable
<1> QED
  BY <1>2, <1>3, OnlyAttendance, DayStays DEF deleteAttendance

LEMMA PresentRow ==
  ASSUME NEW manual \in BOOLEAN
  PROVE  LET r == AttendanceRow("present", TRUE, manual, None) IN r \in AttendanceRows /\ r.status = "present"
BY RowsAreTyped DEF Attendance, AttendanceRow

LEMMA restoreFromDtrFits ==
  ASSUME DutyInv, NEW t \in Techs, restoreAttendanceFromDtr(t)
  PROVE  DutyInv' /\ FillsGaps
<1> DEFINE r == AttendanceRow("present", TRUE, FALSE, None)
<1>1. r \in AttendanceRows /\ r.status = "present"
  BY PresentRow
<1>2. att' = [att EXCEPT ![t] = r]
  BY DEF restoreAttendanceFromDtr
<1> HIDE DEF r
<1>3. att' \in AttendanceTable /\ KeepsAttendance(att, att')
  BY <1>1, <1>2, AttendanceReplaced DEF DutyInv
<1> QED
  BY <1>3, KeepsFillsGaps, OnlyAttendance, DayStays DEF restoreAttendanceFromDtr

LEMMA ClockInFits ==
  ASSUME DutyInv, NEW t \in Techs, ClockIn(t) \/ TicketChanges(t)
  PROVE  DutyInv' /\ FillsGaps
<1>1. DayOK'
  BY DEF ClockIn, TicketChanges, DutyInv, DayOK
<1> QED
  BY <1>1, NothingFilled, OnlyAttendance DEF ClockIn, TicketChanges, DutyInv

LEMMA SyncSaveFits ==
  ASSUME DutyInv, NEW t \in Techs, SyncSave(t)
  PROVE  DutyInv' /\ FillsGaps
<1>1. PICK due \in SUBSET Techs : sync \in [due -> AttendanceRows]
  BY DEF SyncSave, DutyInv, HandlersOK, SyncOK
<1>2. t \in due /\ sync[t].manual \in BOOLEAN
  BY <1>1 DEF SyncSave, AttendanceRows
<1> DEFINE r == AttendanceRow("present", TRUE, sync[t].manual, None)
           clash == sync[t] = NoRow /\ att[t] # NoRow
           left == DOMAIN sync \ {t}
<1>3. r \in AttendanceRows /\ r.status = "present"
  BY <1>2, PresentRow
<1>4. att' = (IF clash THEN att ELSE [att EXCEPT ![t] = r])
  BY DEF SyncSave
<1>5. att' \in AttendanceTable /\ KeepsAttendance(att, att')
  <2> HIDE DEF r, clash
  <2>1. KeepsAttendance(att, att)
    BY DEF KeepsAttendance
  <2> QED
    BY <1>3, <1>4, <2>1, AttendanceReplaced DEF DutyInv
<1>6. SyncOK'
  <2>1. sync' = None \/ sync' = [x \in left |-> sync[x]]
    BY DEF SyncSave
  <2>2. [x \in left |-> sync[x]] \in [left -> AttendanceRows] /\ left \in SUBSET Techs
    BY <1>1
  <2> HIDE DEF left
  <2> QED
    BY <2>1, <2>2 DEF SyncOK
<1>7. DayOK'
  BY DEF SyncSave, DutyInv, DayOK
<1>8. UNCHANGED <<cov, log, act, overlap, fin>>
  BY DEF SyncSave
<1>9. cov' \in CoverageTable /\ NoneBegins(cov, cov') /\ Logged(cov', log') /\ Grows(log, log')
  BY <1>8, LogStays DEF DutyInv, NoneBegins
<1> QED
  BY <1>5, <1>6, <1>7, <1>8, <1>9, KeepsFillsGaps, StepKeeps

LEMMA SyncReadFits ==
  ASSUME DutyInv, SyncRead \/ SyncFails \/ MarkRead
  PROVE  DutyInv' /\ FillsGaps
<1>1. UNCHANGED <<att, cov, log, act, overlap, fin>>
  BY DEF SyncRead, SyncFails, MarkRead, running
<1>2. DayOK'
  BY DEF SyncRead, SyncFails, MarkRead, DutyInv, DayOK
<1>3. SyncOK'
  <2>1. CASE SyncRead
    <3> DEFINE due == {t \in dtr : ~att[t].manual /\ (att[t].status # "present" \/ ~att[t].clock)}
    <3>1. due \in SUBSET Techs
      BY DEF DutyInv, DayOK
    <3>2. [t \in due |-> att[t]] \in [due -> AttendanceRows]
      BY <3>1 DEF DutyInv, AttendanceTable
    <3>3. sync' = None \/ sync' = [t \in due |-> att[t]]
      BY <2>1 DEF SyncRead
    <3> HIDE DEF due
    <3> QED
      BY <3>1, <3>2, <3>3 DEF SyncOK
  <2>2. CASE SyncFails \/ MarkRead
    BY <2>2 DEF SyncFails, MarkRead, running, DutyInv, HandlersOK, SyncOK
  <2> QED
    BY <2>1, <2>2
<1>4. cov' \in CoverageTable /\ att' \in AttendanceTable /\ NoneBegins(cov, cov') /\ Logged(cov', log') /\ Grows(log, log')
  BY <1>1, LogStays DEF DutyInv, NoneBegins
<1> QED
  BY <1>1, <1>2, <1>3, <1>4, NothingFilled, StepKeeps

(* The absences of the end of the day go where nothing is.                 *)
LEMMA MarkSaveFits ==
  ASSUME DutyInv, MarkSave
  PROVE  DutyInv' /\ FillsGaps
<1> DEFINE r == AttendanceRow("absent", FALSE, FALSE, None)
<1>1. r \in AttendanceRows
  BY RowsAreTyped DEF Attendance
<1>2. att' = [t \in Techs |-> IF t \in mark /\ \A u \in mark : att[u] = NoRow THEN r ELSE att[t]]
  BY DEF MarkSave, InsertAbsences
<1> HIDE DEF r
<1>3. att' \in AttendanceTable
  BY <1>1, <1>2 DEF DutyInv, AttendanceTable
<1>4. FillsGaps
  BY <1>2 DEF FillsGaps
<1>5. UNCHANGED <<cov, log, sync, act, overlap, fin>> /\ DayOK' /\ SyncOK'
  BY DayStays DEF MarkSave, DutyInv, HandlersOK, SyncOK
<1>6. cov' \in CoverageTable /\ NoneBegins(cov, cov') /\ Logged(cov', log') /\ Grows(log, log')
  BY <1>5, LogStays DEF DutyInv, NoneBegins
<1> QED
  BY <1>3, <1>4, <1>5, <1>6, StepKeeps

-----------------------------------------------------------------------------
(* Meetings and exceptions                                                 *)
LEMMA ReconcileFits ==
  ASSUME DutyInv, Reconcile
  PROVE  DutyInv' /\ FillsGaps
<1> DEFINE g == reconcileToday(World, att, cov)
<1>1. Follows(att, cov, g)
  BY TodayFits DEF DutyInv
<1>2. att' = g.a /\ cov' = g.c
  BY DEF Reconcile
<1> HIDE DEF g
<1>3. Apply(g)
  BY <1>2 DEF Apply
<1> QED
  BY <1>1, <1>3, Reconciled, DayStays, LogStays DEF Reconcile

LEMMA ReservationFits ==
  ASSUME DutyInv, NEW m \in Meetings, NEW status \in Open, saveReservation(m, status)
  PROVE  DutyInv' /\ FillsGaps
<1> DEFINE g == reconcileToday([World EXCEPT !.res = res'], att, cov)
<1>1. Follows(att, cov, g)
  BY TodayFits DEF DutyInv
<1>2. Apply(g)
  BY DEF saveReservation
<1> HIDE DEF g
<1>3. DayOK'
  BY DEF saveReservation, DutyInv, DayOK
<1> QED
  BY <1>1, <1>2, <1>3, Reconciled, LogStays DEF saveReservation

LEMMA CancelFits ==
  ASSUME DutyInv, NEW m \in Meetings, CancelReservation(m) \/ deleteReservation(m)
  PROVE  DutyInv' /\ FillsGaps
<1>1. DayOK'
  BY DEF CancelReservation, deleteReservation, DutyInv, DayOK
<1> QED
  BY <1>1, NothingFilled, OnlyAttendance DEF CancelReservation, deleteReservation, DutyInv

LEMMA RelieversFit ==
  ASSUME DutyInv, NEW m \in Meetings, NEW chosen \in SUBSET Techs, replaceMeetingRelievers(m, chosen)
  PROVE  DutyInv' /\ FillsGaps
<1> DEFINE g == reconcileCoverage([World EXCEPT !.rel = rel'], att, cov, Venue[m], {})
<1>1. Follows(att, cov, g)
  BY CoverageFits DEF DutyInv
<1>2. Apply(g)
  BY DEF replaceMeetingRelievers
<1> HIDE DEF g
<1>3. DayOK'
  BY DEF replaceMeetingRelievers, DutyInv, DayOK
<1> QED
  BY <1>1, <1>2, <1>3, Reconciled, LogStays DEF replaceMeetingRelievers

LEMMA NoRelieversFit ==
  ASSUME DutyInv, NEW m \in Meetings, clearMeetingRelievers(m)
  PROVE  DutyInv' /\ FillsGaps
<1> DEFINE g == reconcileCoverage([World EXCEPT !.rel = rel'], att, cov, Venue[m], {})
<1>1. Follows(att, cov, g)
  BY CoverageFits DEF DutyInv
<1>2. Apply(g) \/ UNCHANGED <<att, cov>>
  BY DEF clearMeetingRelievers
<1> HIDE DEF g
<1>3. DayOK'
  BY DEF clearMeetingRelievers, DutyInv, DayOK
<1>4. UNCHANGED <<log, running>>
  BY DEF clearMeetingRelievers
<1>5. CASE Apply(g)
  BY <1>1, <1>3, <1>4, <1>5, Reconciled, LogStays
<1>6. CASE UNCHANGED <<att, cov>>
  BY <1>3, <1>4, <1>6, NothingFilled, OnlyAttendance DEF DutyInv
<1> QED
  BY <1>2, <1>5, <1>6

LEMMA ExceptionsFit ==
  ASSUME DutyInv, NEW e \in SUBSET (Techs \X (Types \cup {None})), ChangeExceptions(e)
  PROVE  DutyInv' /\ FillsGaps
<1> DEFINE g == reconcileToday([World EXCEPT !.exc = e], att, cov)
<1>1. Follows(att, cov, g)
  BY TodayFits DEF DutyInv
<1>2. Apply(g)
  BY DEF ChangeExceptions
<1> HIDE DEF g
<1>3. DayOK'
  BY DEF ChangeExceptions, DutyInv, DayOK
<1> QED
  BY <1>1, <1>2, <1>3, Reconciled, LogStays DEF ChangeExceptions

LEMMA ExceptionHandlersFit ==
  ASSUME DutyInv, NEW t \in Techs,
         \/ saveException(t, None)
         \/ \E s \in Slots : skipCoverage(s, t)
         \/ \E e \in exc : deleteException(e)
  PROVE  DutyInv' /\ FillsGaps
<1>1. exc \subseteq Techs \X (Types \cup {None})
  BY DEF DutyInv, DayOK
<1>2. CASE saveException(t, None)
  BY <1>1, <1>2, ExceptionsFit DEF saveException
<1>3. ASSUME NEW s \in Slots, skipCoverage(s, t) PROVE DutyInv' /\ FillsGaps
  <2>1. exc \cup {<<t, s[1]>>} \in SUBSET (Techs \X (Types \cup {None}))
    BY <1>1, SlotsTyped
  <2> QED
    BY <1>3, <2>1, ExceptionsFit DEF skipCoverage, saveException
<1>4. ASSUME NEW e \in exc, deleteException(e) PROVE DutyInv' /\ FillsGaps
  BY <1>1, <1>4, ExceptionsFit DEF deleteException
<1> QED
  BY <1>2, <1>3, <1>4

LEMMA CompleteReservationFits ==
  ASSUME DutyInv, NEW m \in Meetings, completeReservation(m)
  PROVE  DutyInv' /\ FillsGaps
<1> DEFINE g == reconcileCoverage([World EXCEPT !.res = res', !.log = log'], att, cov, Venue[m], {})
<1>1. Follows(att, cov, g)
  BY CoverageFits DEF DutyInv
<1>2. Apply(g)
  BY DEF completeReservation
<1> HIDE DEF g
<1>3. DayOK'
  BY DEF completeReservation, DutyInv, DayOK
<1>4. Grows(log, log')
  BY DEF completeReservation, DutyInv, LogTable, Grows
<1> QED
  BY <1>1, <1>2, <1>3, <1>4, Reconciled DEF completeReservation

-----------------------------------------------------------------------------
(* Activations, releases and the end of the day                            *)
LEMMA ActivationBegins ==
  ASSUME DutyInv, NEW s \in Slots, NEW t \in Techs, ActivateAttendance(s, t)
  PROVE  DutyInv' /\ FillsGaps
<1> DEFINE row == [cov[s] EXCEPT !.status = "active", !.assigned = t, !.over = TRUE,
                                 !.sub = (t # cov[s].primary), !.pnote = att[t].note]
           new == [s |-> s, row |-> row]
<1>1. cov[s] \in CoverageRows /\ att[t] \in AttendanceRows /\ att[t].note \in Types \cup {None}
  BY RowOf DEF DutyInv, AttendanceTable, AttendanceRows
<1>2. row \in CoverageRows /\ row.status = "active" /\ row.assigned = t
  BY <1>1 DEF CoverageRows, CoverageStatus
<1>3. act' = act \cup {new} /\ overlap' = (overlap \/ act # {})
  BY DEF ActivateAttendance, BeginActivation
<1>4. ActivationOK(new) /\ new.s = s /\ new.row = row
  <2> HIDE DEF row
  <2> QED
    BY <1>2 DEF ActivationOK
<1>5. StaysApart(cov, new)
  <2> SUFFICES ASSUME NEW x \in Slots, x # s, cov[x].status = "active", periodsOverlap(x[2], s[2])
               PROVE  cov[x].assigned # t
    BY <1>2, <1>4 DEF StaysApart
  <2>1. coverageCandidateUserId(cov[x]) # t
    BY DEF ActivateAttendance
  <2> QED
    BY <2>1 DEF coverageCandidateUserId
<1> HIDE DEF row, new
<1>6. att' \in AttendanceTable /\ KeepsAttendance(att, att')
  <2> DEFINE r == MarkedByHand(att[t], "out_of_office", s[1], TRUE)
  <2>1. r \in AttendanceRows /\ r.status = "out_of_office"
    <3>1. "out_of_office" \in Attendance /\ s[1] \in Types \cup {None}
      BY SlotsTyped DEF Attendance
    <3> QED
      BY <1>1, <3>1, RowChanged
  <2>2. att' = [att EXCEPT ![t] = r]
    BY DEF ActivateAttendance, BeginActivation, MarkedByHand, DutyInv, AttendanceTable, AttendanceRows
  <2> HIDE DEF r
  <2> QED
    BY <2>1, <2>2, AttendanceReplaced DEF DutyInv
<1>7. UNCHANGED <<dtr, cov, res, rel, exc, log, busy, closed, online, sync, fin>>
  BY DEF ActivateAttendance, BeginActivation
<1>8. OneAtATime'
  BY <1>3, <1>5, <1>7 DEF DutyInv, OneAtATime
<1>9. HandlersOK'
  BY <1>3, <1>4, <1>7 DEF DutyInv, HandlersOK, SyncOK
<1>10. cov' \in CoverageTable /\ log' \in LogTable /\ Logged(cov', log')
  BY <1>7 DEF DutyInv
<1> QED
  BY <1>6, <1>7, <1>8, <1>9, <1>10, DayStays, KeepsFillsGaps DEF DutyInv

LEMMA ActivationEnds ==
  ASSUME DutyInv, ActivateCoverage
  PROVE  DutyInv' /\ FillsGaps
<1>1. PICK x \in act : cov' = [cov EXCEPT ![x.s] = x.row] /\ act' = act \ {x}
  BY DEF ActivateCoverage
<1>2. UNCHANGED <<att, dtr, res, rel, exc, log, busy, closed, online, sync, overlap, fin>>
  BY DEF ActivateCoverage
<1>3. ActivationOK(x) /\ x.s \in Slots /\ x.row \in CoverageRows
  BY DEF DutyInv, HandlersOK, ActivationOK
<1>4. cov' \in CoverageTable
  BY <1>1, <1>3, CoverageReplaced, DutyConstants DEF DutyInv, ActivationOK
<1>5. \A s \in Slots : cov'[s] = IF s = x.s THEN x.row ELSE cov[s]
  BY <1>1, <1>3 DEF DutyInv, CoverageTable
<1>6. Logged(cov', log')
  BY <1>2, <1>3, <1>5 DEF DutyInv, Logged, ActivationOK
<1>7. HandlersOK'
  BY <1>1, <1>2 DEF DutyInv, HandlersOK, SyncOK
<1>8. OneAtATime'
  <2> SUFFICES ASSUME ~overlap
               PROVE  Apart(cov') /\ act' = {}
    BY <1>2 DEF OneAtATime
  <2>1. act' = {}
    BY <1>1 DEF DutyInv, OneAtATime
  <2>2. Apart(cov)  /\ StaysApart(cov, x)
    BY DEF DutyInv, OneAtATime
  <2>3. Apart(cov')
    <3> SUFFICES ASSUME NEW s \in Slots, NEW y \in Slots, s # y, cov'[s].status = "active",
                        cov'[y].status = "active", periodsOverlap(s[2], y[2])
                 PROVE  cov'[s].assigned # cov'[y].assigned
      BY DEF Apart
    <3>1. CASE s = x.s
      <4>1. periodsOverlap(y[2], x.s[2]) /\ cov'[y] = cov[y]
        BY <1>5, <3>1, OverlapIsMutual
      <4> QED
        BY <1>5, <2>2, <3>1, <4>1 DEF StaysApart
    <3>2. CASE y = x.s
      <4>1. cov'[s] = cov[s]
        BY <1>5, <3>2
      <4> QED
        BY <1>5, <2>2, <3>2, <4>1 DEF StaysApart
    <3>3. CASE s # x.s /\ y # x.s
      BY <1>5, <2>2, <3>3 DEF Apart
    <3> QED
      BY <3>1, <3>2, <3>3
  <2> QED
    BY <2>1, <2>3
<1>9. att' \in AttendanceTable /\ log' \in LogTable
  BY <1>2 DEF DutyInv
<1> QED
  BY <1>2, <1>4, <1>6, <1>7, <1>8, <1>9, DayStays, NothingFilled DEF DutyInv

LEMMA ReleaseMeetingFits ==
  ASSUME DutyInv, NEW s \in Slots, ReleaseMeeting(s)
  PROVE  DutyInv' /\ FillsGaps
<1> DEFINE a1 == restoreAttendance(att, cov[s])
           r == [cov[s] EXCEPT !.status = "completed"]
           c1 == [cov EXCEPT ![s] = r]
           t == cov[s].assigned
           g == reconcileCoverage([World EXCEPT !.res = res', !.log = log'], a1, c1, s[1], {})
<1>1. cov[s] \in CoverageRows /\ cov[s].status = "active" /\ t \in Techs
  BY RowOf DEF DutyInv, ReleaseMeeting
<1>2. r \in CoverageRows /\ r.status = "completed" /\ r.assigned = t
  BY <1>1 DEF CoverageRows, CoverageStatus
<1>3. a1 \in AttendanceTable /\ KeepsAttendance(att, a1)
  BY <1>1, RestoreFits DEF DutyInv
<1>4. c1 \in CoverageTable /\ \A x \in Slots : c1[x] = IF x = s THEN r ELSE cov[x]
  <2> HIDE DEF r
  <2>1. c1 \in CoverageTable
    BY <1>2, CoverageReplaced DEF DutyInv
  <2> QED
    BY <2>1 DEF DutyInv, CoverageTable
<1>5. log' = Record(log, s, t) /\ Grows(log, log') /\ log'[<<s, t>>] = 1
  BY <1>1, Recorded DEF ReleaseMeeting, DutyInv
<1>6. [cov EXCEPT ![s].status = "completed"] = c1
  BY DEF DutyInv, CoverageTable, CoverageRows
<1>7. Apply(g)
  BY <1>6 DEF ReleaseMeeting
<1> HIDE DEF c1
<1>8. Follows(a1, c1, g)
  BY <1>3, <1>4, CoverageFits
<1> HIDE DEF g, a1, r
<1>9. /\ att' \in AttendanceTable /\ cov' \in CoverageTable
      /\ KeepsAttendance(a1, att') /\ KeepsCoverage(c1, cov')
  BY <1>7, <1>8, Applied
<1>10. NoneBegins(cov, cov')
  BY <1>2, <1>4, <1>9 DEF KeepsCoverage, NoneBegins
<1>11. Logged(c1, log')
  <2> SUFFICES ASSUME NEW x \in Slots, c1[x].status = "completed"
               PROVE  c1[x].assigned \in Techs /\ log'[<<x, c1[x].assigned>>] = 1
    BY DEF Logged
  <2>1. CASE x = s
    BY <1>1, <1>2, <1>4, <1>5, <2>1
  <2>2. CASE x # s
    <3>1. c1[x] = cov[x]
      BY <1>4, <2>2
    <3>2. cov[x].assigned \in Techs /\ log[<<x, cov[x].assigned>>] = 1
      BY <3>1 DEF DutyInv, Logged
    <3>3. <<x, cov[x].assigned>> \in LogKeys
      BY <3>2 DEF LogKeys
    <3> QED
      BY <1>5, <3>1, <3>2, <3>3 DEF Grows
  <2> QED
    BY <2>1, <2>2
<1>12. Grows(log', log')
  BY <1>5 DEF Grows
<1>13. Logged(cov', log')
  BY <1>9, <1>11, <1>12, LoggedStays
<1>14. DayOK' /\ UNCHANGED running
  BY DEF ReleaseMeeting, DutyInv, DayOK, CompleteReservations
<1>15. KeepsAttendance(att, att')
  BY <1>3, <1>9, KeepsOn
<1> QED
  BY <1>5, <1>9, <1>10, <1>13, <1>14, <1>15, RunningStays, KeepsFillsGaps, StepKeeps

LEMMA ReleaseOfficerFits ==
  ASSUME DutyInv, ReleaseOfficer
  PROVE  DutyInv' /\ FillsGaps
<1> DEFINE t == cov[OD].assigned
           a1 == restoreAttendance(att, cov[OD])
           r == [cov[OD] EXCEPT !.status = "released"]
           c1 == [cov EXCEPT ![OD] = r]
           g == reconcileCoverage(World, a1, c1, "OD", {t})
           ok == g.done = "row" /\ g.c[OD].status = "intervention_required"
           q == IF g.a[t] = NoRow THEN g.a[t] ELSE AttendanceRow("out_of_office", g.a[t].clock, TRUE, "OD")
<1>1. cov[OD] \in CoverageRows /\ cov[OD].status = "active" /\ t \in Techs /\ OD \in Slots
  BY RowOf, SlotsTyped DEF DutyInv, ReleaseOfficer
<1>2. r \in CoverageRows /\ r.status = "released"
  BY <1>1 DEF CoverageRows, CoverageStatus
<1>3. a1 \in AttendanceTable /\ KeepsAttendance(att, a1)
  BY <1>1, RestoreFits DEF DutyInv
<1>4. c1 \in CoverageTable /\ KeepsCoverage(cov, c1)
  <2> HIDE DEF r
  <2> QED
    BY <1>1, <1>2, CoverageReplaced DEF DutyInv
<1>5. [cov EXCEPT ![OD].status = "released"] = c1
  BY DEF DutyInv, CoverageTable, CoverageRows
<1>6. /\ cov' = IF ok THEN g.c ELSE [g.c EXCEPT ![OD] = cov[OD]]
      /\ att' = IF ok THEN g.a ELSE [g.a EXCEPT ![t] = q]
      /\ log' = IF ok THEN Record(log, OD, t) ELSE log
  <2>1. [g.a EXCEPT ![t] = IF @ = NoRow THEN @ ELSE AttendanceRow("out_of_office", @.clock, TRUE, "OD")]
            = [g.a EXCEPT ![t] = q]
    OBVIOUS
  <2> QED
    BY <1>5, <2>1 DEF ReleaseOfficer
<1> HIDE DEF c1
<1>7. Follows(a1, c1, g)
  BY <1>3, <1>4, CoverageFits
<1> HIDE DEF g, a1, r
<1>8. /\ g.a \in AttendanceTable /\ g.c \in CoverageTable
      /\ KeepsAttendance(a1, g.a) /\ KeepsCoverage(c1, g.c)
  BY <1>7, StageParts DEF Follows
<1>9. KeepsAttendance(att, g.a)
  BY <1>3, <1>8, KeepsOn
<1>10. KeepsCoverage(cov, g.c)
  <2> SUFFICES ASSUME NEW s \in Slots, g.c[s].status \in {"active", "completed"}
               PROVE  g.c[s] = cov[s]
    BY DEF KeepsCoverage
  <2>1. g.c[s] = c1[s]
    BY <1>8 DEF KeepsCoverage
  <2> QED
    BY <1>4, <2>1 DEF KeepsCoverage
<1>11. att' \in AttendanceTable /\ KeepsAttendance(att, att')
  <2>1. CASE ok
    BY <1>6, <1>8, <1>9, <2>1
  <2>2. CASE ~ok
    <3>1. g.a[t] \in AttendanceRows
      BY <1>1, <1>8 DEF AttendanceTable
    <3>2. q \in AttendanceRows /\ (q = g.a[t] \/ q.status = "out_of_office")
      <4>1. g.a[t].clock \in BOOLEAN /\ "out_of_office" \in Attendance /\ "OD" \in Types
        BY <3>1, SlotsTyped DEF AttendanceRows, Attendance
      <4>2. AttendanceRow("out_of_office", g.a[t].clock, TRUE, "OD") \in AttendanceRows
        BY <4>1, RowsAreTyped
      <4> QED
        BY <3>1, <4>2 DEF AttendanceRow
    <3> HIDE DEF q
    <3>3. att' = [g.a EXCEPT ![t] = q]
      BY <1>6, <2>2
    <3>4. att' \in AttendanceTable
      BY <1>1, <1>8, <3>2, <3>3, AttendanceReplaced
    <3>5. KeepsAttendance(g.a, att')
      BY <1>1, <1>8, <3>2, <3>3 DEF KeepsAttendance, AttendanceTable
    <3> QED
      BY <1>9, <3>4, <3>5, KeepsOn
  <2> HIDE DEF q, ok
  <2> QED
    BY <2>1, <2>2
<1>12. cov' \in CoverageTable /\ NoneBegins(cov, cov')
  <2>1. CASE ok
    BY <1>6, <1>8, <1>10, <2>1, KeepsBeginsNone
  <2>2. CASE ~ok
    <3>1. cov' = [g.c EXCEPT ![OD] = cov[OD]]
      BY <1>6, <2>2
    <3>2. cov' \in CoverageTable
      BY <1>1, <1>8, <3>1, CoverageReplaced, DutyConstants
    <3>3. NoneBegins(cov, cov')
      BY <1>8, <1>10, <3>1 DEF NoneBegins, KeepsCoverage, CoverageTable
    <3> QED
      BY <3>2, <3>3
  <2> HIDE DEF ok
  <2> QED
    BY <2>1, <2>2
<1>13. Grows(log, log')
  <2>1. Grows(log, log)
    BY DEF DutyInv, Grows
  <2>2. Grows(log, Record(log, OD, t))
    BY <1>1, Recorded DEF DutyInv
  <2> HIDE DEF ok
  <2> QED
    BY <1>6, <2>1, <2>2
<1>14. Logged(cov', log')
  <2>1. KeepsCoverage(cov, cov')
    <3>1. CASE ok
      BY <1>6, <1>10, <3>1
    <3>2. CASE ~ok
      BY <1>6, <1>8, <1>10, <3>2 DEF KeepsCoverage, CoverageTable
    <3> HIDE DEF ok
    <3> QED
      BY <3>1, <3>2
  <2> QED
    BY <1>13, <2>1, LoggedStays DEF DutyInv
<1>15. DayOK' /\ UNCHANGED running
  BY DayStays DEF ReleaseOfficer
<1> QED
  BY <1>11, <1>12, <1>13, <1>14, <1>15, RunningStays, KeepsFillsGaps, StepKeeps

LEMMA FinalizeLogFits ==
  ASSUME DutyInv, NEW s \in Slots, FinalizeLog(s)
  PROVE  DutyInv' /\ FillsGaps
<1> DEFINE t == cov[s].assigned
<1>1. cov[s] \in CoverageRows /\ t \in Techs
  BY RowOf DEF DutyInv, FinalizeLog, CoverageRows
<1>2. log' = Record(log, s, t) /\ fin' = [s |-> s, row |-> cov[s]]
  BY DEF FinalizeLog
<1>3. Grows(log, log') /\ log'[<<s, t>>] = 1
  BY <1>1, <1>2, Recorded DEF DutyInv
<1>4. FinalOK(fin', log')
  BY <1>1, <1>2, <1>3 DEF FinalOK
<1>5. UNCHANGED <<att, dtr, cov, res, rel, exc, busy, closed, online, sync, mark, act, overlap>>
  BY DEF FinalizeLog
<1>6. Logged(cov', log')
  <2>1. KeepsCoverage(cov, cov')
    BY <1>5 DEF KeepsCoverage
  <2> QED
    BY <1>3, <2>1, LoggedStays DEF DutyInv
<1>7. HandlersOK'
  BY <1>4, <1>5 DEF DutyInv, HandlersOK, SyncOK
<1>8. OneAtATime' /\ att' \in AttendanceTable /\ cov' \in CoverageTable /\ log' \in LogTable
  BY <1>3, <1>5 DEF DutyInv, OneAtATime, Grows
<1> QED
  BY <1>5, <1>6, <1>7, <1>8, DayStays, NothingFilled DEF DutyInv

LEMMA FinalizeCoverageFits ==
  ASSUME DutyInv, FinalizeCoverage
  PROVE  DutyInv' /\ FillsGaps
<1> DEFINE s == fin.s
           r == [fin.row EXCEPT !.status = "completed"]
           t == fin.row.assigned
<1>1. FinalOK(fin, log) /\ s \in Slots /\ fin.row \in CoverageRows /\ t \in Techs /\ log[<<s, t>>] = 1
  BY DEF FinalizeCoverage, DutyInv, HandlersOK, FinalOK
<1>2. r \in CoverageRows /\ r.status = "completed" /\ r.assigned = t
  BY <1>1 DEF CoverageRows, CoverageStatus
<1>3. /\ cov' = [cov EXCEPT ![s] = r] /\ fin' = None /\ att' = restoreAttendance(att, fin.row)
      /\ UNCHANGED <<dtr, rel, exc, log, busy, closed, online, sync, mark, act, overlap>>
  BY DEF FinalizeCoverage
<1>4. att' \in AttendanceTable /\ KeepsAttendance(att, att')
  BY <1>1, <1>3, RestoreFits DEF DutyInv
<1> HIDE DEF r
<1>5. cov' \in CoverageTable
  BY <1>1, <1>2, <1>3, CoverageReplaced DEF DutyInv
<1>6. \A x \in Slots : cov'[x] = IF x = s THEN r ELSE cov[x]
  BY <1>1, <1>3 DEF DutyInv, CoverageTable
<1>7. NoneBegins(cov, cov')
  BY <1>2, <1>6 DEF NoneBegins
<1>8. Logged(cov', log')
  BY <1>1, <1>2, <1>3, <1>6 DEF DutyInv, Logged
<1>9. DayOK' /\ SyncOK'
  BY <1>3 DEF FinalizeCoverage, DutyInv, DayOK, CompleteReservations, HandlersOK, SyncOK
<1> QED
  BY <1>3, <1>4, <1>5, <1>7, <1>8, <1>9, LogStays, KeepsFillsGaps, StepKeeps

LEMMA FinalizeRestFits ==
  ASSUME DutyInv, FinalizeRelievers \/ \E s \in Slots : FinalizeUnmet(s)
  PROVE  DutyInv' /\ FillsGaps
<1>1. CASE FinalizeRelievers
  <2>1. \A x \in LogKeys : Grows(log, Record(log, x[1], x[2]))
    BY Recorded DEF DutyInv, LogKeys
  <2>2. Grows(log, log')
    <3>1. DOMAIN log = LogKeys
      BY DEF DutyInv, LogTable
    <3>2. /\ log' = [x \in LogKeys |-> log'[x]]
          /\ \A x \in LogKeys : log'[x] = log[x] \/ log'[x] = Record(log, x[1], x[2])[x]
      BY <1>1, <3>1 DEF FinalizeRelievers
    <3> QED
      BY <2>1, <3>2 DEF Grows, DutyInv, LogTable
  <2> QED
    BY <1>1, <2>2, DayStays, NothingFilled, OnlyLog DEF FinalizeRelievers
<1>2. ASSUME NEW s \in Slots, FinalizeUnmet(s)
      PROVE  DutyInv' /\ FillsGaps
  <2>1. cov[s] \in CoverageRows
    BY RowOf DEF DutyInv
  <2>2. att' \in AttendanceTable /\ KeepsAttendance(att, att')
    BY <1>2, <2>1, RestoreFits DEF DutyInv, FinalizeUnmet
  <2> QED
    BY <1>2, <2>2, DayStays, KeepsFillsGaps, OnlyAttendance DEF FinalizeUnmet
<1> QED
  BY <1>1, <1>2

LEMMA OthersFit ==
  ASSUME DutyInv, WorkdayEnds \/ Crash \/ UNCHANGED dutyVars
  PROVE  DutyInv' /\ FillsGaps
<1>1. UNCHANGED <<att, cov, log, overlap>> /\ act' \in {act, {}} /\ fin' \in {fin, None} /\ sync' \in {sync, None}
  BY DEF WorkdayEnds, Crash, dutyVars, running
<1>2. DayOK' /\ SyncOK'
  BY <1>1 DEF WorkdayEnds, Crash, dutyVars, DutyInv, DayOK, HandlersOK, SyncOK
<1>3. /\ cov' \in CoverageTable /\ att' \in AttendanceTable /\ NoneBegins(cov, cov')
      /\ Logged(cov', log') /\ Grows(log, log')
  BY <1>1, LogStays DEF DutyInv, NoneBegins
<1> QED
  BY <1>1, <1>2, <1>3, NothingFilled, StepKeeps

-----------------------------------------------------------------------------
(* The theorems                                                            *)
LEMMA DutyStep ==
  ASSUME DutyInv, [DutyNext]_dutyVars
  PROVE  DutyInv' /\ FillsGaps
<1>1. ASSUME NEW t \in Techs,
             \/ \E status \in {"present", "absent", "out_of_office"} : setAttendance(t, status)
             \/ deleteAttendance(t) \/ restoreAttendanceFromDtr(t) \/ ClockIn(t)
             \/ SyncSave(t) \/ TicketChanges(t) \/ saveException(t, None)
             \/ \E s \in Slots : skipCoverage(s, t) \/ ActivateAttendance(s, t)
      PROVE  DutyInv' /\ FillsGaps
  BY <1>1, setAttendanceFits, deleteAttendanceFits, restoreFromDtrFits, ClockInFits, SyncSaveFits,
     ExceptionHandlersFit, ActivationBegins
<1>2. ASSUME NEW e \in exc, deleteException(e)
      PROVE  DutyInv' /\ FillsGaps
  <2>1. PICK t \in Techs : TRUE
    BY DEF DutyInv, DayOK
  <2> QED
    BY <1>2, <2>1, ExceptionHandlersFit
<1>3. ASSUME NEW m \in Meetings,
             \/ \E status \in Open : saveReservation(m, status)
             \/ \E chosen \in (SUBSET Techs) \ {{}} : replaceMeetingRelievers(m, chosen)
             \/ CancelReservation(m) \/ deleteReservation(m)
             \/ clearMeetingRelievers(m) \/ completeReservation(m)
      PROVE  DutyInv' /\ FillsGaps
  BY <1>3, ReservationFits, RelieversFit, CancelFits, NoRelieversFit, CompleteReservationFits
<1>4. ASSUME NEW s \in Slots, releaseCoverage(s) \/ FinalizeLog(s) \/ FinalizeUnmet(s)
      PROVE  DutyInv' /\ FillsGaps
  BY <1>4, ReleaseMeetingFits, ReleaseOfficerFits, FinalizeLogFits, FinalizeRestFits DEF releaseCoverage
<1>5. CASE \/ SyncRead \/ SyncFails \/ MarkRead \/ MarkSave \/ Reconcile \/ ActivateCoverage
           \/ FinalizeRelievers \/ FinalizeCoverage \/ WorkdayEnds \/ Crash \/ UNCHANGED dutyVars
  BY <1>5, SyncReadFits, MarkSaveFits, ReconcileFits, ActivationEnds, FinalizeRestFits,
     FinalizeCoverageFits, OthersFit
<1> QED
  BY <1>1, <1>2, <1>3, <1>4, <1>5 DEF DutyNext

LEMMA DutyBegins == DutyInit => DutyInv
<1> SUFFICES ASSUME DutyInit PROVE DutyInv
  OBVIOUS
<1>1. att \in AttendanceTable
  BY RowsAreTyped DEF DutyInit, InitWith, AttendanceTable
<1>2. cov \in CoverageTable /\ \A s \in Slots : cov[s].status = "none"
  BY RowsAreTyped DEF DutyInit, InitWith, CoverageTable
<1>3. log \in LogTable
  BY DEF DutyInit, InitWith, LogTable, LogKeys
<1>4. DayOK
  BY DEF DutyInit, InitWith, DayOK
<1>5. HandlersOK
  BY DEF DutyInit, InitWith, HandlersOK, SyncOK
<1>6. Logged(cov, log) /\ OneAtATime
  BY <1>2 DEF DutyInit, InitWith, Logged, OneAtATime, Apart
<1> QED
  BY <1>1, <1>2, <1>3, <1>4, <1>5, <1>6 DEF DutyInv

(* Whoever is on duty is blocked, also when the attendance says present.   *)
LEMMA DutyBlocks ==
  ASSUME DutyInv
  PROVE  OnDutyOutOfPool
<1> SUFFICES ASSUME NEW s \in Slots, cov[s].status = "active",
                    s = OD \/ /\ \E m \in ReservationOf(s) : res[m] \in Open
                              /\ \A m \in Meetings : Venue[m] = s[1] /\ res[m] \in Open => rel[m] = {}
             PROVE  cov[s].assigned \in blockedTechnicianIds
  BY DEF OnDutyOutOfPool, getAutoAssignmentTechnicians
<1> DEFINE open == {m \in Meetings : res[m] \in Open}
           overridden == {Venue[m] : m \in {x \in open : rel[x] # {}}}
           blocking == {x \in Slots : /\ x[1] = "OD" \/ x[1] \in {Venue[m] : m \in open}
                                      /\ x[1] \notin overridden}
<1>1. s \in blocking
  <2>1. CASE s = OD
    <3>1. s[1] = "OD"
      BY <2>1 DEF OD
    <3>2. "OD" \notin overridden
      BY DutyConstants
    <3> QED
      BY <3>1, <3>2
  <2>2. CASE s # OD
    <3>1. PICK m \in Meetings : Slot(m) = s /\ res[m] \in Open
      BY <2>2 DEF ReservationOf
    <3>2. s[1] = Venue[m]
      BY <3>1 DEF Slot
    <3>3. s[1] \notin overridden
      BY <2>2
    <3> QED
      BY <3>1, <3>2, <3>3
  <2> QED
    BY <2>1, <2>2
<1>2. coverageCandidateUserId(cov[s]) = cov[s].assigned
  BY DEF coverageCandidateUserId
<1>3. {coverageCandidateUserId(cov[x]) : x \in blocking} \subseteq blockedTechnicianIds
  BY DEF blockedTechnicianIds
<1> HIDE DEF blocking
<1> QED
  BY <1>1, <1>2, <1>3

LEMMA DutyInvSays == DutyInv => DutiesAgree
<1> SUFFICES ASSUME DutyInv PROVE DutiesAgree
  OBVIOUS
<1>1. DutyTypeOK
  <2>1. att \in [Techs -> [status : Attendance, clock : BOOLEAN, manual : BOOLEAN, note : Types \cup {None}]]
    BY DEF DutyInv, AttendanceTable, AttendanceRows
  <2>2. \A s \in Slots : /\ cov[s].status \in CoverageStatus
                         /\ {cov[s].primary, cov[s].assigned} \subseteq Techs \cup {None}
                         /\ cov[s].status = "active" => cov[s].assigned # None
    BY DEF DutyInv, CoverageTable, CoverageRows
  <2> QED
    BY <2>1, <2>2 DEF DutyInv, DayOK, DutyTypeOK
<1>2. OneActiveDuty
  BY DEF DutyInv, OneAtATime, OneActiveDuty, Apart
<1>3. LoggedOnce
  BY DEF DutyInv, LogTable, LoggedOnce
<1>4. CompletedIsLogged
  BY DEF DutyInv, Logged, CompletedIsLogged
<1> QED
  BY <1>1, <1>2, <1>3, <1>4, DutyBlocks DEF DutiesAgree

(* For any technicians, meetings, duty types and numbers of changes and    *)
(* crashes: somebody has one duty at a time unless two activations         *)
(* overlapped, is logged once and before the duty counts as completed, and *)
(* is out of the pool (activateCoverage, reconcileCoverage,                *)
(* recordCompletedCoverage, finalizeToday, blockedTechnicianIds).          *)
THEOREM DutiesFit == DutySpec => []DutiesAgree
<1>1. DutyInit => DutyInv
  BY DutyBegins
<1>2. DutyInv /\ [DutyNext]_dutyVars => DutyInv'
  BY DutyStep
<1>3. DutyInv => DutiesAgree
  BY DutyInvSays
<1> QED
  BY <1>1, <1>2, <1>3, PTL DEF DutySpec

(* The end-of-day job writes absences only where there is no attendance    *)
(* row, and nothing else writes one by itself (markMissingAttendanceAsAbsent,*)
(* reconcileToday).                                                        *)
THEOREM AbsencesFillGaps == DutySpec => AbsenceOnlyFillsGap
<1>1. DutyInit => DutyInv
  BY DutyBegins
<1>2. DutyInv /\ [DutyNext]_dutyVars => DutyInv'
  BY DutyStep
<1>3. DutyInv /\ [DutyNext]_dutyVars =>
        [\A t \in Techs : (att'[t].status = "absent" /\ ~att'[t].manual /\ att'[t] # att[t])
                            => att[t] = NoRow]_dutyVars
  BY DutyStep DEF FillsGaps
<1> QED
  BY <1>1, <1>2, <1>3, PTL DEF DutySpec, AbsenceOnlyFillsGap
=============================================================================
